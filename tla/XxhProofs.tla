------------------------------ MODULE XxhProofs ------------------------------
(***************************************************************************)
(* Proofs about Xxh, of XXH32 and XXH64 alike: for every stripe, range of  *)
(* the 32-bit counter, message and way to cut it into updates.             *)
(***************************************************************************)
EXTENDS Xxh, Foundations, SequenceTheorems

CtxType(c) ==
    /\ c.total \in Nat /\ (~Wide => c.total < Word)
    /\ c.large \in BOOLEAN
    /\ c.v \in Seq(Byte)
    /\ c.mem \in [1 .. S -> Byte] /\ c.memsize \in 0 .. S - 1

\* The i-th byte of what the lanes have absorbed, followed by what waits in
\* the buffer, followed by the input.
At(c, input, i) ==
    LET seen == Len(c.v)
    IN  IF i <= seen THEN c.v[i]
        ELSE IF i <= seen + c.memsize THEN c.mem[i - seen]
        ELSE input[i - seen - c.memsize]

LEMMA Constants ==
    /\ S \in Nat \ {0} /\ Word \in Nat \ {0} /\ Word >= S + S
    /\ MaxFed \in Nat /\ MaxUpdate \in Nat /\ Wide \in BOOLEAN
<1>1. PICK k \in 1 .. Word : Word = k * S  BY StripeAssumption
<1>2. k > 1  BY <1>1, StripeAssumption
<1>3. k \in Int /\ S \in Nat \ {0}  BY <1>1, StripeAssumption
<1>4. k * S >= 1 * S + S  BY <1>2, <1>3, MultiplesApart
<1> QED  BY <1>1, <1>4, StripeAssumption

\* XXH_memcpy into the buffer writes the bytes from at+1 on and no other.
LEMMA CopyProperties ==
    ASSUME NEW mem \in [1 .. S -> Byte], NEW s \in Seq(Byte), NEW at \in Nat
    PROVE  /\ Copy(mem, at, s) \in [1 .. S -> Byte]
           /\ \A i \in 1 .. S : Copy(mem, at, s)[i] =
                 IF at < i /\ i <= at + Len(s) THEN s[i - at] ELSE mem[i]
<1>0. Len(s) \in Nat  OBVIOUS
<1>1. \A i \in 1 .. S : (at < i /\ i <= at + Len(s)) => i - at \in 1 .. Len(s)
  BY <1>0, Constants
<1>2. \A i \in 1 .. Len(s) : s[i] \in Byte  OBVIOUS
<1> QED  BY <1>1, <1>2, Constants DEF Copy

\* A part of a sequence of bytes, from its byte m + 1 on.
LEMMA Part ==
    ASSUME NEW s \in Seq(Byte), NEW m \in 0 .. Len(s), NEW n \in m .. Len(s)
    PROVE  /\ SubSeq(s, m + 1, n) \in Seq(Byte)
           /\ Len(SubSeq(s, m + 1, n)) = n - m
           /\ \A i \in 1 .. n - m : SubSeq(s, m + 1, n)[i] = s[m + i]
<1>1. \A i \in m + 1 .. n : s[i] \in Byte  OBVIOUS
<1>2. m \in Int /\ n \in Int /\ m + 1 \in Int /\ m <= n /\ m >= 0  OBVIOUS
<1>3. n - (m + 1) + 1 = n - m /\ \A i \in 1 .. n - m : (m + 1) + i - 1 = m + i
  BY <1>2
<1>4. /\ SubSeq(s, m + 1, n) \in Seq(Byte)
      /\ Len(SubSeq(s, m + 1, n)) = IF m + 1 <= n THEN n - (m + 1) + 1 ELSE 0
      /\ \A i \in 1 .. n - (m + 1) + 1 : SubSeq(s, m + 1, n)[i] = s[(m + 1) + i - 1]
  BY <1>1, <1>2, SubSeqProperties
<1> QED  BY <1>2, <1>3, <1>4

\* How the stripes cut an input that completes one: what completes the stripe
\* in the buffer, whole stripes, and less than a stripe.
LEMMA Cut ==
    ASSUME NEW left \in 0 .. S - 1, NEW len \in Nat, ~StaysBuffered(left, len)
    PROVE  LET head  == Fill(left)
               tail  == (len - head) % S
               whole == (len - head) - tail
           IN  /\ head \in 0 .. len /\ tail \in 0 .. S - 1 /\ whole \in 0 .. len - head
               /\ head + whole + tail = len
               /\ whole % S = 0
               /\ head > 0 => left + head = S
               /\ head = 0 => left = 0
<1> DEFINE head == Fill(left)
           x    == len - head
<1>1. /\ head \in 0 .. len /\ x \in Nat
      /\ head > 0 => left + head = S
      /\ head = 0 => left = 0
  BY Constants DEF StaysBuffered, Fill
<1> HIDE DEF x
<1>2. S \in Nat \ {0} /\ x \in Int  BY <1>1, Constants
<1>3. x % S \in 0 .. S - 1  BY <1>2, ModRange
<1>4. x - (x % S) \in 0 .. x /\ (x - (x % S)) % S = 0  BY <1>1, <1>2, ModFloor
<1> HIDE DEF head
<1>5. head + (x - (x % S)) + (x % S) = len  BY <1>1, <1>3, <1>4 DEF x
<1> QED  BY <1>1, <1>3, <1>4, <1>5 DEF x, head

-----------------------------------------------------------------------------
(* The update *)

LEMMA TotalType ==
    ASSUME NEW c, CtxType(c), NEW len \in Nat
    PROVE  AddTotal(c.total, len) \in Nat /\ (~Wide => AddTotal(c.total, len) < Word)
<1>1. c.total + len \in Int /\ Word \in Nat \ {0} /\ c.total + len \in Nat
  BY Constants DEF CtxType
<1>2. (c.total + len) % Word \in 0 .. Word - 1  BY <1>1, ModRange
<1>3. CASE Wide  BY <1>1, <1>3 DEF AddTotal
<1>4. CASE ~Wide  BY <1>1, <1>2, <1>4, Constants DEF AddTotal
<1> QED  BY <1>3, <1>4

\* The effect on the lanes and the buffer of c of an update with input.
Appends(c, input, u) ==
    /\ u.v \in Seq(Byte) /\ u.mem \in [1 .. S -> Byte] /\ u.memsize \in 0 .. S - 1
    /\ Len(u.v) + u.memsize = Len(c.v) + c.memsize + Len(input)
    /\ Len(c.v) % S = 0 => Len(u.v) % S = 0
    /\ \A i \in 1 .. Len(u.v) : u.v[i] = At(c, input, i)
    /\ \A i \in 1 .. u.memsize : u.mem[i] = At(c, input, Len(u.v) + i)

LEMMA Buffered ==
    ASSUME NEW c, CtxType(c), NEW input \in Seq(Byte),
           StaysBuffered(c.memsize, Len(input))
    PROVE  Appends(c, input, XXH32_update(c, input))
<1> DEFINE u    == XXH32_update(c, input)
           len  == Len(input)
           left == c.memsize
           seen == Len(c.v)
           m    == Copy(c.mem, left, input)
<1>1. /\ c.v \in Seq(Byte) /\ c.mem \in [1 .. S -> Byte]
      /\ left \in 0 .. S - 1 /\ left \in Nat /\ seen \in Nat /\ len \in Nat
      /\ left + len < S
  BY Constants DEF CtxType, StaysBuffered
<1>2. u.v = c.v /\ u.mem = m /\ u.memsize = left + len  BY DEF XXH32_update
<1> HIDE DEF left
<1>3. /\ m \in [1 .. S -> Byte]
      /\ \A i \in 1 .. S : m[i] =
            IF left < i /\ i <= left + len THEN input[i - left] ELSE c.mem[i]
  BY <1>1, CopyProperties
<1> HIDE DEF u, m, len, seen
<1>4. u.memsize \in 0 .. S - 1 /\ Len(u.v) + u.memsize = seen + left + len
  <2>1. Len(u.v) = seen  BY <1>2 DEF seen
  <2> QED  BY <2>1, <1>1, <1>2, Constants
<1>5. \A i \in 1 .. seen : c.v[i] = At(c, input, i)  BY <1>1 DEF At, seen
<1>6. ASSUME NEW i \in 1 .. left + len PROVE m[i] = At(c, input, seen + i)
  <2>1. /\ i \in 1 .. S /\ ~ (seen + i <= seen) /\ (seen + i <= seen + left <=> i <= left)
        /\ (seen + i) - seen = i /\ (seen + i) - seen - left = i - left
        /\ (left < i /\ i <= left + len <=> ~ (i <= left))
    BY <1>1, Constants
  <2> QED  BY <2>1, <1>3 DEF At, seen, left
<1> QED  BY <1>1, <1>2, <1>3, <1>4, <1>5, <1>6 DEF Appends, u, seen, left, len

LEMMA Striped ==
    ASSUME NEW c, CtxType(c), NEW input \in Seq(Byte),
           ~StaysBuffered(c.memsize, Len(input))
    PROVE  Appends(c, input, XXH32_update(c, input))
<1> DEFINE u     == XXH32_update(c, input)
           len   == Len(input)
           left  == c.memsize
           seen  == Len(c.v)
           head  == Fill(left)
           tail  == (len - head) % S
           whole == (len - head) - tail
           first == SubSeq(input, 1, head)
           full  == Copy(c.mem, left, first)
           mid   == SubSeq(input, head + 1, head + whole)
           last  == SubSeq(input, head + whole + 1, len)
           s1    == IF head > 0 THEN c.v \o full ELSE c.v
<1>b. S \in Nat \ {0}  BY Constants
<1>t. /\ c.v \in Seq(Byte) /\ c.mem \in [1 .. S -> Byte]
      /\ left \in 0 .. S - 1 /\ left \in Nat /\ seen \in Nat /\ len \in Nat
  BY Constants DEF CtxType
<1>1. /\ head \in 0 .. len /\ tail \in 0 .. S - 1 /\ whole \in 0 .. len - head
      /\ head + whole + tail = len
      /\ whole % S = 0
      /\ head > 0 => left + head = S
      /\ head = 0 => left = 0
  <2> HIDE DEF left, len
  <2> QED  BY <1>t, Cut DEF left, len
<1> HIDE DEF head, tail
<1>2. u.v = s1 \o mid /\ u.mem = Copy(full, 0, last) /\ u.memsize = Len(last)
  BY DEF XXH32_update, Left, head, tail
<1> HIDE DEF u, whole
<1>3. /\ first \in Seq(Byte) /\ Len(first) = head
      /\ \A i \in 1 .. head : first[i] = input[i]
  <2>1. /\ 0 \in 0 .. Len(input) /\ head \in 0 .. Len(input)
        /\ head - 0 = head /\ 0 + 1 = 1 /\ \A i \in 1 .. head : 0 + i = i
    BY <1>1, <1>t
  <2> QED  BY <2>1, Part
<1>4. /\ mid \in Seq(Byte) /\ Len(mid) = whole
      /\ \A i \in 1 .. whole : mid[i] = input[head + i]
  <2>1. /\ head \in 0 .. Len(input) /\ head + whole \in head .. Len(input)
        /\ (head + whole) - head = whole
    <3> HIDE DEF left
    <3> QED  BY <1>1, <1>t
  <2> QED  BY <2>1, Part
<1>5. /\ last \in Seq(Byte) /\ Len(last) = tail
      /\ \A i \in 1 .. tail : last[i] = input[head + whole + i]
  <2>1. /\ head + whole \in 0 .. Len(input) /\ len \in head + whole .. Len(input)
        /\ len - (head + whole) = tail
    BY <1>1, <1>t, SMTT(30)
  <2> QED  BY <2>1, Part
<1>6. /\ full \in [1 .. S -> Byte]
      /\ \A i \in 1 .. S : full[i] = IF left < i /\ i <= left + head
                                     THEN input[i - left] ELSE c.mem[i]
  <2> HIDE DEF first, left
  <2>1. /\ full \in [1 .. S -> Byte]
        /\ \A i \in 1 .. S : full[i] = IF left < i /\ i <= left + head
                                       THEN first[i - left] ELSE c.mem[i]
    BY <1>3, <1>t, CopyProperties
  <2> HIDE DEF full
  <2>2. \A i \in 1 .. S : left < i /\ i <= left + head => i - left \in 1 .. head
    BY <1>1, <1>t, <1>b
  <2> QED  BY <2>1, <2>2, <1>3
<1>7. /\ u.mem \in [1 .. S -> Byte]
      /\ \A i \in 1 .. tail : u.mem[i] = input[head + whole + i]
  <2> HIDE DEF full, last
  <2>1. /\ Copy(full, 0, last) \in [1 .. S -> Byte]
        /\ \A i \in 1 .. S : Copy(full, 0, last)[i] =
              IF 0 < i /\ i <= 0 + Len(last) THEN last[i - 0] ELSE full[i]
    <3>1. 0 \in Nat  OBVIOUS
    <3> QED  BY <3>1, <1>5, <1>6, CopyProperties
  <2>2. \A i \in 1 .. tail : i \in 1 .. S /\ 0 < i /\ i <= 0 + tail /\ i - 0 = i
    BY <1>1, <1>b
  <2> QED  BY <2>1, <2>2, <1>2, <1>5
<1>8. /\ s1 \in Seq(Byte)
      /\ Len(s1) = seen + (IF head > 0 THEN S ELSE 0)
      /\ \A i \in 1 .. Len(s1) : s1[i] = IF i <= seen THEN c.v[i] ELSE full[i - seen]
  <2>1. full \in Seq(Byte) /\ Len(full) = S  BY <1>6, <1>b
  <2> HIDE DEF full
  <2>2. CASE head > 0  BY <2>1, <2>2, <1>t, <1>b, ConcatProperties, ZenonT(60)
  <2>3. CASE ~ (head > 0)  BY <2>3, <1>t, <1>b
  <2> QED  BY <2>2, <2>3
<1> HIDE DEF s1, mid, last, full, left, len, seen
<1>9. /\ u.v \in Seq(Byte) /\ Len(u.v) = Len(s1) + whole
      /\ \A i \in 1 .. Len(s1) + whole : u.v[i] =
            IF i <= Len(s1) THEN s1[i] ELSE mid[i - Len(s1)]
  <2>1. s1 \in Seq(Byte) /\ mid \in Seq(Byte) /\ Len(mid) = whole  BY <1>4, <1>8
  <2>2. /\ s1 \o mid \in Seq(Byte) /\ Len(s1 \o mid) = Len(s1) + Len(mid)
        /\ \A i \in 1 .. Len(s1) + Len(mid) : (s1 \o mid)[i] =
              IF i <= Len(s1) THEN s1[i] ELSE mid[i - Len(s1)]
    BY <2>1, ConcatProperties
  <2> QED  BY <2>1, <2>2, <1>2
<1>10. u.memsize \in 0 .. S - 1 /\ Len(u.v) + u.memsize = seen + left + len
  <2>1. u.memsize = tail  BY <1>2, <1>5
  <2>2. Len(u.v) = seen + (IF head > 0 THEN S ELSE 0) + whole  BY <1>8, <1>9
  <2> QED  BY <2>1, <2>2, <1>1, <1>t, <1>b
<1>11. ASSUME seen % S = 0 PROVE Len(u.v) % S = 0
  <2>1. Len(u.v) = whole + (IF head > 0 THEN 1 * S ELSE 0) + seen
    BY <1>8, <1>9, <1>1, <1>t, <1>b
  <2> DEFINE y == whole + (IF head > 0 THEN 1 * S ELSE 0)
  <2>2. y \in Int /\ whole \in Int /\ seen \in Int  BY <1>1, <1>t, <1>b
  <2>m. 1 \in Int  OBVIOUS
  <2>3. y % S = 0
    <3>1. CASE head > 0
      <4>1. (whole + 1 * S) % S = whole % S  BY <2>2, <2>m, <1>b, ModAddMultiple
      <4> QED  BY <4>1, <3>1, <1>1
    <3>2. CASE ~ (head > 0)
      <4>1. y = whole  BY <3>2, <2>2
      <4> QED  BY <4>1, <1>1
    <3> QED  BY <3>1, <3>2
  <2> HIDE DEF y
  <2>4. (seen + y) % S = ((seen % S) + y) % S  BY <2>2, <1>b, ModSum
  <2>5. (seen % S) + y = y /\ Len(u.v) = seen + y
    BY <1>11, <2>1, <2>2 DEF y
  <2> QED  BY <2>3, <2>4, <2>5
<1>12. ASSUME NEW i \in 1 .. Len(u.v) PROVE u.v[i] = At(c, input, i)
  <2>1. CASE i <= seen
    <3>1. i \in 1 .. Len(s1) /\ i <= Len(s1) /\ i \in 1 .. Len(s1) + whole
      BY <2>1, <1>8, <1>9, <1>1, <1>t, <1>b
    <3>2. u.v[i] = c.v[i]  BY <2>1, <3>1, <1>8, <1>9
    <3> QED  BY <2>1, <3>2 DEF At, seen
  <2>2. CASE seen < i /\ i <= Len(s1)
    <3>1. /\ i \in 1 .. Len(s1) /\ i \in 1 .. Len(s1) + whole /\ ~ (i <= seen)
          /\ head > 0 /\ i - seen \in 1 .. S /\ left + head = S
      BY <2>2, <1>8, <1>9, <1>1, <1>t, <1>b
    <3>2. u.v[i] = full[i - seen]  BY <2>2, <3>1, <1>8, <1>9
    <3>3. /\ i <= seen + left <=> ~ (left < i - seen)
          /\ i - seen <= left + head
      BY <3>1, <1>t, <1>b, <1>1
    <3> QED  BY <3>1, <3>2, <3>3, <1>6 DEF At, left, seen
  <2>3. CASE Len(s1) < i
    <3>1. /\ i \in 1 .. Len(s1) + whole /\ ~ (i <= Len(s1)) /\ i - Len(s1) \in 1 .. whole
      BY <2>3, <1>8, <1>9, <1>1, <1>t, <1>b
    <3>2. u.v[i] = input[head + (i - Len(s1))]  BY <3>1, <1>4, <1>9
    <3>3. /\ ~ (i <= seen) /\ ~ (i <= seen + left)
          /\ head + (i - Len(s1)) = i - seen - left
      BY <3>1, <2>3, <1>8, <1>1, <1>t, <1>b
    <3> QED  BY <3>2, <3>3 DEF At, left, seen
  <2>4. i <= seen \/ (seen < i /\ i <= Len(s1)) \/ Len(s1) < i
    BY <1>8, <1>t, <1>b
  <2> QED  BY <2>1, <2>2, <2>3, <2>4
<1>13. ASSUME NEW i \in 1 .. u.memsize PROVE u.mem[i] = At(c, input, Len(u.v) + i)
  <2>1. i \in 1 .. tail  BY <1>2, <1>5
  <2>2. u.mem[i] = input[head + whole + i]  BY <2>1, <1>7
  <2> DEFINE j == Len(u.v) + i
  <2>3. /\ ~ (j <= seen) /\ ~ (j <= seen + left)
        /\ head + whole + i = j - seen - left
    BY <2>1, <1>8, <1>9, <1>1, <1>t, <1>b
  <2>4. u.mem[i] = input[j - seen - left]
    <3> HIDE DEF j
    <3> QED  BY <2>2, <2>3
  <2> HIDE DEF j
  <2>5. At(c, input, j) = input[j - seen - left]  BY <2>3 DEF At, left, seen
  <2> QED  BY <2>4, <2>5 DEF j
<1> QED  BY <1>7, <1>9, <1>10, <1>11, <1>12, <1>13 DEF Appends, u, seen, left, len

LEMMA UpdateEffect ==
    ASSUME NEW c, CtxType(c), NEW input \in Seq(Byte)
    PROVE  LET u == XXH32_update(c, input)
           IN  /\ CtxType(u)
               /\ u.total = AddTotal(c.total, Len(input))
               /\ u.large = SetLarge(c.large, Len(input), u.total)
               /\ Appends(c, input, u)
<1> DEFINE u == XXH32_update(c, input)
<1>1. Appends(c, input, u)  BY Buffered, Striped
<1>2. /\ u.total = AddTotal(c.total, Len(input))
      /\ u.large = SetLarge(c.large, Len(input), u.total)
  BY DEF XXH32_update
<1>3. u.total \in Nat /\ (~Wide => u.total < Word)
  <2>1. Len(input) \in Nat  OBVIOUS
  <2> HIDE DEF u
  <2> QED  BY <2>1, <1>2, TotalType
<1> HIDE DEF u
<1>4. u.large \in BOOLEAN  BY <1>2 DEF SetLarge, CtxType
<1>5. CtxType(u)  BY <1>1, <1>3, <1>4 DEF CtxType, Appends
<1> QED  BY <1>1, <1>2, <1>5 DEF u

-----------------------------------------------------------------------------
(* Types *)

LEMMA InputType ==
    ASSUME NEW n \in Nat, NEW k \in Nat, n + k <= MaxFed
    PROVE  /\ [i \in 1 .. k |-> Data[n + i]] \in Seq(Byte)
           /\ Len([i \in 1 .. k |-> Data[n + i]]) = k
<1>1. \A i \in 1 .. k : n + i \in 1 .. MaxFed  BY Constants
<1>2. \A i \in 1 .. k : Data[n + i] \in Byte  BY <1>1 DEF Byte
<1> QED  BY <1>2

LEMMA MessageType ==
    ASSUME NEW n \in 0 .. MaxFed
    PROVE  /\ Message(n) \in Seq(Byte) /\ Len(Message(n)) = n
           /\ \A i \in 1 .. n : Message(n)[i] = Data[i]
<1>1. n \in Nat /\ \A i \in 1 .. n : i \in 1 .. MaxFed  BY Constants
<1>2. \A i \in 1 .. n : Data[i] \in Byte  BY <1>1 DEF Byte
<1> QED  BY <1>1, <1>2 DEF Message

LEMMA ResetType == CtxType(Reset) /\ Reset.v = <<>> /\ Reset.memsize = 0
<1>1. Zero \in Byte  BY DEF Byte
<1>2. 0 \in 0 .. S - 1 /\ 0 < Word  BY Constants
<1> QED  BY <1>1, <1>2 DEF CtxType, Reset

LEMMA TypeIsCtxType == TypeOK <=> CtxType(ctx) /\ fed \in 0 .. MaxFed
BY DEF TypeOK, CtxType

\* What an update is given, and what UpdateEffect makes of it.
LEMMA UpdateStep ==
    ASSUME TypeOK, NEW k \in 0 .. MaxUpdate, Update(k)
    PROVE  \E input \in Seq(Byte) :
              /\ Len(input) = k /\ \A i \in 1 .. k : input[i] = Data[fed + i]
              /\ fed' = fed + k /\ fed \in Nat /\ fed' \in 0 .. MaxFed
              /\ CtxType(ctx')
              /\ ctx'.total = AddTotal(ctx.total, k)
              /\ ctx'.large = SetLarge(ctx.large, k, ctx'.total)
              /\ Appends(ctx, input, ctx')
<1> DEFINE input == [i \in 1 .. k |-> Data[fed + i]]
<1>1. fed \in Nat /\ k \in Nat /\ fed + k <= MaxFed /\ fed' = fed + k /\ CtxType(ctx)
  BY Constants, TypeIsCtxType DEF Update
<1>2. input \in Seq(Byte) /\ Len(input) = k  BY <1>1, InputType
<1>3. \A i \in 1 .. k : input[i] = Data[fed + i]  OBVIOUS
<1>4. ctx' = XXH32_update(ctx, input)  BY DEF Update
<1> HIDE DEF input
<1>5. /\ CtxType(ctx')
      /\ ctx'.total = AddTotal(ctx.total, Len(input))
      /\ ctx'.large = SetLarge(ctx.large, Len(input), ctx'.total)
      /\ Appends(ctx, input, ctx')
  BY <1>1, <1>2, <1>4, UpdateEffect
<1>6. fed' \in 0 .. MaxFed  BY <1>1, Constants
<1> QED  BY <1>1, <1>2, <1>3, <1>5, <1>6

\* The state stays within XXH32_state_t: the 32-bit counter in its range, and
\* the buffer short of a stripe between any two calls.
THEOREM TypeCorrect == Spec => []TypeOK
<1>1. Init => TypeOK
  <2>1. 0 \in 0 .. MaxFed  BY Constants
  <2> QED  BY <2>1, ResetType, TypeIsCtxType DEF Init
<1>2. TypeOK /\ [Next]_vars => TypeOK'
  <2> SUFFICES ASSUME TypeOK, [Next]_vars PROVE TypeOK'  OBVIOUS
  <2>t. TypeOK' <=> CtxType(ctx') /\ fed' \in 0 .. MaxFed  BY DEF TypeOK, CtxType
  <2>1. CASE Starts
    <3>1. 0 \in 0 .. MaxFed  BY Constants
    <3> QED  BY <3>1, <2>1, <2>t, ResetType DEF Starts
  <2>2. CASE Finish  BY <2>2, <2>t, TypeIsCtxType DEF Finish
  <2>3. ASSUME NEW k \in 0 .. MaxUpdate, Update(k) PROVE TypeOK'
    BY <2>3, <2>t, UpdateStep
  <2>4. CASE UNCHANGED vars  BY <2>4, <2>t, TypeIsCtxType DEF vars
  <2> QED  BY <2>1, <2>2, <2>3, <2>4 DEF Next
<1> QED  BY <1>1, <1>2, PTL DEF Spec

-----------------------------------------------------------------------------
(* No byte is lost *)

LEMMA LosslessStart == ctx = Reset /\ fed = 0 => Lossless
<1> SUFFICES ASSUME ctx = Reset, fed = 0 PROVE Lossless  OBVIOUS
<1>1. ctx.v = <<>> /\ ctx.memsize = 0 /\ Len(ctx.v) = 0  BY ResetType
<1>2. 0 % S = 0
  <2>1. 0 \in 0 .. S - 1 /\ S \in Nat \ {0}  BY Constants
  <2> QED  BY <2>1, ModSmall
<1> QED  BY <1>1, <1>2 DEF Lossless

LEMMA LosslessUpdate ==
    ASSUME TypeOK, Lossless, NEW k \in 0 .. MaxUpdate, Update(k)
    PROVE  Lossless'
<1>1. PICK input \in Seq(Byte) :
          /\ Len(input) = k /\ \A i \in 1 .. k : input[i] = Data[fed + i]
          /\ fed' = fed + k /\ fed \in Nat /\ fed' \in 0 .. MaxFed
          /\ CtxType(ctx')
          /\ Appends(ctx, input, ctx')
  BY UpdateStep
<1> DEFINE seen == Len(ctx.v)
           left == ctx.memsize
           now  == Len(ctx'.v)
           more == ctx'.memsize
<1>2. /\ seen \in Nat /\ left \in 0 .. S - 1 /\ now \in Nat /\ more \in 0 .. S - 1
      /\ k \in Nat /\ left \in Nat /\ more \in Nat
  BY <1>1, Constants, TypeIsCtxType DEF CtxType
<1>3. /\ seen + left = fed /\ seen % S = 0
      /\ \A i \in 1 .. seen : ctx.v[i] = Data[i]
      /\ \A i \in 1 .. left : ctx.mem[i] = Data[seen + i]
  BY DEF Lossless
<1>4. /\ now + more = seen + left + k /\ now % S = 0
      /\ \A i \in 1 .. now : ctx'.v[i] = At(ctx, input, i)
      /\ \A i \in 1 .. more : ctx'.mem[i] = At(ctx, input, now + i)
  BY <1>1, <1>3 DEF Appends
<1> HIDE DEF seen, left, now, more
<1>5. ASSUME NEW i \in 1 .. fed + k PROVE At(ctx, input, i) = Data[i]
  <2>1. CASE i <= seen
    <3>1. i \in 1 .. seen  BY <2>1, <1>2, <1>1
    <3>2. ctx.v[i] = Data[i]  BY <3>1, <1>3
    <3> QED  BY <2>1, <3>2 DEF At, seen
  <2>2. CASE ~ (i <= seen) /\ i <= seen + left
    <3>1. i - seen \in 1 .. left /\ seen + (i - seen) = i  BY <2>2, <1>2, <1>1
    <3>2. ctx.mem[i - seen] = Data[i]  BY <3>1, <1>3
    <3> QED  BY <2>2, <3>2 DEF At, seen, left
  <2>3. CASE ~ (i <= seen) /\ ~ (i <= seen + left)
    <3>1. i - seen - left \in 1 .. k /\ fed + (i - seen - left) = i
      BY <2>3, <1>1, <1>2, <1>3
    <3>2. input[i - seen - left] = Data[i]  BY <3>1, <1>1
    <3> QED  BY <2>3, <3>2 DEF At, seen, left
  <2> QED  BY <2>1, <2>2, <2>3
<1>6. now + more = fed'  BY <1>1, <1>2, <1>3, <1>4
<1>7. \A i \in 1 .. now : ctx'.v[i] = Data[i]
  <2>1. \A i \in 1 .. now : i \in 1 .. fed + k  BY <1>1, <1>2, <1>6
  <2> QED  BY <2>1, <1>4, <1>5
<1>8. \A i \in 1 .. more : ctx'.mem[i] = Data[now + i]
  <2>1. \A i \in 1 .. more : now + i \in 1 .. fed + k  BY <1>1, <1>2, <1>6
  <2> QED  BY <2>1, <1>4, <1>5
<1> QED  BY <1>4, <1>6, <1>7, <1>8 DEF Lossless, now, more

\* However the file is cut into updates, the lanes have absorbed its whole
\* stripes and the buffer holds the rest, in order.
THEOREM NoByteLost == Spec => []Lossless
<1>1. Init => Lossless  BY LosslessStart DEF Init
<1>2. TypeOK /\ Lossless /\ [Next]_vars => Lossless'
  <2> SUFFICES ASSUME TypeOK, Lossless, [Next]_vars PROVE Lossless'  OBVIOUS
  <2>1. CASE Starts
    <3>1. (ctx = Reset /\ fed = 0 => Lossless)'  BY LosslessStart, PTL
    <3>2. Reset' = Reset  BY DEF Reset
    <3> QED  BY <3>1, <3>2, <2>1 DEF Starts
  <2>2. CASE Finish  BY <2>2 DEF Finish, Lossless
  <2>3. ASSUME NEW k \in 0 .. MaxUpdate, Update(k) PROVE Lossless'
    BY <2>3, LosslessUpdate
  <2>4. CASE UNCHANGED vars  BY <2>4 DEF vars, Lossless
  <2> QED  BY <2>1, <2>2, <2>3, <2>4 DEF Next
<1> QED  BY <1>1, <1>2, TypeCorrect, PTL DEF Spec

-----------------------------------------------------------------------------
(* The length *)

\* total_len counts the bytes; the 32-bit counter up to a multiple of its range.
Counts == ctx.total = IF Wide THEN fed ELSE fed % Word

LEMMA CountsNext == TypeOK /\ Counts /\ [Next]_vars => Counts'
<1> SUFFICES ASSUME TypeOK, Counts, [Next]_vars PROVE Counts'  OBVIOUS
<1>1. CASE Starts
  <2>1. 0 % Word = 0
    <3>1. 0 \in 0 .. Word - 1  BY Constants
    <3> QED  BY <3>1, Constants, ModSmall
  <2> QED  BY <1>1, <2>1 DEF Starts, Reset, Counts
<1>2. CASE Finish  BY <1>2 DEF Finish, Counts
<1>3. ASSUME NEW k \in 0 .. MaxUpdate, Update(k) PROVE Counts'
  <2>1. /\ fed' = fed + k /\ fed \in Nat /\ ctx'.total = AddTotal(ctx.total, k)
        /\ fed \in Int /\ k \in Int /\ Word \in Nat \ {0}
    BY <1>3, UpdateStep, Constants
  <2>2. CASE Wide  BY <2>1, <2>2 DEF Counts, AddTotal
  <2>3. CASE ~Wide
    <3>1. (fed + k) % Word = ((fed % Word) + k) % Word  BY <2>1, ModSum
    <3> QED  BY <2>1, <2>3, <3>1 DEF Counts, AddTotal
  <2> QED  BY <2>2, <2>3
<1>4. CASE UNCHANGED vars  BY <1>4 DEF vars, Counts
<1> QED  BY <1>1, <1>2, <1>3, <1>4 DEF Next

LEMMA CountsAlways == Spec => []Counts
<1>1. Init => Counts
  <2>1. 0 \in 0 .. Word - 1 /\ Word \in Nat \ {0}  BY Constants
  <2>2. 0 % Word = 0  BY <2>1, ModSmall
  <2> QED  BY <2>2 DEF Init, Reset, Counts
<1> QED  BY <1>1, CountsNext, TypeCorrect, PTL DEF Spec

LEMMA LanesUpdate ==
    ASSUME TypeOK, Counts, LanesWhenLong, NEW k \in 0 .. MaxUpdate, Update(k), ~Wide
    PROVE  ctx'.large <=> fed' >= S
<1> DEFINE n == fed + k
<1>1. /\ fed' = n /\ fed \in Nat /\ k \in Nat /\ n \in Nat
      /\ ctx'.large = SetLarge(ctx.large, k, ctx'.total)
      /\ ctx'.total = AddTotal(ctx.total, k)
  BY UpdateStep, Constants
<1>2. ctx'.total = n % Word
  <2>1. fed \in Int /\ k \in Int /\ Word \in Nat \ {0}  BY <1>1, Constants
  <2>2. (fed + k) % Word = ((fed % Word) + k) % Word  BY <2>1, ModSum
  <2> QED  BY <1>1, <2>2 DEF Counts, AddTotal
<1>3. ctx.large <=> fed >= S  BY DEF LanesWhenLong, Large
<1>4. ctx'.large <=> fed >= S \/ k >= S \/ n % Word >= S
  BY <1>1, <1>2, <1>3 DEF SetLarge
<1>5. n % Word \in 0 .. Word - 1 /\ n % Word <= n
  <2>1. n \in Nat /\ n \in Int /\ Word \in Nat \ {0}  BY <1>1, Constants
  <2> HIDE DEF n
  <2>2. n % Word \in 0 .. Word - 1  BY <2>1, ModRange
  <2>3. n - (n % Word) \in 0 .. n  BY <2>1, ModFloor
  <2> QED  BY <2>1, <2>2, <2>3
<1>6. ASSUME fed < S, k < S PROVE n % Word = n
  <2>1. n \in 0 .. Word - 1 /\ Word \in Nat \ {0}  BY <1>6, <1>1, Constants
  <2> HIDE DEF n
  <2> QED  BY <2>1, ModSmall
<1>7. CASE fed < S /\ k < S  BY <1>7, <1>1, <1>4, <1>6, Constants
<1>8. CASE fed >= S \/ k >= S
  <2>1. n >= S  BY <1>8, <1>1, Constants
  <2> QED  BY <2>1, <1>8, <1>1, <1>4
<1> QED  BY <1>7, <1>8, <1>1, Constants

LEMMA LanesNext ==
    TypeOK /\ Counts /\ LanesWhenLong /\ Counts' /\ [Next]_vars => LanesWhenLong'
<1> SUFFICES ASSUME TypeOK, Counts, LanesWhenLong, Counts', [Next]_vars
             PROVE  LanesWhenLong'
  OBVIOUS
<1>1. CASE Wide  BY <1>1 DEF Counts, LanesWhenLong, Large
<1>2. CASE ~Wide
  <2> SUFFICES ctx'.large <=> fed' >= S  BY <1>2 DEF LanesWhenLong, Large
  <2>0. ctx.large <=> fed >= S  BY <1>2 DEF LanesWhenLong, Large
  <2>1. CASE Starts  BY <2>1, Constants DEF Starts, Reset
  <2>2. CASE Finish  BY <2>0, <2>2 DEF Finish
  <2>3. ASSUME NEW k \in 0 .. MaxUpdate, Update(k) PROVE ctx'.large <=> fed' >= S
    BY <1>2, <2>3, LanesUpdate
  <2>4. CASE UNCHANGED vars  BY <2>0, <2>4 DEF vars
  <2> QED  BY <2>1, <2>2, <2>3, <2>4 DEF Next
<1> QED  BY <1>1, <1>2

\* Whether the merged lanes or the seed start the digest depends on the length
\* alone: the flag of XXH32 remembers what its wrapping counter forgets.
THEOREM LanesByLength == Spec => []LanesWhenLong
<1>1. Init => LanesWhenLong
  BY Constants DEF Init, Reset, LanesWhenLong, Large
<1>2. Spec => []Counts  BY CountsAlways
<1>3. TypeOK /\ Counts /\ LanesWhenLong /\ Counts' /\ [Next]_vars => LanesWhenLong'
  BY LanesNext
<1> QED  BY <1>1, <1>2, <1>3, TypeCorrect, PTL DEF Spec

-----------------------------------------------------------------------------
(* The digest *)

\* What is in the state is what XXH32_endian_align computes.
LEMMA DigestOfMessage ==
    ASSUME TypeOK, Lossless, Counts, LanesWhenLong
    PROVE  XXH32_digest(ctx) = XXH32(Message(fed))
<1> DEFINE msg   == Message(fed)
           seen  == Len(ctx.v)
           left  == ctx.memsize
           front == SubSeq(msg, 1, seen)
           back  == SubSeq(msg, seen + 1, fed)
           held  == SubSeq(ctx.mem, 1, left)
<1>1. /\ fed \in 0 .. MaxFed /\ fed \in Nat /\ seen \in Nat /\ left \in 0 .. S - 1
      /\ left \in Nat /\ S \in Nat \ {0}
      /\ ctx.v \in Seq(Byte) /\ ctx.mem \in [1 .. S -> Byte]
  BY TypeIsCtxType, Constants DEF CtxType
<1>2. /\ seen + left = fed /\ seen % S = 0
      /\ \A i \in 1 .. seen : ctx.v[i] = Data[i]
      /\ \A i \in 1 .. left : ctx.mem[i] = Data[seen + i]
  BY DEF Lossless
<1>3. msg \in Seq(Byte) /\ Len(msg) = fed /\ \A i \in 1 .. fed : msg[i] = Data[i]
  BY <1>1, MessageType
<1>m. ctx.mem \in Seq(Byte) /\ Len(ctx.mem) = S  BY <1>1
<1> HIDE DEF msg, seen, left
<1>4. fed % S = left /\ fed - (fed % S) = seen
  <2>1. /\ seen \in Int /\ left \in Int /\ fed \in Int /\ left = 0 * S + left
        /\ fed = left + seen /\ 0 \in Int
    BY <1>1, <1>2
  <2>2. left % S = left  BY <1>1, ModSmall
  <2>3. (seen + left) % S = ((seen % S) + left) % S  BY <2>1, <1>1, ModSum
  <2>4. (seen % S) + left = left  BY <1>2, <2>1
  <2>5. fed % S = left  BY <2>2, <2>3, <2>4, <1>2
  <2> QED  BY <2>5, <1>1, <1>2
<1>5. ctx.v = front
  <2>1. /\ 0 \in 0 .. Len(msg) /\ seen \in 0 .. Len(msg) /\ 0 + 1 = 1
        /\ seen - 0 = seen /\ \A i \in 1 .. seen : 0 + i = i /\ i \in 1 .. fed
    BY <1>1, <1>2, <1>3
  <2>2. /\ front \in Seq(Byte) /\ Len(front) = seen
        /\ \A i \in 1 .. seen : front[i] = msg[i]
    BY <1>3, <2>1, Part
  <2> HIDE DEF front
  <2>3. \A i \in 1 .. seen : ctx.v[i] = front[i]  BY <1>2, <1>3, <2>1, <2>2
  <2> QED  BY <1>1, <2>2, <2>3, SeqEqual DEF seen
<1>6. held = back
  <2>1. /\ 0 \in 0 .. Len(ctx.mem) /\ left \in 0 .. Len(ctx.mem) /\ 0 + 1 = 1
        /\ left - 0 = left /\ \A i \in 1 .. left : 0 + i = i
    BY <1>1, <1>m
  <2>2. /\ held \in Seq(Byte) /\ Len(held) = left
        /\ \A i \in 1 .. left : held[i] = ctx.mem[i]
    BY <1>m, <2>1, Part
  <2>3. /\ seen \in 0 .. Len(msg) /\ fed \in seen .. Len(msg) /\ fed - seen = left
        /\ \A i \in 1 .. left : seen + i \in 1 .. fed
    BY <1>1, <1>2, <1>3
  <2>4. /\ back \in Seq(Byte) /\ Len(back) = left
        /\ \A i \in 1 .. left : back[i] = msg[seen + i]
    BY <1>3, <2>3, Part
  <2> HIDE DEF held, back
  <2>5. \A i \in 1 .. left : held[i] = back[i]  BY <1>2, <1>3, <2>2, <2>3, <2>4
  <2> QED  BY <2>2, <2>4, <2>5, SeqEqual
<1>7. Large(ctx) = (fed >= S)
  <2>1. CASE Wide  BY <2>1 DEF Counts, Large
  <2>2. CASE ~Wide
    <3>1. ctx.large \in BOOLEAN  BY TypeIsCtxType DEF CtxType
    <3>2. ctx.large <=> fed >= S  BY <2>2 DEF LanesWhenLong, Large
    <3> QED  BY <2>2, <3>1, <3>2 DEF Large
  <2> QED  BY <2>1, <2>2
<1>8. TailLength(ctx) = left  BY <1>4 DEF TailLength, Counts, left
<1> HIDE DEF front, back, held
<1>9. XXH32_digest(ctx) = << <<fed >= S, front>>, ctx.total, held >>
  BY <1>5, <1>7, <1>8 DEF XXH32_digest, held
<1>10. XXH32(msg) = << <<fed >= S, front>>, IF Wide THEN fed ELSE fed % Word, back >>
  BY <1>3, <1>4 DEF XXH32, front, back
<1> QED  BY <1>6, <1>9, <1>10 DEF Counts, msg

LEMMA DigestNext ==
    TypeOK /\ Lossless /\ Counts /\ LanesWhenLong /\ FileIsMemory /\ [Next]_vars
        => FileIsMemory'
<1> SUFFICES ASSUME TypeOK, Lossless, Counts, LanesWhenLong, FileIsMemory, [Next]_vars
             PROVE  FileIsMemory'
  OBVIOUS
<1>1. CASE Starts  BY <1>1 DEF Starts, FileIsMemory
<1>2. CASE Finish
  <2>1. digest' = XXH32(Message(fed)) /\ fed' = fed
    BY <1>2, DigestOfMessage DEF Finish
  <2> QED  BY <2>1 DEF FileIsMemory
<1>3. ASSUME NEW k \in 0 .. MaxUpdate, Update(k) PROVE FileIsMemory'
  BY <1>3 DEF Update, FileIsMemory
<1>4. CASE UNCHANGED vars  BY <1>4 DEF vars, FileIsMemory
<1> QED  BY <1>1, <1>2, <1>3, <1>4 DEF Next

\* The two implementations agree: the digest of a file, in whatever pieces it
\* is read, is the digest of the same bytes in memory.
THEOREM FileEqualsMemory == Spec => []FileIsMemory
<1>1. Init => FileIsMemory  BY DEF Init, FileIsMemory
<1>2. TypeOK /\ Lossless /\ Counts /\ LanesWhenLong /\ FileIsMemory /\ [Next]_vars
          => FileIsMemory'
  BY DigestNext
<1>3. Spec => []Counts  BY CountsAlways
<1> QED  BY <1>1, <1>2, <1>3, TypeCorrect, NoByteLost, LanesByLength, PTL DEF Spec

-----------------------------------------------------------------------------
(* Refinement *)

\* Between two calls the lanes and the buffer together are the message.
LEMMA AbsorbedIsMessage == TypeOK /\ Lossless => Absorbed = Message(fed)
<1> SUFFICES ASSUME TypeOK, Lossless PROVE Absorbed = Message(fed)  OBVIOUS
<1>1. CASE digest # NoDigest  BY <1>1 DEF Absorbed
<1>2. CASE digest = NoDigest
  <2> DEFINE msg  == Message(fed)
             seen == Len(ctx.v)
             left == ctx.memsize
             held == SubSeq(ctx.mem, 1, left)
             all  == ctx.v \o held
  <2>1. /\ fed \in 0 .. MaxFed /\ fed \in Nat /\ seen \in Nat /\ left \in 0 .. S - 1
        /\ left \in Nat /\ S \in Nat \ {0}
        /\ ctx.v \in Seq(Byte) /\ ctx.mem \in [1 .. S -> Byte]
    BY TypeIsCtxType, Constants DEF CtxType
  <2>2. /\ seen + left = fed
        /\ \A i \in 1 .. seen : ctx.v[i] = Data[i]
        /\ \A i \in 1 .. left : ctx.mem[i] = Data[seen + i]
    BY DEF Lossless
  <2>3. msg \in Seq(Byte) /\ Len(msg) = fed /\ \A i \in 1 .. fed : msg[i] = Data[i]
    BY <2>1, MessageType
  <2>4. ctx.mem \in Seq(Byte) /\ Len(ctx.mem) = S  BY <2>1
  <2>5. /\ held \in Seq(Byte) /\ Len(held) = left
        /\ \A i \in 1 .. left : held[i] = ctx.mem[i]
    <3> HIDE DEF left
    <3>1. /\ 0 \in 0 .. Len(ctx.mem) /\ left \in 0 .. Len(ctx.mem) /\ 0 + 1 = 1
          /\ left - 0 = left /\ \A i \in 1 .. left : 0 + i = i
      BY <2>1, <2>4
    <3> QED  BY <2>4, <3>1, Part
  <2> HIDE DEF msg, held, left
  <2>6. /\ all \in Seq(Byte) /\ Len(all) = seen + left
        /\ \A i \in 1 .. seen + left : all[i] =
              IF i <= seen THEN ctx.v[i] ELSE held[i - seen]
    <3>1. /\ all \in Seq(Byte) /\ Len(all) = Len(ctx.v) + Len(held)
          /\ \A i \in 1 .. Len(ctx.v) + Len(held) : all[i] =
                IF i <= Len(ctx.v) THEN ctx.v[i] ELSE held[i - Len(ctx.v)]
      BY <2>1, <2>5, ConcatProperties, ZenonT(60)
    <3> QED  BY <3>1, <2>5
  <2> HIDE DEF all, seen
  <2>7. ASSUME NEW i \in 1 .. fed PROVE all[i] = Data[i]
    <3>1. CASE i <= seen
      <4>1. i \in 1 .. seen /\ i \in 1 .. seen + left  BY <3>1, <2>1, <2>2
      <4> QED  BY <4>1, <3>1, <2>2, <2>6
    <3>2. CASE ~ (i <= seen)
      <4>1. i - seen \in 1 .. left /\ seen + (i - seen) = i /\ i \in 1 .. seen + left
        BY <3>2, <2>1, <2>2
      <4>2. all[i] = ctx.mem[i - seen]  BY <4>1, <3>2, <2>5, <2>6
      <4>3. ctx.mem[i - seen] = Data[seen + (i - seen)]  BY <4>1, <2>2
      <4> QED  BY <4>1, <4>2, <4>3
    <3> QED  BY <3>1, <3>2
  <2>8. all = msg  BY <2>2, <2>3, <2>6, <2>7, SeqEqual
  <2> QED  BY <1>2, <2>8 DEF Absorbed, all, held, left, msg
<1> QED  BY <1>1, <1>2

\* A longer message begins with the shorter one.
LEMMA Prefix ==
    ASSUME NEW m \in 0 .. MaxFed, NEW n \in m .. MaxFed
    PROVE  SubSeq(Message(n), 1, m) = Message(m)
<1> DEFINE s == Message(n)
           r == Message(m)
           p == SubSeq(s, 1, m)
<1>1. /\ m \in 0 .. MaxFed /\ n \in 0 .. MaxFed /\ m \in 0 .. n
      /\ 0 \in 0 .. n /\ 0 + 1 = 1 /\ m - 0 = m
      /\ \A i \in 1 .. m : 0 + i = i /\ i \in 1 .. n
  BY Constants
<1>2. s \in Seq(Byte) /\ Len(s) = n /\ \A i \in 1 .. n : s[i] = Data[i]
  BY <1>1, MessageType
<1>3. r \in Seq(Byte) /\ Len(r) = m /\ \A i \in 1 .. m : r[i] = Data[i]
  BY <1>1, MessageType
<1> HIDE DEF s, r
<1>4. p \in Seq(Byte) /\ Len(p) = m /\ \A i \in 1 .. m : p[i] = s[i]
  BY <1>1, <1>2, Part
<1> HIDE DEF p
<1>5. \A i \in 1 .. m : p[i] = r[i]  BY <1>1, <1>2, <1>3, <1>4
<1>6. p = r  BY <1>3, <1>4, <1>5, SeqEqual
<1> QED  BY <1>6 DEF p, r, s

LEMMA RefineStep ==
    ASSUME TypeOK, Lossless, TypeOK', Lossless', FileIsMemory', [Next]_vars
    PROVE  [MD!Next]_(MD!vars)
<1>1. Absorbed = Message(fed) /\ Absorbed' = Message(fed')
  <2>1. Absorbed = Message(fed)  BY AbsorbedIsMessage
  <2>2. (TypeOK /\ Lossless => Absorbed = Message(fed))'  BY AbsorbedIsMessage, PTL
  <2>3. Message(fed)' = Message(fed')  BY DEF Message
  <2> QED  BY <2>1, <2>2, <2>3
<1>t. fed \in 0 .. MaxFed /\ fed' \in 0 .. MaxFed  BY DEF TypeOK
<1>2. CASE Starts
  <2>1. fed' = 0 /\ digest' = NoDigest  BY <1>2 DEF Starts
  <2>2. Message(0) = <<>>  BY DEF Message
  <2> QED  BY <1>1, <2>1, <2>2 DEF MD!Next, MD!Restart
<1>3. CASE Finish
  <2>1. digest = NoDigest /\ fed' = fed  BY <1>3 DEF Finish
  <2>2. digest' # NoDigest  BY <1>3 DEF Finish, XXH32_digest, NoDigest
  <2>3. digest' = XXH32(Message(fed'))  BY <2>2 DEF FileIsMemory
  <2> QED  BY <1>1, <2>1, <2>3 DEF MD!Next, MD!Finish
<1>4. ASSUME NEW k \in 0 .. MaxUpdate, Update(k) PROVE MD!Absorb
  <2>1. fed' = fed + k /\ digest = NoDigest /\ digest' = NoDigest  BY <1>4 DEF Update
  <2>2. fed \in 0 .. MaxFed /\ fed' \in fed .. MaxFed /\ fed <= fed'
    BY <2>1, <1>t, Constants
  <2>3. Len(Message(fed)) = fed /\ Len(Message(fed')) = fed'  BY <1>t, MessageType
  <2>4. SubSeq(Message(fed'), 1, fed) = Message(fed)  BY <2>2, Prefix
  <2> QED  BY <1>1, <2>1, <2>2, <2>3, <2>4 DEF MD!Absorb
<1>5. CASE UNCHANGED vars
  <2>1. Absorbed' = Absorbed /\ digest' = digest  BY <1>1, <1>5 DEF vars
  <2> QED  BY <2>1 DEF MD!vars
<1> QED  BY <1>2, <1>3, <1>4, <1>5 DEF Next, MD!Next

\* xxhash.h implements MessageDigest, and the sum it promises is the one its
\* other implementation computes of the whole message.
THEOREM Implements == Spec => ImplementsMessageDigest
<1>1. Init => MD!Init
  <2> SUFFICES ASSUME Init PROVE MD!Init  OBVIOUS
  <2>1. digest = NoDigest /\ ctx.v = <<>> /\ ctx.memsize = 0  BY ResetType DEF Init
  <2>2. SubSeq(ctx.mem, 1, 0) = <<>>  OBVIOUS
  <2> QED  BY <2>1, <2>2 DEF MD!Init, Absorbed
<1>2. /\ TypeOK /\ Lossless /\ TypeOK' /\ Lossless' /\ FileIsMemory' /\ [Next]_vars
      => [MD!Next]_(MD!vars)
  BY RefineStep
<1> QED  BY <1>1, <1>2, TypeCorrect, NoByteLost, FileEqualsMemory, PTL
         DEF Spec, ImplementsMessageDigest, MD!Spec
=============================================================================
