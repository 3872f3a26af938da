-------------------------- MODULE RFunctionsProofs --------------------------
(***************************************************************************)
(* Proofs about the R code of RFunctions, for all values of its constants: *)
(* hmac() returns the code of RFC 2104; a vectorised call hashes what      *)
(* digest() hashes, element by element, for the arguments of Vectorised;   *)
(* and in every AES mode subsets give the standard's ciphertext of the     *)
(* whole, decrypt undoes encrypt and the counters do not repeat.           *)
(***************************************************************************)
EXTENDS RFunctions, Foundations, SequenceTheorems

-----------------------------------------------------------------------------
(* hmac() *)

\* The cases of crc32 that are excepted, see HmacIsRFC2104.
Excepted ==
    /\ arg.algo = "crc32"
    /\ (arg.old /\ zeros > 0) \/ arg.key > BlockSize["crc32"]

\* What the calls of digest() hash.
Content(m) == IF arg.serialize THEN H!Serialize(m) ELSE m
Mac(m) == H!Hash(arg.algo, Content(m))

\* The key of RFC 2104, and the inner hash.
PaddedKey ==
    LET k == IF arg.key > BlockSize[arg.algo] THEN H!Hash(arg.algo, H!Key) ELSE H!Key
    IN  [i \in 1 .. BlockSize[arg.algo] |-> IF i <= Len(k) THEN k[i] ELSE H!ZeroByte]
InnerHash == Mac(H!Xor(PaddedKey, H!ipad) \o arg.object)

HmacInv ==
    /\ arg \in H!Args /\ zeros \in H!Zeros(arg.algo)
    /\ ~Excepted =>
        /\ key # H!None => key = PaddedKey
        /\ raw_digest # H!None => raw_digest = InnerHash /\ key # H!None
    /\ H!HmacIsRFC2104

LEMMA HmacArguments ==
    ASSUME H!ConstantsFit, arg \in H!Args, zeros \in H!Zeros(arg.algo)
    PROVE  /\ arg.algo \in H!Algos /\ arg.key \in Nat
           /\ BlockSize[arg.algo] \in Nat /\ DigestSize[arg.algo] \in Nat \ {0}
           /\ DigestSize[arg.algo] <= BlockSize[arg.algo]
           /\ zeros \in Nat
<1>1. arg.algo \in H!Algos /\ arg.key \in Nat  BY DEF H!Args, H!ConstantsFit
<1>2. BlockSize[arg.algo] \in Nat /\ DigestSize[arg.algo] \in 1 .. BlockSize[arg.algo]
  BY <1>1 DEF H!ConstantsFit
<1>3. zeros \in Nat  BY <1>2 DEF H!Zeros
<1> QED  BY <1>1, <1>2, <1>3

\* The digits of a hash, by their places.
Digit(algo, message, n) == IF n <= zeros THEN H!Nought ELSE <<algo, message, n>>

LEMMA HashProperties ==
    ASSUME H!ConstantsFit, arg \in H!Args, zeros \in H!Zeros(arg.algo), NEW m
    PROVE  LET h == H!Hash(arg.algo, m)
               D == {Digit(arg.algo, m, n) : n \in Nat}
           IN  /\ h \in Seq(Seq(D)) /\ Len(h) = DigestSize[arg.algo]
               /\ \A i \in 1 .. DigestSize[arg.algo] :
                     /\ h[i] \in Seq(D) /\ Len(h[i]) = 2
                     /\ h[i][1] = Digit(arg.algo, m, 2 * i - 1)
                     /\ h[i][2] = Digit(arg.algo, m, 2 * i)
<1> DEFINE a == arg.algo
           size == DigestSize[a]
           h == H!Hash(a, m)
           D == {Digit(a, m, n) : n \in Nat}
           pair(i) == [j \in 1 .. 2 |-> Digit(a, m, 2 * i + j - 2)]
<1>1. size \in Nat  BY HmacArguments
<1>2. h = [i \in 1 .. size |-> pair(i)]  BY DEF H!Hash, Digit
<1>3. ASSUME NEW i \in 1 .. size
      PROVE  /\ pair(i) \in Seq(D) /\ Len(pair(i)) = 2
             /\ pair(i)[1] = Digit(a, m, 2 * i - 1)
             /\ pair(i)[2] = Digit(a, m, 2 * i)
  <2>1. \A j \in 1 .. 2 : 2 * i + j - 2 \in Nat  BY <1>1
  <2>2. 2 * i + 1 - 2 = 2 * i - 1 /\ 2 * i + 2 - 2 = 2 * i /\ 1 \in 1 .. 2 /\ 2 \in 1 .. 2
    BY <1>1
  <2>3. pair(i) \in [1 .. 2 -> D]  BY <2>1
  <2>4. pair(i)[1] = Digit(a, m, 2 * i + 1 - 2) /\ pair(i)[2] = Digit(a, m, 2 * i + 2 - 2)
    OBVIOUS
  <2>5. pair(i)[1] = Digit(a, m, 2 * i - 1) /\ pair(i)[2] = Digit(a, m, 2 * i)
    BY <2>2, <2>4
  <2> HIDE DEF pair, D
  <2>6. \A l \in Nat : \A p \in [1 .. l -> D] : p \in Seq(D) /\ Len(p) = l  OBVIOUS
  <2> QED  BY <2>3, <2>5, <2>6
<1> HIDE DEF pair, D, h, size
<1>4. h \in [1 .. size -> Seq(D)]  BY <1>2, <1>3
<1>5. h \in Seq(Seq(D)) /\ Len(h) = size  BY <1>1, <1>4
<1> QED  BY <1>2, <1>3, <1>5 DEF size, h, D

\* Hexadecimal digits and back: makeRaw.digest undoes the formatting.
LEMMA RawOfHex ==
    ASSUME NEW D, NEW h \in Seq(Seq(D)), \A i \in 1 .. Len(h) : Len(h[i]) = 2
    PROVE  H!MakeRawDigest(H!Hex(h)) = h /\ Len(H!Hex(h)) = 2 * Len(h)
<1> DEFINE n == Len(h)
           x == H!Hex(h)
           r == H!MakeRawDigest(x)
<1>1. n \in Nat  OBVIOUS
<1>2. x = [k \in 1 .. 2 * n |-> h[(k + 1) \div 2][2 - (k % 2)]]  BY DEF H!Hex
<1> DEFINE E == {x[k] : k \in 1 .. 2 * n}
<1>3. Len(x) = 2 * n
  <2>1. 2 * n \in Nat  BY <1>1
  <2>2. x \in [1 .. 2 * n -> E]  BY <1>2
  <2> HIDE DEF x, n, E
  <2> QED  BY <2>1, <2>2
<1>4. r = [i \in 1 .. (2 * n + 1) \div 2 |->
             IF 2 * i <= 2 * n THEN <<x[2 * i - 1], x[2 * i]>>
             ELSE <<H!Nought, x[2 * i - 1]>>]
  BY <1>3 DEF H!MakeRawDigest
<1> HIDE DEF x, r
<1>5. (2 * n + 1) \div 2 = n  BY <1>1
<1>6. ASSUME NEW i \in 1 .. n PROVE r[i] = h[i]
  <2> HIDE DEF n
  <2>1. /\ i \in 1 .. (2 * n + 1) \div 2 /\ 2 * i <= 2 * n
        /\ 2 * i - 1 \in 1 .. 2 * n /\ 2 * i \in 1 .. 2 * n
    BY <1>1, <1>5
  <2>2. /\ ((2 * i - 1) + 1) \div 2 = i /\ 2 - ((2 * i - 1) % 2) = 1
        /\ (2 * i + 1) \div 2 = i /\ 2 - ((2 * i) % 2) = 2
    BY <1>1
  <2>3. x[2 * i - 1] = h[i][1] /\ x[2 * i] = h[i][2]  BY <1>2, <2>1, <2>2
  <2>4. r[i] = <<x[2 * i - 1], x[2 * i]>>  BY <1>4, <2>1
  <2>5. r[i] = <<h[i][1], h[i][2]>>  BY <2>3, <2>4
  <2>6. h[i] \in Seq(D) /\ Len(h[i]) = 2  BY DEF n
  <2> QED  BY <2>5, <2>6
<1>7. r = [i \in 1 .. n |-> h[i]]  BY <1>4, <1>5, <1>6
<1>8. h = [i \in 1 .. n |-> h[i]]  OBVIOUS
<1> QED  BY <1>3, <1>7, <1>8 DEF x, r, n

\* What digest() returns as a string, if it is not a case that is excepted.
LEMMA DigestIsHex ==
    ASSUME H!ConstantsFit, arg \in H!Args, zeros \in H!Zeros(arg.algo), ~Excepted, NEW m
    PROVE  LET hex == H!Digest(m, arg.algo, arg.serialize)
           IN  /\ hex = H!Hex(Mac(m)) /\ hex # <<>>
               /\ H!MakeRawDigest(hex) = Mac(m)
<1> DEFINE msg == Content(m)
           D   == {Digit(arg.algo, msg, n) : n \in Nat}
           h   == H!Hash(arg.algo, msg)
           hex == H!Hex(h)
           size == DigestSize[arg.algo]
<1>1. size \in Nat \ {0} /\ zeros \in Nat  BY HmacArguments
<1>2. /\ h \in Seq(Seq(D)) /\ Len(h) = size
      /\ \A i \in 1 .. size : Len(h[i]) = 2
      /\ \A i \in 1 .. size : h[i][1] = Digit(arg.algo, msg, 2 * i - 1)
  BY HashProperties
<1>3. H!MakeRawDigest(hex) = h /\ Len(hex) = 2 * size  BY <1>2, RawOfHex
<1>4. hex # <<>>
  <2>1. Len(hex) > 0  BY <1>1, <1>3
  <2> QED  BY <2>1
<1>5. CASE ~(arg.algo = "crc32" /\ arg.old)
  <2>1. H!Digest(m, arg.algo, arg.serialize) = hex  BY <1>5 DEF H!Digest, Content
  <2> QED  BY <2>1, <1>3, <1>4 DEF Mac
<1>6. CASE arg.algo = "crc32" /\ arg.old
  <2>1. zeros = 0  BY <1>1, <1>6 DEF Excepted
  <2>2. hex[1] # H!Nought
    <3>1. hex[1] = h[1][1]
      <4>1. 1 \in 1 .. 2 * size /\ (1 + 1) \div 2 = 1 /\ 2 - (1 % 2) = 1  BY <1>1
      <4>2. hex = [k \in 1 .. 2 * size |-> h[(k + 1) \div 2][2 - (k % 2)]]
        BY <1>2 DEF H!Hex
      <4>3. hex[1] = h[(1 + 1) \div 2][2 - (1 % 2)]
        <5> HIDE DEF hex, h, size
        <5> QED  BY <4>1, <4>2
      <4> HIDE DEF hex, h
      <4> QED  BY <4>1, <4>3
    <3>2. h[1][1] = <<arg.algo, msg, 1>>
      <4>1. 1 \in 1 .. size /\ 2 * 1 - 1 = 1 /\ ~ (1 <= 0)  BY <1>1
      <4> QED  BY <4>1, <2>1, <1>2 DEF Digit
    <3>3. <<arg.algo, msg, 1>> # <<0>>  OBVIOUS
    <3> HIDE DEF hex, h
    <3> QED  BY <3>1, <3>2, <3>3 DEF H!Nought
  <2>3. H!DropZeros(hex) = hex
    <3> DEFINE first == {n \in 1 .. Len(hex) : \A k \in 1 .. n : hex[k] = H!Nought}
    <3>1. first = {}  BY <2>2
    <3>2. H!DropZeros(hex) = SubSeq(hex, 1 + 0, Len(hex))  BY <3>1 DEF H!DropZeros
    <3>3. \E T : hex \in Seq(T)
      <4> DEFINE T == {hex[k] : k \in 1 .. 2 * size}
      <4>1. hex = [k \in 1 .. 2 * size |-> h[(k + 1) \div 2][2 - (k % 2)]]
        BY <1>2 DEF H!Hex
      <4>2. hex \in [1 .. 2 * size -> T]
        <5> HIDE DEF hex, h, size
        <5>1. \A k \in 1 .. 2 * size : hex[k] \in T  OBVIOUS
        <5> HIDE DEF T
        <5> QED  BY <4>1, <5>1
      <4>3. 2 * size \in Nat  BY <1>1
      <4> HIDE DEF hex, T, size
      <4>4. hex \in Seq(T)  BY <4>2, <4>3
      <4> QED  BY <4>4
    <3> HIDE DEF hex, first
    <3>4. PICK T : hex \in Seq(T)  BY <3>3
    <3>5. SubSeq(hex, 1, Len(hex)) = hex  BY <3>4
    <3> QED  BY <3>2, <3>5
  <2>4. H!Digest(m, arg.algo, arg.serialize) = hex  BY <1>6, <2>3 DEF H!Digest, Content
  <2> QED  BY <2>4, <1>3, <1>4 DEF Mac
<1> QED  BY <1>5, <1>6

\* padWithZeros makes the key of RFC 2104.
LEMMA PaddedIsStandard ==
    ASSUME H!ConstantsFit, arg \in H!Args, zeros \in H!Zeros(arg.algo), ~Excepted
    PROVE  H!padWithZeros(H!Key, arg.algo) = PaddedKey
<1> DEFINE a == arg.algo
           B == BlockSize[a]
           k == IF arg.key > B THEN H!Hash(a, H!Key) ELSE H!Key
           rest == [i \in 1 .. B - Len(k) |-> H!ZeroByte]
<1>1. /\ arg.key \in Nat /\ B \in Nat /\ DigestSize[a] \in Nat /\ DigestSize[a] <= B
  BY HmacArguments
<1> DEFINE P == {KeyData[i] : i \in 1 .. arg.key}
<1>2. H!Key \in Seq(P) /\ Len(H!Key) = arg.key
  <2>1. H!Key \in [1 .. arg.key -> P]  BY DEF H!Key
  <2> HIDE DEF P
  <2> QED  BY <2>1, <1>1 DEF H!Key
<1>3. \E T : k \in Seq(T)
  <2>1. CASE arg.key > B  BY <2>1, HashProperties
  <2>2. CASE ~ (arg.key > B)
    <3> HIDE DEF P
    <3> QED  BY <2>2, <1>2
  <2> QED  BY <2>1, <2>2
<1>4. Len(k) \in 0 .. B
  <2>1. CASE arg.key > B
    <3>1. Len(H!Hash(a, H!Key)) = DigestSize[a]  BY HashProperties
    <3> QED  BY <2>1, <3>1, <1>1
  <2>2. CASE ~ (arg.key > B)  BY <2>2, <1>1, <1>2
  <2> QED  BY <2>1, <2>2
<1>5. H!padWithZeros(H!Key, a) = k \o rest
  <2>1. H!TooLong(H!Key, a) <=> arg.key > B  BY <1>2 DEF H!TooLong
  <2>2. a = "crc32" => ~ (arg.key > B)  BY DEF Excepted
  <2> QED  BY <2>1, <2>2 DEF H!padWithZeros
<1> HIDE DEF k
<1>6. PICK T : k \in Seq(T)  BY <1>3
<1> DEFINE U == T \cup {H!ZeroByte}
           std == [i \in 1 .. B |-> IF i <= Len(k) THEN k[i] ELSE H!ZeroByte]
<1>7. k \in Seq(U)
  <2>1. \A i \in 1 .. Len(k) : k[i] \in U  BY <1>6
  <2>2. k \in [1 .. Len(k) -> U] /\ Len(k) \in Nat  BY <1>6, <2>1
  <2> HIDE DEF U
  <2> QED  BY <2>2
<1>8. rest \in Seq(U) /\ Len(rest) = B - Len(k)
  <2>1. H!ZeroByte \in U /\ B - Len(k) \in Nat  BY <1>1, <1>4
  <2> HIDE DEF U
  <2> QED  BY <2>1
<1>9. std \in Seq(U) /\ Len(std) = B
  <2>1. \A i \in 1 .. B : (i <= Len(k) => k[i] \in U) /\ H!ZeroByte \in U
    <3>1. \A i \in 1 .. B : i <= Len(k) => i \in 1 .. Len(k)  BY <1>1, <1>4
    <3> QED  BY <3>1, <1>6
  <2>2. std \in [1 .. B -> U]  BY <2>1
  <2> HIDE DEF std, U
  <2> QED  BY <2>2, <1>1
<1>10. /\ k \o rest \in Seq(U) /\ Len(k \o rest) = Len(k) + Len(rest)
       /\ \A i \in 1 .. Len(k) + Len(rest) : (k \o rest)[i] =
             IF i <= Len(k) THEN k[i] ELSE rest[i - Len(k)]
  <2> HIDE DEF U, rest
  <2> QED  BY <1>7, <1>8, ConcatProperties
<1>11. Len(k) + Len(rest) = B  BY <1>1, <1>4, <1>8
<1>12. ASSUME NEW i \in 1 .. B PROVE (k \o rest)[i] = std[i]
  <2>1. CASE i <= Len(k)
    <3> HIDE DEF rest
    <3> QED  BY <2>1, <1>10, <1>11
  <2>2. CASE ~ (i <= Len(k))
    <3>1. i - Len(k) \in 1 .. B - Len(k)  BY <2>2, <1>1, <1>4
    <3>2. rest[i - Len(k)] = H!ZeroByte  BY <3>1
    <3>3. std[i] = H!ZeroByte  BY <2>2
    <3> HIDE DEF rest, std
    <3> QED  BY <2>2, <3>2, <3>3, <1>10, <1>11
  <2> QED  BY <2>1, <2>2
<1>13. k \o rest = std
  <2> HIDE DEF U, rest, std
  <2> QED  BY <1>9, <1>10, <1>11, <1>12, SeqEqual
<1> QED  BY <1>5, <1>13 DEF PaddedKey, k

\* The same in terms of the definitions of Hmac.
LEMMA CodeIsStandard == H!RFC2104 = Mac(H!Xor(PaddedKey, H!opad) \o InnerHash)
BY DEF H!RFC2104, Mac, Content, PaddedKey, InnerHash

LEMMA HmacInvNext == ASSUME H!ConstantsFit PROVE HmacInv /\ [H!Next]_(H!vars) => HmacInv'
<1> SUFFICES ASSUME HmacInv, [H!Next]_(H!vars) PROVE HmacInv'  OBVIOUS
<1>1. arg' = arg /\ zeros' = zeros  BY DEF H!Next, H!Pad, H!Inner, H!Outer, H!Call, H!vars
<1>2. arg \in H!Args /\ zeros \in H!Zeros(arg.algo)  BY DEF HmacInv
<1>3. /\ Excepted' <=> Excepted
      /\ PaddedKey' = PaddedKey /\ InnerHash' = InnerHash /\ H!RFC2104' = H!RFC2104
  BY <1>1 DEF Excepted, PaddedKey, InnerHash, H!RFC2104, Mac, Content, H!Hash, H!Key
<1>4. /\ H!HmacIsRFC2104 <=> (outcome # H!None /\ ~Excepted
                               => outcome = IF arg.raw THEN H!RFC2104 ELSE H!Hex(H!RFC2104))
      /\ H!HmacIsRFC2104' <=> (outcome' # H!None /\ ~Excepted
                                => outcome' = IF arg.raw THEN H!RFC2104 ELSE H!Hex(H!RFC2104))
  BY <1>1, <1>3 DEF H!HmacIsRFC2104, Excepted
<1>5. SUFFICES ASSUME ~Excepted
               PROVE  /\ key' # H!None => key' = PaddedKey
                      /\ raw_digest' # H!None => raw_digest' = InnerHash /\ key' # H!None
                      /\ outcome' # H!None =>
                            outcome' = IF arg.raw THEN H!RFC2104 ELSE H!Hex(H!RFC2104)
  BY <1>1, <1>2, <1>3, <1>4 DEF HmacInv
<1>6. /\ key # H!None => key = PaddedKey
      /\ raw_digest # H!None => raw_digest = InnerHash /\ key # H!None
      /\ outcome # H!None => outcome = IF arg.raw THEN H!RFC2104 ELSE H!Hex(H!RFC2104)
  BY <1>4, <1>5 DEF HmacInv
<1>7. CASE H!Pad  BY <1>2, <1>5, <1>6, <1>7, PaddedIsStandard DEF H!Pad
<1>8. CASE H!Inner
  <2> DEFINE m   == H!Xor(key, H!ipad) \o arg.object
             hex == H!Digest(m, arg.algo, arg.serialize)
  <2>1. hex # <<>> /\ H!MakeRawDigest(hex) = Mac(m)  BY <1>2, <1>5, DigestIsHex
  <2>2. key # H!None /\ key' = key /\ raw_digest' = H!MakeRawDigest(hex) /\ outcome' = outcome
    BY <1>8, <2>1 DEF H!Inner
  <2>3. Mac(m) = InnerHash  BY <1>6, <2>2 DEF InnerHash
  <2> QED  BY <1>6, <2>1, <2>2, <2>3
<1>9. CASE H!Outer
  <2> DEFINE m   == H!Xor(key, H!opad) \o raw_digest
             hex == H!Digest(m, arg.algo, arg.serialize)
  <2>1. hex = H!Hex(Mac(m)) /\ hex # <<>> /\ H!MakeRawDigest(hex) = Mac(m)
    BY <1>2, <1>5, DigestIsHex
  <2>2. /\ key' = key /\ raw_digest' = raw_digest /\ raw_digest # H!None
        /\ outcome' = IF ~arg.raw THEN hex ELSE IF hex = <<>> THEN H!Error ELSE H!MakeRawDigest(hex)
    BY <1>9 DEF H!Outer
  <2>3. Mac(m) = H!RFC2104  BY <1>6, <2>2, CodeIsStandard
  <2>4. outcome' = IF arg.raw THEN H!RFC2104 ELSE H!Hex(H!RFC2104)  BY <2>1, <2>2, <2>3
  <2> QED  BY <1>6, <2>2, <2>4
<1>10. CASE H!Call  BY <1>10 DEF H!Call
<1>11. CASE UNCHANGED H!vars  BY <1>6, <1>11 DEF H!vars
<1> QED  BY <1>7, <1>8, <1>9, <1>10, <1>11 DEF H!Next

HmacHolds == function = "hmac" => HmacInv

\* hmac() is RFC 2104's, for every algorithm, key and object and whatever
\* zeros its digests start with, but for the excepted cases of crc32.
THEOREM CodeOfRFC2104 == AnySpec => []HmacIsRFC2104
<1>1. AnyInit => HmacHolds
  BY DEF AnyInit, HmacHolds, H!Init, HmacInv, H!HmacIsRFC2104
<1>2. HmacHolds /\ [AnyNext]_allVars => HmacHolds'
  <2> SUFFICES ASSUME HmacHolds, [AnyNext]_allVars, function' = "hmac" PROVE HmacInv'
    BY DEF HmacHolds
  <2>1. function = "hmac" /\ [H!Next]_(H!vars)
    BY DEF AnyNext, allVars, callVars, H!vars
  <2> QED  BY <2>1, InstancesFit, HmacInvNext DEF HmacHolds
<1>3. HmacHolds => HmacIsRFC2104  BY DEF HmacHolds, HmacInv, HmacIsRFC2104
<1> QED  BY <1>1, <1>2, <1>3, PTL DEF AnySpec


-----------------------------------------------------------------------------
(* vdigest() *)

\* What digest() answers for the i-th element is what the loop hashes of it.
Agrees(i) ==
    V!digest(V!Element(arg.object, i), arg, V!Names(arg.object))
        = V!Value(V!Hashed(V!Element(call.object, i)))

\* The loop has hashed the elements before, in order.
InOrder ==
    /\ Len(ans) \in 0 .. Len(arg.object.elts)
    /\ ans = [i \in 1 .. Len(ans) |-> V!Hashed(V!Element(call.object, i))]

\* In the loop of a call whose vector is promised there is an element for each
\* of the object's, and one raw vector is never hashed for all of them.
Prepared ==
    /\ Len(call.object.elts) = Len(arg.object.elts)
    /\ ~arg.spooky => ~V!AtOnce(call.object)
    /\ \A i \in 1 .. Len(arg.object.elts) : Agrees(i)

VdigestInv ==
    /\ arg \in V!Args
    /\ (pc = "loop" /\ V!Vectorised(arg)) => Prepared /\ InOrder
    /\ V!Elementwise

LEMMA Elements ==
    ASSUME V!ConstantsFit, NEW o \in Objects
    PROVE  /\ o = [type |-> o.type, elts |-> o.elts]
           /\ Len(o.elts) \in Nat
           /\ o.elts # <<>> => Len(o.elts) > 0
<1>1. /\ o = [type |-> o.type, elts |-> o.elts]
      /\ Len(o.elts) \in Nat /\ o.elts = [i \in 1 .. Len(o.elts) |-> o.elts[i]]
  BY DEF V!ConstantsFit
<1> DEFINE e == o.elts
           S == {e[i] : i \in 1 .. Len(e)}
<1>2. e \in [1 .. Len(e) -> S]  BY <1>1
<1>3. e \in Seq(S)
  <2> HIDE DEF S
  <2>1. Len(e) \in Nat  BY <1>1
  <2> HIDE DEF e
  <2> QED  BY <1>2, <2>1
<1> HIDE DEF e, S
<1>4. e # <<>> => Len(e) > 0  BY <1>3, EmptySeq
<1> QED  BY <1>1, <1>4 DEF e

\* An element of a vector that is not a list is a vector of one.
LEMMA OneElement ==
    ASSUME V!ConstantsFit, NEW o \in Objects, o.type # "list", NEW i
    PROVE  V!Element(o, i) = [type |-> o.type, elts |-> <<o.elts[i]>>]
<1>1. o = [type |-> o.type, elts |-> o.elts]  BY Elements
<1> QED  BY <1>1 DEF V!Element

LEMMA VdigestInvInit == ASSUME V!ConstantsFit PROVE V!Init => VdigestInv
BY DEF V!Init, VdigestInv, V!Elementwise, V!Running

\* A call that ends without a vector promises nothing.
LEMMA FinishWithout ==
    ASSUME VdigestInv, NEW r, r[1] # "value", V!Finish(r)
    PROVE  VdigestInv'
BY DEF VdigestInv, V!Finish, V!Elementwise, V!Args

LEMMA Reasons ==
    /\ \A why : V!Stop(why)[1] # "value"
    /\ \A why : \A em \in {"stop", "warn", "silent"} : V!errorhandler(em, why)[1] # "value"
BY DEF V!Stop, V!errorhandler

\* The loop may begin with what is prepared for each element.
LEMMA LoopBegins ==
    ASSUME V!ConstantsFit, VdigestInv, NEW object, NEW skip, V!ToLoop(object, skip),
           V!Vectorised(arg) => Prepared'
    PROVE  VdigestInv'
<1>1. arg' = arg /\ ans' = <<>> /\ arg \in V!Args /\ V!Elementwise /\ outcome' = outcome
  BY DEF V!ToLoop, VdigestInv
<1>2. V!Elementwise'  BY <1>1 DEF V!Elementwise
<1>3. Len(arg.object.elts) \in Nat  BY <1>1, Elements DEF V!Args
<1>4. InOrder'
  <2>1. Len(ans') = 0 /\ ans' = [i \in 1 .. 0 |-> V!Hashed(V!Element(call.object, i))']
    BY <1>1
  <2> QED  BY <2>1, <1>1, <1>3 DEF InOrder
<1> QED  BY <1>1, <1>2, <1>4 DEF VdigestInv

\* Serialized elements: the skip is that of a serialization, as in digest().
LEMMA VdigestInvSerialized == ASSUME V!ConstantsFit, VdigestInv, V!Serialized PROVE VdigestInv'
<1> DEFINE o    == arg.object
           ser  == V!serialize_(o, arg.ascii)
           skip == IF V!AutoSkip(arg.skip) THEN V!set_skip(arg.ascii) ELSE V!Number(arg.skip)
<1>1. ~arg.spooky /\ arg.serialize /\ ~arg.file /\ arg \in V!Args  BY DEF V!Serialized, VdigestInv
<1>2. CASE V!Finish(V!Stop("comparison"))  BY <1>2, FinishWithout, Reasons
<1>3. CASE V!ToLoop(ser, skip)
  <2> SUFFICES ASSUME V!Vectorised(arg) PROVE Prepared'
    BY <1>3, LoopBegins
  <2>1. /\ o \in Objects /\ o.elts # <<>> /\ Len(o.elts) \in Nat /\ Len(o.elts) > 0
        /\ arg.skip # Prefix
    BY <1>1, Elements DEF V!Args, V!Vectorised
  <2>2. ser = [type |-> "list", elts |-> [i \in 1 .. Len(o.elts) |->
                                             V!Serialization(V!Element(o, i), arg.ascii)]]
    BY <2>1 DEF V!serialize_
  <2>3. arg' = arg /\ call'.object = ser /\ call'.skip = skip  BY <1>3 DEF V!ToLoop
  <2> DEFINE n == Len(o.elts)
             e == [i \in 1 .. n |-> V!Serialization(V!Element(o, i), arg.ascii)]
  <2>4. Len(e) = n
    <3> HIDE DEF n
    <3>1. n \in Nat  BY <2>1 DEF n
    <3> QED  BY <3>1
  <2>5. ser.type = "list" /\ ser.elts = e  BY <2>2
  <2>6. ser.elts # <<>>
    <3> HIDE DEF e, ser
    <3>1. Len(ser.elts) > 0  BY <2>4, <2>5, <2>1
    <3> QED  BY <3>1
  <2>7. ASSUME NEW i \in 1 .. n PROVE Agrees(i)'
    <3> DEFINE x == V!Element(o, i)
    <3>1. V!Element(ser, i) = V!Serialization(x, arg.ascii)  BY <2>5 DEF V!Element
    <3>2. V!digest(x, arg, V!Names(o)) = V!Value(V!digest_impl(V!Serialization(x, arg.ascii), skip))
      BY <1>1, <2>1 DEF V!digest, V!AutoSkip
    <3>3. V!Hashed(V!Element(call.object, i))' = V!digest_impl(V!Serialization(x, arg.ascii), skip)
      BY <1>1, <2>3, <3>1 DEF V!Hashed
    <3> QED  BY <3>2, <3>3, <2>3 DEF Agrees
  <2>8. (~V!AtOnce(call.object))'  BY <2>3, <2>5, <2>6 DEF V!AtOnce
  <2>9. (Len(call.object.elts) = Len(arg.object.elts))'  BY <2>3, <2>4, <2>5
  <2> QED  BY <2>3, <2>7, <2>8, <2>9 DEF Prepared
<1> QED  BY <1>2, <1>3 DEF V!Serialized

\* Elements as they are: a string each, or the one name of a file.
LEMMA VdigestInvAsIs == ASSUME V!ConstantsFit, VdigestInv, V!AsIs PROVE VdigestInv'
<1> DEFINE o    == arg.object
           skip == V!Number(arg.skip)
<1>1. ~arg.spooky /\ (~arg.serialize \/ arg.file) /\ arg \in V!Args  BY DEF V!AsIs, VdigestInv
<1>m. arg.errormode \in {"stop", "warn", "silent"} /\ o \in Objects
  BY <1>1 DEF V!Args, V!ConstantsFit
<1>2. CASE \/ V!Finish(V!errorhandler(arg.errormode, "type"))
           \/ V!Finish(V!Stop("condition")) \/ V!Finish(V!Stop("file"))
  BY <1>2, <1>m, FinishWithout, Reasons
<1>3. ASSUME /\ V!Hashable(o) /\ (arg.file => o.type = "character" /\ Len(o.elts) = 1)
             /\ V!ToLoop(o, skip)
      PROVE  VdigestInv'
  <2> SUFFICES ASSUME V!Vectorised(arg) PROVE Prepared'
    BY <1>3, LoopBegins
  <2>1. o.elts # <<>> /\ o.type = "character"
    BY <1>1, <1>3 DEF V!Vectorised, V!Hashable
  <2>3. arg' = arg /\ call'.object = o /\ call'.skip = skip  BY <1>3 DEF V!ToLoop
  <2>4. ASSUME NEW i \in 1 .. Len(o.elts) PROVE Agrees(i)'
    <3> DEFINE x == V!Element(o, i)
    <3>1. x.type = "character" /\ x.elts[1] = o.elts[i]
      BY <2>1, <1>m, OneElement
    <3>2. CASE arg.file
      <4>1. o.elts[i] \in V!Names(o)  BY <2>1 DEF V!Names
      <4>2. V!digest(x, arg, V!Names(o)) = V!Value(V!digest_file(x, skip))
        BY <1>1, <3>1, <3>2, <4>1 DEF V!digest, V!Hashable
      <4>3. V!Hashed(V!Element(call.object, i))' = V!digest_file(x, skip)
        BY <1>1, <2>3, <3>2 DEF V!Hashed
      <4> QED  BY <4>2, <4>3, <2>3 DEF Agrees
    <3>3. CASE ~arg.file
      <4>1. V!digest(x, arg, V!Names(o)) = V!Value(V!digest_impl(x, skip))
        BY <1>1, <3>1, <3>3 DEF V!digest, V!Hashable
      <4>2. V!Hashed(V!Element(call.object, i))' = V!digest_impl(x, skip)
        BY <1>1, <2>3, <3>3 DEF V!Hashed
      <4> QED  BY <4>1, <4>2, <2>3 DEF Agrees
    <3> QED  BY <3>2, <3>3
  <2>5. (~V!AtOnce(call.object))'  BY <2>1, <2>3 DEF V!AtOnce
  <2> QED  BY <2>3, <2>4, <2>5 DEF Prepared
<1> QED  BY <1>2, <1>3 DEF V!AsIs

\* spookyhash serializes in C: what it gets are the elements themselves. The skip
\* looked for in all of them is digest()'s for each, unless it is Misplaced.
LEMMA VdigestInvStreamed == ASSUME V!ConstantsFit, VdigestInv, V!Streamed PROVE VdigestInv'
<1> DEFINE o    == arg.object
           auto == arg.serialize /\ V!AutoSkip(arg.skip)
           skip == IF auto THEN V!NotSerialized(o, arg.ascii) ELSE V!Number(arg.skip)
<1>1. arg.spooky /\ arg \in V!Args  BY DEF V!Streamed, VdigestInv
<1>m. arg.errormode \in {"stop", "warn", "silent"}
  BY <1>1 DEF V!Args, V!ConstantsFit
<1>2. CASE \/ V!Finish(V!Stop("spookyhash")) \/ V!Finish(V!Stop("comparison"))
           \/ V!Finish(V!errorhandler(arg.errormode, "spookyhash"))
  BY <1>2, <1>m, FinishWithout, Reasons
<1>3. CASE ~arg.file /\ V!ToLoop(o, skip)
  <2> SUFFICES ASSUME V!Vectorised(arg) PROVE Prepared'
    BY <1>3, LoopBegins
  <2>1. arg.serialize /\ arg.skip # Prefix /\ ~V!Misplaced(arg)  BY <1>1 DEF V!Vectorised
  <2>3. arg' = arg /\ call'.object = o /\ call'.skip = skip  BY <1>3 DEF V!ToLoop
  <2>4. ASSUME NEW i \in 1 .. Len(o.elts) PROVE Agrees(i)'
    <3> DEFINE x == V!Element(o, i)
    <3>p. arg.skip = AUTO => /\ ~(arg.ascii /\ ~V!Comparable(x))
                             /\ V!NotSerialized(x, arg.ascii) = V!NotSerialized(o, arg.ascii)
      BY <1>1, <2>1 DEF V!Misplaced, V!NotSerialized
    <3>1. V!digest(x, arg, V!Names(o)) = V!Value(V!spookydigest_impl(x, skip))
      BY <1>1, <1>3, <2>1, <3>p DEF V!digest, V!AutoSkip
    <3>2. V!Hashed(V!Element(call.object, i))' = V!spookydigest_impl(x, skip)
      BY <1>1, <2>3 DEF V!Hashed
    <3> QED  BY <3>1, <3>2, <2>3 DEF Agrees
  <2> QED  BY <2>3, <2>4, <1>1 DEF Prepared
<1> QED  BY <1>2, <1>3 DEF V!Streamed

\* A step of the loop hashes the next element, or ends in an error.
LEMMA VdigestInvStep == ASSUME V!ConstantsFit, VdigestInv, V!Step PROVE VdigestInv'
<1> DEFINE n == Len(ans)
           x == V!Element(call.object, n + 1)
<1>1. CASE V!Finish(V!Stop("file"))  BY <1>1, FinishWithout, Reasons
<1>2. CASE ans' = Append(ans, V!Hashed(x)) /\ UNCHANGED <<arg, exists, pc, call, outcome>>
  <2>1. arg \in V!Args /\ V!Elementwise /\ pc = "loop" /\ n < Len(call.object.elts)
    BY DEF VdigestInv, V!Step, V!InLoop
  <2>2. V!Elementwise' /\ (arg \in V!Args)'  BY <1>2, <2>1 DEF V!Elementwise
  <2> SUFFICES ASSUME V!Vectorised(arg) PROVE Prepared' /\ InOrder'
    BY <1>2, <2>2 DEF VdigestInv
  <2>3. Prepared /\ InOrder  BY <2>1 DEF VdigestInv
  <2>4. Prepared'
    BY <1>2, <2>3 DEF Prepared, Agrees, V!Hashed, V!AtOnce
  <2>5. InOrder'
    <3> DEFINE h(i) == V!Hashed(V!Element(call.object, i))
               m == Len(arg.object.elts)
    <3>1. n \in 0 .. m /\ ans = [i \in 1 .. n |-> h(i)] /\ m = Len(call.object.elts)
      BY <2>3 DEF InOrder, Prepared
    <3>m. m \in Nat  BY <2>1, Elements DEF V!Args
    <3>2. \A i : h(i)' = h(i)  BY <1>2 DEF V!Hashed
    <3>3. ans' = Append(ans, h(n + 1))  BY <1>2
    <3>4. n < m /\ arg' = arg  BY <2>1, <3>1, <1>2
    <3> DEFINE T == {h(i) : i \in 1 .. n + 1}
    <3> HIDE DEF h, m, n
    <3>5. n \in Nat /\ n + 1 \in 1 .. m  BY <3>1, <3>4, <3>m
    <3>6. ans \in [1 .. n -> T]  BY <3>1, <3>5
    <3>7. h(n + 1) \in T  BY <3>5
    <3> HIDE DEF T
    <3>8. ans \in Seq(T)  BY <3>5, <3>6
    <3>9. /\ Len(ans') = n + 1
          /\ ans' = [i \in 1 .. n + 1 |-> IF i = n + 1 THEN h(n + 1) ELSE ans[i]]
      BY <3>3, <3>8, <3>7, <3>5 DEF n
    <3>10. ans' = [i \in 1 .. n + 1 |-> h(i)]  BY <3>9, <3>1, <3>5
    <3>11. ans' = [i \in 1 .. Len(ans') |-> h(i)']  BY <3>9, <3>10, <3>2
    <3> QED  BY <3>4, <3>5, <3>9, <3>11 DEF InOrder, h, m
  <2> QED  BY <2>4, <2>5
<1> QED  BY <1>1, <1>2 DEF V!Step

\* Whole vectors at once are outside the promise.
LEMMA VdigestInvWhole == ASSUME VdigestInv, V!Whole PROVE VdigestInv'
<1>1. ~V!Vectorised(arg) /\ arg \in V!Args  BY DEF VdigestInv, V!Whole, Prepared
<1>2. arg' = arg /\ pc' = "done"  BY DEF V!Whole, V!Finish
<1>3. (~V!Vectorised(arg))'  BY <1>1, <1>2
<1> QED  BY <1>1, <1>2, <1>3 DEF VdigestInv, V!Elementwise

\* The vector returned is complete.
LEMMA VdigestInvReturn == ASSUME V!ConstantsFit, VdigestInv, V!Return PROVE VdigestInv'
<1>1. /\ arg' = arg /\ pc' = "done" /\ call' = call /\ arg \in V!Args
      /\ outcome' = V!Value(ans) /\ pc = "loop" /\ Len(ans) = Len(call.object.elts)
  BY DEF VdigestInv, V!Return, V!InLoop, V!Finish
<1>2. V!Elementwise'
  <2> SUFFICES ASSUME V!Vectorised(arg)
               PROVE  /\ Len(ans) = Len(arg.object.elts)
                      /\ \A i \in 1 .. Len(ans) :
                            V!digest(V!Element(arg.object, i), arg, V!Names(arg.object))
                                = V!Value(ans[i])
    BY <1>1 DEF V!Elementwise, V!Value
  <2>1. Prepared /\ InOrder  BY <1>1 DEF VdigestInv
  <2>2. Len(ans) = Len(arg.object.elts)  BY <1>1, <2>1 DEF Prepared
  <2>3. \A i \in 1 .. Len(ans) : ans[i] = V!Hashed(V!Element(call.object, i))
    BY <2>1 DEF InOrder
  <2> QED  BY <2>1, <2>2, <2>3 DEF Prepared, Agrees
<1> QED  BY <1>1, <1>2 DEF VdigestInv

LEMMA VdigestInvRemove == ASSUME VdigestInv, V!Remove PROVE VdigestInv'
<1>1. UNCHANGED <<arg, pc, call, ans, outcome>>  BY DEF V!Remove
<1> QED  BY <1>1 DEF VdigestInv, Prepared, InOrder, Agrees, V!Hashed, V!AtOnce, V!Elementwise

LEMMA VdigestInvAgain == ASSUME VdigestInv, V!Again PROVE VdigestInv'
BY DEF V!Again, VdigestInv, V!Elementwise, V!Running

LEMMA VdigestInvNext == V!ConstantsFit /\ VdigestInv /\ [V!Next]_(V!vars) => VdigestInv'
<1> SUFFICES ASSUME V!ConstantsFit, VdigestInv, [V!Next]_(V!vars) PROVE VdigestInv'  OBVIOUS
<1>1. CASE UNCHANGED V!vars
  BY <1>1 DEF V!vars, VdigestInv, Prepared, InOrder, Agrees, V!Hashed, V!AtOnce, V!Elementwise
<1>2. CASE V!Next
  BY <1>2, VdigestInvSerialized, VdigestInvAsIs, VdigestInvStreamed, VdigestInvWhole, VdigestInvStep, VdigestInvReturn, VdigestInvRemove,
     VdigestInvAgain DEF V!Next
<1> QED  BY <1>1, <1>2

VdigestHolds == function = "vdigest" => VdigestInv

\* A call that returns a vector has hashed each element as digest() hashes it,
\* in order, for every object and argument that Vectorised does not except, and
\* whatever files disappear meanwhile.
THEOREM ElementByElement == AnySpec => []Elementwise
<1>1. AnyInit => VdigestHolds
  <2> SUFFICES ASSUME AnyInit, function = "vdigest" PROVE VdigestInv
    BY DEF VdigestHolds
  <2>1. V!Init  BY DEF AnyInit
  <2> QED  BY <2>1, InstancesFit, VdigestInvInit
<1>2. VdigestHolds /\ [AnyNext]_allVars => VdigestHolds'
  <2> SUFFICES ASSUME VdigestHolds, [AnyNext]_allVars, function' = "vdigest"
               PROVE  VdigestInv'
    BY DEF VdigestHolds
  <2>1. function = "vdigest" /\ [V!Next]_(V!vars)
    BY DEF AnyNext, allVars, callVars, V!vars
  <2> QED  BY <2>1, InstancesFit, VdigestInvNext DEF VdigestHolds
<1>3. VdigestHolds => Elementwise  BY DEF VdigestHolds, VdigestInv, Elementwise
<1> QED  BY <1>1, <1>2, <1>3, PTL DEF AnySpec

-----------------------------------------------------------------------------
(* AES: sequences, by their length and elements *)

\* s is a sequence of n elements, whatever they are.
Row(s, n) == s = [i \in 1 .. n |-> s[i]]

LEMMA RowSeq ==
    ASSUME NEW n \in Nat, NEW s, Row(s, n)
    PROVE  Len(s) = n /\ s \in Seq({s[i] : i \in 1 .. n})
<1> DEFINE R == {s[i] : i \in 1 .. n}
<1>1. s \in [1 .. n -> R]  BY DEF Row
<1> HIDE DEF R
<1>2. s \in Seq(R) /\ Len(s) = n  BY <1>1
<1> QED  BY <1>2 DEF R

LEMMA SeqRow ==
    ASSUME NEW S, NEW s \in Seq(S)
    PROVE  Row(s, Len(s)) /\ Len(s) \in Nat
BY DEF Row

LEMMA RowEqual ==
    ASSUME NEW n, NEW s, NEW t, Row(s, n), Row(t, n), \A i \in 1 .. n : s[i] = t[i]
    PROVE  s = t
<1>1. [i \in 1 .. n |-> s[i]] = [i \in 1 .. n |-> t[i]]  OBVIOUS
<1> QED  BY <1>1 DEF Row

\* u is the n elements of s and after them the m of t.
Joins(u, s, n, t, m) ==
    /\ Row(u, n + m)
    /\ \A i \in 1 .. n : u[i] = s[i]
    /\ \A i \in 1 .. m : u[n + i] = t[i]

LEMMA RowConcat ==
    ASSUME NEW n \in Nat, NEW m \in Nat, NEW s, NEW t, Row(s, n), Row(t, m)
    PROVE  Joins(s \o t, s, n, t, m)
<1> DEFINE R == {s[i] : i \in 1 .. n} \cup {t[i] : i \in 1 .. m}
<1>1. s \in [1 .. n -> R] /\ t \in [1 .. m -> R]  BY DEF Row
<1> HIDE DEF R
<1>2. s \in Seq(R) /\ Len(s) = n /\ t \in Seq(R) /\ Len(t) = m  BY <1>1
<1>3. s \o t \in Seq(R) /\ Len(s \o t) = n + m  BY <1>2
<1>4. \A i \in 1 .. n : (s \o t)[i] = s[i]  BY <1>2
<1>5. \A i \in 1 .. m : (s \o t)[n + i] = t[i]  BY <1>2
<1> QED  BY <1>3, <1>4, <1>5, SMTT(40), ZenonT(60) DEF Row, Joins

LEMMA RowPart ==
    ASSUME NEW n \in Nat, NEW s, Row(s, n), NEW a \in Nat, NEW k \in Nat, a + k <= n
    PROVE  /\ Row(SubSeq(s, a + 1, a + k), k)
           /\ \A i \in 1 .. k : SubSeq(s, a + 1, a + k)[i] = s[a + i]
<1> DEFINE R == {s[i] : i \in 1 .. n}
<1>1. s \in Seq(R) /\ Len(s) = n  BY RowSeq
<1> HIDE DEF R
<1> DEFINE u == SubSeq(s, a + 1, a + k)
<1>2. Len(u) = k /\ u \in Seq(R)  BY <1>1
<1>3. \A i \in 1 .. k : u[i] = s[a + i]  BY <1>1
<1> HIDE DEF u
<1>4. Row(u, k)  BY <1>2 DEF Row
<1> QED  BY <1>3, <1>4 DEF u

-----------------------------------------------------------------------------
(* AES: the blocks of a text *)

\* Where the t-th byte of block j is, and a whole block.
Place(j, t) == (j - 1) * W + t
Cell(s, j) == [t \in 1 .. W |-> s[Place(j, t)]]

LEMMA Sizes == W \in Nat \ {0} /\ Base \in Nat \ {0, 1}
BY SizeAssumption

LEMMA Places ==
    ASSUME NEW j \in Nat \ {0}, NEW t \in 1 .. W
    PROVE  /\ Place(j, t) \in Nat \ {0} /\ Place(j, t) <= j * W /\ (j - 1) * W \in Nat
           /\ Place(j, t) = (j - 1) * W + t
           /\ (Place(j, t) - 1) \div W + 1 = j /\ ((Place(j, t) - 1) % W) + 1 = t
<1> USE Sizes
<1>1. (j - 1) * W \in Nat  BY SMT
<1>2. j * W = (j - 1) * W + W  BY SMT
<1> DEFINE x == (j - 1) * W
           p == Place(j, t)
<1>3. x \in Nat /\ j * W = x + W /\ p = x + t  BY <1>1, <1>2 DEF Place
<1>4. p - 1 = (j - 1) * W + (t - 1)  BY <1>1 DEF Place
<1> HIDE DEF x, p
<1>5. p - 1 \in Int /\ t - 1 \in 0 .. W - 1 /\ j - 1 \in Int  BY <1>3
<1>6. (p - 1) % W = t - 1 /\ (p - 1) \div W = j - 1  BY <1>4, <1>5, ModUnique
<1>7. p \in Nat \ {0} /\ p <= j * W  BY <1>3
<1>8. (p - 1) \div W + 1 = j /\ ((p - 1) % W) + 1 = t  BY <1>6
<1>9. p = (j - 1) * W + t  BY <1>3 DEF x
<1> QED  BY <1>1, <1>7, <1>8, <1>9 DEF p

LEMMA PlaceOf ==
    ASSUME NEW i \in Nat \ {0}
    PROVE  \E j \in Nat \ {0}, t \in 1 .. W :
               /\ Place(j, t) = i
               /\ (i - 1) \div W + 1 = j /\ ((i - 1) % W) + 1 = t
<1> USE Sizes
<1> DEFINE x == i - 1
           d == x \div W
           e == x % W
<1>0. x \in Nat /\ i = x + 1  OBVIOUS
<1>x. x \in Int /\ W \in Nat \ {0}  BY <1>0
<1> HIDE DEF x
<1>1. d \in Int /\ e \in 0 .. W - 1 /\ x = d * W + e  BY <1>x, DivMod
<1> HIDE DEF d, e
<1>2. d >= 0
  <2> SUFFICES ASSUME d < 0 PROVE FALSE  BY <1>1
  <2>1. 0 * W >= d * W + W  BY <1>1, MultiplesApart
  <2> QED  BY <1>0, <1>1, <2>1
<1>3. d + 1 \in Nat \ {0} /\ e + 1 \in 1 .. W  BY <1>1, <1>2
<1>4. Place(d + 1, e + 1) = i
  <2>1. (d + 1) - 1 = d  BY <1>1
  <2>2. Place(d + 1, e + 1) = d * W + (e + 1)  BY <2>1 DEF Place
  <2>3. d * W \in Int  BY <1>1
  <2> QED  BY <1>0, <1>1, <2>2, <2>3
<1> QED  BY <1>3, <1>4 DEF d, e, x

LEMMA PlaceShift ==
    ASSUME NEW g \in Nat, NEW j \in Nat \ {0}, NEW t \in 1 .. W
    PROVE  /\ g * W \in Nat /\ g + j \in Nat \ {0}
           /\ Place(g + j, t) = g * W + Place(j, t)
<1> USE Sizes
<1>1. g * W \in Nat  BY SMT
<1>2. ((g + j) - 1) * W = g * W + (j - 1) * W  BY SMT
<1>3. (j - 1) * W \in Nat  BY Places
<1> DEFINE x == (j - 1) * W
           y == g * W
<1>4. Place(j, t) = x + t /\ Place(g + j, t) = (y + x) + t  BY <1>2 DEF Place
<1> HIDE DEF x, y
<1>5. Place(g + j, t) = y + Place(j, t)  BY <1>1, <1>3, <1>4 DEF x, y
<1> QED  BY <1>1, <1>5 DEF y

\* A block that begins before the first g whole blocks end is one of them.
LEMMA BeforeOrAfter ==
    ASSUME NEW g \in Nat, NEW j \in Nat \ {0}, NEW t \in 1 .. W
    PROVE  /\ g * W \in Nat
           /\ Place(j, t) <= g * W => j <= g
           /\ j <= g => j * W <= g * W /\ Place(j, t) <= g * W
           /\ j > g => Place(j, t) > g * W
<1> USE Sizes
<1>1. g * W \in Nat /\ j * W \in Nat  BY SMT
<1>2. Place(j, t) \in Nat /\ Place(j, t) <= j * W /\ Place(j, t) = (j - 1) * W + t
  BY Places
<1>3. j <= g => j * W <= g * W
  <2>1. CASE j < g
    <3>1. g * W >= j * W + W  BY <2>1, MultiplesApart
    <3> QED  BY <1>1, <3>1
  <2>2. CASE j = g  BY <2>2, <1>1
  <2> QED  BY <2>1, <2>2
<1>4. j > g => (j - 1) * W >= g * W
  <2>1. CASE j - 1 > g
    <3>0. j - 1 \in Int /\ g \in Int  OBVIOUS
    <3>1. (j - 1) * W >= g * W + W  BY <2>1, <3>0, MultiplesApart
    <3>2. (j - 1) * W \in Nat  BY SMT
    <3> QED  BY <1>1, <3>1, <3>2
  <2>2. CASE j - 1 = g
    <3>1. (j - 1) * W = g * W  BY <2>2
    <3> QED  BY <1>1, <3>1
  <2> QED  BY <2>1, <2>2
<1>5. (j - 1) * W \in Nat  BY Places
<1> DEFINE x == (j - 1) * W
           y == g * W
           z == j * W
           p == Place(j, t)
<1>6. x \in Nat /\ y \in Nat /\ z \in Nat /\ p = x + t /\ p <= z
  BY <1>1, <1>2, <1>5
<1>7. (j <= g => z <= y) /\ (j > g => x >= y)  BY <1>3, <1>4
<1> HIDE DEF x, y, z, p
<1>8. /\ y \in Nat /\ p <= y => j <= g
      /\ j <= g => z <= y /\ p <= y
      /\ j > g => p > y
  BY <1>6, <1>7
<1> QED  BY <1>8, <1>1 DEF x, y, z, p

\* How many blocks a text of k bytes has, and what they are.
LEMMA BlocksOf ==
    ASSUME NEW k \in Nat, NEW s, Row(s, k)
    PROVE  /\ Blocks(s) \in Nat
           /\ \A j \in Nat \ {0}, t \in 1 .. W : Place(j, t) <= k => j \in 1 .. Blocks(s)
           /\ \A j \in 1 .. Blocks(s) : (j - 1) * W < k
           /\ k % W = 0 => /\ Blocks(s) = k \div W /\ Blocks(s) * W = k
                           /\ \A j \in 1 .. Blocks(s) : j * W <= k
<1> USE Sizes
<1> DEFINE x == k + (W - 1)
           b == x \div W
           r == x % W
<1>0. Blocks(s) = b  BY RowSeq DEF Blocks
<1>1. x \in Int /\ x = k + (W - 1)  OBVIOUS
<1> HIDE DEF x
<1>2. b \in Int /\ r \in 0 .. W - 1 /\ x = b * W + r  BY <1>1, DivMod
<1> HIDE DEF b, r
<1>3. b >= 0
  <2> SUFFICES ASSUME b < 0 PROVE FALSE  BY <1>2
  <2>1. 0 * W >= b * W + W  BY <1>2, MultiplesApart
  <2>2. b * W \in Int  BY <1>2
  <2> QED  BY <1>1, <1>2, <2>1, <2>2
<1>4. ASSUME NEW j \in Nat \ {0}, NEW t \in 1 .. W, Place(j, t) <= k
      PROVE  j \in 1 .. b
  <2> SUFFICES ASSUME j > b PROVE FALSE  BY <1>2
  <2>1. Place(j, t) > b * W /\ Place(j, t) = (j - 1) * W + t  BY <1>2, <1>3, BeforeOrAfter, Places
  <2>2. (j - 1) * W >= b * W
    <3>1. CASE j - 1 = b  BY <1>2, <3>1
    <3>2. CASE j - 1 > b
      <4>0. j - 1 \in Int  OBVIOUS
      <4>1. (j - 1) * W >= b * W + W  BY <1>2, <3>2, <4>0, MultiplesApart
      <4>2. (j - 1) * W \in Int /\ b * W \in Int  BY <1>2
      <4> QED  BY <4>1, <4>2
    <3> QED  BY <1>2, <3>1, <3>2
  <2> DEFINE p == (j - 1) * W
             q == b * W
  <2>3. p \in Int /\ q \in Int /\ p >= q /\ p + t <= k /\ k + (W - 1) = q + r
    BY <1>1, <1>2, <1>4, <2>1, <2>2
  <2> HIDE DEF p, q
  <2> QED  BY <1>2, <2>3
<1>5. ASSUME NEW j \in 1 .. b
      PROVE  (j - 1) * W < k
  <2>1. b * W >= (j - 1) * W + W
    <3>1. j - 1 \in Int /\ b > j - 1  BY <1>2
    <3> QED  BY <1>2, <3>1, MultiplesApart
  <2> DEFINE p == (j - 1) * W
             q == b * W
  <2>2. p \in Int /\ q \in Int /\ q >= p + W /\ k + (W - 1) = q + r  BY <1>1, <1>2, <2>1
  <2> HIDE DEF p, q
  <2>3. p < k  BY <1>2, <2>2
  <2> QED  BY <2>3 DEF p
<1>6. ASSUME k % W = 0
      PROVE  b = k \div W /\ b * W = k /\ \A j \in 1 .. b : j * W <= k
  <2> DEFINE d == k \div W
             e == k % W
  <2>1. d \in Int /\ k = d * W + e  BY DivMod
  <2>2. e = 0  BY <1>6
  <2> HIDE DEF d, e
  <2>3. d * W \in Int /\ k = d * W  BY <2>1, <2>2
  <2>4. x = d * W + (W - 1) /\ W - 1 \in 0 .. W - 1  BY <1>1, <2>3
  <2>5. b = d  BY <1>1, <2>1, <2>4, ModUnique DEF b
  <2>6. \A j \in 1 .. b : j * W <= k
    <3> TAKE j \in 1 .. b
    <3>1. CASE j = b  BY <2>3, <2>5, <3>1
    <3>2. CASE j < b
      <4>1. b * W >= j * W + W  BY <1>2, <3>2, MultiplesApart
      <4>2. b * W \in Int /\ j * W \in Int  BY <1>2
      <4> QED  BY <2>3, <2>5, <4>1, <4>2
    <3> QED  BY <1>2, <3>1, <3>2
  <2> QED  BY <2>3, <2>5, <2>6 DEF d
<1> QED  BY <1>0, <1>2, <1>3, <1>4, <1>5, <1>6

\* A block that is whole, and one at the end that may be shorter.
LEMMA BlockIs ==
    ASSUME NEW k \in Nat, NEW s, Row(s, k), NEW j \in Nat \ {0}, (j - 1) * W < k
    PROVE  /\ j * W <= k => Block(s, j) = Cell(s, j)
           /\ Row(Block(s, j), IF j * W <= k THEN W ELSE k - (j - 1) * W)
           /\ (IF j * W <= k THEN W ELSE k - (j - 1) * W) \in 1 .. W
           /\ \A t \in 1 .. W : Place(j, t) <= k => Block(s, j)[t] = s[Place(j, t)]
<1> USE Sizes
<1>0. j * W = (j - 1) * W + W /\ (j - 1) * W \in Nat
  <2>1. 1 \in 1 .. W  OBVIOUS
  <2>2. (j - 1) * W \in Nat  BY <2>1, Places
  <2>3. j * W = (j - 1) * W + W  BY SMT
  <2> QED  BY <2>2, <2>3
<1> DEFINE a == (j - 1) * W
           z == j * W
           l == IF z <= k THEN W ELSE k - a
           b == SubSeq(s, a + 1, a + l)
<1>1. a \in Nat /\ z = a + W /\ a < k  BY <1>0
<1>2. l \in 1 .. W /\ a + l <= k /\ a + l = IF z < k THEN z ELSE k
  <2> HIDE DEF a, z
  <2> QED  BY <1>1
<1>3. Block(s, j) = b
  <2>1. Len(s) = k  BY RowSeq
  <2>2. Block(s, j) = SubSeq(s, a + 1, IF z < k THEN z ELSE k)  BY <2>1 DEF Block
  <2> HIDE DEF a, z, l
  <2> QED  BY <1>2, <2>2
<1>4. Row(b, l) /\ \A i \in 1 .. l : b[i] = s[a + i]
  <2> HIDE DEF a, z, l
  <2>1. l \in Nat  BY <1>2
  <2> QED  BY <1>1, <1>2, <2>1, RowPart
<1>5. \A t \in 1 .. W : Place(j, t) <= k => b[t] = s[Place(j, t)]
  <2> TAKE t \in 1 .. W
  <2>1. Place(j, t) = a + t  BY DEF Place
  <2> HIDE DEF b
  <2>2. Place(j, t) <= k => t \in 1 .. l
    <3> HIDE DEF a, z
    <3> QED  BY <1>1, <2>1
  <2> HIDE DEF a, z, l
  <2> QED  BY <1>4, <2>1, <2>2
<1>6. ASSUME z <= k PROVE b = Cell(s, j)
  <2>1. l = W  BY <1>6
  <2>2. \A t \in 1 .. W : Cell(s, j)[t] = s[a + t]  BY DEF Cell, Place
  <2>3. Row(Cell(s, j), W)  BY DEF Cell, Row
  <2> HIDE DEF a, z, l, b
  <2> QED  BY <1>4, <2>1, <2>2, <2>3, RowEqual
<1>7. Row(b, IF z <= k THEN W ELSE k - a)  BY <1>4
<1>8. (IF z <= k THEN W ELSE k - a) \in 1 .. W  BY <1>2
<1> HIDE DEF b
<1> QED  BY <1>3, <1>5, <1>6, <1>7, <1>8 DEF z, a

-----------------------------------------------------------------------------
(* AES: the counters of CTR, as numbers *)

Counters == [1 .. W -> 0 .. Base - 1]

\* v and p are the values of the first k digits, and how many there are.
IsValue(v, c) ==
    /\ v \in [0 .. W -> Nat] /\ v[0] = 0
    /\ \A k \in 1 .. W : v[k] = v[k - 1] * Base + c[k]
IsPowers(p) ==
    /\ p \in [0 .. W -> Nat \ {0}] /\ p[0] = 1
    /\ \A k \in 1 .. W : p[k] = p[k - 1] * Base

LEMMA ValueIs ==
    ASSUME NEW c \in Counters
    PROVE  \E v : IsValue(v, c) /\ Value(c) = v[W]
<1> USE Sizes
<1> DEFINE v[k \in 0 .. W] == IF k = 0 THEN 0 ELSE v[k - 1] * Base + c[k]
           T == [k \in 0 .. W |-> Nat]
           step == [k \in 1 .. W |-> [x \in Nat |-> x * Base + c[k]]]
<1>1. Value(c) = v[W]  BY Zenon DEF Value
<1> HIDE DEF v
<1>2. Steps(0, W, Nat, T, 0, step)
  <2>1. \A k \in 0 + 1 .. W : step[k] \in [T[k - 1] -> T[k]]
    <3> TAKE k \in 0 + 1 .. W
    <3>1. k \in 1 .. W /\ T[k - 1] = Nat /\ T[k] = Nat /\ c[k] \in Nat  BY DEF Counters
    <3>2. \A x \in Nat : x * Base + c[k] \in Nat  BY <3>1
    <3>3. step[k] = [x \in Nat |-> x * Base + c[k]]  BY <3>1
    <3> HIDE DEF step, T
    <3> QED  BY <3>1, <3>2, <3>3
  <2> HIDE DEF step
  <2> QED  BY <2>1 DEF Steps
<1> HIDE DEF T
<1>3. PICK g : Iterates(g, 0, W, Nat, T, 0, step)
  <2> HIDE DEF step
  <2> QED  BY <1>2, StepFunction
<1>4. g \in [0 .. W -> Nat]
      /\ \A k \in 0 .. W : g[k] = IF k = 0 THEN 0 ELSE step[k][g[k - 1]]
  <2> HIDE DEF step
  <2> QED  BY <1>3 DEF Iterates
<1>5. \A k \in 1 .. W : step[k][g[k - 1]] = g[k - 1] * Base + c[k]
  <2> TAKE k \in 1 .. W
  <2>1. k - 1 \in 0 .. W  OBVIOUS
  <2>2. g[k - 1] \in Nat  BY <1>4, <2>1
  <2> HIDE DEF v
  <2> QED  BY <2>2
<1>6. \A k \in 0 .. W : g[k] = IF k = 0 THEN 0 ELSE g[k - 1] * Base + c[k]
  <2> HIDE DEF step
  <2> TAKE k \in 0 .. W
  <2>1. CASE k = 0  BY <1>4, <2>1
  <2>2. CASE k \in 1 .. W
    <3>1. k # 0  BY <2>2
    <3>2. g[k] = step[k][g[k - 1]]  BY <1>4, <3>1
    <3> QED  BY <1>5, <2>2, <3>1, <3>2
  <2> QED  BY <2>1, <2>2
<1>7. g = [k \in 0 .. W |-> IF k = 0 THEN 0 ELSE g[k - 1] * Base + c[k]]
  <2>1. g = [k \in 0 .. W |-> g[k]]  BY <1>4
  <2> QED  BY <1>6, <2>1
<1>8. v = [k \in 0 .. W |-> IF k = 0 THEN 0 ELSE v[k - 1] * Base + c[k]]  BY <1>7, Zenon DEF v
<1>9. v \in [0 .. W -> Nat] /\ v[0] = 0 /\ \A k \in 1 .. W : v[k] = v[k - 1] * Base + c[k]
  <2>1. \A k \in 0 .. W : v[k] = IF k = 0 THEN 0 ELSE v[k - 1] * Base + c[k]
    <3>1. \A k \in 0 .. W : [i \in 0 .. W |-> IF i = 0 THEN 0 ELSE v[i - 1] * Base + c[i]][k]
                            = IF k = 0 THEN 0 ELSE v[k - 1] * Base + c[k]
      OBVIOUS
    <3> QED  BY <1>8, <3>1, Zenon
  <2> DEFINE M == {k \in 0 .. W : v[k] \in Nat}
  <2>2. 0 \in M  BY <2>1
  <2>3. ASSUME NEW k \in 0 .. W - 1, k \in M  PROVE k + 1 \in M
    <3>1. k + 1 \in 0 .. W /\ k + 1 \in 1 .. W /\ (k + 1) - 1 = k /\ k + 1 # 0  OBVIOUS
    <3>2. c[k + 1] \in Nat /\ v[k] \in Nat  BY <2>3, <3>1 DEF Counters
    <3>3. v[k + 1] = v[k] * Base + c[k + 1]  BY <2>1, <3>1
    <3>4. v[k] * Base + c[k + 1] \in Nat  BY <3>2
    <3> QED  BY <3>1, <3>3, <3>4
  <2>4. \A k \in 0 .. W : k \in M
    <3> HIDE DEF M
    <3> QED  BY <2>2, <2>3, IntervalInduction
  <2>5. \A k \in 0 .. W : v[k] \in Nat  BY <2>4
  <2>6. v = [k \in 0 .. W |-> v[k]]  BY <1>8, <2>1
  <2>7. v \in [0 .. W -> Nat]  BY <2>5, <2>6
  <2>8. v[0] = 0  BY <2>1
  <2>9. \A k \in 1 .. W : v[k] = v[k - 1] * Base + c[k]
    <3> HIDE DEF step
    <3> TAKE k \in 1 .. W
    <3>1. k \in 0 .. W /\ k # 0  OBVIOUS
    <3> QED  BY <2>1, <3>1
  <2> QED  BY <2>7, <2>8, <2>9
<1> QED  BY <1>1, <1>9 DEF IsValue

LEMMA PowersAre == \E p : IsPowers(p) /\ Values = p[W]
<1> USE Sizes
<1> DEFINE p[k \in 0 .. W] == IF k = 0 THEN 1 ELSE p[k - 1] * Base
           P == Nat \ {0}
           T == [k \in 0 .. W |-> P]
           step == [k \in 1 .. W |-> [x \in P |-> x * Base]]
<1>1. Values = p[W]  BY Zenon DEF Values
<1> HIDE DEF p
<1>p. \A x \in P : x * Base \in P
  <2> TAKE x \in P
  <2>1. x * Base >= 0 * Base + Base  BY MultiplesApart
  <2> QED  BY <2>1
<1>2. Steps(0, W, P, T, 1, step)
  <2>1. \A k \in 0 + 1 .. W : step[k] \in [T[k - 1] -> T[k]]
    <3> TAKE k \in 0 + 1 .. W
    <3>1. k \in 1 .. W /\ T[k - 1] = P /\ T[k] = P  OBVIOUS
    <3>3. step[k] = [x \in P |-> x * Base]  BY <3>1
    <3> HIDE DEF step, T, P
    <3> QED  BY <1>p, <3>1, <3>3
  <2>2. 1 \in P  OBVIOUS
  <2>3. \A n \in 0 .. W : T[n] = P  OBVIOUS
  <2> HIDE DEF step, P, T
  <2>4. 0 <= W => 1 \in T[0]  BY <2>2, <2>3
  <2> QED  BY <2>1, <2>3, <2>4 DEF Steps
<1> HIDE DEF T
<1>3. PICK g : Iterates(g, 0, W, P, T, 1, step)
  <2> HIDE DEF step, P
  <2> QED  BY <1>2, StepFunction
<1>4. g \in [0 .. W -> P]
      /\ \A k \in 0 .. W : g[k] = IF k = 0 THEN 1 ELSE step[k][g[k - 1]]
  <2> HIDE DEF step, P
  <2> QED  BY <1>3 DEF Iterates
<1>5. \A k \in 1 .. W : step[k][g[k - 1]] = g[k - 1] * Base
  <2> TAKE k \in 1 .. W
  <2>1. k - 1 \in 0 .. W  OBVIOUS
  <2>2. g[k - 1] \in P  BY <1>4, <2>1
  <2> HIDE DEF P
  <2> QED  BY <2>2
<1>6. \A k \in 0 .. W : g[k] = IF k = 0 THEN 1 ELSE g[k - 1] * Base
  <2> HIDE DEF step
  <2> TAKE k \in 0 .. W
  <2>1. CASE k = 0  BY <1>4, <2>1
  <2>2. CASE k \in 1 .. W
    <3>1. k # 0  BY <2>2
    <3>2. g[k] = step[k][g[k - 1]]  BY <1>4, <3>1
    <3> QED  BY <1>5, <2>2, <3>1, <3>2
  <2> QED  BY <2>1, <2>2
<1>7. g = [k \in 0 .. W |-> IF k = 0 THEN 1 ELSE g[k - 1] * Base]
  <2>1. g = [k \in 0 .. W |-> g[k]]  BY <1>4
  <2> QED  BY <1>6, <2>1
<1>8. p = [k \in 0 .. W |-> IF k = 0 THEN 1 ELSE p[k - 1] * Base]  BY <1>7, Zenon DEF p
<1>9. p \in [0 .. W -> Nat \ {0}] /\ p[0] = 1 /\ \A k \in 1 .. W : p[k] = p[k - 1] * Base
  <2>1. \A k \in 0 .. W : p[k] = IF k = 0 THEN 1 ELSE p[k - 1] * Base
    <3>1. \A k \in 0 .. W : [i \in 0 .. W |-> IF i = 0 THEN 1 ELSE p[i - 1] * Base][k]
                            = IF k = 0 THEN 1 ELSE p[k - 1] * Base
      OBVIOUS
    <3> QED  BY <1>8, <3>1, Zenon
  <2> DEFINE M == {k \in 0 .. W : p[k] \in P}
  <2>2. 0 \in M  BY <2>1
  <2>3. ASSUME NEW k \in 0 .. W - 1, k \in M  PROVE k + 1 \in M
    <3>1. k + 1 \in 0 .. W /\ (k + 1) - 1 = k /\ k + 1 # 0  OBVIOUS
    <3>3. p[k + 1] = p[k] * Base  BY <2>1, <3>1
    <3>4. p[k] * Base \in P  BY <2>3, <1>p
    <3> QED  BY <3>1, <3>3, <3>4
  <2>4. \A k \in 0 .. W : k \in M
    <3> HIDE DEF M
    <3> QED  BY <2>2, <2>3, IntervalInduction
  <2>5. \A k \in 0 .. W : p[k] \in P  BY <2>4
  <2>6. p = [k \in 0 .. W |-> p[k]]  BY <1>8, <2>1
  <2>7. p \in [0 .. W -> P]  BY <2>5, <2>6
  <2>8. p[0] = 1  BY <2>1
  <2>9. \A k \in 1 .. W : p[k] = p[k - 1] * Base
    <3> HIDE DEF step
    <3> TAKE k \in 1 .. W
    <3>1. k \in 0 .. W /\ k # 0  OBVIOUS
    <3> QED  BY <2>1, <3>1
  <2> QED  BY <2>7, <2>8, <2>9
<1> QED  BY <1>1, <1>9 DEF IsPowers

\* The first k digits of a counter make a number below p[k], and different
\* digits make different numbers.
LEMMA ValueBelow ==
    ASSUME NEW c \in Counters, NEW v, NEW p, IsValue(v, c), IsPowers(p)
    PROVE  \A k \in 0 .. W : v[k] \in 0 .. p[k] - 1
<1> USE Sizes
<1> DEFINE M == {k \in 0 .. W : v[k] \in 0 .. p[k] - 1}
<1>1. 0 \in M  BY DEF IsValue, IsPowers
<1>2. ASSUME NEW k \in 0 .. W - 1, k \in M  PROVE k + 1 \in M
  <2>1. k + 1 \in 1 .. W /\ (k + 1) - 1 = k /\ k + 1 \in 0 .. W  OBVIOUS
  <2>2. v[k + 1] = v[k] * Base + c[k + 1] /\ p[k + 1] = p[k] * Base
    BY <2>1 DEF IsValue, IsPowers
  <2>3. c[k + 1] \in 0 .. Base - 1  BY <2>1 DEF Counters
  <2>4. v[k] \in Nat /\ p[k] \in Nat /\ v[k] < p[k]
    BY <1>2, <2>1 DEF IsValue, IsPowers
  <2>5. p[k] * Base >= v[k] * Base + Base  BY <2>4, MultiplesApart
  <2>6. v[k] * Base \in Nat /\ p[k] * Base \in Nat  BY <2>4
  <2>7. v[k + 1] \in 0 .. p[k + 1] - 1  BY <2>2, <2>3, <2>5, <2>6
  <2> QED  BY <2>1, <2>7
<1>3. \A k \in 0 .. W : k \in M
  <2> HIDE DEF M
  <2> QED  BY <1>1, <1>2, IntervalInduction
<1> QED  BY <1>3

LEMMA ValueIn ==
    ASSUME NEW c \in Counters
    PROVE  Values \in Nat \ {0} /\ Value(c) \in 0 .. Values - 1
<1> USE Sizes
<1>1. PICK v : IsValue(v, c) /\ Value(c) = v[W]  BY ValueIs
<1>2. PICK p : IsPowers(p) /\ Values = p[W]  BY PowersAre
<1>3. v[W] \in 0 .. p[W] - 1  BY <1>1, <1>2, ValueBelow
<1>4. p[W] \in Nat \ {0}  BY <1>2 DEF IsPowers
<1> QED  BY <1>1, <1>2, <1>3, <1>4

LEMMA ValueDiffers ==
    ASSUME NEW c \in Counters, NEW d \in Counters, Value(c) = Value(d)
    PROVE  c = d
<1> USE Sizes
<1>1. PICK v : IsValue(v, c) /\ Value(c) = v[W]  BY ValueIs
<1>2. PICK w : IsValue(w, d) /\ Value(d) = w[W]  BY ValueIs
<1> DEFINE M == {n \in 0 .. W : v[W - n] = w[W - n] /\ \A k \in W - n + 1 .. W : c[k] = d[k]}
<1>3. 0 \in M
  <2>1. W - 0 = W /\ (W + 1 .. W) = {} /\ 0 \in 0 .. W  OBVIOUS
  <2>2. v[W] = w[W]  BY <1>1, <1>2
  <2> QED  BY <2>1, <2>2
<1>4. ASSUME NEW n \in 0 .. W - 1, n \in M  PROVE n + 1 \in M
  <2> DEFINE k == W - n
  <2>1. k \in 1 .. W /\ k - 1 \in 0 .. W /\ k - 1 = W - (n + 1) /\ k = W - (n + 1) + 1
    OBVIOUS
  <2>2. v[k] = w[k] /\ \A i \in k + 1 .. W : c[i] = d[i]  BY <1>4
  <2> HIDE DEF k
  <2>3. v[k] = v[k - 1] * Base + c[k] /\ w[k] = w[k - 1] * Base + d[k]
    BY <1>1, <1>2, <2>1 DEF IsValue
  <2>4. v[k - 1] \in Int /\ w[k - 1] \in Int  BY <1>1, <1>2, <2>1 DEF IsValue
  <2>5. c[k] \in 0 .. Base - 1 /\ d[k] \in 0 .. Base - 1  BY <2>1 DEF Counters
  <2>6. v[k] \in Int  BY <2>3, <2>4, <2>5
  <2>7. v[k] % Base = c[k] /\ v[k] \div Base = v[k - 1]
    BY <2>3, <2>4, <2>5, <2>6, ModUnique, SMTT(40), ZenonT(60)
  <2>8. v[k] % Base = d[k] /\ v[k] \div Base = w[k - 1]
    <3>1. v[k] = w[k - 1] * Base + d[k]  BY <2>2, <2>3
    <3> QED  BY <3>1, <2>4, <2>5, <2>6, ModUnique
  <2>9. c[k] = d[k] /\ v[k - 1] = w[k - 1]  BY <2>7, <2>8
  <2>10. \A i \in k .. W : c[i] = d[i]  BY <2>1, <2>2, <2>9
  <2>11. n + 1 \in 0 .. W  OBVIOUS
  <2> QED  BY <2>1, <2>9, <2>10, <2>11
<1>5. \A n \in 0 .. W : n \in M
  <2> HIDE DEF M
  <2> QED  BY <1>3, <1>4, IntervalInduction
<1>6. W \in M  BY <1>5
<1>7. \A k \in 1 .. W : c[k] = d[k]  BY <1>6
<1> QED  BY <1>7 DEF Counters

\* A remainder times a number.
LEMMA ModTimes ==
    ASSUME NEW x \in Int, NEW m \in Nat \ {0}, NEW b \in Nat \ {0}
    PROVE  (x * b) % (m * b) = (x % m) * b
<1> DEFINE q == x \div m
           r == x % m
           y == x * b
           n == m * b
<1>1. q \in Int /\ r \in 0 .. m - 1 /\ x = q * m + r  BY DivMod
<1> HIDE DEF q, r
<1>2. m * b \in Nat \ {0}
  <2>1. m * b >= 0 * b + b  BY MultiplesApart
  <2> QED  BY <2>1
<1>3. x * b = q * (m * b) + r * b  BY <1>1
<1>4. r * b \in 0 .. m * b - 1
  <2>1. m * b >= r * b + b  BY <1>1, MultiplesApart
  <2>2. r * b \in Nat  BY <1>1
  <2> QED  BY <1>2, <2>1, <2>2
<1> DEFINE s == r * b
<1>5. y \in Int /\ n \in Nat \ {0} /\ s \in 0 .. n - 1 /\ y = q * n + s  BY <1>1, <1>2, <1>3, <1>4
<1> HIDE DEF s, y, n
<1>6. y % n = s  BY <1>1, <1>5, ModUnique
<1> QED  BY <1>6, Zenon DEF s, y, n, r

\* The repeat loop of encrypt adds 1.
LEMMA IncrementAdds ==
    ASSUME NEW c \in Counters
    PROVE  Increment(c) \in Counters /\ Value(Increment(c)) = (Value(c) + 1) % Values
<1> USE Sizes
<1> DEFINE d == Increment(c)
           Full(k) == \A i \in k + 1 .. W : c[i] + 1 = Base
<1>1. \A k \in 1 .. W : d[k] = IF Full(k) THEN (c[k] + 1) % Base ELSE c[k]
  BY DEF Increment
<1>2. d \in Counters
  <2>1. \A k \in 1 .. W : c[k] \in 0 .. Base - 1  BY DEF Counters
  <2>2. \A k \in 1 .. W : (c[k] + 1) % Base \in 0 .. Base - 1
    <3> TAKE k \in 1 .. W
    <3>1. c[k] + 1 \in Int  BY <2>1
    <3> QED  BY <3>1, ModRange
  <2>3. \A k \in 1 .. W : d[k] \in 0 .. Base - 1
    <3> HIDE DEF d, Full
    <3> QED  BY <1>1, <2>1, <2>2
  <2>4. d = [k \in 1 .. W |-> d[k]]  BY DEF Increment
  <2> HIDE DEF d
  <2> QED  BY <2>3, <2>4 DEF Counters
<1> HIDE DEF d
<1>3. PICK v : IsValue(v, c) /\ Value(c) = v[W]  BY ValueIs
<1>4. PICK w : IsValue(w, d) /\ Value(d) = w[W]  BY <1>2, ValueIs
<1>5. PICK p : IsPowers(p) /\ Values = p[W]  BY PowersAre
<1>6. \A k \in 0 .. W : v[k] \in 0 .. p[k] - 1 /\ p[k] \in Nat \ {0}
  <2>1. \A k \in 0 .. W : v[k] \in 0 .. p[k] - 1  BY <1>3, <1>5, ValueBelow
  <2> QED  BY <2>1, <1>5 DEF IsPowers
<1> DEFINE M == {k \in 0 .. W : w[k] = IF Full(k) THEN (v[k] + 1) % p[k] ELSE v[k]}
<1>7. 0 \in M
  <2>1. w[0] = 0 /\ v[0] = 0 /\ p[0] = 1  BY <1>3, <1>4, <1>5 DEF IsValue, IsPowers
  <2>2. (0 + 1) % 1 = 0  OBVIOUS
  <2>3. w[0] = IF Full(0) THEN (v[0] + 1) % p[0] ELSE v[0]
    <3> HIDE DEF Full
    <3> QED  BY <2>1, <2>2
  <2>4. 0 \in 0 .. W  OBVIOUS
  <2> QED  BY <2>3, <2>4
<1>8. ASSUME NEW k \in 0 .. W - 1, k \in M  PROVE k + 1 \in M
  <2> DEFINE l == k + 1
  <2>1. l \in 1 .. W /\ l - 1 = k /\ l \in 0 .. W /\ k \in 0 .. W  OBVIOUS
  <2>2. Full(k) <=> Full(l) /\ c[l] + 1 = Base
    <3>1. k + 1 .. W = {l} \cup (l + 1 .. W)  OBVIOUS
    <3> HIDE DEF l
    <3> QED  BY <3>1
  <2>3. w[k] = IF Full(k) THEN (v[k] + 1) % p[k] ELSE v[k]  BY <1>8
  <2> HIDE DEF l
  <2>4. /\ v[l] = v[k] * Base + c[l] /\ w[l] = w[k] * Base + d[l] /\ p[l] = p[k] * Base
    BY <1>3, <1>4, <1>5, <2>1 DEF IsValue, IsPowers
  <2>5. d[l] = IF Full(l) THEN (c[l] + 1) % Base ELSE c[l]  BY <1>1, <2>1
  <2>6. c[l] \in 0 .. Base - 1  BY <2>1 DEF Counters
  <2> HIDE DEF Full
  <2>7. v[k] \in 0 .. p[k] - 1 /\ p[k] \in Nat \ {0} /\ v[l] \in 0 .. p[l] - 1 /\ p[l] \in Nat \ {0}
    BY <1>6, <2>1
  <2>8. w[l] = IF Full(l) THEN (v[l] + 1) % p[l] ELSE v[l]
    <3>1. CASE ~Full(l)
      <4>1. w[k] = v[k] /\ d[l] = c[l]  BY <2>2, <2>3, <2>5, <3>1
      <4> QED  BY <2>4, <3>1, <4>1
    <3>2. CASE Full(l) /\ c[l] + 1 # Base
      <4>1. w[k] = v[k] /\ d[l] = (c[l] + 1) % Base  BY <2>2, <2>3, <2>5, <3>2
      <4>2. c[l] + 1 \in 0 .. Base - 1  BY <2>6, <3>2
      <4>3. (c[l] + 1) % Base = c[l] + 1  BY <4>2, ModSmall
      <4>4. v[k] * Base \in Int  BY <2>7
      <4>5. w[l] = v[l] + 1  BY <2>4, <2>6, <4>1, <4>3, <4>4
      <4>6. v[k] \in Int /\ p[k] \in Int /\ p[k] > v[k]  BY <2>7
      <4>7. p[k] * Base >= v[k] * Base + Base  BY <4>6, MultiplesApart
      <4>8. p[k] * Base \in Int  BY <2>7
      <4>9. v[l] + 1 \in 0 .. p[l] - 1
        <5> DEFINE x == v[k] * Base
                   z == p[k] * Base
        <5>1. v[l] = x + c[l] /\ p[l] = z /\ x \in Int /\ z \in Int /\ z >= x + Base
          BY <2>4, <4>4, <4>7, <4>8
        <5>2. v[l] \in Nat  BY <2>7
        <5> HIDE DEF x, z
        <5> QED  BY <2>6, <4>2, <5>1, <5>2
      <4>10. (v[l] + 1) % p[l] = v[l] + 1  BY <2>7, <4>9, ModSmall
      <4> QED  BY <3>2, <4>5, <4>10
    <3>3. CASE Full(l) /\ c[l] + 1 = Base
      <4>1. w[k] = (v[k] + 1) % p[k] /\ d[l] = (c[l] + 1) % Base  BY <2>2, <2>3, <2>5, <3>3
      <4>2. (c[l] + 1) % Base = 0
        <5>1. c[l] + 1 = 1 * Base + 0 /\ 0 \in 0 .. Base - 1 /\ c[l] + 1 \in Int  BY <3>3, <2>6
        <5> QED  BY <5>1, ModUnique
      <4> DEFINE y == v[k] + 1
      <4>3. y \in Int  BY <2>7
      <4>4. v[l] + 1 = y * Base  BY <2>4, <2>6, <2>7, <3>3
      <4> HIDE DEF y
      <4>5. (v[l] + 1) % p[l] = (y % p[k]) * Base
        <5> DEFINE m == p[k]
        <5>1. m \in Nat \ {0} /\ Base \in Nat \ {0} /\ p[l] = m * Base  BY <2>4, <2>7
        <5> HIDE DEF m
        <5>2. (y * Base) % (m * Base) = (y % m) * Base  BY <4>3, <5>1, ModTimes, Zenon
        <5> QED  BY <4>4, <5>1, <5>2, Zenon DEF m
      <4>6. w[k] = y % p[k]  BY <4>1 DEF y
      <4>7. (y % p[k]) * Base \in Int
        <5>1. y % p[k] \in 0 .. p[k] - 1  BY <2>7, <4>3, ModRange
        <5> QED  BY <5>1, <2>7
      <4>8. w[l] = w[k] * Base + 0  BY <2>4, <4>1, <4>2
      <4>9. w[l] = (y % p[k]) * Base  BY <4>6, <4>7, <4>8
      <4>10. w[l] = (v[l] + 1) % p[l]  BY <4>5, <4>9
      <4> QED  BY <3>3, <4>10
    <3> QED  BY <3>1, <3>2, <3>3
  <2> QED  BY <2>1, <2>8 DEF l
<1>9. \A k \in 0 .. W : k \in M
  <2> HIDE DEF M
  <2> QED  BY <1>7, <1>8, IntervalInduction
<1>10. W \in 0 .. W /\ Full(W)  OBVIOUS
<1>11. w[W] = (v[W] + 1) % p[W]
  <2> HIDE DEF Full
  <2> QED  BY <1>9, <1>10
<1> QED  BY <1>2, <1>3, <1>4, <1>5, <1>11 DEF d

\* The counter n after c.
LEMMA CounterPlusIs ==
    ASSUME NEW c \in Counters, NEW n, NEW d \in Counters, Value(d) = (Value(c) + n) % Values
    PROVE  CounterPlus(c, n) = d
<1> DEFINE x == CHOOSE e \in Counters : Value(e) = (Value(c) + n) % Values
<1>1. x \in Counters /\ Value(x) = (Value(c) + n) % Values  OBVIOUS
<1>2. CounterPlus(c, n) = x  BY Zenon DEF CounterPlus, Counters
<1> HIDE DEF x
<1>3. x = d  BY <1>1, ValueDiffers
<1> QED  BY <1>2, <1>3

LEMMA CountIs ==
    ASSUME NEW c \in Counters, NEW n \in Nat
    PROVE  /\ Count(c, n) \in Counters
           /\ Value(Count(c, n)) = (Value(c) + n) % Values
           /\ Count(c, n) = CounterPlus(c, n)
<1> DEFINE f[k \in 0 .. n] == IF k = 0 THEN c ELSE Increment(f[k - 1])
           T == [k \in 0 .. n |-> Counters]
           step == [k \in 1 .. n |-> [x \in Counters |-> Increment(x)]]
<1>1. Count(c, n) = f[n]  BY Zenon DEF Count
<1> HIDE DEF f
<1>2. Steps(0, n, Counters, T, c, step)
  <2>1. \A k \in 0 + 1 .. n : step[k] \in [T[k - 1] -> T[k]]
    <3> TAKE k \in 0 + 1 .. n
    <3>1. k \in 1 .. n /\ T[k - 1] = Counters /\ T[k] = Counters  OBVIOUS
    <3>2. \A x \in Counters : Increment(x) \in Counters  BY IncrementAdds
    <3>3. step[k] = [x \in Counters |-> Increment(x)]  BY <3>1
    <3> HIDE DEF step, T
    <3> QED  BY <3>1, <3>2, <3>3
  <2>2. \A k \in 0 .. n : T[k] = Counters  OBVIOUS
  <2> HIDE DEF step, T
  <2>3. 0 <= n => c \in T[0]  BY <2>2
  <2> QED  BY <2>1, <2>2, <2>3 DEF Steps
<1> HIDE DEF T
<1>3. PICK g : Iterates(g, 0, n, Counters, T, c, step)
  <2> HIDE DEF step
  <2> QED  BY <1>2, StepFunction
<1>4. g \in [0 .. n -> Counters]
      /\ \A k \in 0 .. n : g[k] = IF k = 0 THEN c ELSE step[k][g[k - 1]]
  <2> HIDE DEF step
  <2> QED  BY <1>3 DEF Iterates
<1>5. \A k \in 1 .. n : step[k][g[k - 1]] = Increment(g[k - 1])
  <2> TAKE k \in 1 .. n
  <2>1. k - 1 \in 0 .. n  OBVIOUS
  <2>2. g[k - 1] \in Counters  BY <1>4, <2>1
  <2> QED  BY <2>2
<1>6. \A k \in 0 .. n : g[k] = IF k = 0 THEN c ELSE Increment(g[k - 1])
  <2> HIDE DEF step
  <2> TAKE k \in 0 .. n
  <2>1. CASE k = 0  BY <1>4, <2>1
  <2>2. CASE k \in 1 .. n
    <3>1. k # 0  BY <2>2
    <3>2. g[k] = step[k][g[k - 1]]  BY <1>4, <3>1
    <3> QED  BY <1>5, <2>2, <3>1, <3>2
  <2> QED  BY <2>1, <2>2
<1>7. g = [k \in 0 .. n |-> IF k = 0 THEN c ELSE Increment(g[k - 1])]
  <2>1. g = [k \in 0 .. n |-> g[k]]  BY <1>4
  <2> QED  BY <1>6, <2>1
<1>8. f = [k \in 0 .. n |-> IF k = 0 THEN c ELSE Increment(f[k - 1])]  BY <1>7, Zenon DEF f
<1>9. \A k \in 0 .. n : f[k] = IF k = 0 THEN c ELSE Increment(f[k - 1])
  <2>1. \A k \in 0 .. n : [i \in 0 .. n |-> IF i = 0 THEN c ELSE Increment(f[i - 1])][k]
                          = IF k = 0 THEN c ELSE Increment(f[k - 1])
    OBVIOUS
  <2> QED  BY <1>8, <2>1, Zenon
<1> DEFINE M == {k \in 0 .. n : f[k] \in Counters /\ Value(f[k]) = (Value(c) + k) % Values}
<1>10. 0 \in M
  <2>1. f[0] = c  BY <1>9
  <2>2. Values \in Nat \ {0} /\ Value(c) \in 0 .. Values - 1  BY ValueIn
  <2>3. Value(c) % Values = Value(c) /\ Value(c) + 0 = Value(c)  BY <2>2, ModSmall
  <2> QED  BY <2>1, <2>3
<1>11. ASSUME NEW k \in 0 .. n - 1, k \in M  PROVE k + 1 \in M
  <2>1. k + 1 \in 0 .. n /\ (k + 1) - 1 = k /\ k + 1 # 0  OBVIOUS
  <2>2. f[k + 1] = Increment(f[k])  BY <1>9, <2>1
  <2>3. f[k] \in Counters /\ Value(f[k]) = (Value(c) + k) % Values  BY <1>11
  <2>4. f[k + 1] \in Counters /\ Value(f[k + 1]) = (Value(f[k]) + 1) % Values
    BY <2>2, <2>3, IncrementAdds
  <2>5. Values \in Nat \ {0} /\ Value(c) \in 0 .. Values - 1  BY ValueIn
  <2> DEFINE x == Value(c) + k
  <2>6. x \in Int /\ x + 1 = Value(c) + (k + 1)  BY <2>5
  <2> HIDE DEF x
  <2>i. 1 \in Int  OBVIOUS
  <2>7. (x + 1) % Values = ((x % Values) + 1) % Values  BY <2>5, <2>6, <2>i, ModSum, Zenon
  <2>8. Value(f[k]) = x % Values  BY <2>3 DEF x
  <2>9. Value(f[k + 1]) = (Value(c) + (k + 1)) % Values  BY <2>4, <2>6, <2>7, <2>8
  <2> QED  BY <2>1, <2>4, <2>9
<1>12. \A k \in 0 .. n : k \in M
  <2> HIDE DEF M
  <2> QED  BY <1>10, <1>11, IntervalInduction
<1>13. f[n] \in Counters /\ Value(f[n]) = (Value(c) + n) % Values
  <2>1. n \in M  BY <1>12
  <2> QED  BY <2>1
<1>14. f[n] = CounterPlus(c, n)  BY <1>13, CounterPlusIs
<1> QED  BY <1>1, <1>13, <1>14

LEMMA CounterPlusIn ==
    ASSUME NEW c \in Counters, NEW n \in Nat
    PROVE  CounterPlus(c, n) \in Counters /\ Value(CounterPlus(c, n)) = (Value(c) + n) % Values
BY CountIs

LEMMA CounterPlusSum ==
    ASSUME NEW c \in Counters, NEW m \in Nat, NEW n \in Nat
    PROVE  /\ CounterPlus(CounterPlus(c, m), n) = CounterPlus(c, m + n)
           /\ CounterPlus(c, 0) = c
<1> DEFINE d == CounterPlus(c, m)
           e == CounterPlus(d, n)
           x == Value(c) + m
<1>1. Values \in Nat \ {0} /\ Value(c) \in 0 .. Values - 1  BY ValueIn
<1>2. d \in Counters /\ Value(d) = x % Values  BY CounterPlusIn
<1> HIDE DEF d
<1>3. e \in Counters /\ Value(e) = (Value(d) + n) % Values  BY <1>2, CounterPlusIn
<1> HIDE DEF e
<1>4. x \in Int /\ x + n = Value(c) + (m + n)  BY <1>1
<1> HIDE DEF x
<1>i. n \in Int  OBVIOUS
<1>5. (x + n) % Values = ((x % Values) + n) % Values  BY <1>1, <1>4, <1>i, ModSum, Zenon
<1>6. Value(e) = (Value(c) + (m + n)) % Values  BY <1>2, <1>3, <1>4, <1>5
<1>7. CounterPlus(c, m + n) = e  BY <1>3, <1>6, CounterPlusIs
<1>8. CounterPlus(c, 0) = c
  <2>1. Value(c) % Values = Value(c) /\ Value(c) + 0 = Value(c)  BY <1>1, ModSmall
  <2> QED  BY <2>1, CounterPlusIs
<1> QED  BY <1>7, <1>8 DEF d, e

-----------------------------------------------------------------------------
(* AES: what a loop over blocks computes *)

\* The cipher on a block can be undone; nothing else is used of it.
LEMMA Cipher ==
    ASSUME NEW b
    PROVE  Row(aes_encrypt(b), W) /\ aes_decrypt(aes_encrypt(b)) = b
<1> USE Sizes
<1> DEFINE e == aes_encrypt(b)
           x == <<"E", b, 1>>
<1>1. e[1] = {x}  BY DEF aes_encrypt
<1>2. (CHOOSE a \in {x} : TRUE) = x  OBVIOUS
<1>3. x[2] = b  OBVIOUS
<1>4. aes_decrypt(e) = b
  <2> HIDE DEF e, x
  <2> QED  BY <1>1, <1>2, <1>3 DEF aes_decrypt
<1>5. Row(e, W)  BY DEF Row, aes_encrypt
<1> QED  BY <1>4, <1>5

LEMMA XorRow ==
    ASSUME NEW n \in Nat, NEW s, Row(s, n), NEW t
    PROVE  Row(xor(s, t), n) /\ \A i \in 1 .. n : xor(s, t)[i] = SymDiff(s[i], t[i])
<1>1. Len(s) = n  BY RowSeq
<1> QED  BY <1>1 DEF xor, Row

LEMMA XorTwice ==
    ASSUME NEW a, NEW b
    PROVE  SymDiff(SymDiff(a, b), b) = a
BY DEF SymDiff

LEMMA JoinedIs ==
    ASSUME NEW r, NEW n \in Nat
    PROVE  /\ Row(Joined(r, n), n)
           /\ \A j \in Nat \ {0}, t \in 1 .. W :
                 Place(j, t) <= n => Joined(r, n)[Place(j, t)] = r[j][t]
<1>1. Row(Joined(r, n), n)  BY DEF Joined, Row
<1>2. ASSUME NEW j \in Nat \ {0}, NEW t \in 1 .. W, Place(j, t) <= n
      PROVE  Joined(r, n)[Place(j, t)] = r[j][t]
  <2> DEFINE k == Place(j, t)
  <2>1. k \in 1 .. n /\ (k - 1) \div W + 1 = j /\ ((k - 1) % W) + 1 = t
    <3>1. /\ k \in Nat \ {0} /\ (k - 1) \div W + 1 = j /\ ((k - 1) % W) + 1 = t
      BY Places
    <3> HIDE DEF k
    <3>2. k <= n  BY <1>2 DEF k
    <3> QED  BY <3>1, <3>2
  <2>2. Joined(r, n)[k] = r[(k - 1) \div W + 1][((k - 1) % W) + 1]
    <3> HIDE DEF k
    <3>1. k \in 1 .. n  BY <2>1
    <3> QED  BY <3>1, Zenon DEF Joined
  <2> HIDE DEF k
  <2>3. r[(k - 1) \div W + 1][((k - 1) % W) + 1] = r[j][t]  BY <2>1, Zenon
  <2>4. Joined(r, n)[k] = r[j][t]  BY <2>2, <2>3
  <2> QED  BY <2>4 DEF k
<1> QED  BY <1>1, <1>2

\* The passes through a loop, one after the other.
Passing(pass, op, iv, s) ==
    /\ pass[0] = [iv |-> iv, out |-> <<>>]
    /\ \A i \in 1 .. Blocks(s) : pass[i] = Pass(op, pass[i - 1].iv, Block(s, i))
    /\ Chain(op, iv, s) = [iv |-> pass[Blocks(s)].iv,
                           out |-> Joined([i \in 1 .. Blocks(s) |-> pass[i].out], Len(s))]

LEMMA ChainIs ==
    ASSUME NEW op, NEW iv, NEW s, Blocks(s) \in Nat
    PROVE  \E pass : Passing(pass, op, iv, s)
<1> DEFINE a == [iv |-> iv, out |-> <<>>]
           n == Blocks(s)
           Goes(h, m) == h = [i \in 0 .. m |-> IF i = 0 THEN a ELSE Pass(op, h[i - 1].iv, Block(s, i))]
           D == {m \in Nat : \E h : Goes(h, m)}
           pass[i \in 0 .. n] == IF i = 0 THEN a ELSE Pass(op, pass[i - 1].iv, Block(s, i))
<1>1. Chain(op, iv, s) = [iv |-> pass[n].iv, out |-> Joined([i \in 1 .. n |-> pass[i].out], Len(s))]
  BY Zenon DEF Chain
<1> HIDE DEF pass, a, n
<1>2. 0 \in D
  <2>1. Goes([i \in 0 .. 0 |-> a], 0)
    <3>1. \A i \in 0 .. 0 : i = 0  OBVIOUS
    <3> QED  BY <3>1
  <2> HIDE DEF Goes
  <2> QED  BY <2>1
<1>3. ASSUME NEW m \in Nat, m \in D  PROVE m + 1 \in D
  <2>0. PICK h : Goes(h, m)  BY <1>3
  <2> DEFINE b == Pass(op, h[m].iv, Block(s, m + 1))
             g == [i \in 0 .. m + 1 |-> IF i <= m THEN h[i] ELSE b]
  <2>1. \A i \in 0 .. m : h[i] = IF i = 0 THEN a ELSE Pass(op, h[i - 1].iv, Block(s, i))
    <3>1. \A i \in 0 .. m : [l \in 0 .. m |-> IF l = 0 THEN a ELSE Pass(op, h[l - 1].iv, Block(s, l))][i]
                            = IF i = 0 THEN a ELSE Pass(op, h[i - 1].iv, Block(s, i))
      OBVIOUS
    <3> QED  BY <2>0, <3>1, Zenon
  <2>2. /\ \A i \in 0 .. m : g[i] = h[i]
        /\ g[m + 1] = b /\ g = [i \in 0 .. m + 1 |-> g[i]]
    <3> HIDE DEF b
    <3> QED  OBVIOUS
  <2> HIDE DEF g
  <2>3. ASSUME NEW i \in 0 .. m + 1
        PROVE  g[i] = IF i = 0 THEN a ELSE Pass(op, g[i - 1].iv, Block(s, i))
    <3>1. CASE i = 0
      <4>1. 0 \in 0 .. m  OBVIOUS
      <4>2. g[0] = h[0] /\ h[0] = a  BY <2>1, <2>2, <4>1
      <4> QED  BY <3>1, <4>2
    <3>2. CASE i \in 1 .. m
      <4>1. i \in 0 .. m /\ i - 1 \in 0 .. m /\ i # 0  BY <3>2
      <4>2. g[i] = h[i] /\ g[i - 1] = h[i - 1]  BY <2>2, <4>1
      <4>3. h[i] = Pass(op, h[i - 1].iv, Block(s, i))  BY <2>1, <4>1
      <4> QED  BY <4>1, <4>2, <4>3
    <3>3. CASE i = m + 1
      <4>1. i - 1 = m /\ m \in 0 .. m /\ i # 0  BY <3>3
      <4>2. g[i] = b /\ g[i - 1] = h[m]  BY <2>2, <3>3, <4>1
      <4> QED  BY <3>3, <4>1, <4>2
    <3>4. i = 0 \/ i \in 1 .. m \/ i = m + 1  OBVIOUS
    <3> QED  BY <3>1, <3>2, <3>3, <3>4
  <2>4. Goes(g, m + 1)  BY <2>2, <2>3
  <2>5. m + 1 \in Nat  OBVIOUS
  <2> HIDE DEF Goes
  <2> QED  BY <2>4, <2>5
<1>4. n \in D
  <2>1. n \in Nat  BY DEF n
  <2> HIDE DEF D
  <2> QED  BY <1>2, <1>3, <2>1, SetInduction
<1>5. PICK h : Goes(h, n)  BY <1>4
<1>6. pass = [i \in 0 .. n |-> IF i = 0 THEN a ELSE Pass(op, pass[i - 1].iv, Block(s, i))]
  BY <1>5, Zenon DEF pass
<1>7. \A i \in 0 .. n : pass[i] = IF i = 0 THEN a ELSE Pass(op, pass[i - 1].iv, Block(s, i))
  <2>1. \A i \in 0 .. n : [l \in 0 .. n |-> IF l = 0 THEN a ELSE Pass(op, pass[l - 1].iv, Block(s, l))][i]
                          = IF i = 0 THEN a ELSE Pass(op, pass[i - 1].iv, Block(s, i))
    OBVIOUS
  <2> QED  BY <1>6, <2>1, Zenon
<1>8. 0 \in 0 .. n /\ \A i \in 1 .. n : i \in 0 .. n /\ i # 0
  <2>1. n \in Nat  BY DEF n
  <2> QED  BY <2>1
<1>9. pass[0] = a /\ \A i \in 1 .. n : pass[i] = Pass(op, pass[i - 1].iv, Block(s, i))
  BY <1>7, <1>8
<1>10. Passing(pass, op, iv, s)  BY <1>1, <1>9, Zenon DEF Passing, a, n
<1> QED  BY <1>10

\* What the loop returns, byte by byte.
LEMMA ChainOut ==
    ASSUME NEW op, NEW iv, NEW k \in Nat, NEW s, Row(s, k), NEW pass, Passing(pass, op, iv, s)
    PROVE  LET r == Chain(op, iv, s)
           IN  /\ Row(r.out, k) /\ r.iv = pass[Blocks(s)].iv
               /\ \A j \in Nat \ {0}, t \in 1 .. W :
                     Place(j, t) <= k => r.out[Place(j, t)] = pass[j].out[t]
<1> DEFINE n == Blocks(s)
           f == [i \in 1 .. n |-> pass[i].out]
           r == Chain(op, iv, s)
<1>1. Len(s) = k  BY RowSeq
<1>2. r = [iv |-> pass[n].iv, out |-> Joined(f, Len(s))]  BY Zenon DEF Passing
<1>3. r.iv = pass[n].iv /\ r.out = Joined(f, k)
  <2> HIDE DEF r, f, n
  <2> QED  BY <1>1, <1>2
<1> HIDE DEF r
<1>4. ASSUME NEW j \in Nat \ {0}, NEW t \in 1 .. W, Place(j, t) <= k
      PROVE  r.out[Place(j, t)] = pass[j].out[t]
  <2>1. j \in 1 .. n  BY <1>4, BlocksOf
  <2>2. f[j] = pass[j].out
    <3> HIDE DEF n
    <3> QED  BY <2>1
  <2> HIDE DEF f, n
  <2>3. Joined(f, k)[Place(j, t)] = f[j][t]  BY <1>4, JoinedIs
  <2> QED  BY <1>3, <2>2, <2>3
<1>5. Row(r.out, k)
  <2> HIDE DEF f
  <2> QED  BY <1>3, JoinedIs
<1> QED  BY <1>3, <1>4, <1>5 DEF r, n

-----------------------------------------------------------------------------
(* AES: what encrypt makes of a text *)

\* The IV after j blocks of a ciphertext c that began with v: in CBC and CFB it
\* is the block before.
Prev(v, c, j) == IF j = 0 THEN v ELSE Cell(c, j)
IVAfter(md, v, c, j) ==
    IF md = "ECB" THEN v ELSE IF md = "CTR" THEN CounterPlus(v, j) ELSE Prev(v, c, j)

\* The byte that the t-th byte of the m-th block of a text becomes, when g blocks
\* of ciphertext came before the text.
CipherByte(md, v, c, text, g, m, t) ==
    IF md = "ECB" THEN aes_encrypt(Cell(text, m))[t]
    ELSE IF md \in {"CBC", "CBC padded"}
    THEN aes_encrypt(xor(Cell(text, m), IVAfter(md, v, c, (g + m) - 1)))[t]
    ELSE SymDiff(text[Place(m, t)], aes_encrypt(IVAfter(md, v, c, (g + m) - 1))[t])

\* k bytes of c behind its first g blocks are the ciphertext of a text.
EncryptedAs(md, v, c, text, g, k) ==
    \A m \in Nat \ {0}, t \in 1 .. W :
        Place(m, t) <= k => c[g * W + Place(m, t)] = CipherByte(md, v, c, text, g, m, t)

GoodIV(md, v) == IF md = "CTR" THEN v \in Counters ELSE Row(v, W)
Shaped(md, k) == md \in {"ECB", "CBC", "CBC padded"} => k % W = 0

\* The IV of a pass is what the blocks before it say.
LEMMA EncryptIV ==
    ASSUME mode \in Modes, mode # "CTR", NEW iv, NEW k \in Nat, NEW s, Row(s, k),
           Shaped(mode, k), NEW pass, Passing(pass, "encrypt", iv, s)
    PROVE  LET out == Chain("encrypt", iv, s).out
           IN  \A j \in 0 .. Blocks(s) : j * W <= k => pass[j].iv = IVAfter(mode, iv, out, j)
<1> USE Sizes
<1> DEFINE out == Chain("encrypt", iv, s).out
           n == Blocks(s)
           M == {j \in 0 .. n : j * W <= k => pass[j].iv = IVAfter(mode, iv, out, j)}
<1>0. n \in Nat  BY BlocksOf
<1>1. 0 \in M
  <2>1. pass[0].iv = iv  BY DEF Passing
  <2>2. IVAfter(mode, iv, out, 0) = iv  BY DEF IVAfter, Prev
  <2> QED  BY <1>0, <2>1, <2>2
<1>2. \A j \in Nat \ {0}, t \in 1 .. W : Place(j, t) <= k => out[Place(j, t)] = pass[j].out[t]
  <2> HIDE DEF M, n, out
  <2>1. \A j \in Nat \ {0}, t \in 1 .. W :
           Place(j, t) <= k => Chain("encrypt", iv, s).out[Place(j, t)] = pass[j].out[t]
    BY ChainOut
  <2> QED  BY <2>1 DEF out
<1> HIDE DEF out
<1>3. ASSUME NEW i \in 0 .. n - 1, i \in M  PROVE i + 1 \in M
  <2> DEFINE j == i + 1
  <2>1. j \in 1 .. n /\ j - 1 = i /\ j \in Nat \ {0} /\ j # 0 /\ j \in 0 .. n  BY <1>0
  <2> HIDE DEF j
  <2> SUFFICES ASSUME j * W <= k  PROVE pass[j].iv = IVAfter(mode, iv, out, j)
    BY <2>1 DEF j
  <2>2. pass[j] = Pass("encrypt", pass[i].iv, Block(s, j))  BY <2>1 DEF Passing
  <2>3. i * W <= k /\ (j - 1) * W < k
    <3>1. j * W >= i * W + W  BY <1>0, <2>1, MultiplesApart
    <3>2. j * W \in Int /\ i * W \in Int  BY <2>1, <1>0
    <3>3. (j - 1) * W = i * W  BY <2>1
    <3> DEFINE x == i * W
               y == j * W
               z == (j - 1) * W
    <3>4. y >= x + W /\ y \in Int /\ x \in Int /\ y <= k /\ z = x  BY <3>1, <3>2, <3>3
    <3> HIDE DEF x, y, z
    <3>5. x <= k /\ z < k  BY <3>4
    <3> QED  BY <3>5 DEF x, z
  <2>4. pass[i].iv = IVAfter(mode, iv, out, i)  BY <1>3, <2>3
  <2>5. CASE mode = "ECB"
    <3>1. pass[j].iv = pass[i].iv
      <4> DEFINE e == aes_encrypt(Block(s, j))
      <4>1. pass[j] = [iv |-> pass[i].iv, out |-> e]
        BY <2>2, <2>5, Zenon DEF Pass, AESencryptECB
      <4> HIDE DEF e
      <4> QED  BY <4>1
    <3> QED  BY <2>4, <2>5, <3>1 DEF IVAfter
  <2>6. CASE mode # "ECB"
    <3>0. mode \in {"CBC", "CBC padded"} \/ mode = "CFB"  BY <2>6 DEF Modes
    <3>1. pass[j].iv = pass[j].out /\ Row(pass[j].out, W)
      <4>1. CASE mode \in {"CBC", "CBC padded"}
        <5> DEFINE e == aes_encrypt(xor(Block(s, j), pass[i].iv))
        <5>1. mode # "ECB"  BY <4>1
        <5>2. Pass("encrypt", pass[i].iv, Block(s, j)) = encrypt_CBC(pass[i].iv, Block(s, j))
          BY <4>1, <5>1, Zenon DEF Pass
        <5>3. pass[j] = [iv |-> e, out |-> e]  BY <2>2, <5>2, Zenon DEF encrypt_CBC
        <5>4. Row(e, W)  BY Cipher
        <5> HIDE DEF e
        <5> QED  BY <5>3, <5>4
      <4>2. CASE mode = "CFB"
        <5> DEFINE e == xor(Block(s, j), aes_encrypt(pass[i].iv))
        <5>2. Pass("encrypt", pass[i].iv, Block(s, j)) = encrypt_CFB(pass[i].iv, Block(s, j))
          <6>1. /\ mode # "ECB" /\ mode \notin {"CBC", "CBC padded"} /\ "encrypt" # "decrypt"
            BY <4>2
          <6> QED  BY <4>2, <6>1, Zenon DEF Pass
        <5>3. pass[j] = [iv |-> e, out |-> e]  BY <2>2, <5>2, Zenon DEF encrypt_CFB
        <5>4. Row(Block(s, j), W)
          <6>1. Row(Block(s, j), IF j * W <= k THEN W ELSE k - (j - 1) * W)
            BY <2>1, <2>3, BlockIs
          <6> QED  BY <6>1
        <5>5. Row(e, W)  BY <5>4, XorRow
        <5> HIDE DEF e
        <5> QED  BY <5>3, <5>5
      <4> QED  BY <3>0, <4>1, <4>2
    <3>2. Row(Cell(out, j), W)  BY DEF Cell, Row
    <3>3. \A t \in 1 .. W : Cell(out, j)[t] = pass[j].out[t]
      <4> TAKE t \in 1 .. W
      <4>1. Place(j, t) <= k
        <5>1. Place(j, t) <= j * W /\ Place(j, t) \in Nat  BY <2>1, Places
        <5>2. j * W \in Int  BY <2>1
        <5> QED  BY <5>1, <5>2
      <4>2. out[Place(j, t)] = pass[j].out[t]  BY <1>2, <2>1, <4>1
      <4> QED  BY <4>2 DEF Cell
    <3>4. Cell(out, j) = pass[j].out  BY <3>1, <3>2, <3>3, RowEqual
    <3>5. IVAfter(mode, iv, out, j) = Cell(out, j)  BY <2>1, <2>6 DEF IVAfter, Prev
    <3> QED  BY <3>1, <3>4, <3>5
  <2> QED  BY <2>5, <2>6
<1>4. \A j \in 0 .. n : j \in M
  <2> HIDE DEF M, n
  <2> QED  BY <1>0, <1>1, <1>3, IntervalInduction
<1> QED  BY <1>4 DEF out

LEMMA EncryptChain ==
    ASSUME mode \in Modes, mode # "CTR", NEW iv, NEW k \in Nat, NEW s, Row(s, k),
           Shaped(mode, k)
    PROVE  LET r == Chain("encrypt", iv, s)
           IN  /\ Row(r.out, k) /\ EncryptedAs(mode, iv, r.out, s, 0, k)
               /\ k % W = 0 => r.iv = IVAfter(mode, iv, r.out, k \div W)
<1> USE Sizes
<1> DEFINE n == Blocks(s)
           r == Chain("encrypt", iv, s)
           out == r.out
<1>0. n \in Nat  BY BlocksOf
<1>1. PICK pass : Passing(pass, "encrypt", iv, s)  BY <1>0, ChainIs
<1>2. /\ Row(out, k) /\ r.iv = pass[n].iv
      /\ \A j \in Nat \ {0}, t \in 1 .. W : Place(j, t) <= k => out[Place(j, t)] = pass[j].out[t]
  BY <1>1, ChainOut
<1>3. \A j \in 0 .. n : j * W <= k => pass[j].iv = IVAfter(mode, iv, out, j)
  BY <1>1, EncryptIV
<1>4. k % W = 0 => n = k \div W /\ n * W <= k
  BY BlocksOf
<1>5. ASSUME k % W = 0 PROVE r.iv = IVAfter(mode, iv, out, k \div W)
  <2> HIDE DEF r, out, n
  <2>1. n \in 0 .. n  BY <1>0
  <2> QED  BY <1>2, <1>3, <1>4, <1>5, <2>1
<1>6. ASSUME NEW m \in Nat \ {0}, NEW t \in 1 .. W, Place(m, t) <= k
      PROVE  out[0 * W + Place(m, t)] = CipherByte(mode, iv, out, s, 0, m, t)
  <2> HIDE DEF r, out
  <2>1. m \in 1 .. n  BY <1>6, BlocksOf
  <2>2. (m - 1) * W < k /\ (m - 1) * W \in Nat
    <3>1. Place(m, t) = (m - 1) * W + t /\ (m - 1) * W \in Nat  BY Places
    <3> DEFINE x == (m - 1) * W
    <3>2. x + t <= k /\ x \in Nat  BY <1>6, <3>1
    <3> HIDE DEF x
    <3>3. x < k  BY <3>2
    <3> QED  BY <3>1, <3>3 DEF x
  <2> HIDE DEF n
  <2>3. m - 1 \in 0 .. n /\ (0 + m) - 1 = m - 1  BY <1>0, <2>1
  <2> DEFINE v == pass[m - 1].iv
             b == Block(s, m)
  <2>4. v = IVAfter(mode, iv, out, (0 + m) - 1)
    <3>1. (m - 1) * W <= k  BY <2>2
    <3> QED  BY <1>3, <2>3, <3>1
  <2>5. pass[m] = Pass("encrypt", v, b)  BY <1>1, <2>1 DEF Passing, n
  <2>6. out[Place(m, t)] = pass[m].out[t]  BY <1>2, <1>6
  <2>7. 0 * W + Place(m, t) = Place(m, t)
    <3>1. Place(m, t) \in Nat  BY Places
    <3> QED  BY <3>1
  <2>8. b[t] = s[Place(m, t)]  BY <1>6, <2>2, BlockIs
  <2>9. k % W = 0 => b = Cell(s, m)
    <3> SUFFICES ASSUME k % W = 0 PROVE b = Cell(s, m)  OBVIOUS
    <3>1. m * W <= k  BY <2>1, BlocksOf DEF n
    <3> QED  BY <3>1, <2>2, BlockIs
  <2> HIDE DEF v
  <2>10. CASE mode = "ECB"
    <3>1. pass[m].out = aes_encrypt(b)
      <4>1. pass[m] = [iv |-> v, out |-> aes_encrypt(b)]
        BY <2>5, <2>10, Zenon DEF Pass, AESencryptECB
      <4> QED  BY <4>1
    <3>2. b = Cell(s, m)  BY <2>9, <2>10 DEF Shaped
    <3> HIDE DEF b
    <3> QED  BY <2>6, <2>7, <2>10, <3>1, <3>2 DEF CipherByte
  <2>11. CASE mode \in {"CBC", "CBC padded"}
    <3> DEFINE e == aes_encrypt(xor(b, v))
    <3>0. mode # "ECB" BY <2>11
    <3>1. pass[m].out = e
      <4>1. Pass("encrypt", v, b) = encrypt_CBC(v, b)  BY <2>11, <3>0, Zenon DEF Pass
      <4>2. pass[m] = [iv |-> e, out |-> e]  BY <2>5, <4>1, Zenon DEF encrypt_CBC
      <4> HIDE DEF e
      <4> QED  BY <4>2
    <3>2. b = Cell(s, m)  BY <2>9, <2>11 DEF Shaped
    <3> HIDE DEF b
    <3>3. CipherByte(mode, iv, out, s, 0, m, t) = aes_encrypt(xor(Cell(s, m), v))[t]
      BY <2>4, <2>11, <3>0 DEF CipherByte
    <3> QED  BY <2>6, <2>7, <3>1, <3>2, <3>3
  <2>12. CASE mode = "CFB"
    <3> DEFINE e == xor(b, aes_encrypt(v))
    <3>0. mode # "ECB" /\ mode \notin {"CBC", "CBC padded"} /\ "encrypt" # "decrypt"  BY <2>12
    <3>1. pass[m].out = e
      <4>1. Pass("encrypt", v, b) = encrypt_CFB(v, b)  BY <2>12, <3>0, Zenon DEF Pass
      <4>2. pass[m] = [iv |-> e, out |-> e]  BY <2>5, <4>1, Zenon DEF encrypt_CFB
      <4> HIDE DEF e
      <4> QED  BY <4>2
    <3>2. e[t] = SymDiff(b[t], aes_encrypt(v)[t])
      <4> DEFINE x == (m - 1) * W
                 y == m * W
                 l == IF y <= k THEN W ELSE k - x
      <4>1. Row(b, l) /\ l \in 1 .. W  BY <2>2, BlockIs
      <4>2. t \in 1 .. l
        <5>1. Place(m, t) = x + t /\ x \in Nat  BY Places
        <5>2. x + t <= k  BY <1>6, <5>1
        <5> HIDE DEF x, y
        <5> QED  BY <5>1, <5>2
      <4> HIDE DEF l, b
      <4>3. l \in Nat  BY <4>1
      <4> QED  BY <4>1, <4>2, <4>3, XorRow
    <3> HIDE DEF b, e
    <3>3. CipherByte(mode, iv, out, s, 0, m, t) = SymDiff(s[Place(m, t)], aes_encrypt(v)[t])
      BY <2>4, <3>0 DEF CipherByte
    <3> QED  BY <2>6, <2>7, <2>8, <3>1, <3>2, <3>3
  <2> QED  BY <2>10, <2>11, <2>12 DEF Modes
<1>7. EncryptedAs(mode, iv, out, s, 0, k)
  <2> HIDE DEF r, out
  <2> QED  BY <1>6 DEF EncryptedAs
<1> QED  BY <1>2, <1>5, <1>7

\* CTR masks a text with the cipher of the counters, in either direction.
LEMMA KeyStream ==
    ASSUME NEW iv \in Counters, NEW k \in Nat \ {0}, NEW s, Row(s, k)
    PROVE  LET r == encrypt_CTR(iv, s)
           IN  /\ Row(r.out, k) /\ r.iv = CounterPlus(iv, Blocks(s))
               /\ Passes(s) = Blocks(s) /\ Blocks(s) \in Nat
               /\ \A m \in Nat \ {0}, t \in 1 .. W :
                     Place(m, t) <= k =>
                        r.out[Place(m, t)] =
                           SymDiff(s[Place(m, t)], aes_encrypt(CounterPlus(iv, m - 1))[t])
<1> USE Sizes
<1> DEFINE n == Blocks(s)
           f == [i \in 1 .. Passes(s) |-> aes_encrypt(Count(iv, i - 1))]
           keys == Joined(f, Len(s))
           r == encrypt_CTR(iv, s)
<1>1. Len(s) = k /\ n \in Nat  BY RowSeq, BlocksOf
<1>2. n # 0
  <2>1. 1 \in 1 .. W /\ 1 \in Nat \ {0}  OBVIOUS
  <2>2. Place(1, 1) = (1 - 1) * W + 1  BY DEF Place
  <2>3. (1 - 1) * W = 0  OBVIOUS
  <2>4. Place(1, 1) <= k  BY <2>2, <2>3
  <2>5. 1 \in 1 .. n  BY <2>1, <2>4, BlocksOf
  <2> HIDE DEF n
  <2> QED  BY <1>1, <2>5
<1>3. Passes(s) = n  BY <1>2 DEF Passes
<1>4. r = [iv |-> Count(iv, Passes(s)), out |-> xor(s, keys)]  BY Zenon DEF encrypt_CTR
<1>5. r.iv = CounterPlus(iv, n) /\ r.out = xor(s, keys)
  <2>1. Count(iv, n) = CounterPlus(iv, n)  BY <1>1, CountIs
  <2> HIDE DEF r, keys, n
  <2> QED  BY <1>3, <1>4, <2>1
<1> HIDE DEF r
<1>6. Row(r.out, k) /\ \A i \in 1 .. k : r.out[i] = SymDiff(s[i], keys[i])
  <2> HIDE DEF keys
  <2>1. k \in Nat  OBVIOUS
  <2> QED  BY <1>5, <2>1, XorRow
<1>7. ASSUME NEW m \in Nat \ {0}, NEW t \in 1 .. W, Place(m, t) <= k
      PROVE  r.out[Place(m, t)] =
                SymDiff(s[Place(m, t)], aes_encrypt(CounterPlus(iv, m - 1))[t])
  <2>1. m \in 1 .. n /\ m - 1 \in Nat
    <3>1. m \in 1 .. n  BY <1>7, BlocksOf
    <3> QED  BY <3>1
  <2>2. f[m] = aes_encrypt(CounterPlus(iv, m - 1))
    <3>1. Count(iv, m - 1) = CounterPlus(iv, m - 1)  BY <2>1, CountIs
    <3>2. m \in 1 .. Passes(s)  BY <1>3, <2>1
    <3>3. f[m] = aes_encrypt(Count(iv, m - 1))
      <4> HIDE DEF n
      <4> QED  BY <3>2
    <3> QED  BY <3>1, <3>3
  <2>3. keys[Place(m, t)] = f[m][t]
    <3> HIDE DEF f
    <3>1. k \in Nat  OBVIOUS
    <3> QED  BY <1>1, <1>7, <3>1, JoinedIs
  <2>4. Place(m, t) \in 1 .. k
    <3>1. Place(m, t) \in Nat \ {0}  BY Places
    <3> QED  BY <1>7, <3>1
  <2> HIDE DEF f, keys
  <2> QED  BY <1>6, <2>2, <2>3, <2>4
<1> QED  BY <1>1, <1>3, <1>5, <1>6, <1>7 DEF r, n

LEMMA EncryptStream ==
    ASSUME mode = "CTR", NEW iv \in Counters, NEW k \in Nat \ {0}, NEW s, Row(s, k)
    PROVE  LET r == encrypt_CTR(iv, s)
           IN  /\ Row(r.out, k) /\ EncryptedAs(mode, iv, r.out, s, 0, k)
               /\ k % W = 0 => r.iv = IVAfter(mode, iv, r.out, k \div W)
<1> USE Sizes
<1> DEFINE r == encrypt_CTR(iv, s)
           out == r.out
<1>1. /\ Row(out, k) /\ r.iv = CounterPlus(iv, Blocks(s))
      /\ \A m \in Nat \ {0}, t \in 1 .. W :
            Place(m, t) <= k =>
               out[Place(m, t)] = SymDiff(s[Place(m, t)], aes_encrypt(CounterPlus(iv, m - 1))[t])
  BY KeyStream
<1>2. k % W = 0 => Blocks(s) = k \div W
  <2>1. k \in Nat  OBVIOUS
  <2> QED  BY <2>1, BlocksOf
<1>m. mode # "ECB" /\ mode \notin {"CBC", "CBC padded"} /\ mode = "CTR"  OBVIOUS
<1> HIDE DEF r, out
<1>3. k % W = 0 => r.iv = IVAfter(mode, iv, out, k \div W)  BY <1>1, <1>2, <1>m DEF IVAfter
<1>4. ASSUME NEW m \in Nat \ {0}, NEW t \in 1 .. W, Place(m, t) <= k
      PROVE  out[0 * W + Place(m, t)] = CipherByte(mode, iv, out, s, 0, m, t)
  <2>1. 0 * W + Place(m, t) = Place(m, t)
    <3>1. Place(m, t) \in Nat  BY Places
    <3> QED  BY <3>1
  <2>2. (0 + m) - 1 = m - 1  OBVIOUS
  <2>3. CipherByte(mode, iv, out, s, 0, m, t)
        = SymDiff(s[Place(m, t)], aes_encrypt(CounterPlus(iv, m - 1))[t])
    BY <1>m, <2>2 DEF CipherByte, IVAfter
  <2> QED  BY <1>1, <1>4, <2>1, <2>3
<1>5. EncryptedAs(mode, iv, out, s, 0, k)  BY <1>4 DEF EncryptedAs
<1> QED  BY <1>1, <1>3, <1>5 DEF r, out

\* A ciphertext that goes on behind whole blocks: d is the g blocks of c and k
\* bytes out, in each of which the IVs are as in the parts.
Continues(md, v, c, g, d, iv, out, k) ==
    /\ \A j \in 0 .. g : IVAfter(md, v, d, j) = IVAfter(md, v, c, j)
    /\ \A j \in Nat : j * W <= k => IVAfter(md, v, d, g + j) = IVAfter(md, iv, out, j)
    /\ g * W \in Nat
    /\ Joins(d, c, g * W, out, k)

LEMMA IVGoesOn ==
    ASSUME NEW md, NEW v, GoodIV(md, v), NEW g \in Nat, NEW c, Row(c, g * W),
           NEW k \in Nat, NEW out, Row(out, k)
    PROVE  Continues(md, v, c, g, c \o out, IVAfter(md, v, c, g), out, k)
<1> USE Sizes
<1> DEFINE d == c \o out
           iv == IVAfter(md, v, c, g)
<1>0. g * W \in Nat
  <2>1. 1 \in 1 .. W /\ 1 \in Nat \ {0}  OBVIOUS
  <2> QED  BY <2>1, BeforeOrAfter
<1>j. Joins(d, c, g * W, out, k)  BY <1>0, RowConcat, Zenon
<1> HIDE DEF d
<1>1. (\A i \in 1 .. g * W : d[i] = c[i]) /\ (\A i \in 1 .. k : d[g * W + i] = out[i])
  BY <1>j, Zenon DEF Joins
<1>2. ASSUME NEW j \in 0 .. g PROVE Prev(v, d, j) = Prev(v, c, j)
  <2>1. CASE j = 0  BY <2>1 DEF Prev
  <2>2. CASE j # 0
    <3>1. j \in Nat \ {0} /\ j <= g  BY <2>2
    <3>2. \A t \in 1 .. W : d[Place(j, t)] = c[Place(j, t)]
      <4> TAKE t \in 1 .. W
      <4>1. Place(j, t) \in Nat \ {0} /\ Place(j, t) <= g * W  BY <3>1, Places, BeforeOrAfter
      <4>2. Place(j, t) \in 1 .. g * W  BY <1>0, <4>1
      <4> QED  BY <1>1, <4>2
    <3>3. Cell(d, j) = Cell(c, j)  BY <3>2 DEF Cell
    <3> QED  BY <2>2, <3>3 DEF Prev
  <2> QED  BY <2>1, <2>2
<1>3. \A j \in 0 .. g : IVAfter(md, v, d, j) = IVAfter(md, v, c, j)  BY <1>2 DEF IVAfter
<1>4. ASSUME NEW j \in Nat, j * W <= k
      PROVE  IVAfter(md, v, d, g + j) = IVAfter(md, iv, out, j)
  <2>1. CASE md = "ECB"  BY <2>1 DEF IVAfter
  <2>2. CASE md = "CTR"
    <3>1. v \in Counters /\ iv = CounterPlus(v, g)  BY <2>2 DEF GoodIV, IVAfter
    <3>2. CounterPlus(CounterPlus(v, g), j) = CounterPlus(v, g + j)  BY <3>1, CounterPlusSum
    <3>3. "CTR" # "ECB"  OBVIOUS
    <3> QED  BY <2>2, <3>1, <3>2, <3>3 DEF IVAfter
  <2>3. CASE md # "ECB" /\ md # "CTR" /\ j = 0
    <3>1. g + 0 = g /\ g \in 0 .. g  OBVIOUS
    <3>2. IVAfter(md, v, d, g) = iv  BY <1>3, <3>1
    <3> HIDE DEF iv
    <3>3. IVAfter(md, iv, out, 0) = iv  BY <2>3 DEF IVAfter, Prev
    <3> QED  BY <2>3, <3>1, <3>2, <3>3
  <2>4. CASE md # "ECB" /\ md # "CTR" /\ j # 0
    <3>1. j \in Nat \ {0} /\ g + j # 0  BY <2>4
    <3>2. \A t \in 1 .. W : d[Place(g + j, t)] = out[Place(j, t)]
      <4> TAKE t \in 1 .. W
      <4>1. Place(g + j, t) = g * W + Place(j, t)  BY <3>1, PlaceShift
      <4>2. Place(j, t) \in Nat \ {0} /\ Place(j, t) <= j * W  BY <3>1, Places
      <4>3. j * W \in Int  OBVIOUS
      <4>4. Place(j, t) \in 1 .. k  BY <1>4, <4>2, <4>3
      <4> QED  BY <1>1, <4>1, <4>4
    <3>3. Cell(d, g + j) = Cell(out, j)  BY <3>2 DEF Cell
    <3> QED  BY <2>4, <3>1, <3>3 DEF IVAfter, Prev
  <2> QED  BY <2>1, <2>2, <2>3, <2>4
<1> QED  BY <1>0, <1>j, <1>3, <1>4, Zenon DEF d, iv, Continues

LEMMA CipherGoesOn ==
    ASSUME NEW md, NEW v, GoodIV(md, v), NEW g \in Nat, NEW c, Row(c, g * W),
           NEW k \in Nat, NEW out, Row(out, k)
    PROVE  /\ \A s : EncryptedAs(md, IVAfter(md, v, c, g), out, s, 0, k)
                       => EncryptedAs(md, v, c \o out, s, g, k)
           /\ \A s : \A h, l \in Nat :
                 EncryptedAs(md, v, c, s, h, l) /\ h * W + l <= g * W
                    => EncryptedAs(md, v, c \o out, s, h, l)
<1> USE Sizes
<1> DEFINE d == c \o out
           iv == IVAfter(md, v, c, g)
<1>1. /\ \A j \in 0 .. g : IVAfter(md, v, d, j) = IVAfter(md, v, c, j)
      /\ \A j \in Nat : j * W <= k => IVAfter(md, v, d, g + j) = IVAfter(md, iv, out, j)
      /\ g * W \in Nat
      /\ \A i \in 1 .. g * W : d[i] = c[i]
      /\ \A i \in 1 .. k : d[g * W + i] = out[i]
  <2>1. Continues(md, v, c, g, d, iv, out, k)  BY IVGoesOn, Zenon
  <2> HIDE DEF d, iv
  <2> QED  BY <2>1, Zenon DEF Continues, Joins
<1> HIDE DEF d, iv
<1>2. ASSUME NEW s, EncryptedAs(md, iv, out, s, 0, k), NEW m \in Nat \ {0}, NEW t \in 1 .. W,
             Place(m, t) <= k
      PROVE  d[g * W + Place(m, t)] = CipherByte(md, v, d, s, g, m, t)
  <2>1. Place(m, t) \in Nat \ {0} /\ Place(m, t) = (m - 1) * W + t /\ (m - 1) * W \in Nat
    BY Places
  <2>2. Place(m, t) \in 1 .. k /\ (m - 1) * W <= k
    <3> DEFINE x == (m - 1) * W
               p == Place(m, t)
    <3>1. p \in Nat \ {0} /\ p = x + t /\ x \in Nat /\ p <= k  BY <1>2, <2>1
    <3> HIDE DEF x, p
    <3>2. p \in 1 .. k /\ x <= k  BY <3>1
    <3> QED  BY <3>2 DEF x, p
  <2>3. d[g * W + Place(m, t)] = out[Place(m, t)]  BY <1>1, <2>2
  <2>4. out[Place(m, t)] = CipherByte(md, iv, out, s, 0, m, t)
    <3>1. 0 * W + Place(m, t) = Place(m, t)  BY <2>1
    <3> QED  BY <1>2, <3>1 DEF EncryptedAs
  <2>5. IVAfter(md, v, d, (g + m) - 1) = IVAfter(md, iv, out, (0 + m) - 1)
    <3>1. m - 1 \in Nat /\ g + (m - 1) = (g + m) - 1 /\ (0 + m) - 1 = m - 1  OBVIOUS
    <3>2. IVAfter(md, v, d, g + (m - 1)) = IVAfter(md, iv, out, m - 1)  BY <1>1, <2>2, <3>1
    <3> QED  BY <3>1, <3>2
  <2> QED  BY <2>3, <2>4, <2>5 DEF CipherByte
<1>3. ASSUME NEW s, NEW h \in Nat, NEW l \in Nat, EncryptedAs(md, v, c, s, h, l),
             h * W + l <= g * W, NEW m \in Nat \ {0}, NEW t \in 1 .. W, Place(m, t) <= l
      PROVE  d[h * W + Place(m, t)] = CipherByte(md, v, d, s, h, m, t)
  <2>1. h * W \in Nat /\ Place(h + m, t) = h * W + Place(m, t) /\ h + m \in Nat \ {0}
    BY PlaceShift
  <2>2. Place(m, t) \in Nat \ {0} /\ Place(h + m, t) \in Nat \ {0}  BY <2>1, Places
  <2>3. Place(h + m, t) <= g * W
    <3> DEFINE x == h * W
               y == g * W
               p == Place(m, t)
               q == Place(h + m, t)
    <3>1. x \in Nat /\ y \in Nat /\ q = x + p /\ p \in Nat /\ p <= l /\ x + l <= y
      BY <1>1, <1>3, <2>1, <2>2
    <3> HIDE DEF x, y, p, q
    <3>2. q <= y  BY <3>1
    <3> QED  BY <3>2 DEF q, y
  <2>4. Place(h + m, t) \in 1 .. g * W  BY <1>1, <2>2, <2>3
  <2>5. d[h * W + Place(m, t)] = c[h * W + Place(m, t)]  BY <1>1, <2>1, <2>4
  <2>6. h + m <= g  BY <2>1, <2>3, BeforeOrAfter
  <2>7. (h + m) - 1 \in 0 .. g  BY <2>6
  <2>8. IVAfter(md, v, d, (h + m) - 1) = IVAfter(md, v, c, (h + m) - 1)  BY <1>1, <2>7
  <2>9. c[h * W + Place(m, t)] = CipherByte(md, v, c, s, h, m, t)  BY <1>3 DEF EncryptedAs
  <2> QED  BY <2>5, <2>8, <2>9 DEF CipherByte
<1>4. \A s : EncryptedAs(md, iv, out, s, 0, k) => EncryptedAs(md, v, d, s, g, k)
  BY <1>2 DEF EncryptedAs
<1>5. \A s : \A h, l \in Nat :
         EncryptedAs(md, v, c, s, h, l) /\ h * W + l <= g * W => EncryptedAs(md, v, d, s, h, l)
  BY <1>3 DEF EncryptedAs
<1> QED  BY <1>4, <1>5 DEF d, iv

\* A part of a text that begins with a whole block is encrypted as it is where it stands.
LEMMA PartOf ==
    ASSUME NEW md, NEW v, NEW c, NEW text, NEW n \in Nat, Row(text, n),
           NEW g \in Nat, NEW k \in Nat, g * W + k <= n, Shaped(md, k)
    PROVE  LET s == SubSeq(text, g * W + 1, g * W + k)
           IN  /\ EncryptedAs(md, v, c, text, 0, g * W + k) => EncryptedAs(md, v, c, s, g, k)
               /\ EncryptedAs(md, v, c, text, 0, g * W) /\ EncryptedAs(md, v, c, s, g, k)
                     => EncryptedAs(md, v, c, text, 0, g * W + k)
<1> USE Sizes
<1> DEFINE s == SubSeq(text, g * W + 1, g * W + k)
           Byte(j, t) == CipherByte(md, v, c, text, 0, j, t)
<1>0. g * W \in Nat
  <2>1. 1 \in 1 .. W /\ 1 \in Nat \ {0}  OBVIOUS
  <2> QED  BY <2>1, BeforeOrAfter
<1>1. Row(s, k) /\ \A i \in 1 .. k : s[i] = text[g * W + i]  BY <1>0, RowPart
<1> HIDE DEF s
<1>2. ASSUME NEW m \in Nat \ {0}, NEW t \in 1 .. W, Place(m, t) <= k
      PROVE  CipherByte(md, v, c, s, g, m, t) = Byte(g + m, t)
  <2>1. /\ Place(m, t) \in Nat \ {0} /\ Place(g + m, t) = g * W + Place(m, t)
        /\ g + m \in Nat \ {0}
    BY Places, PlaceShift
  <2>2. s[Place(m, t)] = text[Place(g + m, t)]
    <3>1. Place(m, t) \in 1 .. k  BY <1>2, <2>1
    <3> QED  BY <1>1, <2>1, <3>1
  <2>3. (0 + (g + m)) - 1 = (g + m) - 1  OBVIOUS
  <2>4. md \in {"ECB", "CBC", "CBC padded"} => Cell(s, m) = Cell(text, g + m)
    <3> SUFFICES ASSUME k % W = 0  PROVE Cell(s, m) = Cell(text, g + m)  BY DEF Shaped
    <3>1. m * W <= k /\ m * W \in Int
      <4>1. m \in 1 .. Blocks(s)  BY <1>1, <1>2, BlocksOf
      <4> QED  BY <1>1, <4>1, BlocksOf
    <3>2. \A u \in 1 .. W : s[Place(m, u)] = text[Place(g + m, u)]
      <4> TAKE u \in 1 .. W
      <4>1. Place(m, u) \in Nat \ {0} /\ Place(m, u) <= m * W  BY Places
      <4>2. Place(g + m, u) = g * W + Place(m, u)  BY PlaceShift
      <4>3. Place(m, u) \in 1 .. k  BY <3>1, <4>1
      <4> QED  BY <1>1, <4>2, <4>3
    <3> QED  BY <3>2 DEF Cell
  <2> QED  BY <2>2, <2>3, <2>4 DEF CipherByte
<1>3. ASSUME EncryptedAs(md, v, c, text, 0, g * W + k)
      PROVE  EncryptedAs(md, v, c, s, g, k)
  <2> SUFFICES ASSUME NEW m \in Nat \ {0}, NEW t \in 1 .. W, Place(m, t) <= k
               PROVE  c[g * W + Place(m, t)] = CipherByte(md, v, c, s, g, m, t)
    BY DEF EncryptedAs
  <2>1. /\ Place(m, t) \in Nat \ {0} /\ Place(g + m, t) = g * W + Place(m, t)
        /\ g + m \in Nat \ {0}
    BY Places, PlaceShift
  <2>2. Place(g + m, t) <= g * W + k /\ 0 * W + Place(g + m, t) = Place(g + m, t)
    BY <1>0, <2>1
  <2>3. c[0 * W + Place(g + m, t)] = Byte(g + m, t)  BY <1>3, <2>1, <2>2 DEF EncryptedAs
  <2> HIDE DEF Byte
  <2> QED  BY <1>2, <2>1, <2>2, <2>3
<1>4. ASSUME EncryptedAs(md, v, c, text, 0, g * W), EncryptedAs(md, v, c, s, g, k)
      PROVE  EncryptedAs(md, v, c, text, 0, g * W + k)
  <2> SUFFICES ASSUME NEW j \in Nat \ {0}, NEW t \in 1 .. W, Place(j, t) <= g * W + k
               PROVE  c[0 * W + Place(j, t)] = Byte(j, t)
    BY DEF EncryptedAs
  <2>1. Place(j, t) \in Nat \ {0}  BY Places
  <2>2. CASE j <= g
    <3>1. Place(j, t) <= g * W  BY <2>2, BeforeOrAfter
    <3> QED  BY <1>4, <3>1 DEF EncryptedAs
  <2>3. CASE j > g
    <3> DEFINE m == j - g
    <3>1. m \in Nat \ {0} /\ j = g + m  BY <2>3
    <3> HIDE DEF m
    <3>p. Place(m, t) \in Nat \ {0}  BY <3>1, Places
    <3>q. Place(g + m, t) = g * W + Place(m, t)  BY <3>1, PlaceShift
    <3>2. Place(g + m, t) = g * W + Place(m, t) /\ Place(m, t) \in Nat \ {0}
      BY <3>p, <3>q
    <3>3. Place(m, t) <= k  BY <1>0, <3>1, <3>2
    <3>4. c[g * W + Place(m, t)] = CipherByte(md, v, c, s, g, m, t)
      BY <1>4, <3>1, <3>3 DEF EncryptedAs
    <3>5. 0 * W + Place(j, t) = g * W + Place(m, t)  BY <1>0, <2>1, <3>1, <3>2
    <3> HIDE DEF Byte
    <3> QED  BY <1>2, <3>1, <3>3, <3>4, <3>5
  <2> QED  BY <2>2, <2>3
<1> QED  BY <1>3, <1>4 DEF s

-----------------------------------------------------------------------------
(* AES: what decrypt makes of a ciphertext *)

\* k bytes of c, behind its first g blocks.
Behind(c, g, k) == SubSeq(c, g * W + 1, g * W + k)

LEMMA BehindIs ==
    ASSUME NEW n \in Nat, NEW c, Row(c, n), NEW g \in Nat, NEW k \in Nat, g * W + k <= n
    PROVE  /\ Row(Behind(c, g, k), k)
           /\ \A i \in 1 .. k : Behind(c, g, k)[i] = c[g * W + i]
           /\ \A j \in Nat \ {0} : j * W <= k => Cell(Behind(c, g, k), j) = Cell(c, g + j)
<1> USE Sizes
<1> DEFINE s == SubSeq(c, g * W + 1, g * W + k)
<1>0. g * W \in Nat
  <2>1. 1 \in 1 .. W /\ 1 \in Nat \ {0}  OBVIOUS
  <2> QED  BY <2>1, BeforeOrAfter
<1>1. Row(s, k) /\ \A i \in 1 .. k : s[i] = c[g * W + i]  BY <1>0, RowPart
<1> HIDE DEF s
<1>2. ASSUME NEW j \in Nat \ {0}, j * W <= k  PROVE Cell(s, j) = Cell(c, g + j)
  <2>1. \A t \in 1 .. W : s[Place(j, t)] = c[Place(g + j, t)]
    <3> TAKE t \in 1 .. W
    <3>1. Place(g + j, t) = g * W + Place(j, t)  BY PlaceShift
    <3>2. Place(j, t) \in Nat \ {0} /\ Place(j, t) <= j * W  BY Places
    <3>3. j * W \in Int  OBVIOUS
    <3>4. Place(j, t) \in 1 .. k  BY <1>2, <3>2, <3>3
    <3> QED  BY <1>1, <3>1, <3>4
  <2> QED  BY <2>1 DEF Cell
<1> QED  BY <1>1, <1>2 DEF s, Behind

\* The IV of a pass is what the blocks before it say.
LEMMA DecryptIV ==
    ASSUME mode \in Modes, mode # "CTR", NEW v, NEW n \in Nat, NEW c, Row(c, n),
           NEW g \in Nat, NEW k \in Nat, g * W + k <= n, NEW pass,
           Passing(pass, "decrypt", IVAfter(mode, v, c, g), Behind(c, g, k))
    PROVE  \A j \in 0 .. Blocks(Behind(c, g, k)) :
               j * W <= k => pass[j].iv = IVAfter(mode, v, c, g + j)
<1> USE Sizes
<1> DEFINE s == Behind(c, g, k)
           b == Blocks(s)
           iv == IVAfter(mode, v, c, g)
           M == {j \in 0 .. b : j * W <= k => pass[j].iv = IVAfter(mode, v, c, g + j)}
<1>s. /\ Row(s, k)
      /\ \A j \in Nat \ {0} : j * W <= k => Cell(s, j) = Cell(c, g + j)
  BY BehindIs
<1> HIDE DEF s
<1>0. b \in Nat  BY <1>s, BlocksOf
<1>p. /\ pass[0] = [iv |-> iv, out |-> <<>>]
      /\ \A i \in 1 .. b : pass[i] = Pass("decrypt", pass[i - 1].iv, Block(s, i))
  BY DEF Passing, s
<1>1. 0 \in M
  <2>1. pass[0].iv = iv
    <3> HIDE DEF iv
    <3> QED  BY <1>p
  <2>2. g + 0 = g  OBVIOUS
  <2> QED  BY <1>0, <2>1, <2>2
<1> HIDE DEF iv
<1>2. ASSUME NEW i \in 0 .. b - 1, i \in M  PROVE i + 1 \in M
  <2> DEFINE j == i + 1
  <2>1. j \in 1 .. b /\ j - 1 = i /\ j \in Nat \ {0} /\ j # 0 /\ j \in 0 .. b  BY <1>0
  <2> HIDE DEF j
  <2> SUFFICES ASSUME j * W <= k  PROVE pass[j].iv = IVAfter(mode, v, c, g + j)
    BY <2>1 DEF j
  <2>2. pass[j] = Pass("decrypt", pass[i].iv, Block(s, j))  BY <1>p, <2>1
  <2>3. i * W <= k /\ (j - 1) * W < k
    <3>1. j * W >= i * W + W  BY <1>0, <2>1, MultiplesApart
    <3>2. j * W \in Int /\ i * W \in Int  BY <2>1, <1>0
    <3>3. (j - 1) * W = i * W  BY <2>1
    <3> DEFINE x == i * W
               y == j * W
               z == (j - 1) * W
    <3>4. y >= x + W /\ y \in Int /\ x \in Int /\ y <= k /\ z = x  BY <3>1, <3>2, <3>3
    <3> HIDE DEF x, y, z
    <3>5. x <= k /\ z < k  BY <3>4
    <3> QED  BY <3>5 DEF x, z
  <2>4. pass[i].iv = IVAfter(mode, v, c, g + i)  BY <1>2, <2>3
  <2>5. CASE mode = "ECB"
    <3>1. pass[j].iv = pass[i].iv
      <4> DEFINE e == aes_decrypt(Block(s, j))
      <4>0. "encrypt" # "decrypt"  OBVIOUS
      <4>1. pass[j] = [iv |-> pass[i].iv, out |-> e]
        BY <2>2, <2>5, <4>0, Zenon DEF Pass, AESdecryptECB
      <4> HIDE DEF e
      <4> QED  BY <4>1
    <3> QED  BY <2>4, <2>5, <3>1 DEF IVAfter
  <2>6. CASE mode # "ECB"
    <3>0. mode \in {"CBC", "CBC padded"} \/ mode = "CFB"  BY <2>6 DEF Modes
    <3>1. pass[j].iv = Block(s, j)
      <4>0. "encrypt" # "decrypt"  OBVIOUS
      <4>1. CASE mode \in {"CBC", "CBC padded"}
        <5> DEFINE e == xor(aes_decrypt(Block(s, j)), pass[i].iv)
                   d == Block(s, j)
        <5>1. mode # "ECB"  BY <4>1
        <5>2. Pass("decrypt", pass[i].iv, d) = decrypt_CBC(pass[i].iv, d)
          BY <4>0, <4>1, <5>1, Zenon DEF Pass
        <5>3. pass[j] = [iv |-> d, out |-> e]  BY <2>2, <5>2, Zenon DEF decrypt_CBC
        <5> HIDE DEF e, d
        <5>4. pass[j].iv = d  BY <5>3
        <5> QED  BY <5>4 DEF d
      <4>2. CASE mode = "CFB"
        <5> DEFINE e == xor(Block(s, j), aes_encrypt(pass[i].iv))
                   d == Block(s, j)
        <5>1. mode # "ECB" /\ mode \notin {"CBC", "CBC padded"}  BY <4>2
        <5>2. Pass("decrypt", pass[i].iv, d) = decrypt_CFB(pass[i].iv, d)
          BY <4>0, <4>2, <5>1, Zenon DEF Pass
        <5>3. pass[j] = [iv |-> d, out |-> e]  BY <2>2, <5>2, Zenon DEF decrypt_CFB
        <5> HIDE DEF e, d
        <5>4. pass[j].iv = d  BY <5>3
        <5> QED  BY <5>4 DEF d
      <4> QED  BY <3>0, <4>1, <4>2
    <3>2. Block(s, j) = Cell(s, j)  BY <1>s, <2>1, <2>3, BlockIs
    <3>3. Cell(s, j) = Cell(c, g + j)  BY <1>s, <2>1
    <3>4. IVAfter(mode, v, c, g + j) = Cell(c, g + j)
      <4>1. g + j # 0  BY <2>1
      <4> QED  BY <2>6, <4>1 DEF IVAfter, Prev
    <3> QED  BY <3>1, <3>2, <3>3, <3>4
  <2> QED  BY <2>5, <2>6
<1>4. \A j \in 0 .. b : j \in M
  <2> HIDE DEF M, b
  <2> QED  BY <1>0, <1>1, <1>2, IntervalInduction
<1> QED  BY <1>4 DEF s

\* out is the text Q again, and iv the IV behind its k bytes.
Undone(md, v, c, Q, g, k, r) ==
    /\ Row(r.out, k) /\ \A i \in 1 .. k : r.out[i] = Q[i]
    /\ k % W = 0 => r.iv = IVAfter(md, v, c, g + (k \div W))

LEMMA DecryptChain ==
    ASSUME mode \in Modes, mode # "CTR", NEW v, NEW n \in Nat, NEW c, Row(c, n),
           NEW g \in Nat, NEW k \in Nat, g * W + k <= n, Shaped(mode, k), NEW Q, Row(Q, k),
           EncryptedAs(mode, v, c, Q, g, k)
    PROVE  Undone(mode, v, c, Q, g, k,
                  Chain("decrypt", IVAfter(mode, v, c, g), Behind(c, g, k)))
<1> USE Sizes
<1> DEFINE s == Behind(c, g, k)
           b == Blocks(s)
           iv == IVAfter(mode, v, c, g)
           r == Chain("decrypt", iv, s)
           out == r.out
<1>s. /\ Row(s, k) /\ \A i \in 1 .. k : s[i] = c[g * W + i]
  BY BehindIs
<1> HIDE DEF s
<1>0. b \in Nat  BY <1>s, BlocksOf
<1>1. PICK pass : Passing(pass, "decrypt", iv, s)  BY <1>0, ChainIs
<1>2. /\ Row(out, k) /\ r.iv = pass[b].iv
      /\ \A j \in Nat \ {0}, t \in 1 .. W : Place(j, t) <= k => out[Place(j, t)] = pass[j].out[t]
  BY <1>1, <1>s, ChainOut
<1>3. \A j \in 0 .. b : j * W <= k => pass[j].iv = IVAfter(mode, v, c, g + j)
  BY <1>1, DecryptIV DEF s
<1>4. k % W = 0 => b = k \div W /\ b * W <= k /\ \A j \in 1 .. b : j * W <= k
  BY <1>s, BlocksOf
<1>5. ASSUME k % W = 0 PROVE r.iv = IVAfter(mode, v, c, g + (k \div W))
  <2> HIDE DEF r, out, b
  <2>1. b \in 0 .. b  BY <1>0
  <2> QED  BY <1>2, <1>3, <1>4, <1>5, <2>1
<1>6. ASSUME NEW m \in Nat \ {0}, NEW t \in 1 .. W, Place(m, t) <= k
      PROVE  out[Place(m, t)] = Q[Place(m, t)]
  <2> HIDE DEF r, out
  <2>1. m \in 1 .. b  BY <1>6, <1>s, BlocksOf
  <2>2. (m - 1) * W < k /\ (m - 1) * W \in Nat
    <3>1. Place(m, t) = (m - 1) * W + t /\ (m - 1) * W \in Nat  BY Places
    <3> DEFINE x == (m - 1) * W
    <3>2. x + t <= k /\ x \in Nat  BY <1>6, <3>1
    <3> HIDE DEF x
    <3>3. x < k  BY <3>2
    <3> QED  BY <3>1, <3>3 DEF x
  <2>x. \A u \in 1 .. W : Place(m, u) <= k =>
            s[Place(m, u)] = CipherByte(mode, v, c, Q, g, m, u)
    <3> TAKE u \in 1 .. W
    <3> HAVE Place(m, u) <= k
    <3>1. Place(m, u) \in Nat \ {0}  BY Places
    <3>2. Place(m, u) \in 1 .. k  BY <3>1
    <3>3. c[g * W + Place(m, u)] = CipherByte(mode, v, c, Q, g, m, u)  BY DEF EncryptedAs
    <3> QED  BY <1>s, <3>2, <3>3
  <2>y. k % W = 0 => /\ Block(s, m) = Cell(s, m)
                     /\ \A u \in 1 .. W : Place(m, u) <= k
    <3> SUFFICES ASSUME k % W = 0
                 PROVE  Block(s, m) = Cell(s, m) /\ \A u \in 1 .. W : Place(m, u) <= k
      OBVIOUS
    <3>1. m * W <= k  BY <1>4, <2>1
    <3>2. \A u \in 1 .. W : Place(m, u) <= k
      <4> TAKE u \in 1 .. W
      <4>1. Place(m, u) <= m * W /\ Place(m, u) \in Nat  BY Places
      <4>2. m * W \in Int  OBVIOUS
      <4> QED  BY <3>1, <4>1, <4>2
    <3> QED  BY <1>s, <2>2, <3>1, <3>2, BlockIs
  <2> HIDE DEF b
  <2>3. m - 1 \in 0 .. b  BY <1>0, <2>1
  <2> DEFINE w == pass[m - 1].iv
             d == Block(s, m)
  <2>4. w = IVAfter(mode, v, c, (g + m) - 1)
    <3>1. (m - 1) * W <= k  BY <2>2
    <3>2. g + (m - 1) = (g + m) - 1  OBVIOUS
    <3> QED  BY <1>3, <2>3, <3>1, <3>2
  <2>5. pass[m] = Pass("decrypt", w, d)  BY <1>1, <2>1 DEF Passing, b
  <2>6. out[Place(m, t)] = pass[m].out[t]  BY <1>2, <1>6
  <2> HIDE DEF w
  <2>7. "encrypt" # "decrypt"  OBVIOUS
  <2>8. Cell(Q, m)[t] = Q[Place(m, t)] /\ Row(Cell(Q, m), W)  BY DEF Cell, Row
  <2>10. CASE mode = "ECB"
    <3>1. pass[m].out = aes_decrypt(d)
      <4> DEFINE e == aes_decrypt(d)
      <4>1. pass[m] = [iv |-> w, out |-> e]
        BY <2>5, <2>7, <2>10, Zenon DEF Pass, AESdecryptECB
      <4> HIDE DEF e
      <4>2. pass[m].out = e  BY <4>1
      <4> QED  BY <4>2 DEF e
    <3>k. k % W = 0  BY <2>10 DEF Shaped
    <3>2. d = aes_encrypt(Cell(Q, m))
      <4> DEFINE e == aes_encrypt(Cell(Q, m))
      <4>1. Row(e, W)  BY Cipher
      <4>2. \A u \in 1 .. W : CipherByte(mode, v, c, Q, g, m, u) = e[u]
        BY <2>10 DEF CipherByte
      <4> HIDE DEF e
      <4>3. \A u \in 1 .. W : Cell(s, m)[u] = e[u]
        BY <2>x, <2>y, <3>k, <4>2 DEF Cell
      <4>4. Row(Cell(s, m), W)  BY DEF Cell, Row
      <4>5. Cell(s, m) = e  BY <4>1, <4>3, <4>4, RowEqual
      <4> QED  BY <2>y, <3>k, <4>5 DEF e
    <3>3. aes_decrypt(d) = Cell(Q, m)  BY <3>2, Cipher
    <3> QED  BY <2>6, <2>8, <3>1, <3>3
  <2>11. CASE mode \in {"CBC", "CBC padded"}
    <3>0. mode # "ECB" BY <2>11
    <3>1. pass[m].out = xor(aes_decrypt(d), w)
      <4> DEFINE e == xor(aes_decrypt(d), w)
      <4>1. Pass("decrypt", w, d) = decrypt_CBC(w, d)  BY <2>7, <2>11, <3>0, Zenon DEF Pass
      <4>2. pass[m] = [iv |-> d, out |-> e]  BY <2>5, <4>1, Zenon DEF decrypt_CBC
      <4> HIDE DEF e, d
      <4>3. pass[m].out = e  BY <4>2
      <4> QED  BY <4>3 DEF e, d
    <3>k. k % W = 0  BY <2>11 DEF Shaped
    <3> DEFINE p == xor(Cell(Q, m), w)
    <3>2. d = aes_encrypt(p)
      <4> DEFINE e == aes_encrypt(p)
      <4>1. Row(e, W)  BY Cipher
      <4>2. \A u \in 1 .. W : CipherByte(mode, v, c, Q, g, m, u) = e[u]
        BY <2>4, <2>11, <3>0 DEF CipherByte
      <4> HIDE DEF e
      <4>3. \A u \in 1 .. W : Cell(s, m)[u] = e[u]
        BY <2>x, <2>y, <3>k, <4>2 DEF Cell
      <4>4. Row(Cell(s, m), W)  BY DEF Cell, Row
      <4>5. Cell(s, m) = e  BY <4>1, <4>3, <4>4, RowEqual
      <4> QED  BY <2>y, <3>k, <4>5 DEF e
    <3>3. aes_decrypt(d) = p
      <4> HIDE DEF p
      <4> QED  BY <3>2, Cipher
    <3>4. Row(p, W) /\ p[t] = SymDiff(Cell(Q, m)[t], w[t])  BY <2>8, XorRow
    <3> HIDE DEF p
    <3>5. xor(p, w)[t] = SymDiff(p[t], w[t])  BY <3>4, XorRow
    <3>6. SymDiff(SymDiff(Cell(Q, m)[t], w[t]), w[t]) = Cell(Q, m)[t]  BY XorTwice
    <3> QED  BY <2>6, <2>8, <3>1, <3>3, <3>4, <3>5, <3>6
  <2>12. CASE mode = "CFB"
    <3>0. mode # "ECB" /\ mode \notin {"CBC", "CBC padded"}  BY <2>12
    <3> DEFINE f == aes_encrypt(w)
    <3>1. pass[m].out = xor(d, f)
      <4> DEFINE e == xor(d, f)
      <4>1. Pass("decrypt", w, d) = decrypt_CFB(w, d)  BY <2>7, <2>12, <3>0, Zenon DEF Pass
      <4>2. pass[m] = [iv |-> d, out |-> e]  BY <2>5, <4>1, Zenon DEF decrypt_CFB
      <4> HIDE DEF e, d
      <4>3. pass[m].out = e  BY <4>2
      <4> QED  BY <4>3 DEF e, d
    <3>2. xor(d, f)[t] = SymDiff(d[t], f[t])
      <4> DEFINE x == (m - 1) * W
                 y == m * W
                 l == IF y <= k THEN W ELSE k - x
      <4>1. Row(d, l) /\ l \in 1 .. W  BY <1>s, <2>2, BlockIs
      <4>2. t \in 1 .. l
        <5>1. Place(m, t) = x + t /\ x \in Nat  BY Places
        <5>2. x + t <= k  BY <1>6, <5>1
        <5> HIDE DEF x, y
        <5> QED  BY <5>1, <5>2
      <4> HIDE DEF l, d, f
      <4>3. l \in Nat  BY <4>1
      <4> QED  BY <4>1, <4>2, <4>3, XorRow
    <3>3. d[t] = s[Place(m, t)]  BY <1>6, <1>s, <2>2, BlockIs
    <3>4. s[Place(m, t)] = SymDiff(Q[Place(m, t)], f[t])
      <4>1. CipherByte(mode, v, c, Q, g, m, t) = SymDiff(Q[Place(m, t)], f[t])
        BY <2>4, <3>0 DEF CipherByte
      <4> QED  BY <1>6, <2>x, <4>1
    <3> HIDE DEF d, f
    <3>5. SymDiff(SymDiff(Q[Place(m, t)], f[t]), f[t]) = Q[Place(m, t)]  BY XorTwice
    <3> QED  BY <2>6, <3>1, <3>2, <3>3, <3>4, <3>5
  <2> QED  BY <2>10, <2>11, <2>12 DEF Modes
<1>7. \A i \in 1 .. k : out[i] = Q[i]
  <2> HIDE DEF r, out
  <2> TAKE i \in 1 .. k
  <2>0. i \in Nat \ {0}  OBVIOUS
  <2>1. PICK j \in Nat \ {0}, t \in 1 .. W : Place(j, t) = i  BY <2>0, PlaceOf
  <2>2. Place(j, t) <= k  BY <2>1
  <2> QED  BY <1>6, <2>1, <2>2
<1>8. Undone(mode, v, c, Q, g, k, r)  BY <1>2, <1>5, <1>7, Zenon DEF Undone
<1> QED  BY <1>8, Zenon DEF r, iv, s

LEMMA DecryptStream ==
    ASSUME mode = "CTR", NEW v \in Counters, NEW n \in Nat, NEW c, Row(c, n),
           NEW g \in Nat, NEW k \in Nat \ {0}, g * W + k <= n, NEW Q, Row(Q, k),
           EncryptedAs(mode, v, c, Q, g, k)
    PROVE  Undone(mode, v, c, Q, g, k, encrypt_CTR(IVAfter(mode, v, c, g), Behind(c, g, k)))
<1> USE Sizes
<1> DEFINE s == Behind(c, g, k)
           iv == CounterPlus(v, g)
           r == encrypt_CTR(iv, s)
<1>m. mode # "ECB" /\ mode \notin {"CBC", "CBC padded"}  OBVIOUS
<1>i. IVAfter(mode, v, c, g) = iv /\ iv \in Counters  BY <1>m, CounterPlusIn DEF IVAfter
<1>s. /\ Row(s, k) /\ \A i \in 1 .. k : s[i] = c[g * W + i]
  <2>1. k \in Nat  OBVIOUS
  <2> QED  BY <2>1, BehindIs
<1> HIDE DEF s, iv
<1>1. /\ Row(r.out, k) /\ r.iv = CounterPlus(iv, Blocks(s))
      /\ \A m \in Nat \ {0}, t \in 1 .. W :
            Place(m, t) <= k =>
               r.out[Place(m, t)] = SymDiff(s[Place(m, t)], aes_encrypt(CounterPlus(iv, m - 1))[t])
  BY <1>i, <1>s, KeyStream
<1>2. k % W = 0 => Blocks(s) = k \div W /\ k \div W \in Nat
  <2>1. k \in Nat  OBVIOUS
  <2> QED  BY <1>s, <2>1, BlocksOf
<1> HIDE DEF r
<1>3. k % W = 0 => r.iv = IVAfter(mode, v, c, g + (k \div W))
  <2>1. ASSUME NEW x \in Nat  PROVE CounterPlus(iv, x) = IVAfter(mode, v, c, g + x)
    <3>1. CounterPlus(CounterPlus(v, g), x) = CounterPlus(v, g + x)  BY CounterPlusSum
    <3> QED  BY <1>m, <3>1 DEF IVAfter, iv
  <2> QED  BY <1>1, <1>2, <2>1
<1>4. \A i \in 1 .. k : r.out[i] = Q[i]
  <2> TAKE i \in 1 .. k
  <2>0. i \in Nat \ {0}  OBVIOUS
  <2>1. PICK m \in Nat \ {0}, t \in 1 .. W : Place(m, t) = i  BY <2>0, PlaceOf
  <2>2. Place(m, t) <= k  BY <2>1
  <2> DEFINE f == aes_encrypt(CounterPlus(iv, m - 1))[t]
  <2>3. r.out[i] = SymDiff(s[i], f)  BY <1>1, <2>1, <2>2
  <2>4. s[i] = c[g * W + i]  BY <1>s
  <2>5. c[g * W + i] = CipherByte(mode, v, c, Q, g, m, t)  BY <2>1, <2>2 DEF EncryptedAs
  <2>6. CipherByte(mode, v, c, Q, g, m, t) = SymDiff(Q[i], f)
    <3>1. m - 1 \in Nat /\ (g + m) - 1 = g + (m - 1)  OBVIOUS
    <3>2. CounterPlus(CounterPlus(v, g), m - 1) = CounterPlus(v, g + (m - 1))
      BY <3>1, CounterPlusSum
    <3>3. IVAfter(mode, v, c, (g + m) - 1) = CounterPlus(iv, m - 1)
      BY <1>m, <3>1, <3>2 DEF IVAfter, iv
    <3> QED  BY <1>m, <2>1, <3>3 DEF CipherByte
  <2> HIDE DEF f
  <2>7. SymDiff(SymDiff(Q[i], f), f) = Q[i]  BY XorTwice
  <2> QED  BY <2>3, <2>4, <2>5, <2>6, <2>7
<1>5. Undone(mode, v, c, Q, g, k, r)  BY <1>1, <1>3, <1>4, Zenon DEF Undone
<1> QED  BY <1>5, <1>i, Zenon DEF r, s

-----------------------------------------------------------------------------
(* AES: encrypt and decrypt, in each mode *)

\* Whole blocks, and what comes behind them.
BlocksPlus(a, k) ==
    /\ (a \div W) * W = a /\ a \div W \in Nat
    /\ (a + k) % W = 0 => k % W = 0
    /\ k % W = 0 => /\ (a + k) % W = 0 /\ (a + k) \div W = (a \div W) + (k \div W)
                    /\ k \div W \in Nat /\ (k \div W) * W = k

LEMMA BlocksSum ==
    ASSUME NEW a \in Nat, NEW k \in Nat, a % W = 0
    PROVE  BlocksPlus(a, k)
<1> USE Sizes
<1> DEFINE p == a \div W
           q == k \div W
           r == k % W
<1>1. p \in Int /\ a = p * W + 0
  <2>1. a \in Int  OBVIOUS
  <2>2. a \div W \in Int /\ a = (a \div W) * W + (a % W)  BY <2>1, DivMod
  <2> QED  BY <2>2
<1>2. q \in Int /\ r \in 0 .. W - 1 /\ k = q * W + r
  <2>1. k \in Int  OBVIOUS
  <2> QED  BY <2>1, DivMod
<1>3. p >= 0 /\ q >= 0
  <2>1. a \in Nat /\ k \in Nat /\ W \in Nat \ {0}  OBVIOUS
  <2> QED  BY <2>1
<1> HIDE DEF p, q, r
<1>4. p * W \in Int /\ q * W \in Int /\ (p + q) * W = p * W + q * W  BY <1>1, <1>2
<1>5. a = p * W  BY <1>1, <1>4
<1>6. a + k = (p + q) * W + r
  <2> DEFINE x == p * W
             y == q * W
             z == (p + q) * W
  <2>1. a = x /\ k = y + r /\ z = x + y /\ x \in Int /\ y \in Int  BY <1>2, <1>4, <1>5
  <2> HIDE DEF x, y, z
  <2>2. a + k = z + r  BY <1>2, <2>1
  <2> QED  BY <2>2 DEF z
<1>7. (a + k) % W = r /\ (a + k) \div W = p + q
  <2>1. a + k \in Int /\ p + q \in Int  BY <1>1, <1>2
  <2> QED  BY <1>2, <1>6, <2>1, ModUnique
<1>8. r = 0 => k = q * W  BY <1>2, <1>4
<1>9. p \in Nat /\ q \in Nat  BY <1>1, <1>2, <1>3
<1> QED  BY <1>5, <1>7, <1>8, <1>9, Zenon DEF BlocksPlus, p, q, r

\* The length of a padded piece.
PaddedLen(k) == k + (W - (k % W))

LEMMA PadIs ==
    ASSUME NEW k \in Nat, NEW s, Row(s, k)
    PROVE  /\ Row(Pad(s), PaddedLen(k)) /\ PaddedLen(k) \in Nat /\ PaddedLen(k) > k
           /\ PaddedLen(k) % W = 0
           /\ Unpad(Pad(s)) = s
<1> USE Sizes
<1> DEFINE n == W - (k % W)
           f == [i \in 1 .. n |-> PadByte(n)]
           p == Pad(s)
           l == PaddedLen(k)
<1>1. k % W \in 0 .. W - 1  OBVIOUS
<1>2. n \in 1 .. W  BY <1>1
<1>3. Len(s) = k  BY RowSeq
<1>4. p = s \o f  BY <1>3, Zenon DEF Pad
<1>5. l = k + n  BY DEF PaddedLen
<1>6. l % W = 0
  <2> DEFINE q == k \div W
             r == k % W
  <2>1. q \in Int /\ r \in 0 .. W - 1 /\ k = q * W + r
    <3>1. k \in Int  OBVIOUS
    <3> QED  BY <3>1, DivMod
  <2>2. l = k + (W - r)  BY <1>5
  <2> HIDE DEF q, r, l
  <2>3. l = (q + 1) * W + 0
    <3>1. (q + 1) * W = q * W + W /\ q * W \in Int  BY <2>1
    <3> DEFINE x == q * W
               y == (q + 1) * W
    <3>2. l = k + (W - r) /\ k = x + r /\ y = x + W /\ x \in Int  BY <2>1, <2>2, <3>1
    <3> HIDE DEF x, y
    <3>3. l = y + 0  BY <2>1, <3>2
    <3> QED  BY <3>3 DEF y
  <2>4. l \in Int /\ q + 1 \in Int /\ 0 \in 0 .. W - 1  BY <2>1, <2>2
  <2> QED  BY <2>3, <2>4, ModUnique
<1> HIDE DEF n, l
<1>7. Row(f, n) /\ n \in Nat  BY <1>2 DEF Row
<1>8. f[n] = PadByte(n)  BY <1>2
<1> HIDE DEF f, p
<1>9. Joins(p, s, k, f, n)  BY <1>4, <1>7, RowConcat, Zenon
<1>10. /\ Row(p, l) /\ (\A i \in 1 .. k : p[i] = s[i])
       /\ \A i \in 1 .. n : p[k + i] = f[i]
  BY <1>5, <1>9, Zenon DEF Joins
<1>11. l \in Nat /\ l > k /\ l - n = k  BY <1>2, <1>5
<1>12. Len(p) = l  BY <1>10, <1>11, RowSeq
<1>13. p[l] = PadByte(n)
  <2>1. n \in 1 .. n  BY <1>2
  <2> QED  BY <1>5, <1>8, <1>10, <2>1
<1>14. Unpad(p) = SubSeq(p, 1, l - n)
  <2> DEFINE x == <<"pad", n>>
  <2>1. (CHOOSE a \in {x} : TRUE) = x /\ x[2] = n  OBVIOUS
  <2>2. p[Len(p)] = {x}  BY <1>12, <1>13 DEF PadByte
  <2> HIDE DEF x
  <2> QED  BY <1>12, <2>1, <2>2, Zenon DEF Unpad
<1>15. Row(SubSeq(p, 1, k), k) /\ \A i \in 1 .. k : SubSeq(p, 1, k)[i] = p[i]
  <2>1. 0 \in Nat /\ 0 + k <= l /\ 0 + 1 = 1 /\ 0 + k = k /\ \A i \in 1 .. k : 0 + i = i
    BY <1>11
  <2>2. /\ Row(SubSeq(p, 0 + 1, 0 + k), k)
        /\ \A i \in 1 .. k : SubSeq(p, 0 + 1, 0 + k)[i] = p[0 + i]
    BY <1>10, <1>11, <2>1, RowPart
  <2> QED  BY <2>1, <2>2
<1>16. SubSeq(p, 1, k) = s  BY <1>10, <1>15, RowEqual
<1>17. Unpad(p) = s  BY <1>11, <1>14, <1>16
<1> QED  BY <1>6, <1>10, <1>11, <1>17 DEF p, l

\* What rawToChar hands on is as long as it was, and has Lost for what it did not.
LEMMA ReceivedIs ==
    ASSUME NEW k \in Nat, NEW s, Row(s, k), NEW raw
    PROVE  /\ Row(Received(s, raw), k)
           /\ \A i \in 1 .. k : Received(s, raw)[i] \in {s[i], Lost}
<1>1. Len(s) = k  BY RowSeq
<1>2. CASE raw
  <2>1. Received(s, raw) = s  BY <1>2, Zenon DEF Received
  <2> QED  BY <2>1
<1>3. CASE ~raw
  <2> DEFINE t == Stripped(s)
             f == [i \in 1 .. Len(s) |-> IF EmbeddedNul(s) \/ i > Len(t) THEN Lost ELSE s[i]]
  <2>1. Received(s, raw) = f  BY <1>3, Zenon DEF Received
  <2>2. Row(f, k) /\ \A i \in 1 .. k : f[i] \in {s[i], Lost}
    <3> HIDE DEF t
    <3> QED  BY <1>1 DEF Row
  <2> HIDE DEF f
  <2> QED  BY <2>1, <2>2
<1> QED  BY <1>2, <1>3

LEMMA IVGood ==
    ASSUME NEW md, NEW v, GoodIV(md, v), NEW c, NEW j \in Nat
    PROVE  GoodIV(md, IVAfter(md, v, c, j))
<1>1. CASE md = "CTR"
  <2>1. md # "ECB" /\ v \in Counters  BY <1>1 DEF GoodIV
  <2>2. CounterPlus(v, j) \in Counters  BY <2>1, CounterPlusIn
  <2> QED  BY <1>1, <2>1, <2>2 DEF GoodIV, IVAfter
<1>2. CASE md # "CTR"
  <2>1. Row(v, W)  BY <1>2 DEF GoodIV
  <2>2. Row(Cell(c, j), W)  BY DEF Row, Cell
  <2> QED  BY <1>2, <2>1, <2>2 DEF GoodIV, IVAfter, Prev
<1> QED  BY <1>1, <1>2

LEMMA GoodLength ==
    ASSUME NEW md, NEW v, GoodIV(md, v)
    PROVE  Len(v) = W
<1> USE Sizes
<1>1. Row(v, W)  BY DEF GoodIV, Counters, Row
<1> QED  BY <1>1, RowSeq

\* What is encrypted: the padding is part of it.
Filled(md, s) == IF md = "CBC padded" THEN Pad(s) ELSE s
FilledLen(md, k) == IF md = "CBC padded" THEN PaddedLen(k) ELSE k

LEMMA FilledIs ==
    ASSUME NEW md, NEW k \in Nat, NEW s, Row(s, k)
    PROVE  /\ Row(Filled(md, s), FilledLen(md, k)) /\ FilledLen(md, k) \in Nat
           /\ FilledLen(md, k) >= k
           /\ md = "CBC padded" => FilledLen(md, k) % W = 0 /\ FilledLen(md, k) > k
           /\ md # "CBC padded" => FilledLen(md, k) = k
<1>1. CASE md = "CBC padded"
  <2> DEFINE p == Pad(s)
             l == PaddedLen(k)
  <2>1. Filled(md, s) = p /\ FilledLen(md, k) = l  BY <1>1, Zenon DEF Filled, FilledLen
  <2>2. Row(p, l) /\ l \in Nat /\ l > k /\ l % W = 0  BY PadIs
  <2> HIDE DEF p, l
  <2>3. l >= k  BY <2>2
  <2> QED  BY <1>1, <2>1, <2>2, <2>3, Zenon
<1>2. CASE md # "CBC padded"
  <2>1. Filled(md, s) = s /\ FilledLen(md, k) = k  BY <1>2, Zenon DEF Filled, FilledLen
  <2>2. k >= k  OBVIOUS
  <2> QED  BY <1>2, <2>1, <2>2, Zenon
<1> QED  BY <1>1, <1>2

\* r is the k bytes p encrypted with iv.
Encrypted(md, iv, p, k, r) ==
    /\ Row(r.out, k) /\ EncryptedAs(md, iv, r.out, p, 0, k)
    /\ k % W = 0 => r.iv = IVAfter(md, iv, r.out, k \div W)

LEMMA EncryptIs ==
    ASSUME mode \in Modes, NEW iv, GoodIV(mode, iv), NEW k \in Nat \ {0}, NEW s, Row(s, k),
           mode \in {"ECB", "CBC"} => k % W = 0
    PROVE  Encrypted(mode, iv, Filled(mode, s), FilledLen(mode, k), encrypt(iv, s))
<1> DEFINE p == Filled(mode, s)
           l == FilledLen(mode, k)
<1>0. k \in Nat  OBVIOUS
<1>1. /\ Row(p, l) /\ l \in Nat
      /\ mode = "CBC padded" => l % W = 0
      /\ mode # "CBC padded" => l = k
  <2>1. /\ Row(p, l) /\ l \in Nat
        /\ mode = "CBC padded" => l % W = 0 /\ l > k
        /\ mode # "CBC padded" => l = k
    BY <1>0, FilledIs
  <2> QED  BY <2>1
<1>2. CASE mode = "CTR"
  <2>1. iv \in Counters  BY <1>2 DEF GoodIV
  <2>2. encrypt(iv, s) = encrypt_CTR(iv, s)  BY <1>2, Zenon DEF encrypt
  <2>3. p = s /\ l = k  BY <1>2 DEF Filled, FilledLen
  <2> HIDE DEF p, l
  <2>4. Encrypted(mode, iv, s, k, encrypt_CTR(iv, s))
    BY <1>2, <2>1, EncryptStream DEF Encrypted
  <2> QED  BY <2>2, <2>3, <2>4 DEF p, l
<1>3. CASE mode # "CTR"
  <2>1. encrypt(iv, s) = Chain("encrypt", iv, p)  BY <1>3, Zenon DEF encrypt, Filled
  <2> HIDE DEF p, l
  <2>2. Shaped(mode, l)  BY <1>1 DEF Shaped
  <2>3. Encrypted(mode, iv, p, l, Chain("encrypt", iv, p))
    BY <1>1, <1>3, <2>2, EncryptChain DEF Encrypted
  <2> QED  BY <2>1, <2>3 DEF p, l
<1> QED  BY <1>2, <1>3

LEMMA DecryptIs ==
    ASSUME mode \in Modes, NEW v, GoodIV(mode, v), NEW n \in Nat, NEW c, Row(c, n),
           NEW g \in Nat, NEW k \in Nat \ {0}, g * W + k <= n, mode # "CBC padded",
           mode \in {"ECB", "CBC"} => k % W = 0, NEW Q, Row(Q, k),
           EncryptedAs(mode, v, c, Q, g, k)
    PROVE  Undone(mode, v, c, Q, g, k, decrypt(IVAfter(mode, v, c, g), Behind(c, g, k)))
<1> DEFINE iv == IVAfter(mode, v, c, g)
           s == Behind(c, g, k)
<1>2. CASE mode = "CTR"
  <2>1. v \in Counters  BY <1>2 DEF GoodIV
  <2>2. decrypt(iv, s) = encrypt_CTR(iv, s)  BY <1>2, Zenon DEF decrypt
  <2>3. Undone(mode, v, c, Q, g, k, encrypt_CTR(iv, s))  BY <1>2, <2>1, DecryptStream
  <2> QED  BY <2>2, <2>3
<1>3. CASE mode # "CTR"
  <2> DEFINE r == Chain("decrypt", iv, s)
  <2>1. decrypt(iv, s) = [iv |-> r.iv, out |-> r.out]
    <3> HIDE DEF r
    <3>1. decrypt(iv, s) = [iv |-> r.iv, out |-> IF mode = "CBC padded" THEN Unpad(r.out) ELSE r.out]
      BY <1>3, Zenon DEF decrypt, r
    <3> QED  BY <3>1
  <2>2. Shaped(mode, k)  BY DEF Shaped
  <2>k. k \in Nat  OBVIOUS
  <2>3. Undone(mode, v, c, Q, g, k, r)  BY <1>3, <2>2, <2>k, DecryptChain
  <2> HIDE DEF r
  <2>4. Undone(mode, v, c, Q, g, k, [iv |-> r.iv, out |-> r.out])  BY <2>3 DEF Undone
  <2> QED  BY <2>1, <2>4
<1> QED  BY <1>2, <1>3

\* The same of a padded text P: what is returned is without the padding.
Unpadded(P, iv, r) == r.out = P /\ r.iv = iv

LEMMA DecryptPadded ==
    ASSUME mode = "CBC padded", NEW v, GoodIV(mode, v), NEW n \in Nat, NEW c, Row(c, n),
           NEW g \in Nat, NEW k \in Nat, NEW P, Row(P, k), g * W + PaddedLen(k) <= n,
           EncryptedAs(mode, v, c, Pad(P), g, PaddedLen(k))
    PROVE  Unpadded(P, IVAfter(mode, v, c, g + (PaddedLen(k) \div W)),
                    decrypt(IVAfter(mode, v, c, g), Behind(c, g, PaddedLen(k))))
<1> DEFINE iv == IVAfter(mode, v, c, g)
           l == PaddedLen(k)
           s == Behind(c, g, l)
           Q == Pad(P)
           r == Chain("decrypt", iv, s)
<1>1. Row(Q, l) /\ l \in Nat /\ l % W = 0 /\ Unpad(Q) = P  BY PadIs
<1>2. mode \in Modes /\ mode # "CTR"  BY DEF Modes
<1>3. decrypt(iv, s) = [iv |-> r.iv, out |-> Unpad(r.out)]
  <2> HIDE DEF r
  <2>1. decrypt(iv, s) = [iv |-> r.iv, out |-> IF mode = "CBC padded" THEN Unpad(r.out) ELSE r.out]
    BY <1>2, Zenon DEF decrypt, r
  <2> QED  BY <2>1
<1>4. Undone(mode, v, c, Q, g, l, r)
  <2> HIDE DEF l, Q
  <2>1. Shaped(mode, l)  BY <1>1 DEF Shaped
  <2>2. g * W + l <= n /\ EncryptedAs(mode, v, c, Q, g, l)  BY DEF l, Q
  <2> QED  BY <1>1, <1>2, <2>1, <2>2, DecryptChain
<1> HIDE DEF r, Q, l
<1>5. Row(r.out, l) /\ (\A i \in 1 .. l : r.out[i] = Q[i]) /\ r.iv = IVAfter(mode, v, c, g + (l \div W))
  BY <1>1, <1>4 DEF Undone
<1>6. r.out = Q  BY <1>1, <1>5, RowEqual
<1>7. decrypt(iv, s).out = P /\ decrypt(iv, s).iv = IVAfter(mode, v, c, g + (l \div W))
  <2> DEFINE d == decrypt(iv, s)
  <2>1. d = [iv |-> r.iv, out |-> P]  BY <1>1, <1>3, <1>6
  <2> HIDE DEF d
  <2>2. d.out = P /\ d.iv = r.iv  BY <2>1
  <2> QED  BY <1>5, <2>2, Zenon DEF d
<1> QED  BY <1>7, Zenon DEF l, iv, s, Unpadded

\* The text p of l bytes has been encrypted behind the g blocks of c, and d is c now.
Grows(md, v, c, g, d, p, l, r) ==
    /\ Row(d, g * W + l)
    /\ \A j \in 0 .. g : IVAfter(md, v, d, j) = IVAfter(md, v, c, j)
    /\ EncryptedAs(md, v, d, p, g, l)
    /\ \A s : \A h, k \in Nat :
          EncryptedAs(md, v, c, s, h, k) /\ h * W + k <= g * W => EncryptedAs(md, v, d, s, h, k)
    /\ l % W = 0 => r.iv = IVAfter(md, v, d, g + (l \div W))

LEMMA CipherGrows ==
    ASSUME NEW md, NEW v, GoodIV(md, v), NEW g \in Nat, NEW c, Row(c, g * W),
           NEW l \in Nat, NEW p, NEW r, Encrypted(md, IVAfter(md, v, c, g), p, l, r)
    PROVE  Grows(md, v, c, g, c \o r.out, p, l, r)
<1> USE Sizes
<1> DEFINE d == c \o r.out
           out == r.out
           iv == IVAfter(md, v, c, g)
<1>1. /\ Row(out, l) /\ EncryptedAs(md, iv, out, p, 0, l)
      /\ l % W = 0 => r.iv = IVAfter(md, iv, out, l \div W)
  BY DEF Encrypted
<1>2. Continues(md, v, c, g, c \o out, iv, out, l)
  <2> HIDE DEF out
  <2> QED  BY <1>1, IVGoesOn
<1>3. /\ \A s : EncryptedAs(md, iv, out, s, 0, l) => EncryptedAs(md, v, c \o out, s, g, l)
      /\ \A s : \A h, k \in Nat :
            EncryptedAs(md, v, c, s, h, k) /\ h * W + k <= g * W
               => EncryptedAs(md, v, c \o out, s, h, k)
  <2> HIDE DEF out
  <2> QED  BY <1>1, CipherGoesOn
<1>d. d = c \o out  OBVIOUS
<1> HIDE DEF d, out, iv
<1>4. /\ \A j \in 0 .. g : IVAfter(md, v, d, j) = IVAfter(md, v, c, j)
      /\ \A j \in Nat : j * W <= l => IVAfter(md, v, d, g + j) = IVAfter(md, iv, out, j)
      /\ Joins(d, c, g * W, out, l)
  BY <1>2, <1>d, Zenon DEF Continues
<1>5. Row(d, g * W + l)  BY <1>4, Zenon DEF Joins
<1>6. ASSUME l % W = 0  PROVE r.iv = IVAfter(md, v, d, g + (l \div W))
  <2>1. l \div W \in Nat /\ (l \div W) * W = l
    <3>1. 0 \in Nat /\ 0 % W = 0  OBVIOUS
    <3>2. BlocksPlus(0, l)  BY <3>1, BlocksSum
    <3> QED  BY <1>6, <3>2, Zenon DEF BlocksPlus
  <2>2. (l \div W) * W <= l  BY <2>1
  <2>3. IVAfter(md, v, d, g + (l \div W)) = IVAfter(md, iv, out, l \div W)
    BY <1>4, <2>1, <2>2, Zenon
  <2> QED  BY <1>1, <1>6, <2>3
<1>7. EncryptedAs(md, v, d, p, g, l)  BY <1>1, <1>3, <1>d, Zenon
<1>8. \A s : \A h, k \in Nat :
         EncryptedAs(md, v, c, s, h, k) /\ h * W + k <= g * W => EncryptedAs(md, v, d, s, h, k)
  BY <1>3, <1>d, Zenon
<1>9. Grows(md, v, c, g, d, p, l, r)  BY <1>4, <1>5, <1>6, <1>7, <1>8, Zenon DEF Grows
<1> QED  BY <1>9, <1>d DEF out

-----------------------------------------------------------------------------
(* AES: no counter is used twice *)

CounterInv ==
    /\ mode = "CTR" => iv0 \in Counters /\ encIV = CounterPlus(iv0, Len(counters))
    /\ mode # "CTR" => counters = <<>>
    /\ Row(counters, Len(counters)) /\ Len(counters) \in Nat
    /\ \A i \in 1 .. Len(counters) : counters[i] = CounterPlus(iv0, i - 1)
    /\ sent \in Nat

LEMMA CounterInvInit == Init => CounterInv
<1> SUFFICES ASSUME Init PROVE CounterInv  OBVIOUS
<1>1. Len(counters) = 0 /\ Row(counters, 0) /\ sent \in Nat /\ counters = <<>>
  BY DEF Init, Row
<1>2. ASSUME mode = "CTR"  PROVE iv0 \in Counters /\ encIV = CounterPlus(iv0, 0)
  <2>1. iv0 \in Counter0 /\ encIV = iv0  BY <1>2 DEF Init
  <2>2. iv0 \in Counters  BY <2>1, SizeAssumption DEF Counters
  <2>3. CounterPlus(iv0, 0) = iv0
    <3>1. 0 \in Nat  OBVIOUS
    <3> QED  BY <2>2, <3>1, CounterPlusSum
  <2> QED  BY <2>1, <2>2, <2>3
<1>3. \A i \in 1 .. Len(counters) : FALSE  BY <1>1
<1>4. 0 \in Nat  OBVIOUS
<1> QED  BY <1>1, <1>2, <1>3, <1>4, Zenon DEF CounterInv

LEMMA CounterInvNext == CounterInv /\ [Next]_vars => CounterInv'
<1> USE Sizes
<1> SUFFICES ASSUME CounterInv, [Next]_vars  PROVE CounterInv'  OBVIOUS
<1>1. CASE UNCHANGED <<mode, iv0, encIV, sent, counters>>  BY <1>1 DEF CounterInv, Row
<1>2. ASSUME NEW k \in Cuts, NEW raw \in BOOLEAN, Decrypt(k, raw)  PROVE CounterInv'
  BY <1>1, <1>2 DEF Decrypt
<1>3. ASSUME NEW k \in Cuts, Encrypt(k)  PROVE CounterInv'
  <2> DEFINE s == SubSeq(Text, sent + 1, sent + k)
             r == encrypt(encIV, s)
             n == Len(counters)
             f == [i \in 1 .. Passes(s) |-> Count(encIV, i - 1)]
  <2>0. k \in Nat /\ sent \in Nat /\ sent' \in Nat
    <3>1. k \in Nat /\ sent \in Nat  BY SizeAssumption DEF CounterInv
    <3>2. sent' = sent \/ sent' = sent + k
      <4>1. CASE Refuses(encIV, s)  BY <1>3, <4>1 DEF Encrypt
      <4>2. CASE ~Refuses(encIV, s)  BY <1>3, <4>2 DEF Encrypt
      <4> QED  BY <4>1, <4>2
    <3> QED  BY <3>1, <3>2
  <2>1. CASE Refuses(encIV, s)
    <3>1. UNCHANGED <<mode, iv0, encIV, sent, counters>>  BY <1>3, <2>1 DEF Encrypt
    <3> QED  BY <1>1, <3>1
  <2>2. CASE ~Refuses(encIV, s) /\ mode # "CTR"
    <3>1. UNCHANGED <<mode, iv0, counters>>  BY <1>3, <2>2 DEF Encrypt
    <3> QED  BY <2>0, <2>2, <3>1 DEF CounterInv, Row
  <2>3. CASE ~Refuses(encIV, s) /\ mode = "CTR"
    <3>1. /\ UNCHANGED <<mode, iv0>> /\ encIV' = r.iv
          /\ counters' = counters \o f
      BY <1>3, <2>3 DEF Encrypt
    <3>2. r.iv = Count(encIV, Passes(s))
      <4>1. r = encrypt_CTR(encIV, s)  BY <2>3, Zenon DEF encrypt
      <4> DEFINE keys == Joined([m \in 1 .. Passes(s) |-> aes_encrypt(Count(encIV, m - 1))], Len(s))
      <4>2. r = [iv |-> Count(encIV, Passes(s)), out |-> xor(s, keys)]
        BY <4>1, Zenon DEF encrypt_CTR
      <4> HIDE DEF r, keys
      <4> QED  BY <4>2
    <3>3. Passes(s) \in Nat
      <4>1. Row(Text, Len(Text)) /\ Len(Text) \in Nat  BY SizeAssumption, SeqRow
      <4>2. sent + k <= Len(Text)  BY <1>3 DEF Encrypt
      <4>3. Row(s, k)  BY <2>0, <4>1, <4>2, RowPart
      <4> HIDE DEF s
      <4>4. Blocks(s) \in Nat  BY <2>0, <4>3, BlocksOf
      <4> QED  BY <4>4 DEF Passes
    <3> DEFINE m == Passes(s)
    <3>4. iv0 \in Counters /\ n \in Nat /\ encIV = CounterPlus(iv0, n) /\ encIV \in Counters
      <4>1. iv0 \in Counters /\ n \in Nat /\ encIV = CounterPlus(iv0, n)
        BY <2>3 DEF CounterInv
      <4> QED  BY <4>1, CounterPlusIn
    <3> HIDE DEF r, s
    <3>5. \A j \in Nat : Count(encIV, j) = CounterPlus(iv0, n + j)
      <4> TAKE j \in Nat
      <4>1. Count(encIV, j) = CounterPlus(encIV, j)  BY <3>4, CountIs
      <4>2. CounterPlus(CounterPlus(iv0, n), j) = CounterPlus(iv0, n + j)
        BY <3>4, CounterPlusSum
      <4> QED  BY <3>4, <4>1, <4>2
    <3>6. encIV' = CounterPlus(iv0, n + m)  BY <3>1, <3>2, <3>3, <3>5
    <3>7. Row(f, m) /\ m \in Nat  BY <3>3 DEF Row
    <3>8. \A i \in 1 .. m : f[i] = CounterPlus(iv0, (n + i) - 1)
      <4> TAKE i \in 1 .. m
      <4>1. i - 1 \in Nat /\ n + (i - 1) = (n + i) - 1  BY <3>3, <3>4
      <4>2. f[i] = Count(encIV, i - 1)  OBVIOUS
      <4> QED  BY <3>5, <4>1, <4>2
    <3> HIDE DEF f, m
    <3>9. Row(counters, n)  BY DEF CounterInv
    <3> HIDE DEF n
    <3>10. Joins(counters', counters, n, f, m)
      <4>1. Joins(counters \o f, counters, n, f, m)  BY <3>4, <3>7, <3>9, RowConcat, Zenon
      <4> QED  BY <3>1, <4>1
    <3>11. /\ Row(counters', n + m) /\ (\A i \in 1 .. n : counters'[i] = counters[i])
           /\ \A i \in 1 .. m : counters'[n + i] = f[i]
      BY <3>10, Zenon DEF Joins
    <3>12. Len(counters') = n + m /\ n + m \in Nat
      <4>1. n + m \in Nat  BY <3>4, <3>7
      <4> QED  BY <3>11, <4>1, RowSeq
    <3>13. \A i \in 1 .. n + m : counters'[i] = CounterPlus(iv0, i - 1)
      <4> TAKE i \in 1 .. n + m
      <4>1. CASE i <= n
        <5>1. i \in 1 .. n  BY <3>4, <4>1
        <5>2. counters[i] = CounterPlus(iv0, i - 1)  BY <5>1 DEF CounterInv, n
        <5> QED  BY <3>11, <5>1, <5>2
      <4>2. CASE i > n
        <5> DEFINE q == i - n
        <5>1. q \in 1 .. m /\ n + q = i  BY <3>4, <3>7, <4>2
        <5> HIDE DEF q
        <5>2. counters'[n + q] = CounterPlus(iv0, (n + q) - 1)  BY <3>8, <3>11, <5>1
        <5> QED  BY <5>1, <5>2
      <4>3. i <= n \/ i > n  BY <3>4
      <4> QED  BY <4>1, <4>2, <4>3
    <3>14. Row(counters', Len(counters')) /\ Len(counters') \in Nat
           /\ encIV' = CounterPlus(iv0', Len(counters'))
           /\ \A i \in 1 .. Len(counters') : counters'[i] = CounterPlus(iv0', i - 1)
      BY <3>1, <3>6, <3>11, <3>12, <3>13
    <3>15. CounterInv'  BY <2>0, <2>3, <3>1, <3>4, <3>14 DEF CounterInv, Row
    <3> QED  BY <3>15
  <2> QED  BY <2>1, <2>2, <2>3
<1>4. CASE Next  BY <1>2, <1>3, <1>4 DEF Next
<1>5. CASE UNCHANGED vars  BY <1>1, <1>5 DEF vars
<1> QED  BY <1>4, <1>5

\* A counter is used once only, until all of them have been: from any initial
\* counter, whatever the lengths of the subsets, empty ones included.
THEOREM CountersOnce == AnySpec => []CountersDiffer
<1> USE Sizes
<1>1. AnyInit => CounterInv  BY CounterInvInit DEF AnyInit
<1>2. CounterInv /\ [AnyNext]_allVars => CounterInv'
  <2>1. [AnyNext]_allVars => [Next]_vars  BY DEF AnyNext, allVars
  <2> QED  BY <2>1, CounterInvNext
<1>3. CounterInv => CountersDiffer
  <2> SUFFICES ASSUME CounterInv, Len(counters) <= Values,
                      NEW i \in 1 .. Len(counters), NEW j \in 1 .. Len(counters),
                      counters[i] = counters[j]
               PROVE  i = j
    BY DEF CountersDiffer
  <2>1. mode = "CTR" /\ iv0 \in Counters /\ Len(counters) \in Nat
    <3>1. mode # "CTR" => Len(counters) = 0  BY DEF CounterInv
    <3> QED  BY <3>1 DEF CounterInv
  <2>2. Values \in Nat \ {0} /\ Value(iv0) \in 0 .. Values - 1  BY <2>1, ValueIn
  <2>3. ASSUME NEW x \in 1 .. Len(counters)
        PROVE  Value(counters[x]) = (Value(iv0) + (x - 1)) % Values /\ x - 1 \in 0 .. Values - 1
    <3>1. x - 1 \in Nat /\ x - 1 \in 0 .. Values - 1  BY <2>1, <2>2
    <3>2. counters[x] = CounterPlus(iv0, x - 1)  BY DEF CounterInv
    <3> QED  BY <2>1, <3>1, <3>2, CounterPlusIn
  <2> DEFINE a == Value(iv0)
             y == i - 1
             z == j - 1
  <2>4. (a + y) % Values = (a + z) % Values /\ y \in 0 .. Values - 1 /\ z \in 0 .. Values - 1
    BY <2>3
  <2>5. a \in Int  BY <2>2
  <2> HIDE DEF a, y, z
  <2>6. y = z  BY <2>2, <2>4, <2>5, ModCancel
  <2> QED  BY <2>1, <2>6 DEF y, z
<1> QED  BY <1>1, <1>2, <1>3, PTL DEF AnySpec

-----------------------------------------------------------------------------
(* AES: the two objects keep in step with the ciphertext *)

\* What the properties rest on. Subsets are whole blocks up to the last.
Ranges ==
    /\ mode \in Modes /\ GoodIV(mode, iv0) /\ sent \in 0 .. Len(Text)
    /\ Row(cipher, Len(cipher)) /\ Len(cipher) \in Nat /\ got \in 0 .. Len(cipher)
    /\ calls \in Seq([text : Nat, cipher : Nat]) /\ over \in BOOLEAN /\ refused \in BOOLEAN

\* The encrypting object's IV is the one behind the ciphertext.
CipherInv ==
    /\ over => mode \in {"CFB", "CTR"}
    /\ ~over => Len(cipher) % W = 0 /\ encIV = IVAfter(mode, iv0, cipher, Len(cipher) \div W)
    /\ mode # "CBC padded" =>
          Len(cipher) = sent /\ EncryptedAs(mode, iv0, cipher, Text, 0, sent)

\* The decrypting object's is the one behind what it has read of it.
PlainInv ==
    /\ Row(plain, Len(plain)) /\ Len(plain) \in Nat
    /\ \A i \in 1 .. Len(plain) : plain[i] \in {Text[i], Lost}
    /\ got % W = 0 => decIV = IVAfter(mode, iv0, cipher, got \div W)
    /\ got % W # 0 => over /\ got = Len(cipher)
    /\ mode # "CBC padded" => Len(plain) = got

\* With padding, what was encrypted between two calls stays with them.
PieceIs(c, a, b) ==
    /\ a.text <= b.text /\ b.cipher = a.cipher + PaddedLen(b.text - a.text)
    /\ EncryptedAs(mode, iv0, c, Pad(SubSeq(Text, a.text + 1, b.text)), a.cipher \div W,
                   PaddedLen(b.text - a.text))
CallsInv ==
    /\ Len(calls) \in Nat \ {0}
    /\ calls[Len(calls)].text = sent /\ calls[Len(calls)].cipher = Len(cipher)
    /\ \A n \in 1 .. Len(calls) :
          calls[n].text <= sent /\ calls[n].cipher <= Len(cipher) /\ calls[n].cipher % W = 0
    /\ \A i, j \in 1 .. Len(calls) : calls[i].cipher = calls[j].cipher => calls[i].text = calls[j].text
    /\ \A n \in 1 .. Len(calls) - 1 : PieceIs(cipher, calls[n], calls[n + 1])
    /\ \E n \in 1 .. Len(calls) : calls[n].cipher = got /\ calls[n].text = Len(plain)

AesInv == Ranges /\ CipherInv /\ PlainInv /\ (mode = "CBC padded" => CallsInv)

LEMMA TextRow == Row(Text, Len(Text)) /\ Len(Text) \in Nat
BY SizeAssumption, SeqRow

LEMMA AesInvInit == Init => AesInv
<1> USE Sizes
<1> SUFFICES ASSUME Init PROVE AesInv  OBVIOUS
<1> DEFINE v == iv0
           e == [text |-> 0, cipher |-> 0]
<1>i. /\ mode \in Modes /\ iv0 \in (IF mode = "CTR" THEN Counter0 ELSE {IV0})
      /\ encIV = iv0 /\ decIV = iv0 /\ sent = 0 /\ got = 0 /\ cipher = <<>> /\ plain = <<>>
      /\ calls = <<e>> /\ over = FALSE /\ refused = FALSE
  BY DEF Init
<1>1. GoodIV(mode, iv0)
  <2>1. CASE mode = "CTR"
    <3>1. iv0 \in Counter0  BY <1>i, <2>1
    <3> QED  BY <2>1, <3>1, SizeAssumption DEF GoodIV, Counters
  <2>2. CASE mode # "CTR"
    <3>1. iv0 = IV0  BY <1>i, <2>2
    <3>2. IV0 = [j \in 1 .. W |-> IV0[j]]  BY SizeAssumption
    <3> QED  BY <2>2, <3>1, <3>2 DEF GoodIV, Row
  <2> QED  BY <2>1, <2>2
<1>2. /\ Len(cipher) = 0 /\ Len(plain) = 0 /\ Row(<<>>, 0) /\ Len(Text) \in Nat
      /\ 0 % W = 0 /\ 0 \div W = 0
  BY <1>i, TextRow DEF Row
<1>3. IVAfter(mode, iv0, cipher, 0) = iv0
  <2>1. CASE mode = "CTR"
    <3>1. 0 \in Nat /\ iv0 \in Counters /\ mode # "ECB"  BY <1>1, <2>1 DEF GoodIV
    <3>2. CounterPlus(iv0, 0) = iv0  BY <3>1, CounterPlusSum
    <3> QED  BY <2>1, <3>1, <3>2 DEF IVAfter
  <2>2. CASE mode # "CTR"  BY <2>2 DEF IVAfter, Prev
  <2> QED  BY <2>1, <2>2
<1>4. EncryptedAs(mode, iv0, cipher, Text, 0, 0)
  <2> SUFFICES ASSUME NEW m \in Nat \ {0}, NEW t \in 1 .. W, Place(m, t) <= 0  PROVE FALSE
    BY DEF EncryptedAs
  <2>1. Place(m, t) \in Nat \ {0}  BY Places
  <2> QED  BY <2>1
<1>5. Len(calls) = 1 /\ calls \in Seq([text : Nat, cipher : Nat]) /\ calls[1] = e
      /\ \A n \in 1 .. 1 : n = 1
  <2>1. e \in [text : Nat, cipher : Nat]  OBVIOUS
  <2> HIDE DEF e
  <2> QED  BY <1>i, <2>1
<1>6. e.text = 0 /\ e.cipher = 0  OBVIOUS
<1> HIDE DEF e
<1>7. Ranges
  <2>1. sent \in 0 .. Len(Text) /\ got \in 0 .. Len(cipher) /\ Len(cipher) \in Nat  BY <1>i, <1>2
  <2>2. over \in BOOLEAN /\ refused \in BOOLEAN  BY <1>i, Zenon
  <2>3. Row(cipher, Len(cipher))  BY <1>i, <1>2, Zenon
  <2> QED  BY <1>i, <1>1, <1>5, <2>1, <2>2, <2>3, Zenon DEF Ranges
<1>8. CipherInv  BY <1>i, <1>2, <1>3, <1>4 DEF CipherInv
<1>9. PlainInv
  <2>1. \A i \in 1 .. 0 : FALSE  OBVIOUS
  <2> QED  BY <1>i, <1>2, <1>3, <2>1 DEF PlainInv
<1>10. CallsInv
  <2>1. \A n \in 1 .. 1 - 1 : FALSE  OBVIOUS
  <2> QED  BY <1>i, <1>2, <1>5, <1>6, <2>1 DEF CallsInv
<1> QED  BY <1>7, <1>8, <1>9, <1>10 DEF AesInv

\* A call of encrypt that is not refused.
EncryptDone(k) ==
    LET g == Len(cipher) \div W
        l == FilledLen(mode, k)
        s == SubSeq(Text, sent + 1, sent + k)
    IN  /\ k \in Nat \ {0} /\ sent + k <= Len(Text) /\ sent' = sent + k
        /\ g \in Nat /\ g * W = Len(cipher) /\ Len(cipher) % W = 0 /\ ~over
        /\ l \in Nat /\ l >= k
        /\ mode = "CBC padded" => l % W = 0 /\ l > k
        /\ mode # "CBC padded" => l = k
        /\ mode \in {"ECB", "CBC"} => k % W = 0
        /\ Grows(mode, iv0, cipher, g, cipher', Filled(mode, s), l, [iv |-> encIV'])
        /\ Len(cipher') = Len(cipher) + l
        /\ calls' = Append(calls, [text |-> sent + k, cipher |-> Len(cipher) + l])
        /\ over' = (k % W # 0 /\ mode # "CBC padded") /\ refused' = FALSE
        /\ UNCHANGED <<mode, iv0, decIV, plain, got>>

LEMMA EncryptEffect ==
    ASSUME ~AnySubset, AesInv, NEW k \in Cuts, Encrypt(k)
    PROVE  \/ EncryptDone(k)
           \/ refused' = TRUE
              /\ UNCHANGED <<mode, iv0, encIV, decIV, sent, cipher, calls, plain, got, over>>
<1> USE Sizes
<1> DEFINE g == Len(cipher) \div W
           l == FilledLen(mode, k)
           s == SubSeq(Text, sent + 1, sent + k)
           p == Filled(mode, s)
           r == encrypt(encIV, s)
<1>1. /\ ~over /\ sent + k <= Len(Text) /\ k # 0
      /\ UNCHANGED <<mode, iv0, decIV, plain, got>>
  BY DEF Encrypt
<1>2. k \in Nat \ {0} /\ sent \in Nat
  <2>1. k \in Nat /\ k # 0  BY <1>1, SizeAssumption
  <2>2. sent \in 0 .. Len(Text)  BY DEF AesInv, Ranges
  <2>3. sent \in Nat  BY <2>2, TextRow
  <2> QED  BY <2>1, <2>3
<1>3. CASE Refuses(encIV, s)
  <2>1. refused' = TRUE /\ UNCHANGED <<encIV, sent, cipher, calls, over, counters>>
    BY <1>3 DEF Encrypt
  <2> QED  BY <1>1, <2>1
<1>4. CASE ~Refuses(encIV, s)
  <2>1. /\ refused' = FALSE /\ encIV' = r.iv /\ sent' = sent + k
        /\ cipher' = cipher \o r.out
        /\ calls' = Append(calls, [text |-> sent', cipher |-> Len(cipher')])
        /\ over' = (~Whole(s) /\ mode # "CBC padded" /\ ~AnySubset)
    BY <1>4 DEF Encrypt
  <2>2. Row(s, k) /\ Len(s) = k
    <3>1. k \in Nat  BY <1>2
    <3>2. Row(s, k)  BY <1>1, <1>2, <3>1, TextRow, RowPart
    <3> HIDE DEF s
    <3> QED  BY <3>1, <3>2, RowSeq
  <2> HIDE DEF s
  <2>3. mode \in {"ECB", "CBC"} => k % W = 0  BY <1>4, <2>2 DEF Refuses, Whole
  <2>4. mode \in Modes /\ GoodIV(mode, iv0) /\ Row(cipher, Len(cipher)) /\ Len(cipher) \in Nat
    BY DEF AesInv, Ranges
  <2>5. Len(cipher) % W = 0 /\ encIV = IVAfter(mode, iv0, cipher, g)
    BY <1>1 DEF AesInv, CipherInv
  <2>6. g \in Nat /\ g * W = Len(cipher)
    <3>1. BlocksPlus(Len(cipher), k)  BY <1>2, <2>4, <2>5, BlocksSum
    <3> QED  BY <3>1, Zenon DEF BlocksPlus
  <2> HIDE DEF g
  <2>7. GoodIV(mode, encIV)  BY <2>4, <2>5, <2>6, IVGood
  <2>8. /\ l \in Nat /\ l >= k
        /\ mode = "CBC padded" => l % W = 0 /\ l > k
        /\ mode # "CBC padded" => l = k
    <3>1. k \in Nat  BY <1>2
    <3> QED  BY <2>2, <3>1, FilledIs
  <2>9. Encrypted(mode, encIV, p, l, r)  BY <1>2, <2>2, <2>3, <2>4, <2>7, EncryptIs
  <2> HIDE DEF l, p, r
  <2>10. Grows(mode, iv0, cipher, g, cipher', p, l, r)
    <3>1. Row(cipher, g * W) /\ Encrypted(mode, IVAfter(mode, iv0, cipher, g), p, l, r)
      BY <2>4, <2>5, <2>6, <2>9
    <3>2. Grows(mode, iv0, cipher, g, cipher \o r.out, p, l, r)
      BY <2>4, <2>6, <2>8, <3>1, CipherGrows, Zenon
    <3> QED  BY <2>1, <3>2
  <2>11. Grows(mode, iv0, cipher, g, cipher', p, l, [iv |-> encIV'])
    <3>1. r.iv = [iv |-> encIV'].iv  BY <2>1
    <3> QED  BY <2>10, <3>1, Zenon DEF Grows
  <2>12. Len(cipher') = Len(cipher) + l
    <3>1. Row(cipher', g * W + l)  BY <2>10, Zenon DEF Grows
    <3>2. g * W + l = Len(cipher) + l  BY <2>6
    <3>a. Len(cipher) \in Nat  BY <2>4, Zenon
    <3>b. l \in Nat  BY <2>8, Zenon
    <3>4. Len(cipher) + l \in Nat  BY <3>a, <3>b
    <3>3. Row(cipher', Len(cipher) + l)  BY <3>1, <3>2
    <3> QED  BY <3>3, <3>4, RowSeq
  <2>13. over' = (k % W # 0 /\ mode # "CBC padded")
    BY <2>1, <2>2 DEF Whole
  <2>14. calls' = Append(calls, [text |-> sent + k, cipher |-> Len(cipher) + l])
    BY <2>1, <2>12
  <2>15. EncryptDone(k)
    BY <1>1, <1>2, <2>1, <2>3, <2>5, <2>6, <2>8, <2>11, <2>12, <2>13, <2>14, Zenon
    DEF EncryptDone, g, l, p, s
  <2> QED  BY <2>15
<1> QED  BY <1>3, <1>4

\* A call that is refused leaves both objects as they are.
LEMMA RefusedCall ==
    ASSUME AesInv, refused' \in BOOLEAN,
           UNCHANGED <<mode, iv0, encIV, decIV, sent, cipher, calls, plain, got, over>>
    PROVE  AesInv'
<1>1. /\ mode' = mode /\ iv0' = iv0 /\ encIV' = encIV /\ decIV' = decIV /\ sent' = sent
      /\ cipher' = cipher /\ calls' = calls /\ plain' = plain /\ got' = got /\ over' = over
  OBVIOUS
<1>o. over' <=> over  BY <1>1
<1>2. Ranges'
  <2>1. refused' \in BOOLEAN  OBVIOUS
  <2> QED  BY <1>1, <2>1 DEF AesInv, Ranges, Row
<1>3. CipherInv'
  <2>1. CipherInv  BY DEF AesInv
  <2>2. over' => mode' \in {"CFB", "CTR"}  BY <1>1, <1>o, <2>1, Zenon DEF CipherInv
  <2>3. ~over' => Len(cipher') % W = 0
                  /\ encIV' = IVAfter(mode', iv0', cipher', Len(cipher') \div W)
    BY <1>1, <1>o, <2>1, Zenon DEF CipherInv
  <2>4. mode' # "CBC padded" =>
           Len(cipher') = sent' /\ EncryptedAs(mode', iv0', cipher', Text, 0, sent')
    BY <1>1, <2>1, Zenon DEF CipherInv
  <2> QED  BY <2>2, <2>3, <2>4, Zenon DEF CipherInv
<1>4. PlainInv'
  <2>1. Row(plain, Len(plain))'  BY <1>1, Zenon DEF AesInv, PlainInv, Row
  <2>2. PlainInv  BY DEF AesInv
  <2>3. Len(plain') \in Nat /\ \A i \in 1 .. Len(plain') : plain'[i] \in {Text[i], Lost}
    BY <1>1, <2>2, Zenon DEF PlainInv
  <2>4. got' % W = 0 => decIV' = IVAfter(mode', iv0', cipher', got' \div W)
    BY <1>1, <2>2, Zenon DEF PlainInv
  <2>5. got' % W # 0 => over' /\ got' = Len(cipher')
    BY <1>1, <1>o, <2>2, Zenon DEF PlainInv
  <2>6. mode' # "CBC padded" => Len(plain') = got'  BY <1>1, <2>2, Zenon DEF PlainInv
  <2> QED  BY <2>1, <2>3, <2>4, <2>5, <2>6, Zenon DEF PlainInv
<1>5. ASSUME mode = "CBC padded"  PROVE CallsInv'
  <2>1. CallsInv  BY <1>5 DEF AesInv
  <2>2. \A n \in 1 .. Len(calls) - 1 : PieceIs(cipher, calls[n], calls[n + 1])'
    BY <1>1, <2>1, Zenon DEF CallsInv, PieceIs
  <2>3. /\ Len(calls') \in Nat \ {0}
        /\ calls'[Len(calls')].text = sent' /\ calls'[Len(calls')].cipher = Len(cipher')
    BY <1>1, <2>1, Zenon DEF CallsInv
  <2>4. \A n \in 1 .. Len(calls') :
           /\ calls'[n].text <= sent' /\ calls'[n].cipher <= Len(cipher')
           /\ calls'[n].cipher % W = 0
    BY <1>1, <2>1, Zenon DEF CallsInv
  <2>5. \A i, j \in 1 .. Len(calls') :
           calls'[i].cipher = calls'[j].cipher => calls'[i].text = calls'[j].text
    <3>1. \A i, j \in 1 .. Len(calls) :
             calls[i].cipher = calls[j].cipher => calls[i].text = calls[j].text
      BY <2>1, Zenon DEF CallsInv
    <3> QED  BY <1>1, <3>1
  <2>6. \E n \in 1 .. Len(calls') : calls'[n].cipher = got' /\ calls'[n].text = Len(plain')
    BY <1>1, <2>1, Zenon DEF CallsInv
  <2>7. \A n \in 1 .. Len(calls') - 1 : PieceIs(cipher, calls[n], calls[n + 1])'
    BY <1>1, <2>2, Zenon
  <2> QED  BY <2>3, <2>4, <2>5, <2>6, <2>7, Zenon DEF CallsInv
<1> QED  BY <1>2, <1>3, <1>4, <1>5 DEF AesInv

LEMMA AesInvEncrypt ==
    ASSUME AesInv, NEW k, EncryptDone(k)
    PROVE  AesInv'
<1> USE Sizes
<1> DEFINE n == Len(cipher)
           g == n \div W
           l == FilledLen(mode, k)
           s == SubSeq(Text, sent + 1, sent + k)
           p == Filled(mode, s)
           e == [text |-> sent + k, cipher |-> n + l]
<1>1. /\ k \in Nat \ {0} /\ sent + k <= Len(Text) /\ sent' = sent + k
      /\ g \in Nat /\ l \in Nat /\ l >= k
  BY Zenon DEF EncryptDone
<1>g. g * W = n /\ ~over  BY Zenon DEF EncryptDone
<1>m. n % W = 0 /\ (mode = "CBC padded" => l % W = 0) /\ (mode \in {"ECB", "CBC"} => k % W = 0)
  BY Zenon DEF EncryptDone
<1>l. (mode = "CBC padded" => l > k) /\ (mode # "CBC padded" => l = k)
  BY Zenon DEF EncryptDone
<1>2. /\ Grows(mode, iv0, cipher, g, cipher', p, l, [iv |-> encIV'])
      /\ Len(cipher') = n + l /\ calls' = Append(calls, e)
      /\ over' = (k % W # 0 /\ mode # "CBC padded") /\ refused' = FALSE
      /\ mode' = mode /\ iv0' = iv0 /\ decIV' = decIV /\ plain' = plain /\ got' = got
  BY Zenon DEF EncryptDone
<1>3. mode \in Modes /\ GoodIV(mode, iv0) /\ Row(cipher, n) /\ n \in Nat
  BY Zenon DEF AesInv, Ranges
<1>s. calls \in Seq([text : Nat, cipher : Nat])  BY Zenon DEF AesInv, Ranges
<1>n. n \in Nat  BY <1>3, Zenon
<1> HIDE DEF g, l, s, p
<1>4. sent \in Nat /\ got \in 0 .. n
  <2>1. sent \in 0 .. Len(Text) /\ got \in 0 .. n  BY Zenon DEF AesInv, Ranges
  <2> QED  BY <2>1, TextRow
<1>5. /\ Row(cipher', g * W + l)
      /\ \A j \in 0 .. g : IVAfter(mode, iv0, cipher', j) = IVAfter(mode, iv0, cipher, j)
      /\ EncryptedAs(mode, iv0, cipher', p, g, l)
      /\ \A t : \A h, x \in Nat :
            EncryptedAs(mode, iv0, cipher, t, h, x) /\ h * W + x <= g * W
               => EncryptedAs(mode, iv0, cipher', t, h, x)
      /\ l % W = 0 => [iv |-> encIV'].iv = IVAfter(mode, iv0, cipher', g + (l \div W))
  BY <1>2, Zenon DEF Grows
<1>6. BlocksPlus(n, l)
  <2> HIDE DEF n
  <2>1. l \in Nat  BY <1>1
  <2> QED  BY <1>n, <1>m, <2>1, BlocksSum
<1>7. (n + l) % W = 0 => l % W = 0 /\ (n + l) \div W = g + (l \div W)
  <2>1. (n + l) % W = 0 => l % W = 0  BY <1>6, Zenon DEF BlocksPlus
  <2>2. l % W = 0 => (n + l) \div W = g + (l \div W)  BY <1>6, Zenon DEF BlocksPlus, g
  <2> QED  BY <2>1, <2>2
<1>8. l % W = 0 => (n + l) % W = 0  BY <1>6, Zenon DEF BlocksPlus
<1>9. [iv |-> encIV'].iv = encIV'  OBVIOUS
<1> HIDE DEF n
<1>c. n + l \in Nat /\ sent + k \in Nat  BY <1>1, <1>n, <1>4
<1>10. Ranges'
  <2>1. sent' \in 0 .. Len(Text) /\ got' \in 0 .. n + l
    <3>1. got' = got  BY <1>2, Zenon
    <3>2. Len(Text) \in Nat  BY TextRow
    <3> QED  BY <1>1, <1>n, <1>4, <3>1, <3>2
  <2>2. Row(cipher', n + l)
    <3>1. g * W + l = n + l  BY <1>g
    <3> QED  BY <1>5, <3>1
  <2>3. calls' \in Seq([text : Nat, cipher : Nat])
    <3>1. e \in [text : Nat, cipher : Nat]  BY <1>c
    <3> HIDE DEF e
    <3>2. Append(calls, e) \in Seq([text : Nat, cipher : Nat])  BY <1>s, <3>1, AppendProperties, Zenon
    <3> QED  BY <1>2, <3>2, Zenon
  <2>4. over' \in BOOLEAN /\ refused' \in BOOLEAN
    <3>1. (k % W # 0 /\ mode # "CBC padded") \in BOOLEAN  OBVIOUS
    <3> QED  BY <1>2, <3>1, Zenon
  <2>5. Row(cipher', Len(cipher'))  BY <1>2, <2>2, Zenon
  <2>6. Len(cipher') \in Nat /\ got' \in 0 .. Len(cipher')  BY <1>2, <1>c, <2>1, Zenon
  <2>7. mode' \in Modes /\ GoodIV(mode', iv0')  BY <1>2, <1>3, Zenon
  <2>8. Row(cipher, Len(cipher))'  BY <2>5 DEF Row
  <2> QED  BY <2>1, <2>3, <2>4, <2>6, <2>7, <2>8, Zenon DEF Ranges
<1>11. CipherInv'
  <2>1. over' => mode \in {"CFB", "CTR"}
    <3> SUFFICES ASSUME k % W # 0, mode # "CBC padded"  PROVE mode \in {"CFB", "CTR"}
      BY <1>2, Zenon
    <3> QED  BY <1>m, <1>3 DEF Modes
  <2>2. ~over' => (n + l) % W = 0 /\ encIV' = IVAfter(mode, iv0, cipher', (n + l) \div W)
    <3> SUFFICES ASSUME k % W = 0 \/ mode = "CBC padded"
                 PROVE  (n + l) % W = 0 /\ encIV' = IVAfter(mode, iv0, cipher', (n + l) \div W)
      BY <1>2, Zenon
    <3>1. l % W = 0  BY <1>m, <1>l
    <3> QED  BY <1>5, <1>7, <1>8, <1>9, <3>1, Zenon
  <2>3. ASSUME mode # "CBC padded"
        PROVE  n + l = sent + k /\ EncryptedAs(mode, iv0, cipher', Text, 0, sent + k)
    <3>1. n = sent /\ EncryptedAs(mode, iv0, cipher, Text, 0, sent)
      BY <2>3, Zenon DEF AesInv, CipherInv, n
    <3>2. l = k  BY <1>l, <2>3, Zenon
    <3>3. n = g * W  BY <1>g
    <3>4. p = SubSeq(Text, g * W + 1, g * W + k)  BY <2>3, <3>1, <3>3, Zenon DEF p, s, Filled
    <3>5. EncryptedAs(mode, iv0, cipher', Text, 0, g * W)
      <4>1. 0 * W + sent <= g * W /\ 0 \in Nat  BY <1>4, <3>1, <3>3
      <4>2. EncryptedAs(mode, iv0, cipher', Text, 0, sent)  BY <1>4, <1>5, <3>1, <4>1, Zenon
      <4> QED  BY <3>1, <3>3, <4>2, Zenon
    <3>6. EncryptedAs(mode, iv0, cipher', Text, 0, g * W + k)
      <4>1. Shaped(mode, k)  BY <1>m, <2>3 DEF Shaped
      <4>2. k \in Nat /\ g * W + k <= Len(Text)
        <5>1. sent + k = g * W + k  BY <3>1, <3>3
        <5> QED  BY <1>1, <5>1
      <4>3. EncryptedAs(mode, iv0, cipher', SubSeq(Text, g * W + 1, g * W + k), g, k)
        BY <1>5, <3>2, <3>4, Zenon
      <4>4. Row(Text, Len(Text)) /\ Len(Text) \in Nat  BY TextRow
      <4>5. g \in Nat  BY <1>1
      <4> QED  BY <3>5, <4>1, <4>2, <4>3, <4>4, <4>5, PartOf
    <3>7. g * W + k = sent + k  BY <3>1, <3>3
    <3>8. EncryptedAs(mode, iv0, cipher', Text, 0, sent + k)  BY <3>6, <3>7, Zenon
    <3>9. n + l = sent + k  BY <3>1, <3>2
    <3> QED  BY <3>8, <3>9
  <2> QED  BY <1>1, <1>2, <2>1, <2>2, <2>3, Zenon DEF CipherInv
<1>12. PlainInv'
  <2>1. got % W = 0
    <3> SUFFICES ASSUME got % W # 0  PROVE FALSE  OBVIOUS
    <3>1. over  BY Zenon DEF AesInv, PlainInv
    <3> QED  BY <1>g, <3>1, Zenon
  <2>2. decIV = IVAfter(mode, iv0, cipher, got \div W)  BY <2>1, Zenon DEF AesInv, PlainInv
  <2>3. got \div W \in 0 .. g
    <3>1. got \in Nat /\ got <= n  BY <1>n, <1>4
    <3>g. g \in Int /\ g \in Nat  BY <1>1
    <3> DEFINE q == got \div W
    <3>2. q \in Nat /\ q * W = got
      <4>1. BlocksPlus(got, 0)  BY <2>1, <3>1, BlocksSum
      <4> QED  BY <4>1, Zenon DEF BlocksPlus
    <3> HIDE DEF q
    <3>3. q <= g
      <4>q. q \in Int  BY <3>2
      <4> SUFFICES ASSUME q > g  PROVE FALSE  BY <3>g, <4>q
      <4>1. q * W >= g * W + W  BY <3>g, <4>q, MultiplesApart
      <4>2. got >= n + W  BY <1>g, <3>2, <4>1
      <4> QED  BY <1>n, <3>1, <4>2
    <3>4. q \in 0 .. g  BY <3>g, <3>2, <3>3
    <3> QED  BY <3>4 DEF q
  <2>4. decIV = IVAfter(mode, iv0, cipher', got \div W)  BY <1>5, <2>2, <2>3, Zenon
  <2>5. /\ Row(plain, Len(plain)) /\ Len(plain) \in Nat
        /\ \A i \in 1 .. Len(plain) : plain[i] \in {Text[i], Lost}
        /\ mode # "CBC padded" => Len(plain) = got
    BY Zenon DEF AesInv, PlainInv
  <2>6. Row(plain, Len(plain))'  BY <1>2, <2>5 DEF Row
  <2> QED  BY <1>2, <2>1, <2>4, <2>5, <2>6, Zenon DEF PlainInv
<1>13. ASSUME mode = "CBC padded"  PROVE CallsInv'
  <2> DEFINE m == Len(calls)
  <2>1. CallsInv  BY <1>13, Zenon DEF AesInv
  <2>2. /\ m \in Nat \ {0} /\ calls[m].text = sent /\ calls[m].cipher = n
        /\ \A i \in 1 .. m : calls[i].text <= sent /\ calls[i].cipher <= n /\ calls[i].cipher % W = 0
        /\ \A i, j \in 1 .. m : calls[i].cipher = calls[j].cipher => calls[i].text = calls[j].text
        /\ \A i \in 1 .. m - 1 : PieceIs(cipher, calls[i], calls[i + 1])
        /\ \E i \in 1 .. m : calls[i].cipher = got /\ calls[i].text = Len(plain)
    BY <2>1, Zenon DEF CallsInv, n
  <2>3. \A i \in 1 .. m : calls[i].text \in Nat /\ calls[i].cipher \in Nat
    <3> TAKE i \in 1 .. m
    <3>1. calls[i] \in [text : Nat, cipher : Nat]  BY <1>s, ElementOfSeq, Zenon
    <3> QED  BY <3>1
  <2>4. e.text = sent + k /\ e.cipher = n + l  BY DEF e
  <2>5. Len(calls') = m + 1 /\ calls'[m + 1] = e /\ \A i \in 1 .. m : calls'[i] = calls[i]
    <3> HIDE DEF e
    <3>1. e \in [text : Nat, cipher : Nat]  BY <1>c DEF e
    <3>2. /\ Len(Append(calls, e)) = m + 1 /\ Append(calls, e)[m + 1] = e
          /\ \A i \in 1 .. m : Append(calls, e)[i] = calls[i]
      <4>1. /\ Len(Append(calls, e)) = Len(calls) + 1
            /\ \A i \in 1 .. Len(calls) : Append(calls, e)[i] = calls[i]
            /\ Append(calls, e)[Len(calls) + 1] = e
        <5> DEFINE R == [text : Nat, cipher : Nat]
        <5>1. calls \in Seq(R) /\ e \in R  BY <1>s, <3>1
        <5> HIDE DEF R
        <5> QED  BY <5>1, AppendProperties
      <4> QED  BY <4>1, Zenon DEF m
    <3> QED  BY <1>2, <3>2, Zenon
  <2> HIDE DEF m, e
  <2>6. l % W = 0 /\ (n + l) % W = 0  BY <1>m, <1>8, <1>13, Zenon
  <2>l. l > k  BY <1>l, <1>13, Zenon
  <2>m. m \in Nat \ {0}  BY <2>2, Zenon
  <2>7. (\A i \in 1 .. m + 1 : i \in 1 .. m \/ i = m + 1) /\ m + 1 \in Nat \ {0}  BY <2>m
  <2>8. m + 1 \in Nat \ {0} /\ calls'[m + 1].text = sent + k /\ calls'[m + 1].cipher = n + l
    BY <2>4, <2>5, <2>7, Zenon
  <2>9. \A i \in 1 .. m + 1 : /\ calls'[i].text <= sent + k /\ calls'[i].cipher <= n + l
                              /\ calls'[i].cipher % W = 0
    <3> TAKE i \in 1 .. m + 1
    <3>1. CASE i \in 1 .. m
      <4>1. /\ calls[i].text <= sent /\ calls[i].cipher <= n /\ calls[i].cipher % W = 0
            /\ calls[i].text \in Nat /\ calls[i].cipher \in Nat /\ calls'[i] = calls[i]
        BY <2>2, <2>3, <2>5, <3>1, Zenon
      <4>2. calls[i].text <= sent + k /\ calls[i].cipher <= n + l  BY <1>1, <1>n, <1>4, <4>1, SMTT(40), ZenonT(60)
      <4> QED  BY <4>1, <4>2
    <3>2. CASE i = m + 1
      <4>1. sent + k <= sent + k /\ n + l <= n + l  BY <1>c
      <4> QED  BY <2>6, <2>8, <3>2, <4>1, Zenon
    <3> QED  BY <2>7, <3>1, <3>2
  <2>10. \A i, j \in 1 .. m + 1 : calls'[i].cipher = calls'[j].cipher => calls'[i].text = calls'[j].text
    <3>1. \A i \in 1 .. m : calls'[i].cipher # n + l
      <4> TAKE i \in 1 .. m
      <4> DEFINE x == calls'[i].cipher
      <4>1. x \in Nat /\ x <= n  BY <2>2, <2>3, <2>5, Zenon
      <4> HIDE DEF x
      <4>2. x # n + l  BY <1>1, <1>n, <2>l, <4>1
      <4> QED  BY <4>2 DEF x
    <3> TAKE i, j \in 1 .. m + 1
    <3> HAVE calls'[i].cipher = calls'[j].cipher
    <3>2. CASE i \in 1 .. m /\ j \in 1 .. m
      <4>1. calls[i].cipher = calls[j].cipher => calls[i].text = calls[j].text  BY <2>2, <3>2, Zenon
      <4>2. calls'[i] = calls[i] /\ calls'[j] = calls[j]  BY <2>5, <3>2
      <4> QED  BY <4>1, <4>2
    <3>3. CASE i = m + 1 /\ j = m + 1  BY <3>3
    <3>4. CASE i \in 1 .. m /\ j = m + 1  BY <2>8, <3>1, <3>4, Zenon
    <3>5. CASE i = m + 1 /\ j \in 1 .. m  BY <2>8, <3>1, <3>5, Zenon
    <3> QED  BY <2>7, <3>2, <3>3, <3>4, <3>5
  <2>11. \A i \in 1 .. (m + 1) - 1 : PieceIs(cipher, calls[i], calls[i + 1])'
    <3> TAKE i \in 1 .. (m + 1) - 1
    <3>1. CASE i \in 1 .. m - 1
      <4>1. i \in 1 .. m /\ i + 1 \in 1 .. m  BY <2>m, <3>1
      <4>2. calls'[i] = calls[i] /\ calls'[i + 1] = calls[i + 1]  BY <2>5, <4>1
      <4> DEFINE a == calls[i]
                 b == calls[i + 1]
                 x == b.text - a.text
                 h == a.cipher \div W
      <4>3. /\ a.text <= b.text /\ b.cipher = a.cipher + PaddedLen(x)
            /\ EncryptedAs(mode, iv0, cipher, Pad(SubSeq(Text, a.text + 1, b.text)), h, PaddedLen(x))
        BY <2>2, <3>1, Zenon DEF PieceIs
      <4>4. /\ a.text \in Nat /\ b.text \in Nat /\ a.cipher \in Nat /\ a.cipher % W = 0
            /\ b.cipher <= n /\ x \in Nat
        <5>1. /\ a.text \in Nat /\ b.text \in Nat /\ a.cipher \in Nat /\ a.cipher % W = 0
              /\ b.cipher <= n
          BY <2>2, <2>3, <4>1, Zenon
        <5>2. a.text <= b.text  BY <4>3, Zenon
        <5>3. x \in Nat
          <6> HIDE DEF a, b
          <6> QED  BY <5>1, <5>2
        <5> QED  BY <5>1, <5>3, Zenon
      <4>5. PaddedLen(x) \in Nat
        <5>1. PaddedLen(x) = x + (W - (x % W))  BY DEF PaddedLen
        <5>2. x % W \in 0 .. W - 1
          <6> HIDE DEF x
          <6> QED  BY <4>4
        <5> HIDE DEF x
        <5> QED  BY <4>4, <5>1, <5>2
      <4> HIDE DEF a, b, x
      <4>6. h \in Nat /\ h * W = a.cipher
        <5>1. BlocksPlus(a.cipher, 0)  BY <4>4, BlocksSum
        <5> QED  BY <5>1, Zenon DEF BlocksPlus
      <4>7. h * W + PaddedLen(x) <= g * W  BY <1>g, <4>3, <4>4, <4>6
      <4>8. EncryptedAs(mode, iv0, cipher', Pad(SubSeq(Text, a.text + 1, b.text)), h, PaddedLen(x))
        BY <1>5, <4>3, <4>5, <4>6, <4>7, Zenon
      <4>9. PieceIs(cipher, calls[i], calls[i + 1])'  BY <1>2, <4>2, <4>3, <4>8, Zenon DEF PieceIs, x, h, a, b
      <4> QED  BY <4>9
    <3>2. CASE i = m
      <4>0. m \in 1 .. m  BY <2>m
      <4> DEFINE a == calls'[m]
                 b == calls'[m + 1]
      <4>1. a.text = sent /\ a.cipher = n /\ b.text = sent + k /\ b.cipher = n + l
        BY <2>2, <2>5, <2>8, <4>0, Zenon
      <4> HIDE DEF a, b
      <4>2. b.text - a.text = k /\ a.text <= b.text /\ b.cipher = a.cipher + l
        BY <1>1, <1>n, <1>4, <4>1
      <4>3. l = PaddedLen(k) /\ p = Pad(SubSeq(Text, a.text + 1, b.text))
        BY <1>13, <4>1, Zenon DEF l, p, s, FilledLen, Filled
      <4>4. EncryptedAs(mode, iv0, cipher', p, a.cipher \div W, l)  BY <1>5, <4>1, Zenon DEF g
      <4>5. PieceIs(cipher, calls[i], calls[i + 1])'
        BY <1>2, <3>2, <4>2, <4>3, <4>4, Zenon DEF PieceIs, a, b
      <4> QED  BY <4>5
    <3>3. i \in 1 .. m - 1 \/ i = m  BY <2>m
    <3> QED  BY <3>1, <3>2, <3>3
  <2>12. \E i \in 1 .. m + 1 : calls'[i].cipher = got /\ calls'[i].text = Len(plain)
    <3>1. PICK i \in 1 .. m : calls[i].cipher = got /\ calls[i].text = Len(plain)  BY <2>2
    <3>2. i \in 1 .. m + 1  BY <2>m
    <3> QED  BY <2>5, <3>1, <3>2
  <2>13. Len(calls') = m + 1  BY <2>5, Zenon
  <2>14. /\ Len(calls') \in Nat \ {0}
         /\ calls'[Len(calls')].text = sent' /\ calls'[Len(calls')].cipher = Len(cipher')
    BY <1>1, <1>2, <2>8, <2>13, Zenon
  <2>15. \A i \in 1 .. Len(calls') :
            /\ calls'[i].text <= sent' /\ calls'[i].cipher <= Len(cipher')
            /\ calls'[i].cipher % W = 0
    BY <1>1, <1>2, <2>9, <2>13, Zenon
  <2>16. \A i, j \in 1 .. Len(calls') :
            calls'[i].cipher = calls'[j].cipher => calls'[i].text = calls'[j].text
    BY <2>10, <2>13, Zenon
  <2>17. \A i \in 1 .. Len(calls') - 1 : PieceIs(cipher, calls[i], calls[i + 1])'
    BY <2>11, <2>13, Zenon
  <2>18. \E i \in 1 .. Len(calls') : calls'[i].cipher = got' /\ calls'[i].text = Len(plain')
    BY <1>2, <2>12, <2>13, Zenon
  <2> QED  BY <2>14, <2>15, <2>16, <2>17, <2>18, Zenon DEF CallsInv
<1>14. (mode = "CBC padded" => CallsInv)'  BY <1>2, <1>13
<1> QED  BY <1>10, <1>11, <1>12, <1>14 DEF AesInv

\* A call of decrypt that is not refused: x bytes of the text, from where it was.
Yields(k, x, q) ==
    /\ x \in Nat /\ Row(q, x) /\ plain' = plain \o q
    /\ \A i \in 1 .. x : q[i] \in {Text[Len(plain) + i], Lost}
    /\ mode # "CBC padded" => x = k
    /\ mode = "CBC padded" =>
          \E n \in 1 .. Len(calls) : calls[n].cipher = got + k /\ calls[n].text = Len(plain) + x
DecryptDone(k) ==
    /\ k \in Nat \ {0} /\ got + k <= Len(cipher) /\ got' = got + k
    /\ got % W = 0
    /\ k % W = 0 => decIV' = IVAfter(mode, iv0, cipher, (got \div W) + (k \div W))
    /\ k % W # 0 => over /\ got + k = Len(cipher)
    /\ \E x, q : Yields(k, x, q)
    /\ refused' \in BOOLEAN /\ UNCHANGED <<mode, iv0, encIV, sent, cipher, calls, over>>

\* What is decrypted, from which block.
Decrypting(k, g) ==
    /\ k \in Nat \ {0} /\ got \in Nat /\ got + k <= Len(cipher)
    /\ got % W = 0 /\ g \in Nat /\ g * W = got /\ g = got \div W
    /\ decIV = IVAfter(mode, iv0, cipher, g)
    /\ SubSeq(cipher, got + 1, got + k) = Behind(cipher, g, k)

LEMMA DecryptFrom ==
    ASSUME AesInv, NEW k \in Cuts, NEW raw \in BOOLEAN, Decrypt(k, raw)
    PROVE  \E g : Decrypting(k, g)
<1> USE Sizes
<1> DEFINE g == got \div W
           n == Len(cipher)
<1>1. 0 < k /\ got + k <= n  BY DEF Decrypt
<1>2. k \in Nat \ {0}
  <2>1. k \in Nat  BY SizeAssumption
  <2> QED  BY <1>1, <2>1
<1>3. n \in Nat /\ got \in 0 .. n  BY Zenon DEF AesInv, Ranges
<1> HIDE DEF n
<1>4. got \in Nat  BY <1>3
<1>5. got % W = 0
  <2> SUFFICES ASSUME got % W # 0  PROVE FALSE  OBVIOUS
  <2>1. got = n  BY Zenon DEF AesInv, PlainInv, n
  <2> QED  BY <1>1, <1>2, <1>3, <2>1
<1>6. g \in Nat /\ g * W = got
  <2>1. 0 \in Nat  OBVIOUS
  <2>2. BlocksPlus(got, 0)  BY <1>4, <1>5, <2>1, BlocksSum
  <2> QED  BY <2>2, Zenon DEF BlocksPlus
<1>7. decIV = IVAfter(mode, iv0, cipher, g)  BY <1>5, Zenon DEF AesInv, PlainInv
<1>8. SubSeq(cipher, got + 1, got + k) = Behind(cipher, g, k)  BY <1>6, Zenon DEF Behind
<1>9. Decrypting(k, g)
  <2>1. got + k <= Len(cipher)  BY <1>1 DEF n
  <2> QED  BY <1>2, <1>4, <1>5, <1>6, <1>7, <1>8, <2>1, Zenon DEF Decrypting
<1> QED  BY <1>9

\* The call as the code has it.
LEMMA DecryptCall ==
    ASSUME NEW k, NEW raw, Decrypt(k, raw), NEW g, Decrypting(k, g)
    PROVE  LET s == Behind(cipher, g, k)
               r == decrypt(decIV, s)
           IN  /\ UNCHANGED <<mode, iv0, encIV, sent, cipher, calls, over>>
               /\ \/ refused' = TRUE /\ UNCHANGED <<decIV, plain, got>>
                  \/ /\ ~Refuses(decIV, s) /\ refused' \in BOOLEAN /\ decIV' = r.iv
                     /\ plain' = plain \o Received(r.out, raw) /\ got' = got + k
<1> DEFINE s == Behind(cipher, g, k)
           r == decrypt(decIV, s)
<1>1. SubSeq(cipher, got + 1, got + k) = s  BY Zenon DEF Decrypting
<1>2. UNCHANGED <<mode, iv0, encIV, sent, cipher, calls, over>>  BY DEF Decrypt
<1>3. CASE Refuses(decIV, s)
  <2>1. refused' = TRUE /\ UNCHANGED <<decIV, plain, got>>
    <3>1. Refuses(decIV, SubSeq(cipher, got + 1, got + k))  BY <1>1, <1>3
    <3> QED  BY <3>1 DEF Decrypt
  <2> QED  BY <1>2, <2>1
<1>4. CASE ~Refuses(decIV, s)
  <2> DEFINE t == SubSeq(cipher, got + 1, got + k)
             b == ~raw /\ EmbeddedNul(decrypt(decIV, t).out)
  <2>1. /\ refused' = b
        /\ decIV' = decrypt(decIV, t).iv
        /\ plain' = plain \o Received(decrypt(decIV, t).out, raw)
        /\ got' = got + k
    <3>1. ~Refuses(decIV, t)  BY <1>1, <1>4
    <3> QED  BY <3>1 DEF Decrypt
  <2>2. b \in BOOLEAN  BY Zenon
  <2>3. t = s  BY <1>1
  <2> HIDE DEF t, b, s
  <2>4. refused' \in BOOLEAN  BY <2>1, <2>2, Zenon
  <2>5. decIV' = r.iv /\ plain' = plain \o Received(r.out, raw) /\ got' = got + k
    BY <2>1, <2>3, Zenon
  <2> QED  BY <1>2, <1>4, <2>4, <2>5, Zenon DEF s
<1> QED  BY <1>3, <1>4

LEMMA DecryptEffect ==
    ASSUME AesInv, NEW k \in Cuts, NEW raw \in BOOLEAN, Decrypt(k, raw)
    PROVE  \/ DecryptDone(k)
           \/ refused' = TRUE
              /\ UNCHANGED <<mode, iv0, encIV, decIV, sent, cipher, calls, plain, got, over>>
<1> USE Sizes
<1>0. PICK g : Decrypting(k, g)  BY DecryptFrom
<1> DEFINE s == Behind(cipher, g, k)
           r == decrypt(decIV, s)
           n == Len(cipher)
<1>1. /\ UNCHANGED <<mode, iv0, encIV, sent, cipher, calls, over>>
      /\ \/ refused' = TRUE /\ UNCHANGED <<decIV, plain, got>>
         \/ /\ ~Refuses(decIV, s) /\ refused' \in BOOLEAN /\ decIV' = r.iv
            /\ plain' = plain \o Received(r.out, raw) /\ got' = got + k
  BY <1>0, DecryptCall
<1>2. CASE refused' = TRUE /\ UNCHANGED <<decIV, plain, got>>  BY <1>1, <1>2
<1>3. CASE /\ ~Refuses(decIV, s) /\ refused' \in BOOLEAN /\ decIV' = r.iv
           /\ plain' = plain \o Received(r.out, raw) /\ got' = got + k
  <2>1. k \in Nat \ {0} /\ got \in Nat /\ got + k <= n  BY <1>0, Zenon DEF Decrypting
  <2>2. /\ got % W = 0 /\ g \in Nat /\ g * W = got /\ g = got \div W
        /\ decIV = IVAfter(mode, iv0, cipher, g)
    BY <1>0, Zenon DEF Decrypting
  <2>3. mode \in Modes /\ GoodIV(mode, iv0) /\ Row(cipher, n) /\ n \in Nat
    BY Zenon DEF AesInv, Ranges
  <2>4. g * W + k <= n /\ g * W + k = got + k
    <3>1. g * W + k = got + k  BY <2>2
    <3> QED  BY <2>1, <3>1
  <2>5. Row(s, k) /\ Len(s) = k
    <3>1. k \in Nat /\ n \in Nat /\ g \in Nat  BY <2>1, <2>2, <2>3, Zenon
    <3>2. Row(s, k)  BY <2>3, <2>4, <3>1, BehindIs
    <3> HIDE DEF s
    <3> QED  BY <3>1, <3>2, RowSeq
  <2> HIDE DEF s, n, r
  <2>6. mode \in {"ECB", "CBC"} => k % W = 0  BY <1>3, <2>5 DEF Refuses, Whole
  <2>7. ASSUME mode # "CBC padded"
        PROVE  /\ k % W = 0 => decIV' = IVAfter(mode, iv0, cipher, g + (k \div W))
               /\ \E x, q : Yields(k, x, q)
    <3> DEFINE Q == SubSeq(Text, g * W + 1, g * W + k)
    <3>1. n = sent /\ EncryptedAs(mode, iv0, cipher, Text, 0, sent)
      BY <2>7, Zenon DEF AesInv, CipherInv, n
    <3>2. k \in Nat /\ g * W + k <= Len(Text) /\ Len(Text) \in Nat /\ Row(Text, Len(Text))
      <4>1. Len(Text) \in Nat /\ Row(Text, Len(Text))  BY TextRow
      <4>2. sent \in 0 .. Len(Text)  BY Zenon DEF AesInv, Ranges
      <4>3. n <= Len(Text)  BY <3>1, <4>1, <4>2
      <4>4. got + k <= Len(Text)  BY <2>1, <2>3, <4>1, <4>3
      <4>5. g * W + k <= Len(Text)  BY <2>4, <4>4, Zenon
      <4>6. k \in Nat  BY <2>1
      <4> QED  BY <4>1, <4>5, <4>6
    <3>3. EncryptedAs(mode, iv0, cipher, Text, 0, g * W + k)
      <4> SUFFICES ASSUME NEW m \in Nat \ {0}, NEW t \in 1 .. W, Place(m, t) <= g * W + k
                   PROVE  Place(m, t) <= sent
        BY <3>1, Zenon DEF EncryptedAs
      <4>1. Place(m, t) \in Nat  BY Places
      <4>2. Place(m, t) <= got + k  BY <2>4, Zenon
      <4> QED  BY <2>1, <2>3, <3>1, <4>1, <4>2
    <3>4. EncryptedAs(mode, iv0, cipher, Q, g, k)
      <4>1. Shaped(mode, k)  BY <2>6, <2>7 DEF Shaped
      <4> QED  BY <2>2, <3>2, <3>3, <4>1, PartOf
    <3>5. Row(Q, k) /\ \A i \in 1 .. k : Q[i] = Text[g * W + i]
      <4>1. g * W \in Nat  BY <2>1, <2>2, Zenon
      <4> QED  BY <3>2, <4>1, RowPart
    <3> HIDE DEF Q
    <3>6. Undone(mode, iv0, cipher, Q, g, k, r)
      <4>1. r = decrypt(IVAfter(mode, iv0, cipher, g), Behind(cipher, g, k))
        BY <2>2, Zenon DEF r, s
      <4>2. Undone(mode, iv0, cipher, Q, g, k,
                   decrypt(IVAfter(mode, iv0, cipher, g), Behind(cipher, g, k)))
        BY <2>1, <2>2, <2>3, <2>4, <2>6, <2>7, <3>4, <3>5, DecryptIs
      <4> QED  BY <4>1, <4>2
    <3>7. /\ Row(r.out, k) /\ (\A i \in 1 .. k : r.out[i] = Q[i])
          /\ k % W = 0 => r.iv = IVAfter(mode, iv0, cipher, g + (k \div W))
      BY <3>6, Zenon DEF Undone
    <3> DEFINE q == Received(r.out, raw)
    <3>8. Row(q, k) /\ \A i \in 1 .. k : q[i] \in {r.out[i], Lost}
      BY <3>2, <3>7, ReceivedIs
    <3> HIDE DEF q
    <3>9. \A i \in 1 .. k : q[i] \in {Text[Len(plain) + i], Lost}
      <4> TAKE i \in 1 .. k
      <4>1. Len(plain) = g * W  BY <2>2, <2>7, Zenon DEF AesInv, PlainInv
      <4>2. r.out[i] = Text[Len(plain) + i]  BY <3>5, <3>7, <4>1, Zenon
      <4> QED  BY <3>8, <4>2
    <3>10. Yields(k, k, q)
      <4>1. plain' = plain \o q  BY <1>3 DEF q
      <4> QED  BY <2>7, <3>2, <3>8, <3>9, <4>1, Zenon DEF Yields
    <3> QED  BY <1>3, <3>7, <3>10
  <2>8. ASSUME mode = "CBC padded"
        PROVE  /\ k % W = 0 /\ decIV' = IVAfter(mode, iv0, cipher, g + (k \div W))
               /\ \E x, q : Yields(k, x, q)
    <3> DEFINE m == Len(calls)
    <3>1. CallsInv  BY <2>8 DEF AesInv
    <3>2. PICK i \in 1 .. m - 1 : calls[i].cipher = got /\ calls[i + 1].cipher = got + k
      BY <2>8 DEF Decrypt
    <3>3. m \in Nat \ {0}  BY <3>1 DEF CallsInv
    <3>4. i \in 1 .. m /\ i + 1 \in 1 .. m  BY <3>2, <3>3
    <3> DEFINE a == calls[i].text
               b == calls[i + 1].text
               x == b - a
               P == SubSeq(Text, a + 1, b)
    <3>5. a \in Nat /\ b \in Nat
      <4>0. calls \in Seq([text : Nat, cipher : Nat])  BY Zenon DEF AesInv, Ranges
      <4>1. calls[i] \in [text : Nat, cipher : Nat]  BY <3>4, <4>0, ElementOfSeq, Zenon
      <4>2. calls[i + 1] \in [text : Nat, cipher : Nat]  BY <3>4, <4>0, ElementOfSeq, Zenon
      <4> QED  BY <4>1, <4>2
    <3>6. PieceIs(cipher, calls[i], calls[i + 1])  BY <3>1, <3>2, Zenon DEF CallsInv
    <3>7. /\ a <= b /\ got + k = got + PaddedLen(x)
          /\ EncryptedAs(mode, iv0, cipher, Pad(P), g, PaddedLen(x))
      BY <2>2, <3>2, <3>6, Zenon DEF PieceIs
    <3>8. b <= Len(Text) /\ Len(Text) \in Nat /\ Row(Text, Len(Text))
      <4>1. Len(Text) \in Nat /\ Row(Text, Len(Text))  BY TextRow
      <4>2. b <= sent  BY <3>1, <3>4, Zenon DEF CallsInv
      <4>3. sent \in 0 .. Len(Text)  BY Zenon DEF AesInv, Ranges
      <4> HIDE DEF b
      <4> QED  BY <3>5, <4>1, <4>2, <4>3
    <3>9. a = Len(plain)
      <4>1. PICK h \in 1 .. m : calls[h].cipher = got /\ calls[h].text = Len(plain)
        BY <3>1, Zenon DEF CallsInv
      <4>2. calls[h].cipher = calls[i].cipher => calls[h].text = calls[i].text
        BY <3>1, <3>4, Zenon DEF CallsInv
      <4> QED  BY <3>2, <4>1, <4>2
    <3> HIDE DEF a, b, m
    <3>10. x \in Nat /\ b = a + x  BY <3>5, <3>7
    <3> HIDE DEF x
    <3>11. Row(P, x) /\ \A j \in 1 .. x : P[j] = Text[a + j]
      <4>1. P = SubSeq(Text, a + 1, a + x) /\ a + x <= Len(Text)  BY <3>8, <3>10
      <4> HIDE DEF P
      <4> QED  BY <3>5, <3>8, <3>10, <4>1, RowPart, SMTT(30)
    <3> HIDE DEF P
    <3>12. PaddedLen(x) \in Nat /\ PaddedLen(x) % W = 0  BY <3>10, <3>11, PadIs
    <3>13. k = PaddedLen(x)  BY <2>1, <3>7, <3>12
    <3>14. r.out = P /\ r.iv = IVAfter(mode, iv0, cipher, g + (k \div W))
      <4>1. g * W + PaddedLen(x) <= n  BY <2>4, <3>13
      <4>2. Unpadded(P, IVAfter(mode, iv0, cipher, g + (PaddedLen(x) \div W)),
                     decrypt(IVAfter(mode, iv0, cipher, g), Behind(cipher, g, PaddedLen(x))))
        <5>1. g \in Nat /\ x \in Nat /\ n \in Nat /\ GoodIV(mode, iv0) /\ Row(cipher, n) /\ Row(P, x)
          BY <2>2, <2>3, <3>10, <3>11, Zenon
        <5>2. EncryptedAs(mode, iv0, cipher, Pad(P), g, PaddedLen(x))  BY <3>7, Zenon
        <5> QED  BY <2>8, <4>1, <5>1, <5>2, DecryptPadded, Zenon
      <4> QED  BY <2>2, <3>13, <4>2, Zenon DEF r, s, Unpadded
    <3> DEFINE q == Received(r.out, raw)
    <3>15. Row(q, x) /\ \A j \in 1 .. x : q[j] \in {P[j], Lost}
      <4>1. Row(r.out, x)  BY <3>11, <3>14
      <4>2. Row(q, x) /\ \A j \in 1 .. x : q[j] \in {r.out[j], Lost}
        BY <3>10, <4>1, ReceivedIs
      <4> QED  BY <3>14, <4>2, Zenon
    <3> HIDE DEF q
    <3>16. \A j \in 1 .. x : q[j] \in {Text[Len(plain) + j], Lost}
      BY <3>9, <3>11, <3>15, Zenon
    <3>17. \E h \in 1 .. Len(calls) : calls[h].cipher = got + k /\ calls[h].text = Len(plain) + x
      <4>1. calls[i + 1].text = Len(plain) + x  BY <3>9, <3>10 DEF b
      <4> QED  BY <3>2, <3>4, <4>1, Zenon DEF m
    <3>18. Yields(k, x, q)
      <4>1. plain' = plain \o q  BY <1>3 DEF q
      <4> QED  BY <2>8, <3>10, <3>15, <3>16, <3>17, <4>1, Zenon DEF Yields
    <3>19. k % W = 0  BY <3>12, <3>13, Zenon
    <3> QED  BY <1>3, <3>14, <3>18, <3>19
  <2>9. ASSUME k % W # 0  PROVE over /\ got + k = n
    <3>1. mode \notin {"ECB", "CBC"} /\ mode # "CBC padded"  BY <2>6, <2>8, <2>9
    <3>2. k % W = 0 \/ (over /\ got + k = Len(cipher)) \/ mode \in {"ECB", "CBC"}
      BY DEF Decrypt
    <3> QED  BY <2>9, <3>1, <3>2, Zenon DEF n
  <2>10. /\ k % W = 0 => decIV' = IVAfter(mode, iv0, cipher, (got \div W) + (k \div W))
         /\ \E x, q : Yields(k, x, q)
    BY <2>2, <2>7, <2>8, Zenon
  <2>11. DecryptDone(k)  BY <1>1, <1>3, <2>1, <2>2, <2>9, <2>10, Zenon DEF DecryptDone, n
  <2> QED  BY <2>11
<1> QED  BY <1>1, <1>2, <1>3

LEMMA AesInvDecrypt ==
    ASSUME AesInv, NEW k, DecryptDone(k)
    PROVE  AesInv'
<1> USE Sizes
<1> DEFINE n == Len(cipher)
           p == Len(plain)
<1>1. k \in Nat \ {0} /\ got + k <= n /\ got' = got + k  BY Zenon DEF DecryptDone
<1>2. /\ got % W = 0
      /\ k % W = 0 => decIV' = IVAfter(mode, iv0, cipher, (got \div W) + (k \div W))
      /\ k % W # 0 => over /\ got + k = n
  BY Zenon DEF DecryptDone
<1>3. /\ mode' = mode /\ iv0' = iv0 /\ encIV' = encIV /\ sent' = sent /\ cipher' = cipher
      /\ calls' = calls /\ over' = over
  BY DEF DecryptDone
<1>o. refused' \in BOOLEAN /\ (over' <=> over)  BY <1>3 DEF DecryptDone
<1>4. PICK x, q : Yields(k, x, q)  BY Zenon DEF DecryptDone
<1>5. /\ x \in Nat /\ Row(q, x) /\ plain' = plain \o q
      /\ \A i \in 1 .. x : q[i] \in {Text[p + i], Lost}
      /\ mode # "CBC padded" => x = k
      /\ mode = "CBC padded" =>
            \E i \in 1 .. Len(calls) : calls[i].cipher = got + k /\ calls[i].text = p + x
  BY <1>4, Zenon DEF Yields
<1>6. n \in Nat /\ got \in 0 .. n  BY Zenon DEF AesInv, Ranges
<1>7. p \in Nat /\ Row(plain, p) /\ \A i \in 1 .. p : plain[i] \in {Text[i], Lost}
  BY Zenon DEF AesInv, PlainInv
<1>8. mode # "CBC padded" => p = got  BY Zenon DEF AesInv, PlainInv
<1>c. CipherInv  BY Zenon DEF AesInv
<1>p. p \in Nat  BY <1>7, Zenon
<1> HIDE DEF n, p
<1>9. Ranges'
  <2>1. got' \in 0 .. n  BY <1>1, <1>6
  <2>2. got' \in 0 .. Len(cipher')  BY <1>3, <2>1, Zenon DEF n
  <2>3. /\ mode' \in Modes /\ GoodIV(mode', iv0') /\ sent' \in 0 .. Len(Text)
        /\ Len(cipher') \in Nat /\ calls' \in Seq([text : Nat, cipher : Nat])
    BY <1>3, Zenon DEF AesInv, Ranges
  <2>4. Row(cipher, Len(cipher))'
    <3>1. Row(cipher, Len(cipher))  BY Zenon DEF AesInv, Ranges
    <3> QED  BY <1>3, <3>1, Zenon DEF Row
  <2>5. over' \in BOOLEAN
    <3>1. over \in BOOLEAN  BY Zenon DEF AesInv, Ranges
    <3> QED  BY <1>3, <3>1, Zenon
  <2> QED  BY <1>o, <2>2, <2>3, <2>4, <2>5, Zenon DEF Ranges
<1>10. CipherInv'
  <2>2. over' => mode' \in {"CFB", "CTR"}  BY <1>3, <1>o, <1>c, Zenon DEF CipherInv
  <2>3. ~over' => Len(cipher') % W = 0
                  /\ encIV' = IVAfter(mode', iv0', cipher', Len(cipher') \div W)
    BY <1>3, <1>o, <1>c, Zenon DEF CipherInv
  <2>4. mode' # "CBC padded" =>
           Len(cipher') = sent' /\ EncryptedAs(mode', iv0', cipher', Text, 0, sent')
    BY <1>3, <1>c, Zenon DEF CipherInv
  <2> QED  BY <2>2, <2>3, <2>4, Zenon DEF CipherInv
<1>11. BlocksPlus(got, k)
  <2>1. got \in Nat /\ k \in Nat  BY <1>1, <1>6
  <2> QED  BY <1>2, <2>1, BlocksSum
<1>12. got' % W = 0 => k % W = 0  BY <1>1, <1>11, Zenon DEF BlocksPlus
<1>13. k % W = 0 => got' % W = 0 /\ got' \div W = (got \div W) + (k \div W)
  BY <1>1, <1>11, Zenon DEF BlocksPlus
<1>14. Row(plain', p + x) /\ \A i \in 1 .. p + x : plain'[i] \in {Text[i], Lost}
  <2>1. Joins(plain', plain, p, q, x)
    <3>1. Joins(plain \o q, plain, p, q, x)  BY <1>5, <1>7, RowConcat, Zenon
    <3> QED  BY <1>5, <3>1, Zenon
  <2>2. /\ Row(plain', p + x) /\ (\A i \in 1 .. p : plain'[i] = plain[i])
        /\ \A i \in 1 .. x : plain'[p + i] = q[i]
    BY <2>1, Zenon DEF Joins
  <2>3. ASSUME NEW i \in 1 .. p + x  PROVE plain'[i] \in {Text[i], Lost}
    <3>1. CASE i <= p
      <4>1. i \in 1 .. p  BY <1>p, <3>1
      <4> QED  BY <1>7, <2>2, <4>1
    <3>2. CASE i > p
      <4> DEFINE j == i - p
      <4>x. x \in Nat  BY <1>5, Zenon
      <4>1. j \in 1 .. x /\ p + j = i  BY <1>p, <4>x, <3>2
      <4> HIDE DEF j
      <4>2. plain'[p + j] = q[j] /\ q[j] \in {Text[p + j], Lost}  BY <1>5, <2>2, <4>1, Zenon
      <4> QED  BY <4>1, <4>2
    <3> QED  BY <1>p, <3>1, <3>2
  <2> QED  BY <2>2, <2>3
<1>15. Len(plain') = p + x /\ p + x \in Nat
  <2>0. x \in Nat  BY <1>5, Zenon
  <2>1. p + x \in Nat  BY <1>p, <2>0
  <2>2. Row(plain', p + x)  BY <1>14
  <2> QED  BY <2>1, <2>2, RowSeq
<1>16. PlainInv'
  <2>1. Row(plain, Len(plain))'
    <3>1. Row(plain', Len(plain'))  BY <1>14, <1>15
    <3> QED  BY <3>1 DEF Row
  <2>2. Len(plain') \in Nat /\ \A i \in 1 .. Len(plain') : plain'[i] \in {Text[i], Lost}
    BY <1>14, <1>15, Zenon
  <2>3. got' % W = 0 => decIV' = IVAfter(mode', iv0', cipher', got' \div W)
    BY <1>2, <1>3, <1>12, <1>13, Zenon
  <2>4. got' % W # 0 => over' /\ got' = Len(cipher')
    <3>1. got' % W # 0 => k % W # 0  BY <1>13, Zenon
    <3> QED  BY <1>1, <1>2, <1>3, <1>o, <3>1, Zenon DEF n
  <2>5. mode' # "CBC padded" => Len(plain') = got'
    <3> SUFFICES ASSUME mode # "CBC padded"  PROVE Len(plain') = got'  BY <1>3
    <3>1. p = got /\ x = k  BY <1>5, <1>8
    <3> QED  BY <1>1, <1>15, <3>1, Zenon
  <2> QED  BY <2>1, <2>2, <2>3, <2>4, <2>5, Zenon DEF PlainInv
<1>17. ASSUME mode = "CBC padded"  PROVE CallsInv'
  <2>1. CallsInv  BY <1>17 DEF AesInv
  <2>2. \A i \in 1 .. Len(calls) - 1 : PieceIs(cipher, calls[i], calls[i + 1])'
    BY <1>3, <2>1, Zenon DEF CallsInv, PieceIs
  <2>3. /\ Len(calls') \in Nat \ {0}
        /\ calls'[Len(calls')].text = sent' /\ calls'[Len(calls')].cipher = Len(cipher')
    BY <1>3, <2>1, Zenon DEF CallsInv
  <2>4. \A i \in 1 .. Len(calls') :
           /\ calls'[i].text <= sent' /\ calls'[i].cipher <= Len(cipher')
           /\ calls'[i].cipher % W = 0
    BY <1>3, <2>1, Zenon DEF CallsInv
  <2>5. \A i, j \in 1 .. Len(calls') :
           calls'[i].cipher = calls'[j].cipher => calls'[i].text = calls'[j].text
    <3>1. \A i, j \in 1 .. Len(calls) :
             calls[i].cipher = calls[j].cipher => calls[i].text = calls[j].text
      BY <2>1, Zenon DEF CallsInv
    <3> QED  BY <1>3, <3>1
  <2>6. \E i \in 1 .. Len(calls') : calls'[i].cipher = got' /\ calls'[i].text = Len(plain')
    <3>1. \E i \in 1 .. Len(calls) : calls[i].cipher = got + k /\ calls[i].text = p + x
      BY <1>5, <1>17, Zenon
    <3> QED  BY <1>1, <1>3, <1>15, <3>1, Zenon
  <2>7. \A i \in 1 .. Len(calls') - 1 : PieceIs(cipher, calls[i], calls[i + 1])'
    BY <1>3, <2>2, Zenon
  <2> QED  BY <2>3, <2>4, <2>5, <2>6, <2>7, Zenon DEF CallsInv
<1>18. (mode = "CBC padded" => CallsInv)'  BY <1>3, <1>17
<1> QED  BY <1>9, <1>10, <1>16, <1>18 DEF AesInv

LEMMA AesInvNext == ~AnySubset /\ AesInv /\ [Next]_vars => AesInv'
<1> SUFFICES ASSUME ~AnySubset, AesInv, [Next]_vars  PROVE AesInv'  OBVIOUS
<1>1. ASSUME NEW k \in Cuts, Encrypt(k)  PROVE AesInv'
  <2>1. \/ EncryptDone(k)
        \/ refused' = TRUE
           /\ UNCHANGED <<mode, iv0, encIV, decIV, sent, cipher, calls, plain, got, over>>
    BY <1>1, EncryptEffect
  <2>2. refused' = TRUE => refused' \in BOOLEAN  OBVIOUS
  <2> QED  BY <2>1, <2>2, AesInvEncrypt, RefusedCall
<1>2. ASSUME NEW k \in Cuts, NEW raw \in BOOLEAN, Decrypt(k, raw)  PROVE AesInv'
  <2>1. \/ DecryptDone(k)
        \/ refused' = TRUE
           /\ UNCHANGED <<mode, iv0, encIV, decIV, sent, cipher, calls, plain, got, over>>
    BY <1>2, DecryptEffect
  <2>2. refused' = TRUE => refused' \in BOOLEAN  OBVIOUS
  <2> QED  BY <2>1, <2>2, AesInvDecrypt, RefusedCall
<1>3. CASE Next  BY <1>1, <1>2, <1>3 DEF Next
<1>4. CASE UNCHANGED vars
  <2>1. /\ refused' = refused
        /\ UNCHANGED <<mode, iv0, encIV, decIV, sent, cipher, calls, plain, got, over>>
    BY <1>4 DEF vars
  <2>2. refused' \in BOOLEAN
    <3>1. refused \in BOOLEAN  BY Zenon DEF AesInv, Ranges
    <3> QED  BY <2>1, <3>1, Zenon
  <2> QED  BY <2>1, <2>2, RefusedCall
<1> QED  BY <1>3, <1>4

LEMMA AesInvAlways == ~AnySubset => (AnySpec => []AesInv)
<1> SUFFICES ASSUME ~AnySubset  PROVE AnySpec => []AesInv  OBVIOUS
<1>1. AnyInit => AesInv  BY AesInvInit DEF AnyInit
<1>2. AesInv /\ [AnyNext]_allVars => AesInv'
  <2>1. [AnyNext]_allVars => [Next]_vars  BY DEF AnyNext, allVars
  <2> QED  BY <2>1, AesInvNext
<1> QED  BY <1>1, <1>2, PTL DEF AnySpec

\* The IV of either object stays one block, up to a last subset in CFB and CTR
\* that is not whole blocks.
THEOREM AesTypeCorrect == ~AnySubset => (AnySpec => []TypeOK)
<1> USE Sizes
<1> SUFFICES ASSUME ~AnySubset  PROVE AnySpec => []TypeOK  OBVIOUS
<1>1. AesInv /\ CounterInv => TypeOK
  <2> SUFFICES ASSUME AesInv, CounterInv  PROVE TypeOK  OBVIOUS
  <2>1. /\ mode \in Modes /\ GoodIV(mode, iv0) /\ sent \in 0 .. Len(Text)
        /\ Len(cipher) \in Nat /\ got \in 0 .. Len(cipher)
        /\ calls \in Seq([text : Nat, cipher : Nat]) /\ over \in BOOLEAN /\ refused \in BOOLEAN
    BY Zenon DEF AesInv, Ranges
  <2>2. sent <= Len(Text) /\ got <= Len(cipher)
    <3>1. sent \in 0 .. Len(Text) /\ got \in 0 .. Len(cipher) /\ Len(cipher) \in Nat  BY <2>1, Zenon
    <3> QED  BY <3>1, TextRow
  <2>3. ASSUME ~over  PROVE Len(encIV) = W /\ Len(decIV) = W
    <3>1. Len(cipher) % W = 0 /\ encIV = IVAfter(mode, iv0, cipher, Len(cipher) \div W)
      BY <2>3, Zenon DEF AesInv, CipherInv
    <3>2. got % W = 0 /\ decIV = IVAfter(mode, iv0, cipher, got \div W)
      BY <2>3, Zenon DEF AesInv, PlainInv
    <3>3. got \in Nat /\ Len(cipher) \in Nat
      <4>1. got \in 0 .. Len(cipher) /\ Len(cipher) \in Nat  BY <2>1, Zenon
      <4> QED  BY <4>1
    <3>4. ASSUME NEW a \in Nat, a % W = 0  PROVE Len(IVAfter(mode, iv0, cipher, a \div W)) = W
      <4>1. BlocksPlus(a, 0)  BY <3>4, BlocksSum
      <4>2. a \div W \in Nat  BY <4>1, Zenon DEF BlocksPlus
      <4>3. GoodIV(mode, IVAfter(mode, iv0, cipher, a \div W))  BY <2>1, <4>2, IVGood, Zenon
      <4> QED  BY <4>3, GoodLength, Zenon
    <3> QED  BY <3>1, <3>2, <3>3, <3>4, Zenon
  <2>4. ASSUME mode = "CTR"  PROVE encIV \in [1 .. W -> 0 .. Base - 1]
    <3>1. iv0 \in Counters /\ encIV = CounterPlus(iv0, Len(counters)) /\ Len(counters) \in Nat
      BY <2>4, Zenon DEF CounterInv
    <3>2. encIV \in Counters  BY <3>1, CounterPlusIn
    <3> QED  BY <3>2, Zenon DEF Counters
  <2> QED  BY <2>1, <2>2, <2>3, <2>4, Zenon DEF TypeOK
<1>2. AnySpec => []AesInv  BY AesInvAlways
<1>3. AnySpec => []CounterInv
  <2>1. AnyInit => CounterInv  BY CounterInvInit DEF AnyInit
  <2>2. CounterInv /\ [AnyNext]_allVars => CounterInv'
    <3>1. [AnyNext]_allVars => [Next]_vars  BY DEF AnyNext, allVars
    <3> QED  BY <3>1, CounterInvNext
  <2> QED  BY <2>1, <2>2, PTL DEF AnySpec
<1> QED  BY <1>1, <1>2, <1>3, PTL

\* decrypt undoes encrypt, however the two objects cut what passes between them,
\* padded or not, and although rawToChar may have stopped a call in between.
THEOREM DecryptUndoes == ~AnySubset => (AnySpec => []RoundTrip)
<1> SUFFICES ASSUME ~AnySubset  PROVE AnySpec => []RoundTrip  OBVIOUS
<1>1. AesInv => RoundTrip
  <2> SUFFICES ASSUME AesInv  PROVE RoundTrip  OBVIOUS
  <2>1. \A i \in 1 .. Len(plain) : plain[i] \in {Text[i], Lost}  BY Zenon DEF AesInv, PlainInv
  <2>2. ASSUME got = Len(cipher)  PROVE Len(plain) = sent
    <3>1. CASE mode # "CBC padded"
      <4>1. Len(cipher) = sent  BY <3>1, Zenon DEF AesInv, CipherInv
      <4>2. Len(plain) = got  BY <3>1, Zenon DEF AesInv, PlainInv
      <4> QED  BY <2>2, <4>1, <4>2
    <3>2. CASE mode = "CBC padded"
      <4> DEFINE m == Len(calls)
      <4>1. CallsInv  BY <3>2, Zenon DEF AesInv
      <4>2. m \in Nat \ {0} /\ calls[m].text = sent /\ calls[m].cipher = Len(cipher)
        BY <4>1, Zenon DEF CallsInv
      <4>3. PICK h \in 1 .. m : calls[h].cipher = got /\ calls[h].text = Len(plain)
        BY <4>1, Zenon DEF CallsInv
      <4>m. m \in Nat \ {0}  BY <4>2, Zenon
      <4>4. m \in 1 .. m
        <5> HIDE DEF m
        <5> QED  BY <4>m
      <4>5. calls[h].cipher = calls[m].cipher => calls[h].text = calls[m].text
        BY <4>1, <4>4, Zenon DEF CallsInv
      <4> QED  BY <2>2, <4>2, <4>3, <4>5, Zenon
    <3> QED  BY <3>1, <3>2
  <2> QED  BY <2>1, <2>2 DEF RoundTrip
<1>2. AnySpec => []AesInv  BY AesInvAlways
<1> QED  BY <1>1, <1>2, PTL

-----------------------------------------------------------------------------
(* AES: the ciphertext of the subsets is that of the text *)

\* A block of the ciphertext of s in SP 800-38A, from the block before it.
StandardBlock(s, j, before) ==
    CASE mode = "ECB" -> aes_encrypt(Block(s, j))
      [] mode = "CBC" -> aes_encrypt(xor(Block(s, j), before))
      [] mode = "CFB" -> xor(Block(s, j), aes_encrypt(before))
      [] mode = "CTR" -> xor(Block(s, j), aes_encrypt(CounterPlus(iv0, j - 1)))

\* Blocks of which each is what the one before makes it are those of Standard.
LEMMA StandardIs ==
    ASSUME NEW s, NEW k \in Nat, Len(s) = k, Blocks(s) \in Nat, NEW h,
           h = [j \in 1 .. Blocks(s) |-> h[j]],
           \A j \in 1 .. Blocks(s) : h[j] = StandardBlock(s, j, IF j = 1 THEN iv0 ELSE h[j - 1])
    PROVE  Standard(s) = Joined(h, k)
<1> DEFINE n == Blocks(s)
           Step(f, j) == LET p == Block(s, j)
                             before == IF j = 1 THEN iv0 ELSE f[j - 1]
                         IN  CASE mode = "ECB" -> aes_encrypt(p)
                               [] mode = "CBC" -> aes_encrypt(xor(p, before))
                               [] mode = "CFB" -> xor(p, aes_encrypt(before))
                               [] mode = "CTR" -> xor(p, aes_encrypt(CounterPlus(iv0, j - 1)))
           C[j \in 1 .. Blocks(s)] == Step(C, j)
<1>1. Standard(s) = Joined(C, Len(s))  BY Zenon DEF Standard
<1>2. \A f : \A j \in 1 .. n : Step(f, j) = StandardBlock(s, j, IF j = 1 THEN iv0 ELSE f[j - 1])
  BY Zenon DEF StandardBlock
<1> HIDE DEF C, Step
<1>3. h = [j \in 1 .. n |-> Step(h, j)]
  <2>1. \A j \in 1 .. n : h[j] = Step(h, j)  BY <1>2
  <2> HIDE DEF n
  <2> QED  BY <2>1 DEF n
<1>4. C = [j \in 1 .. n |-> Step(C, j)]  BY <1>3, Zenon DEF C
<1> DEFINE M == {j \in 0 .. n : j = 0 \/ C[j] = h[j]}
<1>5. \A j \in 1 .. n : C[j] = Step(C, j)
  <2>1. \A j \in 1 .. n : [i \in 1 .. n |-> Step(C, i)][j] = Step(C, j)  OBVIOUS
  <2> QED  BY <1>4, <2>1, Zenon
<1>6. ASSUME NEW i \in 0 .. n - 1, i \in M  PROVE i + 1 \in M
  <2> DEFINE j == i + 1
  <2>1. j \in 1 .. n /\ j \in 0 .. n /\ j - 1 = i /\ (j # 1 => i # 0)  OBVIOUS
  <2> HIDE DEF j
  <2>2. (IF j = 1 THEN iv0 ELSE C[j - 1]) = (IF j = 1 THEN iv0 ELSE h[j - 1])  BY <1>6, <2>1
  <2>3. C[j] = StandardBlock(s, j, IF j = 1 THEN iv0 ELSE C[j - 1])  BY <1>2, <1>5, <2>1
  <2>4. h[j] = StandardBlock(s, j, IF j = 1 THEN iv0 ELSE h[j - 1])  BY <2>1
  <2>5. C[j] = h[j]  BY <2>2, <2>3, <2>4, Zenon
  <2> QED  BY <2>1, <2>5 DEF j
<1>7. \A j \in 0 .. n : j \in M
  <2>1. 0 \in M  OBVIOUS
  <2> HIDE DEF M, n
  <2>2. n \in Nat  BY DEF n
  <2> QED  BY <1>6, <2>1, <2>2, IntervalInduction, SMTT(30)
<1>8. C = h
  <2>1. \A j \in 1 .. n : C[j] = h[j]  BY <1>7
  <2>2. Row(C, n)
    <3>1. [j \in 1 .. n |-> Step(C, j)] = [j \in 1 .. n |-> C[j]]  BY <1>5
    <3> QED  BY <1>4, <3>1, Zenon DEF Row
  <2>3. Row(h, n)  BY DEF Row
  <2> HIDE DEF n
  <2> QED  BY <2>1, <2>2, <2>3, RowEqual
<1> QED  BY <1>1, <1>8

\* Block j is one of a text of k bytes.
Inside(j, k) == (j - 1) * W < k /\ (k % W = 0 => j * W <= k)

\* s is the first k bytes of a text.
Begins(s, text, k) == \A i \in 1 .. k : s[i] = text[i]

\* Block j of a ciphertext c is the one SP 800-38A makes from the block before it.
Chained(c, s, j) == Block(c, j) = StandardBlock(s, j, IF j = 1 THEN iv0 ELSE Block(c, j - 1))

\* The blocks of a ciphertext, the last of which may be short, are of that kind.
LEMMA BlockOfCipher ==
    ASSUME mode \in {"ECB", "CBC", "CFB", "CTR"}, NEW k \in Nat, NEW s, Row(s, k), NEW c, Row(c, k),
           NEW text, Begins(s, text, k), Shaped(mode, k),
           EncryptedAs(mode, iv0, c, text, 0, k), NEW j \in Nat \ {0}, Inside(j, k)
    PROVE  Chained(c, s, j)
<1> USE Sizes
<1> DEFINE l == IF j * W <= k THEN W ELSE k - (j - 1) * W
           before == IF j = 1 THEN iv0 ELSE Block(c, j - 1)
           v == IVAfter(mode, iv0, c, j - 1)
           b == Block(s, j)
<1>0. j \in Nat \ {0} /\ (j - 1) * W < k  BY Zenon DEF Inside
<1>1. Row(Block(c, j), l) /\ Row(b, l) /\ l \in 1 .. W /\ l \in Nat
  <2>1. Row(Block(c, j), l) /\ Row(b, l) /\ l \in 1 .. W  BY <1>0, BlockIs
  <2> HIDE DEF l
  <2> QED  BY <2>1
<1>2. \A t \in 1 .. l : t \in 1 .. W /\ Place(j, t) <= k /\ Place(j, t) \in 1 .. k
  <2> TAKE t \in 1 .. l
  <2> DEFINE x == (j - 1) * W
             z == j * W
  <2>1. 1 \in 1 .. W  OBVIOUS
  <2>2. x \in Nat  BY <1>0, <2>1, Places
  <2>3. z = x + W  BY <1>0
  <2>4. x < k  BY <1>0
  <2>5. x + l <= k
    <3>1. l = IF z <= k THEN W ELSE k - x  OBVIOUS
    <3> HIDE DEF x, z, l
    <3> QED  BY <2>2, <2>3, <2>4, <3>1
  <2>6. Place(j, t) = x + t  BY DEF Place
  <2> HIDE DEF x, z, l
  <2> QED  BY <1>1, <2>2, <2>5, <2>6
<1>3. \A t \in 1 .. l : /\ Block(c, j)[t] = CipherByte(mode, iv0, c, text, 0, j, t)
                        /\ b[t] = s[Place(j, t)] /\ s[Place(j, t)] = text[Place(j, t)]
  <2> TAKE t \in 1 .. l
  <2> HIDE DEF l
  <2>1. t \in 1 .. W /\ Place(j, t) <= k /\ Place(j, t) \in 1 .. k  BY <1>2
  <2>2. Block(c, j)[t] = c[Place(j, t)] /\ b[t] = s[Place(j, t)]  BY <1>0, <2>1, BlockIs
  <2>3. 0 * W + Place(j, t) = Place(j, t)  BY <2>1
  <2>4. c[0 * W + Place(j, t)] = CipherByte(mode, iv0, c, text, 0, j, t)
    BY <1>0, <2>1, Zenon DEF EncryptedAs
  <2>5. s[Place(j, t)] = text[Place(j, t)]  BY <2>1, Zenon DEF Begins
  <2> QED  BY <2>2, <2>3, <2>4, <2>5
<1>4. mode \in {"CBC", "CFB"} => before = v
  <2> SUFFICES ASSUME mode \in {"CBC", "CFB"}  PROVE before = v  OBVIOUS
  <2>0. mode # "ECB" /\ mode # "CTR"  OBVIOUS
  <2>1. CASE j = 1  BY <2>0, <2>1 DEF IVAfter, Prev
  <2>2. CASE j # 1
    <3>1. j - 1 \in Nat \ {0} /\ j - 1 # 0  BY <1>0, <2>2
    <3>2. (j - 1) * W <= k /\ ((j - 1) - 1) * W < k
      <4>1. (j - 1) * W = ((j - 1) - 1) * W + W  BY <3>1
      <4>2. ((j - 1) - 1) * W \in Int /\ (j - 1) * W \in Int  BY <3>1
      <4> DEFINE x == (j - 1) * W
                 y == ((j - 1) - 1) * W
      <4>3. x < k /\ x = y + W /\ x \in Int /\ y \in Int  BY <1>0, <4>1, <4>2
      <4> HIDE DEF x, y
      <4>4. x <= k /\ y < k  BY <4>3
      <4> QED  BY <4>4 DEF x, y
    <3>3. Block(c, j - 1) = Cell(c, j - 1)  BY <3>1, <3>2, BlockIs
    <3> QED  BY <2>0, <2>2, <3>1, <3>3 DEF IVAfter, Prev
  <2> QED  BY <2>1, <2>2
<1>5. mode \in {"ECB", "CBC"} => l = W /\ b = Cell(text, j)
  <2> SUFFICES ASSUME mode \in {"ECB", "CBC"}  PROVE l = W /\ b = Cell(text, j)  OBVIOUS
  <2>1. k % W = 0  BY DEF Shaped
  <2>2. l = W
    <3>1. j * W <= k  BY <2>1, Zenon DEF Inside
    <3> QED  BY <3>1
  <2> HIDE DEF l, b
  <2>3. Row(Cell(text, j), W) /\ \A t \in 1 .. W : Cell(text, j)[t] = text[Place(j, t)]
    BY DEF Cell, Row
  <2>4. \A t \in 1 .. W : b[t] = Cell(text, j)[t]  BY <1>3, <2>2, <2>3
  <2>5. Row(b, W)  BY <1>1, <2>2
  <2> QED  BY <2>2, <2>3, <2>4, <2>5, RowEqual
<1>6. (0 + j) - 1 = j - 1  BY <1>0
<1> HIDE DEF l, before, v, b
<1>7. ASSUME mode = "ECB"  PROVE Block(c, j) = StandardBlock(s, j, before)
  <2>1. StandardBlock(s, j, before) = aes_encrypt(b)  BY <1>7, Zenon DEF StandardBlock, b
  <2>2. \A t \in 1 .. l : Block(c, j)[t] = aes_encrypt(b)[t]
    BY <1>3, <1>5, <1>7 DEF CipherByte
  <2>3. Row(aes_encrypt(b), l)  BY <1>5, <1>7, Cipher
  <2>4. Block(c, j) = aes_encrypt(b)  BY <1>1, <2>2, <2>3, RowEqual
  <2> QED  BY <2>1, <2>4
<1>8. ASSUME mode = "CBC"  PROVE Block(c, j) = StandardBlock(s, j, before)
  <2> DEFINE e == aes_encrypt(xor(b, before))
  <2>0. mode # "ECB"  BY <1>8
  <2>1. StandardBlock(s, j, before) = e  BY <1>8, <2>0, Zenon DEF StandardBlock, b
  <2>2. \A t \in 1 .. l : Block(c, j)[t] = e[t]
    <3> TAKE t \in 1 .. l
    <3>1. CipherByte(mode, iv0, c, text, 0, j, t) = aes_encrypt(xor(Cell(text, j), v))[t]
      BY <1>6, <1>8 DEF CipherByte, v
    <3>2. before = v /\ b = Cell(text, j)  BY <1>4, <1>5, <1>8
    <3> QED  BY <1>3, <3>1, <3>2
  <2>3. Row(e, l)  BY <1>5, <1>8, Cipher
  <2> HIDE DEF e
  <2>4. Block(c, j) = e  BY <1>1, <2>2, <2>3, RowEqual
  <2> QED  BY <2>1, <2>4
<1>9. ASSUME mode \in {"CFB", "CTR"}  PROVE Block(c, j) = StandardBlock(s, j, before)
  <2> DEFINE u == IF mode = "CFB" THEN before ELSE CounterPlus(iv0, j - 1)
             e == xor(b, aes_encrypt(u))
  <2>0. mode # "ECB" /\ mode # "CBC" /\ mode \notin {"CBC", "CBC padded"}  BY <1>9
  <2>1. StandardBlock(s, j, before) = e
    <3>1. CASE mode = "CFB"
      <4>1. u = before  BY <3>1
      <4> HIDE DEF u
      <4> QED  BY <3>1, <4>1, <2>0, Zenon DEF StandardBlock, b
    <3>2. CASE mode = "CTR"
      <4>1. u = CounterPlus(iv0, j - 1) /\ mode # "CFB"  BY <3>2
      <4> HIDE DEF u
      <4> QED  BY <3>2, <4>1, <2>0, Zenon DEF StandardBlock, b
    <3> QED  BY <1>9, <3>1, <3>2
  <2>2. u = v
    <3>1. CASE mode = "CFB"  BY <1>4, <3>1
    <3>2. CASE mode = "CTR"  BY <3>2 DEF v, IVAfter
    <3> QED  BY <1>9, <3>1, <3>2
  <2> HIDE DEF u
  <2>3. Row(e, l) /\ \A t \in 1 .. l : e[t] = SymDiff(b[t], aes_encrypt(u)[t])
    BY <1>1, XorRow
  <2> HIDE DEF e
  <2>4. \A t \in 1 .. l : Block(c, j)[t] = e[t]
    <3> TAKE t \in 1 .. l
    <3>1. CipherByte(mode, iv0, c, text, 0, j, t) = SymDiff(text[Place(j, t)], aes_encrypt(v)[t])
      BY <1>6, <2>0 DEF CipherByte, v
    <3> QED  BY <1>3, <2>2, <2>3, <3>1
  <2>5. Block(c, j) = e  BY <1>1, <2>3, <2>4, RowEqual
  <2> QED  BY <2>1, <2>5
<1>10. Block(c, j) = StandardBlock(s, j, before)  BY <1>7, <1>8, <1>9
<1> QED  BY <1>10, Zenon DEF Chained, before

\* The ciphertext of subsets of whole blocks, and in CFB and CTR of a last one
\* that is not, is that of the text encrypted at once.
THEOREM SubsetsAsWhole == ~AnySubset => (AnySpec => []Sequential)
<1> USE Sizes
<1> SUFFICES ASSUME ~AnySubset  PROVE AnySpec => []Sequential  OBVIOUS
<1>1. AesInv => Sequential
  <2> DEFINE s == SubSeq(Text, 1, sent)
             h == [j \in 1 .. Blocks(s) |-> Block(cipher, j)]
  <2> DEFINE unpadded == mode # "CBC padded"
  <2> HIDE DEF s
  <2> SUFFICES ASSUME AesInv, unpadded  PROVE cipher = Standard(s)
    BY Zenon DEF Sequential, s, unpadded
  <2>1. /\ mode \in Modes /\ sent \in 0 .. Len(Text) /\ Row(cipher, Len(cipher))
        /\ Len(cipher) = sent /\ EncryptedAs(mode, iv0, cipher, Text, 0, sent)
    BY Zenon DEF AesInv, Ranges, CipherInv, unpadded
  <2>m. mode \in {"ECB", "CBC", "CFB", "CTR"}  BY <2>1, Zenon DEF Modes, unpadded
  <2> HIDE DEF unpadded
  <2>2. sent \in Nat /\ Row(cipher, sent)
    <3>1. sent \in 0 .. Len(Text)  BY <2>1, Zenon
    <3>2. sent \in Nat  BY <3>1, TextRow
    <3> QED  BY <2>1, <3>2, Zenon
  <2>3. Row(s, sent) /\ \A i \in 1 .. sent : s[i] = Text[i]
    <3>1. sent \in 0 .. Len(Text) /\ sent \in Nat  BY <2>1, <2>2, Zenon
    <3>2. 0 + sent <= Len(Text) /\ 0 \in Nat /\ 0 + 1 = 1 /\ 0 + sent = sent
          /\ \A i \in 1 .. sent : 0 + i = i
      BY <3>1, TextRow
    <3>3. /\ Row(SubSeq(Text, 0 + 1, 0 + sent), sent)
          /\ \A i \in 1 .. sent : SubSeq(Text, 0 + 1, 0 + sent)[i] = Text[0 + i]
      BY <3>1, <3>2, TextRow, RowPart
    <3> QED  BY <3>2, <3>3 DEF s
  <2>4. Shaped(mode, sent)
    <3>1. over => mode \in {"CFB", "CTR"}  BY Zenon DEF AesInv, CipherInv
    <3>2. ~over => Len(cipher) % W = 0  BY Zenon DEF AesInv, CipherInv
    <3>3. mode \in {"ECB", "CBC", "CBC padded"} => mode \notin {"CFB", "CTR"}  OBVIOUS
    <3> QED  BY <2>1, <3>1, <3>2, <3>3, Zenon DEF Shaped
  <2>5. Blocks(s) \in Nat /\ Len(s) = sent  BY <2>2, <2>3, BlocksOf, RowSeq
  <2>6. \A j \in 1 .. Blocks(s) :
           Block(cipher, j) = StandardBlock(s, j, IF j = 1 THEN iv0 ELSE Block(cipher, j - 1))
    <3> TAKE j \in 1 .. Blocks(s)
    <3>1. j \in Nat \ {0}  BY <2>5
    <3>2. (j - 1) * W < sent /\ (sent % W = 0 => j * W <= sent)  BY <2>2, <2>3, BlocksOf
    <3>3. Inside(j, sent)  BY <3>2, Zenon DEF Inside
    <3>4. Begins(s, Text, sent)  BY <2>3, Zenon DEF Begins
    <3>5. Row(s, sent) /\ EncryptedAs(mode, iv0, cipher, Text, 0, sent)  BY <2>1, <2>3, Zenon
    <3>6. Chained(cipher, s, j)
      BY <2>m, <2>2, <2>4, <3>1, <3>3, <3>4, <3>5, BlockOfCipher, Zenon
    <3> QED  BY <3>6, Zenon DEF Chained
  <2>7. \A j \in 1 .. Blocks(s) : h[j] = StandardBlock(s, j, IF j = 1 THEN iv0 ELSE h[j - 1])
    <3> TAKE j \in 1 .. Blocks(s)
    <3>1. h[j] = Block(cipher, j)  OBVIOUS
    <3>2. j # 1 => j - 1 \in 1 .. Blocks(s)  BY <2>5
    <3>3. j # 1 => h[j - 1] = Block(cipher, j - 1)  BY <3>2
    <3>4. (IF j = 1 THEN iv0 ELSE h[j - 1]) = (IF j = 1 THEN iv0 ELSE Block(cipher, j - 1))
      BY <3>3
    <3> HIDE DEF h
    <3> QED  BY <2>6, <3>1, <3>4, Zenon
  <2>8. h = [j \in 1 .. Blocks(s) |-> h[j]]  OBVIOUS
  <2>9. \A j \in 1 .. Blocks(s) : h[j] = Block(cipher, j)  OBVIOUS
  <2> HIDE DEF h
  <2>10. Standard(s) = Joined(h, sent)  BY <2>2, <2>5, <2>7, <2>8, StandardIs, Zenon
  <2>11. \A i \in 1 .. sent : Joined(h, sent)[i] = cipher[i]
    <3> TAKE i \in 1 .. sent
    <3>1. i \in Nat \ {0}  BY <2>2
    <3>2. PICK j \in Nat \ {0}, t \in 1 .. W : Place(j, t) = i  BY <3>1, PlaceOf, Zenon
    <3>3. Place(j, t) <= sent  BY <3>2, <2>2
    <3>4. j \in 1 .. Blocks(s)  BY <2>2, <2>3, <3>3, BlocksOf
    <3>5. Joined(h, sent)[i] = h[j][t]  BY <2>2, <3>2, <3>3, JoinedIs
    <3>6. (j - 1) * W < sent  BY <2>2, <2>3, <3>4, BlocksOf
    <3>7. Block(cipher, j)[t] = cipher[Place(j, t)]  BY <2>2, <3>3, <3>6, BlockIs
    <3> QED  BY <2>9, <3>2, <3>4, <3>5, <3>7
  <2>12. Row(Joined(h, sent), sent)  BY <2>2, JoinedIs
  <2>13. cipher = Joined(h, sent)  BY <2>2, <2>11, <2>12, RowEqual
  <2> QED  BY <2>10, <2>13
<1>2. AnySpec => []AesInv  BY AesInvAlways
<1> QED  BY <1>1, <1>2, PTL
=============================================================================
