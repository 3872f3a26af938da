-------------------------------- MODULE Hmac --------------------------------
(***************************************************************************)
(* hmac() of R/hmac.R: the key padded to a block, two digests, and the     *)
(* conversions between raw vectors and hexadecimal strings on the way.     *)
(*                                                                         *)
(* A byte is its two hexadecimal digits. The hash is free: a digit of a    *)
(* digest names the algorithm, the message and its place, except for the   *)
(* zeros a digest may happen to start with.                                *)
(***************************************************************************)
EXTENDS Integers, Sequences

CONSTANTS
    BlockSize,      \* by algorithm, the bytes of a block (64; sha512 128; crc32 4)
    DigestSize,     \* by algorithm, the bytes of a digest
    KeyData,        \* the bytes of keys, by position
    Keys,           \* the lengths of the keys
    Objects,        \* the objects, as makeRaw gives them
    OldFormats      \* values of the option digestOldCRC32Format

Algos == DOMAIN BlockSize

\* As for the algorithms of the package: a digest fits in a block.
ConstantsFit ==
    /\ DOMAIN DigestSize = Algos /\ OldFormats \subseteq BOOLEAN /\ Keys \subseteq Nat
    /\ \A a \in Algos : BlockSize[a] \in Nat /\ DigestSize[a] \in 1 .. BlockSize[a]

VARIABLES
    arg,        \* the arguments of the call and the option
    zeros,      \* how many zeros this call's digests start with
    key,        \* padded.key
    raw_digest, \* the inner digest
    result
vars == <<arg, zeros, key, raw_digest, result>>

None == <<"none">>
Error == <<"error">>
Nought == <<0>>     \* the digit
ZeroByte == <<Nought, Nought>>

-----------------------------------------------------------------------------
(* digest() and the conversions *)

Hash(algo, message) ==
    [i \in 1 .. DigestSize[algo] |->
        [j \in 1 .. 2 |-> IF 2 * i + j - 2 <= zeros THEN Nought
                          ELSE <<algo, message, 2 * i + j - 2>>]]

\* The digits of the bytes, one after the other.
Hex(bytes) == [n \in 1 .. 2 * Len(bytes) |-> bytes[(n + 1) \div 2][2 - (n % 2)]]

\* sub("^0+", "", val)
DropZeros(hex) ==
    LET first == {n \in 1 .. Len(hex) : \A m \in 1 .. n : hex[m] = Nought}
    IN  SubSeq(hex, 1 + (IF first = {} THEN 0 ELSE CHOOSE n \in first : \A m \in first : m <= n),
               Len(hex))

\* A serialization without its header: the raw vector behind its length.
Serialize(bytes) == <<<<"length", Len(bytes)>>>> \o bytes

\* digest(x, algo, serialize), a string. The old format is crc32's.
Digest(x, algo, serialize) ==
    LET hex == Hex(Hash(algo, IF serialize THEN Serialize(x) ELSE x))
    IN  IF algo = "crc32" /\ arg.old THEN DropZeros(hex) ELSE hex

\* makeRaw.digest: pairs of digits; a digit that is left alone is a byte, and
\* seq(1, 0, 2) for an empty string is an error.
MakeRawDigest(hex) ==
    [i \in 1 .. (Len(hex) + 1) \div 2 |->
        IF 2 * i <= Len(hex) THEN <<hex[2 * i - 1], hex[2 * i]>> ELSE <<Nought, hex[2 * i - 1]>>]

\* Past the end of the string there is nothing.
Substring(s, from, to) == IF from > Len(s) THEN <<>> ELSE SubSeq(s, from, to)

\* substring(k, seq(1, 7, 2), seq(2, 8, 2)) takes its i-th pair of characters
\* from the i-th string, and each string has one pair; strtoi("", 16) is NA and
\* as.raw makes it 0.
Reparse(bytes) ==
    [i \in 1 .. Len(bytes) |->
        LET pair == Substring(bytes[i], 2 * i - 1, 2 * i) IN IF pair = <<>> THEN ZeroByte ELSE pair]

\* `length(k) > blocksize'
TooLong_Full(k, algo) == Len(k) >= BlockSize[algo]
TooLong(k, algo) == Len(k) > BlockSize[algo]

padWithZeros(k, algo) ==
    LET hashed == Hash(algo, k)
        short  == IF ~TooLong(k, algo) THEN k
                  ELSE IF algo = "crc32" THEN Reparse(hashed) ELSE hashed
    IN  short \o [i \in 1 .. BlockSize[algo] - Len(short) |-> ZeroByte]

\* xor(padded.key, makeRaw(pad))
Xor(bytes, pad) == [i \in 1 .. Len(bytes) |-> <<<<"xor", pad[1], bytes[i][1]>>,
                                                <<"xor", pad[2], bytes[i][2]>>>>]
ipad == <<3, 6>>
opad == <<5, 12>>

-----------------------------------------------------------------------------
Args == [algo : Algos, key : Keys, object : Objects,
         serialize : BOOLEAN, raw : BOOLEAN, old : OldFormats]

\* The leading zeros a digest can have, all of it being zero included.
Zeros(algo) == {0, 1, 2, 3, 2 * DigestSize[algo]}

Init ==
    /\ arg \in Args
    /\ zeros \in Zeros(arg.algo)
    /\ key = None /\ raw_digest = None /\ result = None

Key == [i \in 1 .. arg.key |-> KeyData[i]]

Pad ==
    /\ key = None
    /\ key' = padWithZeros(Key, arg.algo)
    /\ UNCHANGED <<arg, zeros, raw_digest, result>>

Inner ==
    /\ key # None /\ raw_digest = None /\ result = None
    /\ LET digest == Digest(Xor(key, ipad) \o arg.object, arg.algo, arg.serialize)
       IN  IF digest = <<>> THEN result' = Error /\ UNCHANGED raw_digest
           ELSE raw_digest' = MakeRawDigest(digest) /\ UNCHANGED result
    /\ UNCHANGED <<arg, zeros, key>>

Outer ==
    /\ raw_digest # None /\ result = None
    /\ LET digest == Digest(Xor(key, opad) \o raw_digest, arg.algo, arg.serialize)
       IN  result' = IF ~arg.raw THEN digest
                     ELSE IF digest = <<>> THEN Error ELSE MakeRawDigest(digest)
    /\ UNCHANGED <<arg, zeros, key, raw_digest>>

\* The same call again; nothing is kept from one to the other.
Call ==
    /\ result # None
    /\ key' = None /\ raw_digest' = None /\ result' = None
    /\ UNCHANGED <<arg, zeros>>

Next == Pad \/ Inner \/ Outer \/ Call

Spec == Init /\ [][Next]_vars

-----------------------------------------------------------------------------
(* Properties *)

\* RFC 2104 over the bytes: H((K ^ opad) || H((K ^ ipad) || text)), where K is
\* the key, or its hash if it is longer than a block, followed by zeros.
RFC2104 ==
    LET k      == IF arg.key > BlockSize[arg.algo] THEN Hash(arg.algo, Key) ELSE Key
        K      == [i \in 1 .. BlockSize[arg.algo] |-> IF i <= Len(k) THEN k[i] ELSE ZeroByte]
        H(m)   == Hash(arg.algo, IF arg.serialize THEN Serialize(m) ELSE m)
    IN  H(Xor(K, opad) \o H(Xor(K, ipad) \o arg.object))

\* What hmac() returns is RFC 2104's code, as bytes or as hexadecimal digits,
\* with serialized digests where they are asked for. Two cases of crc32 are
\* excepted: a key longer than a block (see HmacAsDocumented), and a digest
\* whose first zeros the old format drops, so that its digits pair otherwise.
HmacIsRFC2104 ==
    LET excepted == /\ arg.algo = "crc32"
                    /\ (arg.old /\ zeros > 0) \/ arg.key > BlockSize["crc32"]
    IN  (result # None /\ ~excepted) => result = IF arg.raw THEN RFC2104 ELSE Hex(RFC2104)

\* The manual's value, for each of its algorithms: the digest as specified in
\* RFC 2104, a key longer than the block being hashed.
HmacAsDocumented ==
    (result # None /\ ~arg.serialize /\ ~arg.old)
        => result = IF arg.raw THEN RFC2104 ELSE Hex(RFC2104)
=============================================================================
