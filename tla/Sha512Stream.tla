---------------------------- MODULE Sha512Stream ----------------------------
(***************************************************************************)
(* The SHA-512 context of sha2.c. Unlike md5.c it copies every block into  *)
(* its buffer and hashes it there, in place: the message schedule is       *)
(* written over the block, so after a transform the buffer holds no byte   *)
(* of the message. The last block is padded by hand in that same buffer.   *)
(*                                                                         *)
(* The compression function is free, as in BlockHash: `stream' is what it  *)
(* has been applied to.                                                    *)
(***************************************************************************)
EXTENDS Integers, Sequences

CONSTANTS
    B,          \* SHA512_BLOCK_LENGTH (128)
    Short,      \* SHA512_SHORT_BLOCK_LENGTH (112)
    Word,       \* values of a word of the bit counter (2^64)
    BitsOf,     \* bits of a byte (8)
    Data,       \* the bytes the caller hands over
    Mixed,      \* a byte of the buffer once a transform has run in it
    MaxFed,     \* bound: longest message
    MaxUpdate   \* bound: longest single update

ASSUME BlockAssumption ==
    /\ B \in Nat \ {0} /\ BitsOf \in Nat \ {0} /\ Word \in Nat \ {0}
    /\ Short \in 1 .. B - 2
    /\ (B * BitsOf) < Word /\ Word % (B * BitsOf) = 0
    /\ MaxFed \in Nat /\ MaxUpdate \in Nat

VARIABLES ctx, fed, digest
vars == <<ctx, fed, digest>>

NoDigest == <<>>
PadByte(x) == <<"pad", x>>

-----------------------------------------------------------------------------
\* SHA512_Init zeroes the buffer and the counter.
SHA512_Init ==
    [bits0 |-> 0, bits1 |-> 0, buffer |-> [i \in 1 .. B |-> PadByte(0)], stream |-> <<>>]

\* MEMCPY_BCOPY(&buffer[at], s, Len(s)) and MEMSET_BZERO(&buffer[from], to - from)
Copy(buffer, at, s) ==
    [i \in 1 .. B |-> IF at < i /\ i <= at + Len(s) THEN s[i - at] ELSE buffer[i]]
Zero(buffer, from, to) ==
    [i \in 1 .. B |-> IF from < i /\ i <= to THEN PadByte(0) ELSE buffer[i]]

\* The buffer is both the input and the message schedule W512.
SHA512_Transform(c) ==
    [bits0 |-> c.bits0, bits1 |-> c.bits1,
     buffer |-> [i \in 1 .. B |-> Mixed], stream |-> c.stream \o c.buffer]

\* The carry is seen because less than a word is added at a time.
ADDINC128_Unbounded(c, n) == [c EXCEPT !.bits0 = @ + n]
ADDINC128(c, n) ==
    LET low == (c.bits0 + n) % Word
    IN  [bits0 |-> low, bits1 |-> IF low < n THEN c.bits1 + 1 ELSE c.bits1,
         buffer |-> c.buffer, stream |-> c.stream]

UsedSpace(c) == (c.bits0 \div BitsOf) % B

\* The while loop: block after block through the buffer.
WholeBlocks(c, data) ==
    LET blocks == Len(data) \div B
        block(k) == SubSeq(data, (k - 1) * B + 1, k * B)
        after[k \in 0 .. blocks] ==
            IF k = 0 THEN c
            ELSE ADDINC128(SHA512_Transform([after[k - 1] EXCEPT
                                                !.buffer = Copy(@, 0, block(k))]),
                           B * BitsOf)
    IN  after[blocks]

\* The left-overs are saved at the front of the buffer.
LeftOvers(c, data) ==
    LET n    == Len(data) % B
        rest == SubSeq(data, Len(data) - n + 1, Len(data))
    IN  IF n = 0 THEN c
        ELSE ADDINC128([c EXCEPT !.buffer = Copy(@, 0, rest)], n * BitsOf)

\* `len >= freespace'
Fills_Beyond(free, len) == len > free
Fills(free, len) == len >= free

SHA512_Update(c, data) ==
    LET used == UsedSpace(c)
        free == B - used
        len  == Len(data)
        fill == IF Fills(free, len) THEN free ELSE len
        full == [c EXCEPT !.buffer = Copy(@, used, SubSeq(data, 1, fill))]
        rest == SubSeq(data, fill + 1, len)
    IN  IF used = 0 THEN LeftOvers(WholeBlocks(c, data), data)
        ELSE IF Fills(free, len)
             THEN LET next == SHA512_Transform(ADDINC128(full, free * BitsOf))
                  IN  LeftOvers(WholeBlocks(next, rest), rest)
        ELSE ADDINC128(full, len * BitsOf)

\* The bit count in the last bytes of the block, high word first; these bytes
\* are those after Short.
LengthField(c) == [j \in 1 .. B - Short |-> <<"BE", c.bits1 % Word, c.bits0, j>>]

\* `usedspace <= SHA512_SHORT_BLOCK_LENGTH', usedspace counting the 0x80
FitsHere_Loose(used) == used <= Short
FitsHere(used) == used + 1 <= Short

\* MEMSET_BZERO(buffer, SHA512_BLOCK_LENGTH - 2): the code clears up to two
\* bytes from the end, and the length field covers the rest.
ClearForLast_Keep(buffer) == buffer
ClearForLast(buffer) == Zero(buffer, 0, B - 2)

\* SHA512_Last: the last one or two blocks, padded in the buffer.
SHA512_Last(c) ==
    LET used == UsedSpace(c)
        one  == [c EXCEPT !.buffer = Copy(@, used, <<PadByte(128)>>)]
        last == IF FitsHere(used)
                THEN [one EXCEPT !.buffer = Zero(@, used + 1, Short)]
                ELSE [SHA512_Transform([one EXCEPT !.buffer = Zero(@, used + 1, B)])
                        EXCEPT !.buffer = ClearForLast(@)]
    IN  SHA512_Transform([last EXCEPT !.buffer = Copy(@, Short, LengthField(c))])

\* SHA512_Final copies the state out and zeroes the context.
SHA512_Final(c) == SHA512_Last(c).stream

-----------------------------------------------------------------------------
Init ==
    /\ ctx = SHA512_Init
    /\ fed = 0
    /\ digest = NoDigest

Starts ==
    /\ digest # NoDigest
    /\ ctx' = SHA512_Init
    /\ fed' = 0
    /\ digest' = NoDigest

Update(k) ==
    /\ digest = NoDigest
    /\ fed + k <= MaxFed
    /\ ctx' = SHA512_Update(ctx, [i \in 1 .. k |-> Data[fed + i]])
    /\ fed' = fed + k
    /\ UNCHANGED digest

Finish ==
    /\ digest = NoDigest
    /\ digest' = SHA512_Final(ctx)
    /\ ctx' = SHA512_Init
    /\ UNCHANGED fed

Next == Starts \/ Finish \/ \E k \in 0 .. MaxUpdate : Update(k)

Spec == Init /\ [][Next]_vars

-----------------------------------------------------------------------------
(* Properties *)

Byte == {Data[i] : i \in 1 .. MaxFed} \cup {PadByte(0), PadByte(128), Mixed}

\* The context between two calls: a block of bytes and the two words.
TypeOK ==
    /\ ctx \in [bits0 : 0 .. Word - 1, bits1 : Nat, buffer : [1 .. B -> Byte],
                stream : Seq(Byte)]
    /\ fed \in 0 .. MaxFed

\* Transforming in place never destroys a byte that is still to be hashed: the
\* blocks hashed are a prefix of the message, the rest stands at the front of
\* the buffer, and the counter, in bits, agrees with both.
Lossless ==
    digest = NoDigest =>
        LET seen == Len(ctx.stream)
        IN  /\ seen % B = 0 /\ seen + UsedSpace(ctx) = fed
            /\ \A i \in 1 .. seen : ctx.stream[i] = Data[i]
            /\ \A i \in 1 .. UsedSpace(ctx) : ctx.buffer[i] = Data[seen + i]
            /\ ctx.bits0 + Word * ctx.bits1 = fed * BitsOf

\* FIPS 180-2: 0x80, the fewest zeros, and the length in bits.
Padded(msg) ==
    LET n     == Len(msg)
        zeros == CHOOSE z \in 0 .. B - 1 : (n + 1 + z + (B - Short)) % B = 0
        bits  == n * BitsOf
    IN  msg \o <<PadByte(128)>> \o [i \in 1 .. zeros |-> PadByte(0)]
            \o [j \in 1 .. B - Short |-> <<"BE", (bits \div Word) % Word, bits % Word, j>>]

\* No stale byte of the buffer, neither of an earlier block nor of the schedule
\* of the second-to-last transform, gets into the padding.
DigestOfPaddedMessage ==
    digest # NoDigest => digest = Padded([i \in 1 .. fed |-> Data[i]])

\* sha2.c implements MessageDigest.
Absorbed ==
    IF digest = NoDigest THEN ctx.stream \o SubSeq(ctx.buffer, 1, UsedSpace(ctx))
    ELSE [i \in 1 .. fed |-> Data[i]]

MD == INSTANCE MessageDigest WITH Sum <- Padded, NoSum <- NoDigest,
                                  message <- Absorbed, sum <- digest
ImplementsMessageDigest == MD!Spec
=============================================================================
