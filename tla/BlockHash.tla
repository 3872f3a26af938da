----------------------------- MODULE BlockHash -----------------------------
(***************************************************************************)
(* The streaming shell that md5.c, sha1.c and sha256.c share: a context    *)
(* with a byte counter of two words and a buffer of one block, an update   *)
(* that hashes whole blocks as soon as it has them, and a finish that pads *)
(* the message by two more updates.                                        *)
(*                                                                         *)
(* The compression function is free: `stream' is the concatenation of the  *)
(* blocks it was applied to, in order, so two runs that end in the same    *)
(* stream return the same digest for any compression function, and two     *)
(* that do not are told apart.                                             *)
(***************************************************************************)
EXTENDS Integers, Sequences

CONSTANTS
    B,          \* bytes of a block (64)
    L,          \* bytes of the length field (8)
    Word,       \* values of a counter word (2^32)
    BitsOf,     \* bits of a byte (8)
    Data,       \* the bytes the caller hands over, by position from 1
    Garbage,    \* what a byte of the stack holds before it is written
    MaxFed,     \* bound: longest message
    MaxUpdate,  \* bound: longest single update
    BigEndian   \* TRUE in sha1.c and sha256.c, FALSE in md5.c

ASSUME BlockAssumption == 
    /\ B \in Nat /\ L \in Nat /\ 0 < L /\ L < B
    /\ BitsOf \in Nat \ {0}
    /\ MaxFed \in Nat /\ MaxUpdate \in Nat

\* A counter word counts whole blocks: 64 divides 2^32, and so does 8.
ASSUME WordAssumption == 
    /\ Word \in Nat \ {0}
    /\ \E k \in 1 .. Word : Word = k * B
    /\ \E k \in 1 .. Word : Word = k * BitsOf

VARIABLES
    ctx,        \* the md5_context
    fed,        \* how many bytes of Data have been given to update
    digest      \* what finish left in the digest, NoDigest before

vars == <<ctx, fed, digest>>

\* A digest is at least one block long.
NoDigest == <<>>

\* The first n bytes the caller handed over.
Message(n) == [i \in 1 .. n |-> Data[i]]

\* memcpy(buffer + at, s, Len(s)): the rest of the buffer keeps its bytes.
Copy(buffer, at, s) ==
    [i \in 1 .. B |-> IF at < i /\ i <= at + Len(s) THEN s[i - at] ELSE buffer[i]]

-----------------------------------------------------------------------------
(* The operations of md5.c. sha1.c and sha256.c have the same code but for   *)
(* the order of the bytes in a word.                                         *)

\* md5_starts sets the counter and the chaining state and leaves the buffer
\* as the stack had it.
md5_starts(buffer) ==
    [total0 |-> 0, total1 |-> 0, buffer |-> buffer, stream |-> <<>>]

\* md5_process: the compression function absorbs one block of B bytes.
md5_process(stream, blocks) == stream \o blocks

\* total[0] += length; total[0] &= 0xFFFFFFFF
AddTotal_Unmasked(total0, len) == total0 + len
AddTotal(total0, len) == (total0 + len) % Word

\* if( total[0] < length ) total[1]++
Carry_Never(total0, len) == 0
Carry(total0, len) == IF total0 < len THEN 1 ELSE 0

\* `left && length >= fill': how many bytes of the input complete the block
\* that waits in the buffer, 0 when they cannot.
TopUp_TooLate(left, len) == IF left > 0 /\ len > B - left THEN B - left ELSE 0
TopUp(left, len) == IF left > 0 /\ len >= B - left THEN B - left ELSE 0

\* Where the last bytes go: `left = 0' once the buffered block is hashed.
Rest_NoReset(left, head) == left
Rest(left, head) == IF head > 0 THEN 0 ELSE left

md5_update(c, input) ==
    LET len   == Len(input)
        left  == c.total0 % B
        head  == TopUp(left, len)
        \* bytes hashed where they lie, in whole blocks
        whole == (len - head) - ((len - head) % B)
        full  == Copy(c.buffer, left, SubSeq(input, 1, head))
        total0 == AddTotal(c.total0, len)
    IN  IF len = 0 THEN c ELSE
        [total0 |-> total0,
         total1 |-> c.total1 + Carry(total0, len),
         buffer |-> Copy(full, Rest(left, head), SubSeq(input, head + whole + 1, len)),
         stream |-> md5_process(
                      IF head > 0 THEN md5_process(c.stream, full) ELSE c.stream,
                      SubSeq(input, head + 1, head + whole))]

\* md5_padding: 0x80 and zeros.
PadByte(x) == <<"pad", x>>
Padding == [i \in 1 .. B |-> PadByte(IF i = 1 THEN 128 ELSE 0)]

\* padn = ( last < 56 ) ? ( 56 - last ) : ( 120 - last )
PadLength_AtMost(last) == IF last <= B - L THEN (B - L) - last ELSE (2 * B - L) - last
PadLength(last) == IF last < B - L THEN (B - L) - last ELSE (2 * B - L) - last

\* The two words as they stand in the last bytes of the message, as the j-th
\* byte of an image: low word first and little-endian in md5.c, high word
\* first and big-endian in sha1.c and sha256.c.
md5_length(high, low) == [j \in 1 .. L |-> <<"LE", low, high, j>>]
sha1_length(high, low) == [j \in 1 .. L |-> <<"BE", high, low, j>>]
LengthField(high, low) ==
    IF BigEndian THEN sha1_length(high, low) ELSE md5_length(high, low)

\* md5_finish pads the message by two updates, which hash the last block.
md5_finish(c) ==
    LET high == (c.total0 \div (Word \div BitsOf) + c.total1 * BitsOf) % Word
        low  == (c.total0 * BitsOf) % Word
        padded == md5_update(c, SubSeq(Padding, 1, PadLength(c.total0 % B)))
    IN  md5_update(padded, LengthField(high, low))

-----------------------------------------------------------------------------
Init ==
    /\ ctx = md5_starts([i \in 1 .. B |-> Garbage])
    /\ fed = 0
    /\ digest = NoDigest

\* A context on the stack of the next call: its buffer holds what was there.
Starts ==
    /\ digest # NoDigest
    /\ ctx' = md5_starts(ctx.buffer)
    /\ fed' = 0
    /\ digest' = NoDigest

Update(k) ==
    /\ digest = NoDigest
    /\ fed + k <= MaxFed
    /\ ctx' = md5_update(ctx, [i \in 1 .. k |-> Data[fed + i]])
    /\ fed' = fed + k
    /\ UNCHANGED digest

Finish ==
    /\ digest = NoDigest
    /\ ctx' = md5_finish(ctx)
    /\ digest' = ctx'.stream
    /\ UNCHANGED fed

Next == Starts \/ Finish \/ \E k \in 0 .. MaxUpdate : Update(k)

Spec == Init /\ [][Next]_vars

-----------------------------------------------------------------------------
(* Properties *)

Byte == {Data[i] : i \in 1 .. MaxFed} \cup {Garbage, PadByte(128), PadByte(0)}
          \cup {<<e, h, l, j>> : e \in {"BE", "LE"}, h \in 0 .. Word - 1,
                                 l \in 0 .. Word - 1, j \in 1 .. L}

\* The types of the context's fields: the counter's low word is masked to its
\* width, the buffer is one block, the stream a sequence of bytes.
TypeOK ==
    /\ ctx.total0 \in 0 .. Word - 1
    /\ ctx.total1 \in Nat
    /\ ctx.buffer \in [1 .. B -> Byte]
    /\ ctx.stream \in Seq(Byte)
    /\ fed \in 0 .. MaxFed
    /\ digest = NoDigest \/ digest \in Seq(Byte)

\* While a message is absorbed, the compression function has seen a prefix of
\* it in whole blocks, and the rest of it, less than a block, lies at the
\* front of the buffer: update loses, repeats and reorders no byte wherever
\* the caller cuts the message, and hashes nothing the buffer held before.
Lossless ==
    digest = NoDigest =>
        LET seen == Len(ctx.stream)
        IN  /\ seen <= fed /\ fed < seen + B
            /\ fed - seen = ctx.total0 % B
            /\ \A i \in 1 .. seen : ctx.stream[i] = Data[i]
            /\ \A i \in 1 .. fed - seen : ctx.buffer[i] = Data[seen + i]

\* The two words of the counter hold the number of bytes absorbed: `total[0] <
\* length' sees every carry.
CountsBytes == digest = NoDigest => ctx.total0 + Word * ctx.total1 = fed

\* The padding of RFC 1321 and FIPS 180-2: one 0x80, the fewest zeros that
\* leave room for the length field at the end of a block, and the length of
\* the message in bits modulo 2^64.
Padded(msg) ==
    LET n     == Len(msg)
        zeros == CHOOSE z \in 0 .. B - 1 : (n + 1 + z + L) % B = 0
        bits  == (n * BitsOf) % (Word * Word)
    IN  msg \o <<PadByte(128)>> \o [i \in 1 .. zeros |-> PadByte(0)]
            \o LengthField(bits \div Word, bits % Word)

\* What finish hands to the compression function is the message padded as the
\* standard says, whatever cuts the updates made and whatever the buffer held.
DigestOfPaddedMessage == digest # NoDigest => digest = Padded(Message(fed))

\* md5_update and md5_finish implement the abstract MessageDigest: the message
\* is what the compression function has seen and what waits in the buffer.
Absorbed ==
    IF digest = NoDigest
    THEN ctx.stream \o SubSeq(ctx.buffer, 1, ctx.total0 % B)
    ELSE Message(fed)

MD == INSTANCE MessageDigest WITH Sum <- Padded, NoSum <- NoDigest,
                                  message <- Absorbed, sum <- digest
ImplementsMessageDigest == MD!Spec
=============================================================================
