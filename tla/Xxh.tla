-------------------------------- MODULE Xxh --------------------------------
(***************************************************************************)
(* The streaming XXH32 and XXH64 of xxhash.h: a state of four lanes that   *)
(* take whole stripes, and a buffer for the bytes that do not make one.    *)
(* The files' cases of digest.c use it; bytes in memory are hashed by a    *)
(* second implementation, which works on the whole message.                *)
(*                                                                         *)
(* The rounds are free: v is what the lanes have absorbed, in order.       *)
(***************************************************************************)
EXTENDS Integers, Sequences

CONSTANTS
    Wide,       \* TRUE: XXH64, whose total_len has 64 bits; FALSE: XXH32
    S,          \* bytes of a stripe (16 in XXH32, 32 in XXH64)
    Word,       \* values of total_len_32 (2^32)
    Data,       \* the bytes the caller hands over
    Zero,       \* the zero byte
    MaxFed,     \* bound: longest message
    MaxUpdate   \* bound: longest single update

\* A counter of 32 bits: the stripe divides its range, and is smaller.
ASSUME StripeAssumption ==
    /\ Wide \in BOOLEAN
    /\ S \in Nat \ {0} /\ Word \in Nat /\ S < Word
    /\ \E k \in 1 .. Word : Word = k * S
    /\ MaxFed \in Nat /\ MaxUpdate \in Nat

VARIABLES ctx, fed, digest
vars == <<ctx, fed, digest>>

NoDigest == <<>>
Message(n) == [i \in 1 .. n |-> Data[i]]

-----------------------------------------------------------------------------
\* XXH32_reset: memset to 0, then the lanes from the seed.
Reset ==
    [total |-> 0, large |-> FALSE, v |-> <<>>,
     mem |-> [i \in 1 .. S |-> Zero], memsize |-> 0]

\* XXH_memcpy(mem + at, s, Len(s))
Copy(mem, at, s) ==
    [i \in 1 .. S |-> IF at < i /\ i <= at + Len(s) THEN s[i - at] ELSE mem[i]]

\* total_len += len; 2^64 bytes are never fed, 2^32 are.
AddTotal_Unmasked(total, len) == total + len
AddTotal(total, len) == IF Wide THEN total + len ELSE (total + len) % Word

\* large_len |= (len >= 16) | (total_len_32 >= 16)
SetLarge_FromTotal(large, len, total) == total >= S
SetLarge(large, len, total) == large \/ len >= S \/ total >= S

\* `memsize + len < 16': the input stays in the buffer.
StaysBuffered_Full(memsize, len) == memsize + len <= S
StaysBuffered(memsize, len) == memsize + len < S

\* How many bytes complete the stripe that waits in the buffer.
Fill(memsize) == IF memsize > 0 THEN S - memsize ELSE 0

\* memsize after the stripes: 0, unless bytes are left (p < bEnd).
Left_NoReset(memsize, rest) == IF rest > 0 THEN rest ELSE memsize
Left(memsize, rest) == rest

XXH32_update(c, input) ==
    LET len   == Len(input)
        head  == Fill(c.memsize)
        whole == (len - head) - ((len - head) % S)
        full  == Copy(c.mem, c.memsize, SubSeq(input, 1, head))
        rest  == SubSeq(input, head + whole + 1, len)
        total == AddTotal(c.total, len)
        large == SetLarge(c.large, len, total)
    IN  IF StaysBuffered(c.memsize, len)
        THEN [total |-> total, large |-> large, v |-> c.v,
              mem |-> Copy(c.mem, c.memsize, input), memsize |-> c.memsize + len]
        ELSE [total |-> total, large |-> large,
              v |-> (IF head > 0 THEN c.v \o full ELSE c.v)
                      \o SubSeq(input, head + 1, head + whole),
              mem |-> Copy(full, 0, rest),
              memsize |-> Left(c.memsize, Len(rest))]

\* XXH32 keeps a flag because its counter wraps; XXH64 asks the counter.
Large(c) == IF Wide THEN c.total >= S ELSE c.large

\* XXH64_finalize takes the tail's length from the total, XXH32's from memsize.
TailLength(c) == IF Wide THEN c.total % S ELSE c.memsize

\* The lanes merged, or the third of them, which holds the seed as long as
\* nothing has been absorbed; the length; the tail byte by byte.
XXH32_digest(c) ==
    << <<Large(c), c.v>>, c.total, SubSeq(c.mem, 1, TailLength(c)) >>

\* XXH32_endian_align, for bytes in memory: the stripes by a do-while, the
\* length, and the last len & 15 bytes.
XXH32(input) ==
    LET len   == Len(input)
        whole == len - (len % S)
    IN  << <<len >= S, SubSeq(input, 1, whole)>>,
           IF Wide THEN len ELSE len % Word,
           SubSeq(input, whole + 1, len) >>

-----------------------------------------------------------------------------
Init ==
    /\ ctx = Reset
    /\ fed = 0
    /\ digest = NoDigest

Starts ==
    /\ digest # NoDigest
    /\ ctx' = Reset
    /\ fed' = 0
    /\ digest' = NoDigest

Update(k) ==
    /\ digest = NoDigest
    /\ fed + k <= MaxFed
    /\ ctx' = XXH32_update(ctx, [i \in 1 .. k |-> Data[fed + i]])
    /\ fed' = fed + k
    /\ UNCHANGED digest

Finish ==
    /\ digest = NoDigest
    /\ digest' = XXH32_digest(ctx)
    /\ UNCHANGED <<ctx, fed>>

Next == Starts \/ Finish \/ \E k \in 0 .. MaxUpdate : Update(k)

Spec == Init /\ [][Next]_vars

-----------------------------------------------------------------------------
(* Properties *)

Byte == {Data[i] : i \in 1 .. MaxFed} \cup {Zero}

\* The fields of XXH32_state_t; the 32-bit counter stays in its range and the
\* buffer is never left full.
TypeOK ==
    /\ ctx.total \in Nat /\ (~Wide => ctx.total < Word)
    /\ ctx.large \in BOOLEAN
    /\ ctx.v \in Seq(Byte)
    /\ ctx.mem \in [1 .. S -> Byte] /\ ctx.memsize \in 0 .. S - 1
    /\ fed \in 0 .. MaxFed

\* However the file is cut, the lanes have absorbed a prefix of it in whole
\* stripes and the rest, less than a stripe, is at the front of the buffer.
Lossless ==
    LET seen == Len(ctx.v)
    IN  /\ seen + ctx.memsize = fed /\ seen % S = 0
        /\ \A i \in 1 .. seen : ctx.v[i] = Data[i]
        /\ \A i \in 1 .. ctx.memsize : ctx.mem[i] = Data[seen + i]

\* Whether the lanes or the seed start the digest is decided by the length of
\* the message, also when the 32-bit counter has wrapped to a small number.
LanesWhenLong == Large(ctx) <=> fed >= S

\* The digest of a file is the digest of the same bytes in memory.
FileIsMemory == digest # NoDigest => digest = XXH32(Message(fed))

\* xxhash.h implements MessageDigest.
Absorbed == IF digest = NoDigest THEN ctx.v \o SubSeq(ctx.mem, 1, ctx.memsize)
            ELSE Message(fed)

MD == INSTANCE MessageDigest WITH Sum <- XXH32, NoSum <- NoDigest,
                                  message <- Absorbed, sum <- digest
ImplementsMessageDigest == MD!Spec
=============================================================================
