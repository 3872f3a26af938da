------------------------------- MODULE Murmur -------------------------------
(***************************************************************************)
(* The incremental MurmurHash3 of pmurhash.c: four bytes make a block, and *)
(* one 32-bit word, the carry, holds the last bytes that did not make one  *)
(* together with how many they are, in its two low bits.                   *)
(*                                                                         *)
(* The carry is a tuple of four bytes, least significant first; h1 is the  *)
(* sequence of the blocks churned into it.                                 *)
(***************************************************************************)
EXTENDS Integers, Sequences

CONSTANTS
    Data,           \* the bytes the caller hands over
    Zero,           \* the zero byte a fresh carry is made of
    MaxFed,         \* bound: longest message
    MaxUpdate       \* bound: longest single update

\* The bounds are numbers; the model that instantiates this one assumes it.
ConstantsFit == MaxFed \in Nat /\ MaxUpdate \in Nat

VARIABLES
    UnalignedSafe,  \* the build: TRUE where UNALIGNED_SAFE is defined
    ctx, fed, digest
vars == <<UnalignedSafe, ctx, fed, digest>>

NoDigest == <<>>

\* The low byte of the carry is overwritten with the count of the others.
Count(n) == <<"count", n>>

-----------------------------------------------------------------------------
\* h1 = seed, carry = 0
Starts0 == [h1 |-> <<>>, carry |-> <<Count(0), Zero, Zero, Zero>>]

\* c & 3
CarryCount(carry) == carry[1][2]

\* DOBLOCK(h1, k1)
DOBLOCK(h1, k1) == Append(h1, k1)

\* DOBYTES, for the bytes of s: each enters the carry from the top and four
\* of them make a block. st is [h1, c, n].
DOBYTES(st, s) ==
    LET step[i \in 0 .. Len(s)] ==
          IF i = 0 THEN st
          ELSE LET p == step[i - 1]
                   c == <<p.c[2], p.c[3], p.c[4], s[i]>>
               IN  IF p.n + 1 = 4 THEN [h1 |-> DOBLOCK(p.h1, c), c |-> c, n |-> 0]
                   ELSE [h1 |-> p.h1, c |-> c, n |-> p.n + 1]
    IN  step[Len(s)]

\* The word that starts at byte i of s.
READ_UINT32(s, i) == <<s[i], s[i + 1], s[i + 2], s[i + 3]>>

\* `k1 = c >> (4 - n) * 8; c = READ_UINT32(ptr); k1 |= c << n * 8', the case of
\* n carried bytes: the top n bytes of c, then the low bytes of the new word.
Merge_LowBytes(n, c, w) ==
    CASE n = 0 -> w
      [] n = 1 -> <<c[1], w[1], w[2], w[3]>>
      [] n = 2 -> <<c[1], c[2], w[1], w[2]>>
      [] n = 3 -> <<c[1], c[2], c[3], w[1]>>
Merge(n, c, w) ==
    CASE n = 0 -> w
      [] n = 1 -> <<c[4], w[1], w[2], w[3]>>
      [] n = 2 -> <<c[3], c[4], w[1], w[2]>>
      [] n = 3 -> <<c[2], c[3], c[4], w[1]>>

\* The loop over the whole words of s. With no carried byte c is not used.
Words(st, s) ==
    LET step[i \in 0 .. Len(s) \div 4] ==
          IF i = 0 THEN st
          ELSE LET p == step[i - 1]
                   w == READ_UINT32(s, 4 * (i - 1) + 1)
               IN  [h1 |-> DOBLOCK(p.h1, Merge(p.n, p.c, w)),
                    c |-> IF p.n = 0 THEN p.c ELSE w, n |-> p.n]
    IN  step[Len(s) \div 4]

\* How many bytes to take one by one first: those that complete the carry, or
\* those that bring the pointer to a word boundary (ptr is its address mod 4).
Prologue(n, ptr, len) ==
    LET i == (4 - (IF UnalignedSafe THEN n ELSE ptr)) % 4
    IN  IF i <= len THEN i ELSE 0

\* *pcarry = (c & ~0xff) | n
CopyOut(st) ==
    [h1 |-> st.h1, carry |-> <<Count(st.n), st.c[2], st.c[3], st.c[4]>>]

PMurHash32_Process(x, ptr, key) ==
    LET n     == CarryCount(x.carry)
        first == Prologue(n, ptr, Len(key))
        st    == DOBYTES([h1 |-> x.h1, c |-> x.carry, n |-> n], SubSeq(key, 1, first))
        body  == SubSeq(key, first + 1, Len(key))
        tail  == SubSeq(body, 4 * (Len(body) \div 4) + 1, Len(body))
    IN  CopyOut(DOBYTES(Words(st, body), tail))

\* k1 = carry >> (4 - n) * 8: the carried bytes, oldest first.
Carried_LowBytes(carry, n) == SubSeq(carry, 1, n)
Carried(carry, n) == SubSeq(carry, 4 - n + 1, 4)

PMurHash32_Result(x, total_length) ==
    <<x.h1, Carried(x.carry, CarryCount(x.carry)), total_length>>

-----------------------------------------------------------------------------
Init ==
    /\ UnalignedSafe \in BOOLEAN
    /\ ctx = Starts0
    /\ fed = 0
    /\ digest = NoDigest

Starts ==
    /\ digest # NoDigest
    /\ ctx' = Starts0
    /\ fed' = 0
    /\ digest' = NoDigest
    /\ UNCHANGED UnalignedSafe

\* A piece of k bytes at an address that is ptr modulo 4.
Process(k, ptr) ==
    /\ digest = NoDigest
    /\ fed + k <= MaxFed
    /\ ctx' = PMurHash32_Process(ctx, ptr, [i \in 1 .. k |-> Data[fed + i]])
    /\ fed' = fed + k
    /\ UNCHANGED <<UnalignedSafe, digest>>

Finish ==
    /\ digest = NoDigest
    /\ digest' = PMurHash32_Result(ctx, fed)
    /\ UNCHANGED <<UnalignedSafe, ctx, fed>>

Next == Starts \/ Finish \/ \E k \in 0 .. MaxUpdate, ptr \in 0 .. 3 : Process(k, ptr)

Spec == Init /\ [][Next]_vars

-----------------------------------------------------------------------------
(* Properties *)

\* The carry holds at most three bytes and its count.
TypeOK ==
    /\ ctx.h1 \in Seq(Seq({Data[i] : i \in 1 .. MaxFed}))
    /\ DOMAIN ctx.carry = 1 .. 4
    /\ ctx.carry[1] \in {Count(n) : n \in 0 .. 3}
    /\ fed \in 0 .. MaxFed /\ UnalignedSafe \in BOOLEAN

\* Murmur3A of a whole message: its words, the bytes after the last, its length.
Murmur3A(msg) ==
    LET words == Len(msg) \div 4
    IN  << [w \in 1 .. words |-> SubSeq(msg, 4 * w - 3, 4 * w)],
           SubSeq(msg, 4 * words + 1, Len(msg)), Len(msg) >>

\* The top bytes of the carry are the bytes of the message that made no block,
\* in their order, although the count has overwritten a byte below them.
CarryHoldsTail ==
    LET n == CarryCount(ctx.carry)
    IN  /\ 4 * Len(ctx.h1) + n = fed
        /\ \A w \in 1 .. Len(ctx.h1) : ctx.h1[w] = [i \in 1 .. 4 |-> Data[4 * w - 4 + i]]
        /\ \A i \in 1 .. n : ctx.carry[4 - n + i] = Data[4 * Len(ctx.h1) + i]

\* Hashing in pieces, at any addresses, gives what hashing at once gives.
DigestOfWhole == digest # NoDigest => digest = Murmur3A([i \in 1 .. fed |-> Data[i]])
=============================================================================
