------------------------------ MODULE Fletcher ------------------------------
(***************************************************************************)
(* The Fletcher checksum of digest.c: two sums over 16-bit little-endian   *)
(* words, kept while a file is read in buffers whose ends need not be word *)
(* boundaries; the low byte of a word may wait for the next buffer.        *)
(* The arithmetic is the code's own, with bytes of Base values.            *)
(***************************************************************************)
EXTENDS Integers, Sequences

CONSTANTS
    Base,       \* values of a byte (256)
    MaxFed,     \* bound: longest message
    MaxUpdate   \* bound: longest single update

\* A byte has more than one value.
ConstantsFit == Base \in Nat /\ Base > 1 /\ MaxFed \in Nat /\ MaxUpdate \in Nat

M == Base * Base - 1        \* 65535
Byte == 0 .. Base - 1

VARIABLES
    ctx,        \* the fletcher32_ctx
    fed,        \* the bytes of all updates
    digest      \* what fletcher32_final returned, NoDigest before
vars == <<ctx, fed, digest>>

NoDigest == <<>>

-----------------------------------------------------------------------------
\* ctx = {0, 0, 0, 0}
Fresh == [s1 |-> 0, s2 |-> 0, have_low |-> FALSE, low |-> 0]

\* c->s1 = (c->s1 + w) % 65535; c->s2 = (c->s2 + c->s1) % 65535
AddWord_OldSum(c, w) == [c EXCEPT !.s1 = (@ + w) % M, !.s2 = (@ + c.s1) % M]
AddWord(c, w) ==
    LET s1 == (c.s1 + w) % M
    IN  [s1 |-> s1, s2 |-> (c.s2 + s1) % M, have_low |-> c.have_low, low |-> c.low]

\* The word of a low and a high byte.
Word16(low, high) == low + Base * high

\* The bytes of d from position i on, two by two; an odd one waits.
Pairs(c, d, i) ==
    LET n == (Len(d) - i + 1) \div 2
        after[k \in 0 .. n] ==
          IF k = 0 THEN c
          ELSE AddWord(after[k - 1], Word16(d[i + 2 * (k - 1)], d[i + 2 * (k - 1) + 1]))
        sums == after[n]
    IN  IF (Len(d) - i + 1) % 2 = 0 THEN sums
        ELSE [s1 |-> sums.s1, s2 |-> sums.s2, have_low |-> TRUE, low |-> d[Len(d)]]

\* The first byte of a buffer completes a waiting word: have_low = 0.
Complete(c, high) == [AddWord(c, Word16(c.low, high)) EXCEPT !.have_low = FALSE]

fletcher32_update(c, d) ==
    IF c.have_low /\ Len(d) > 0 THEN Pairs(Complete(c, d[1]), d, 2) ELSE Pairs(c, d, 1)

\* A last odd byte is padded with a zero byte.
fletcher32_final(c) ==
    LET last == IF c.have_low THEN [AddWord(c, c.low) EXCEPT !.have_low = FALSE] ELSE c
    IN  <<last.s2, last.s1>>

-----------------------------------------------------------------------------
Init ==
    /\ ctx = Fresh
    /\ fed = <<>>
    /\ digest = NoDigest

Update(d) ==
    /\ digest = NoDigest
    /\ Len(fed) + Len(d) <= MaxFed
    /\ ctx' = fletcher32_update(ctx, d)
    /\ fed' = fed \o d
    /\ UNCHANGED digest

Finish ==
    /\ digest = NoDigest
    /\ digest' = fletcher32_final(ctx)
    /\ UNCHANGED <<ctx, fed>>

Starts ==
    /\ digest # NoDigest
    /\ ctx' = Fresh
    /\ fed' = <<>>
    /\ digest' = NoDigest

Next == Finish \/ Starts \/ \E k \in 0 .. MaxUpdate : \E d \in [1 .. k -> Byte] : Update(d)

Spec == Init /\ [][Next]_vars

-----------------------------------------------------------------------------
(* Properties *)

\* Both sums stay reduced, so adding a word never overflows 32 bits.
TypeOK ==
    /\ ctx.s1 \in 0 .. M - 1 /\ ctx.s2 \in 0 .. M - 1
    /\ ctx.have_low \in BOOLEAN /\ ctx.low \in Byte
    /\ fed \in Seq(Byte) /\ Len(fed) <= MaxFed

\* A byte waits exactly when an odd number has been absorbed, and it is the last.
LowWaits ==
    digest = NoDigest =>
        /\ ctx.have_low <=> Len(fed) % 2 = 1
        /\ ctx.have_low => ctx.low = fed[Len(fed)]

\* The checksum as a formula on the whole message: with words w_1 .. w_n, the
\* sums of w_i and of (n - i + 1) * w_i, both modulo 2^16 - 1.
Words(msg) ==
    LET padded == IF Len(msg) % 2 = 0 THEN msg ELSE Append(msg, 0)
    IN  [i \in 1 .. Len(padded) \div 2 |-> Word16(padded[2 * i - 1], padded[2 * i])]
Fletcher32(msg) ==
    LET w == Words(msg)
        n == Len(w)
        total[i \in 0 .. n] == IF i = 0 THEN 0 ELSE total[i - 1] + w[i]
        weighted[i \in 0 .. n] == IF i = 0 THEN 0 ELSE weighted[i - 1] + (n - i + 1) * w[i]
    IN  << weighted[n] % M, total[n] % M >>

\* A file read in buffers of any sizes, odd ones included, has the checksum of
\* the same bytes in memory.
ChecksumOfWhole == digest # NoDigest => digest = Fletcher32(fed)
=============================================================================
