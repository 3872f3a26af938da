-------------------------------- MODULE Crc --------------------------------
(***************************************************************************)
(* CRC-32 (crc32.c) and CRC-32C (crc32c_portable.cpp) as the digest cases  *)
(* of digest.c call them: one register, carried from call to call, and     *)
(* loops that take words of four bytes, or strides of four words, by       *)
(* tables, wherever the buffer's address and length allow it.              *)
(*                                                                         *)
(* The arithmetic is the code's own with bytes of one bit: a register is a *)
(* word of four bytes, a tuple of bits, least significant first, and the   *)
(* tables have two entries. Registers depend on the message's bits by      *)
(* exclusive or, so messages with at most one bit set show all of them.    *)
(***************************************************************************)
EXTENDS Integers, Sequences, FiniteSets

CONSTANTS
    Poly,       \* the polynomial, reflected: x^3, x^2, x, 1
    Unroll,     \* words of one round of crc32.c's first loop (8)
    Group,      \* strides of one round of ExtendPortable's first loop (4)
    Horizon,    \* kPrefetchHorizon (256)
    UInt,       \* values of an unsigned (2^32)
    Lengths,    \* the lengths of the buffers handed over
    MaxFed      \* bound: longest message

\* A one in the polynomial's constant term, and rounds that stay in the buffer.
ConstantsFit ==
    /\ Poly \in [1 .. 4 -> 0 .. 1] /\ Poly[4] = 1
    /\ Unroll \in Nat \ {0} /\ Group \in Nat \ {0}
    /\ Horizon \in Nat /\ Horizon >= 16 * Group - 1
    /\ UInt \in Nat \ {0} /\ Lengths \subseteq Nat /\ MaxFed \in Nat

VARIABLES
    impl,       \* the algorithm, and for crc32 the build's way to compute it
    crc,        \* val in digest.c: the digest, and the register between calls
    fed,        \* bytes of the message
    ones,       \* which of them are 1
    whole       \* it was hashed by one call, as bytes in memory are
vars == <<impl, crc, fed, ones, whole>>

Impls == {"little", "big", "bytes", "crc32c"}

-----------------------------------------------------------------------------
(* Words of bits *)

ZeroWord == <<0, 0, 0, 0>>

Xor(a, b) == << (a[1] + b[1]) % 2, (a[2] + b[2]) % 2,
                (a[3] + b[3]) % 2, (a[4] + b[4]) % 2 >>

\* ~w
Not(w) == Xor(w, <<1, 1, 1, 1>>)

\* w >> 8 and w << 8
ShiftRight(w) == <<w[2], w[3], w[4], 0>>
ShiftLeft(w) == <<0, w[1], w[2], w[3]>>

\* REV(w)
REV(w) == <<w[4], w[3], w[2], w[1]>>

\* crc_table[0]: of the two bytes, 0 and 1.
Table0(b) == IF b = 1 THEN Poly ELSE ZeroWord

Bit == 0 .. 1
Register == {<<b1, b2, b3, b4>> : b1 \in Bit, b2 \in Bit, b3 \in Bit, b4 \in Bit}

\* A byte taken into the register: crc_table[0][(c ^ b) & 0xff] ^ (c >> 8).
DO1(c, b) == Xor(Table0((c[1] + b) % 2), ShiftRight(c))

\* DO1 as a table.
AddByte == [c \in Register |-> [b \in Bit |-> DO1(c, b)]]

\* crc_table[k], 0 <= k <= 3: the byte followed by k zeros. The tables of
\* crc32c_portable.cpp are of the same making.
Table(k, b) ==
    LET after[i \in 0 .. k] == IF i = 0 THEN Table0(b) ELSE AddByte[after[i - 1]][0]
    IN  after[k]

\* The bytes of s, one by one.
Bytes(c, s) ==
    LET after[i \in 0 .. Len(s)] == IF i = 0 THEN c ELSE AddByte[after[i - 1]][s[i]]
    IN  after[Len(s)]

\* The word at byte i of s.
ReadWord(s, i) == SubSeq(s, i, i + 3)

-----------------------------------------------------------------------------
(* crc32.c *)

Xor4(a, b, c, d) == Xor(Xor(a, b), Xor(c, d))

\* DOLIT4, DOBIG4
DOLIT4(c, w) ==
    LET x == Xor(c, w)
    IN  Xor4(Table(3, x[1]), Table(2, x[2]), Table(1, x[3]), Table(0, x[4]))
DOBIG4(c, w) ==
    LET x == Xor(c, REV(w))
    IN  Xor4(REV(Table(0, x[1])), REV(Table(1, x[2])), REV(Table(2, x[3])), REV(Table(3, x[4])))

\* c = crc_table[4][(c >> 24) ^ *buf++] ^ (c << 8)
DO1Big(c, b) == Xor(REV(Table(0, (c[4] + b) % 2)), ShiftLeft(c))

\* n words of s from byte `from' on, each by Step(c, w).
WordSteps(Step(_, _), c, s, from, n) ==
    LET after[i \in 0 .. n] ==
            IF i = 0 THEN c ELSE Step(after[i - 1], ReadWord(s, from + 4 * i - 3))
    IN  after[n]

\* while (len && ((ptrdiff_t)buf & 3))
Prologue(ptr, len) == IF len < (4 - ptr) % 4 THEN len ELSE (4 - ptr) % 4

\* How many words the rounds and the loop after them take.
Rounds(len) == Unroll * (len \div (4 * Unroll))
Singles(len) == (len % (4 * Unroll)) \div 4

digest_crc32_little(val, buf, ptr) ==
    LET len   == Len(buf)
        p     == Prologue(ptr, len)
        n     == Rounds(len - p)
        k     == Singles(len - p)
        c     == Bytes(Not(val), SubSeq(buf, 1, p))
        round == WordSteps(DOLIT4, c, buf, p, n)
        word  == WordSteps(DOLIT4, round, buf, p + 4 * n, k)
    IN  Not(Bytes(word, SubSeq(buf, p + 4 * (n + k) + 1, len)))

digest_crc32_big(val, buf, ptr) ==
    LET len   == Len(buf)
        p     == Prologue(ptr, len)
        n     == Rounds(len - p)
        k     == Singles(len - p)
        bytes(c, s) == LET after[i \in 0 .. Len(s)] ==
                               IF i = 0 THEN c ELSE DO1Big(after[i - 1], s[i])
                       IN  after[Len(s)]
        c     == bytes(Not(REV(val)), SubSeq(buf, 1, p))
        round == WordSteps(DOBIG4, c, buf, p, n)
        word  == WordSteps(DOBIG4, round, buf, p + 4 * n, k)
    IN  REV(Not(bytes(word, SubSeq(buf, p + 4 * (n + k) + 1, len))))

\* Where there is no four-byte integer the loops are over bytes.
digest_crc32(val, buf, ptr) ==
    CASE impl = "little" -> digest_crc32_little(val, buf, ptr)
      [] impl = "big"    -> digest_crc32_big(val, buf, ptr)
      [] impl = "bytes"  -> Not(Bytes(Not(val), buf))

-----------------------------------------------------------------------------
(* crc32c_portable.cpp *)

\* kStrideExtensionTable0 .. 3: the byte followed by 12 + k zeros.
Stride(k, b) == Table(12 + k, b)

\* STEP4(s): the stride's register over the sixteen bytes to its next word.
STEP4(c, w) ==
    Xor(w, Xor4(Stride(3, c[1]), Stride(2, c[2]), Stride(1, c[3]), Stride(0, c[4])))

\* n rounds of STEP16 from byte `from' on; x holds the four registers.
STEP16(x, s, from, n) ==
    LET word(i, j) == ReadWord(s, from + 16 * (i - 1) + 4 * j - 3)
        after[i \in 0 .. n] ==
            IF i = 0 THEN x
            ELSE LET y == after[i - 1]
                 IN  << STEP4(y[1], word(i, 1)), STEP4(y[2], word(i, 2)),
                        STEP4(y[3], word(i, 3)), STEP4(y[4], word(i, 4)) >>
    IN  after[n]

\* A word for the first register, which goes to the back.
Rotate_Not(x, w) == <<STEP4(x[1], w), x[2], x[3], x[4]>>
Rotate(x, w) == <<x[2], x[3], x[4], STEP4(x[1], w)>>

\* STEP4W, for each of the four registers, from l = 0.
Combine(x) ==
    LET step4w(w, l) == Bytes(Xor(w, l), ZeroWord)
    IN  step4w(x[4], step4w(x[3], step4w(x[2], step4w(x[1], ZeroWord))))

\* `(e - p) > kPrefetchHorizon': how many strides the first loop takes.
Ahead(left) ==
    IF left <= Horizon THEN 0
    ELSE Group * ((left - Horizon + 16 * Group - 1) \div (16 * Group))

\* x <= e: the bytes up to an aligned address, if it is in the buffer.
UpToAligned(ptr, len) == IF (4 - ptr) % 4 <= len THEN (4 - ptr) % 4 ELSE 0

ExtendPortable(val, buf, ptr) ==
    LET size == Len(buf)
        p    == UpToAligned(ptr, size)
        l    == Bytes(Not(val), SubSeq(buf, 1, p))
        left == size - p - 16
        load == <<Xor(ReadWord(buf, p + 1), l), ReadWord(buf, p + 5),
                  ReadWord(buf, p + 9), ReadWord(buf, p + 13)>>
        n    == Ahead(left)
        k    == (left - 16 * n) \div 16
        both == STEP16(STEP16(load, buf, p + 16, n), buf, p + 16 * (n + 1), k)
        from == p + 16 * (n + k + 1)
        words == (size - from) \div 4
        rot[i \in 0 .. words] ==
            IF i = 0 THEN both ELSE Rotate(rot[i - 1], ReadWord(buf, from + 4 * i - 3))
    IN  IF size - p < 16 THEN Not(Bytes(l, SubSeq(buf, p + 1, size)))
        ELSE Not(Bytes(Combine(rot[words]), SubSeq(buf, from + 4 * words + 1, size)))

-----------------------------------------------------------------------------
(* digest.c *)

\* One call, by either algorithm. The length is a size_t in crc32c_extend.
Extend(val, buf, ptr) ==
    IF impl = "crc32c" THEN ExtendPortable(val, buf, ptr) ELSE digest_crc32(val, buf, ptr)

\* `unsigned l = nChar' in the in-memory case of crc32.
Narrow(k) == IF impl = "crc32c" THEN k ELSE k % UInt

Bits(new, from, k) == [i \in 1 .. k |-> IF from + i \in new THEN 1 ELSE 0]

\* val = digest_crc32(0L, 0, 0), and crc = 0.
Init ==
    /\ impl \in Impls
    /\ crc = ZeroWord /\ fed = 0 /\ ones = {} /\ whole = FALSE

Starts ==
    /\ fed > 0
    /\ crc' = ZeroWord /\ fed' = 0 /\ ones' = {} /\ whole' = FALSE
    /\ UNCHANGED impl

\* A block of the file: k bytes at an address that is ptr modulo 4.
Update(k, ptr, new) ==
    /\ ~whole /\ fed + k <= MaxFed
    /\ crc' = Extend(crc, Bits(new, fed, k), ptr)
    /\ fed' = fed + k /\ ones' = ones \cup new
    /\ UNCHANGED <<impl, whole>>

\* An object in memory; skip has moved its address.
Memory(k, ptr, new) ==
    /\ fed = 0 /\ k <= MaxFed
    /\ crc' = Extend(crc, Bits(new, 0, Narrow(k)), ptr)
    /\ fed' = k /\ ones' = new /\ whole' = TRUE
    /\ UNCHANGED impl

\* At most one bit of the message is set.
News(k) == {{}} \cup (IF ones = {} THEN {{i} : i \in fed + 1 .. fed + k} ELSE {})

Next ==
    \/ Starts
    \/ \E k \in Lengths, ptr \in 0 .. 3 : \E new \in News(k) :
         Update(k, ptr, new) \/ Memory(k, ptr, new)

Spec == Init /\ [][Next]_vars

-----------------------------------------------------------------------------
(* Properties *)

\* x^n modulo the polynomial.
TimesX == [p \in Register |-> Xor(IF p[1] = 1 THEN Poly ELSE ZeroWord, <<p[2], p[3], p[4], 0>>)]
Power(n) ==
    LET pow[i \in 0 .. n] == IF i = 0 THEN <<0, 0, 0, 1>> ELSE TimesX[pow[i - 1]]
    IN  pow[n]

\* The cyclic redundancy check of the first n bits of the message, as a
\* remainder: its first four bits complemented, four zeros behind it, divided
\* by the polynomial, and the remainder complemented.
Check(n) ==
    LET terms == {n - i + 4 : i \in {i \in ones : i <= n}}
        front == n .. n + 3
        odd(j) == (Cardinality({t \in terms : Power(t)[j] = 1})
                     + Cardinality({t \in front : Power(t)[j] = 1})) % 2
    IN  Not(<<odd(1), odd(2), odd(3), odd(4)>>)

\* Both algorithms, on every build, give the remainder of the message's
\* division, however it is cut into buffers and wherever these lie; an object
\* in memory must be shorter than an unsigned can tell for that.
CrcOfMessage == (whole => fed < UInt) => crc = Check(fed)
=============================================================================
