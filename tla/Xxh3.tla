-------------------------------- MODULE Xxh3 --------------------------------
(***************************************************************************)
(* The streaming XXH3 of xxhash.h (64 and 128 bits share it): stripes are  *)
(* accumulated in blocks, each stripe of a block under its own part of the *)
(* secret, and the accumulators are scrambled after each block. The last   *)
(* stripe of a message is accumulated apart and may overlap the one before *)
(* it, so it must still be at hand when the digest is asked for.           *)
(*                                                                         *)
(* Accumulating is free: acc is the list of what was done to it.           *)
(***************************************************************************)
EXTENDS Integers, Sequences

CONSTANTS
    Stripe,     \* XXH_STRIPE_LEN (64)
    Buffer,     \* XXH3_INTERNALBUFFER_SIZE (256)
    Block,      \* stripes of a block, as many as the secret has room for (16)
    MidSize,    \* XXH3_MIDSIZE_MAX (240)
    Data,       \* the bytes the caller hands over
    Garbage,    \* a byte of the buffer before it is written
    MaxFed,     \* bound: longest message
    MaxUpdate   \* bound: longest single update

\* As in xxhash.h; the model that instantiates this one assumes it.
ConstantsFit ==
    /\ Stripe \in Nat \ {0} /\ Block \in Nat \ {0}
    /\ \E k \in 2 .. Buffer : Buffer = k * Stripe
    /\ MidSize \in Stripe .. Buffer - 1
    /\ MaxFed \in Nat /\ MaxUpdate \in Nat

VARIABLES
    seed,       \* the argument of digest()
    state, fed, digest
vars == <<seed, state, fed, digest>>

NoDigest == <<>>
Message(n) == [i \in 1 .. n |-> Data[i]]

-----------------------------------------------------------------------------
\* XXH3_reset_internal: all but the buffer's bytes. The file's cases call
\* XXH3_64bits_reset, whose seed is 0.
XXH3_reset(buffer) ==
    [seed |-> 0, acc |-> <<>>, soFar |-> 0, total |-> 0, buffer |-> buffer, size |-> 0]

\* XXH_memcpy(buffer + at, s, Len(s))
Copy(buffer, at, s) ==
    [i \in 1 .. Buffer |-> IF at < i /\ i <= at + Len(s) THEN s[i - at] ELSE buffer[i]]

\* XXH3_accumulate: n stripes from byte `from' on, under the secret's parts
\* from key on.
Accumulate(acc, input, from, n, key) ==
    acc \o [i \in 1 .. n |->
              <<key + i - 1, SubSeq(input, from + (i - 1) * Stripe + 1, from + i * Stripe)>>]

Scramble(acc) == Append(acc, <<"scramble">>)

\* `nbStripes >= nbStripesPerBlock - nbStripesSoFar'
EndsBlock_Beyond(n, soFar) == n > Block - soFar
EndsBlock(n, soFar) == n >= Block - soFar

\* The secret's offset behind a finished block: initialSecret = secret.
KeyAfterBlock_Keep(soFar) == soFar
KeyAfterBlock(soFar) == 0

\* The accumulators and the stripes of the open block after n stripes of input.
XXH3_consumeStripes(acc, soFar, input, n) ==
    LET first == Block - soFar
        blocks == 1 + (n - first) \div Block
        \* the do-while: what is left of the open block, then whole blocks
        after[b \in 0 .. blocks] ==
            IF b = 0 THEN acc
            ELSE IF b = 1 THEN Scramble(Accumulate(acc, input, 0, first, soFar))
            ELSE Scramble(Accumulate(after[b - 1], input, (first + (b - 2) * Block) * Stripe,
                                     Block, KeyAfterBlock(soFar)))
        done == first + (blocks - 1) * Block
    IN  IF EndsBlock(n, soFar)
        THEN [acc |-> Accumulate(after[blocks], input, done * Stripe, n - done,
                                 KeyAfterBlock(soFar)),
              soFar |-> n - done]
        ELSE [acc |-> Accumulate(acc, input, 0, n, soFar), soFar |-> soFar + n]

\* `len <= XXH3_INTERNALBUFFER_SIZE - bufferedSize': a full buffer waits too.
StaysBuffered(size, len) == len <= Buffer - size

\* How many stripes are taken from the input directly: one byte at least stays.
DirectStripes(len) == (len - 1) \div Stripe

\* The last stripe taken from the input is copied to the buffer's end, where
\* digest looks for the bytes before those buffered.
KeepLast_Not(buffer, input, upto) == buffer
KeepLast(buffer, input, upto) ==
    Copy(buffer, Buffer - Stripe, SubSeq(input, upto - Stripe + 1, upto))

XXH3_update(s, input) ==
    LET len   == Len(input)
        load  == IF s.size > 0 THEN Buffer - s.size ELSE 0
        full  == Copy(s.buffer, s.size, SubSeq(input, 1, load))
        one   == IF s.size > 0
                 THEN XXH3_consumeStripes(s.acc, s.soFar, full, Buffer \div Stripe)
                 ELSE [acc |-> s.acc, soFar |-> s.soFar]
        direct == IF len - load > Buffer THEN DirectStripes(len - load) ELSE 0
        two   == IF direct > 0
                 THEN XXH3_consumeStripes(one.acc, one.soFar,
                                          SubSeq(input, load + 1, len), direct)
                 ELSE one
        upto  == load + direct * Stripe
        kept  == IF direct > 0 THEN KeepLast(full, input, upto) ELSE full
    IN  IF StaysBuffered(s.size, len)
        THEN [s EXCEPT !.total = @ + len, !.buffer = Copy(@, s.size, input), !.size = @ + len]
        ELSE [seed |-> s.seed, acc |-> two.acc, soFar |-> two.soFar, total |-> s.total + len,
              buffer |-> Copy(kept, 0, SubSeq(input, upto + 1, len)),
              size |-> len - upto]

\* The bytes of the last stripe: all buffered, or the buffer's end, where the
\* bytes before them are, and its beginning.
LastStripe(s) ==
    IF s.size >= Stripe THEN SubSeq(s.buffer, s.size - Stripe + 1, s.size)
    ELSE SubSeq(s.buffer, Buffer - (Stripe - s.size) + 1, Buffer) \o SubSeq(s.buffer, 1, s.size)

\* The stripes consumed at digest, on a copy: not the last one.
RestStripes_All(size) == size \div Stripe
RestStripes(size) == (size - 1) \div Stripe

XXH3_digest_long(s) ==
    LET acc == IF s.size >= Stripe
               THEN XXH3_consumeStripes(s.acc, s.soFar, s.buffer, RestStripes(s.size)).acc
               ELSE s.acc
    IN  Append(acc, <<"last", LastStripe(s)>>)

\* Short messages are hashed by other functions, from the buffer.
XXH3_digest(s) ==
    IF s.total > MidSize THEN <<s.seed, s.total, XXH3_digest_long(s)>>
    ELSE <<s.seed, s.total, SubSeq(s.buffer, 1, s.total)>>

-----------------------------------------------------------------------------
(* Bytes in memory: XXH3_64bits_internal and XXH3_hashLong_internal_loop.    *)

XXH3_hashLong(input) ==
    LET len       == Len(input)
        block_len == Stripe * Block
        nb_blocks == (len - 1) \div block_len
        after[b \in 0 .. nb_blocks] ==
            IF b = 0 THEN <<>>
            ELSE Scramble(Accumulate(after[b - 1], input, (b - 1) * block_len, Block, 0))
        nbStripes == ((len - 1) - block_len * nb_blocks) \div Stripe
    IN  Append(Accumulate(after[nb_blocks], input, nb_blocks * block_len, nbStripes, 0),
               <<"last", SubSeq(input, len - Stripe + 1, len)>>)

XXH3_64bits_withSeed(input, k) ==
    <<k, Len(input), IF Len(input) > MidSize THEN XXH3_hashLong(input) ELSE input>>

-----------------------------------------------------------------------------
Init ==
    /\ seed \in {0, 1}
    /\ state = XXH3_reset([i \in 1 .. Buffer |-> Garbage])
    /\ fed = 0
    /\ digest = NoDigest

\* XXH3_createState gives another state; its buffer is what malloc returned.
Starts ==
    /\ digest # NoDigest
    /\ state' = XXH3_reset(state.buffer)
    /\ fed' = 0
    /\ digest' = NoDigest
    /\ UNCHANGED seed

Update(k) ==
    /\ digest = NoDigest
    /\ fed + k <= MaxFed
    /\ state' = XXH3_update(state, [i \in 1 .. k |-> Data[fed + i]])
    /\ fed' = fed + k
    /\ UNCHANGED <<seed, digest>>

Finish ==
    /\ digest = NoDigest
    /\ digest' = XXH3_digest(state)
    /\ UNCHANGED <<seed, state, fed>>

Next == Starts \/ Finish \/ \E k \in 0 .. MaxUpdate : Update(k)

Spec == Init /\ [][Next]_vars

-----------------------------------------------------------------------------
(* Properties *)

\* The buffer may be full between two calls, the open block never is.
TypeOK ==
    /\ state.size \in 0 .. Buffer /\ state.soFar \in 0 .. Block - 1
    /\ state.buffer \in [1 .. Buffer -> {Data[i] : i \in 1 .. MaxFed} \cup {Garbage}]
    /\ state.total = fed /\ fed \in 0 .. MaxFed

\* Something is always left for the last stripe, and once stripes have been
\* consumed the last stripe can be put together: the bytes before those
\* buffered are at the end of the buffer, whichever way they came in.
LastStripeAtHand ==
    /\ fed > 0 => state.size > 0
    /\ fed > Buffer =>
         LastStripe(state) = [i \in 1 .. Stripe |-> Data[fed - Stripe + i]]

\* The stripes consumed, in order, each under the part of the secret that its
\* position in the message gives, with a scramble where a block ends.
StripesInPlace ==
    LET n == (fed - state.size) \div Stripe
        stripe(i) == <<i % Block, SubSeq(Message(fed), i * Stripe + 1, (i + 1) * Stripe)>>
        done[i \in 0 .. n] ==
            IF i = 0 THEN <<>>
            ELSE IF i % Block = 0 THEN Scramble(Append(done[i - 1], stripe(i - 1)))
            ELSE Append(done[i - 1], stripe(i - 1))
    IN  /\ (fed - state.size) % Stripe = 0 /\ state.soFar = n % Block
        /\ state.acc = done[n]
        /\ \A i \in 1 .. state.size : state.buffer[i] = Data[fed - state.size + i]

\* The digest of a file is the digest of the same bytes in memory, for a seed
\* of 0: the file's cases never set another.
FileIsMemory ==
    (digest # NoDigest /\ seed = 0) => digest = XXH3_64bits_withSeed(Message(fed), seed)
=============================================================================
