------------------------------- MODULE Blake3 -------------------------------
(***************************************************************************)
(* The incremental BLAKE3 hasher of blake3.c: a chunk state that fills one *)
(* chunk and a stack of chaining values of finished subtrees, merged as    *)
(* late as possible because the last merge may be the root.                *)
(*                                                                         *)
(* The compression function is free: Compress is a term, so a digest is    *)
(* the tree of all the compressions under it with their blocks, block      *)
(* lengths, counters and flags, and two trees are equal only when every    *)
(* one of these is.                                                        *)
(***************************************************************************)
EXTENDS Integers, Sequences

CONSTANTS
    BLOCK_LEN,      \* bytes of a block (64)
    CHUNK_LEN,      \* bytes of a chunk (1024)
    Degrees,        \* what blake3_simd_degree may return (1, 4, 8 or 16)
    MAX_DEPTH,      \* BLAKE3_MAX_DEPTH (54)
    Bits,           \* bits of a length (64)
    Data,           \* the bytes the caller hands over
    MaxFed,         \* bound: longest message
    MaxUpdate       \* bound: longest single update

\* 1 << k
TwoTo[k \in 0 .. Bits] == IF k = 0 THEN 1 ELSE 2 * TwoTo[k - 1]
Pow2 == {TwoTo[k] : k \in 0 .. Bits - 1}

\* Lengths are powers of two, a block smaller than a chunk, and MAX_DEPTH
\* layers over the chunks span every length.
ConstantsFit ==
    /\ Bits \in Nat
    /\ BLOCK_LEN \in Pow2 /\ CHUNK_LEN \in Pow2 /\ BLOCK_LEN < CHUNK_LEN
    /\ Degrees \subseteq Pow2
    /\ MAX_DEPTH \in 0 .. Bits /\ CHUNK_LEN * TwoTo[MAX_DEPTH] = TwoTo[Bits]
    /\ MaxFed \in Nat /\ MaxFed < TwoTo[Bits] /\ MaxUpdate \in Nat

VARIABLES
    Degree,     \* what blake3_simd_degree returns on this processor
    chunk,      \* the blake3_chunk_state
    stack,      \* cv_stack[0 .. cv_stack_len - 1]
    fed,        \* how many bytes of Data have been given to update
    digest      \* what finalize returned, NoDigest before

vars == <<Degree, chunk, stack, fed, digest>>

NoDigest == <<>>
Zero == <<"zero">>
Key == <<"IV">>

-----------------------------------------------------------------------------
(* Arithmetic of blake3_impl.h *)

\* x - (x & (x - 1)): the largest power of two that divides x.
LowBit(x) == CHOOSE p \in Pow2 : x % p = 0 /\ x % (2 * p) # 0

\* `while (x != 0) { count += 1; x &= x - 1; }'
OneBits[x \in 0 .. TwoTo[Bits] - 1] == IF x = 0 THEN 0 ELSE 1 + OneBits[x - LowBit(x)]
popcnt(x) == OneBits[x]

round_down_to_power_of_2(x) == CHOOSE p \in Pow2 : p <= x /\ x < 2 * p

\* The largest power of two of chunks that leaves at least one byte.
left_subtree_len(len) ==
    round_down_to_power_of_2((len - 1) \div CHUNK_LEN) * CHUNK_LEN

-----------------------------------------------------------------------------
(* Compressions *)

\* blake3_compress_in_place
Compress(cv, block, block_len, counter, flags) ==
    <<cv, block, block_len, counter, flags>>

\* output_t, and the chaining value or the digest made of it
make_output(cv, block, block_len, counter, flags) ==
    [cv |-> cv, block |-> block, block_len |-> block_len,
     counter |-> counter, flags |-> flags]
output_chaining_value(o) == Compress(o.cv, o.block, o.block_len, o.counter, o.flags)
\* The counter of a root is that of the output block, 0 for the first.
output_root_bytes(o) == Compress(o.cv, o.block, o.block_len, 0, o.flags \cup {"ROOT"})

\* A node is made of the two chaining values of its children.
parent_output(pair) == make_output(Key, pair, BLOCK_LEN, 0, {"PARENT"})

-----------------------------------------------------------------------------
(* The chunk state *)

ZeroBlock == [i \in 1 .. BLOCK_LEN |-> Zero]

chunk_state_reset(counter) ==
    [cv |-> Key, chunk_counter |-> counter, buf |-> ZeroBlock,
     buf_len |-> 0, blocks_compressed |-> 0]

chunk_state_len(c) == BLOCK_LEN * c.blocks_compressed + c.buf_len

chunk_state_maybe_start_flag(c) ==
    IF c.blocks_compressed = 0 THEN {"CHUNK_START"} ELSE {}

\* How many bytes of the input go into the buffer.
Take(c, len) == IF BLOCK_LEN - c.buf_len > len THEN len ELSE BLOCK_LEN - c.buf_len

chunk_state_fill_buf(c, input) ==
    LET take == Take(c, Len(input))
    IN  [c EXCEPT !.buf = [i \in 1 .. BLOCK_LEN |->
                             IF c.buf_len < i /\ i <= c.buf_len + take
                             THEN input[i - c.buf_len] ELSE @[i]],
                  !.buf_len = @ + take]

CompressBlock(c, block) ==
    [c EXCEPT !.cv = Compress(@, block, BLOCK_LEN, c.chunk_counter,
                              chunk_state_maybe_start_flag(c)),
              !.blocks_compressed = @ + 1]

\* buf_len = 0; memset(buf, 0)
ClearBuf_Stale(c) == [c EXCEPT !.buf_len = 0]
ClearBuf(c) == [c EXCEPT !.buf_len = 0, !.buf = ZeroBlock]

\* `while (input_len > BLAKE3_BLOCK_LEN)': a block is compressed only when
\* more input follows it, for the last block of a chunk has its own flags.
DirectBlocks(len) == IF len = 0 THEN 0 ELSE (len - 1) \div BLOCK_LEN

chunk_state_update(c, input) ==
    LET take == IF c.buf_len > 0 THEN Take(c, Len(input)) ELSE 0
        filled == IF c.buf_len > 0 THEN chunk_state_fill_buf(c, input) ELSE c
        rest == SubSeq(input, take + 1, Len(input))
        ready == IF c.buf_len > 0 /\ rest # <<>>
                 THEN ClearBuf(CompressBlock(filled, filled.buf)) ELSE filled
        n == DirectBlocks(Len(rest))
        block(k) == SubSeq(rest, (k - 1) * BLOCK_LEN + 1, k * BLOCK_LEN)
        hashed[k \in 0 .. n] ==
          IF k = 0 THEN ready ELSE CompressBlock(hashed[k - 1], block(k))
    IN  chunk_state_fill_buf(hashed[n], SubSeq(rest, n * BLOCK_LEN + 1, Len(rest)))

chunk_state_output(c) ==
    make_output(c.cv, c.buf, c.buf_len, c.chunk_counter,
                chunk_state_maybe_start_flag(c) \cup {"CHUNK_END"})

-----------------------------------------------------------------------------
(* Subtrees of a single input *)

\* A whole chunk in one pass: the first block starts it, the last ends it.
hash_one(input, counter) ==
    LET n == Len(input) \div BLOCK_LEN
        flags(k) == (IF k = 1 THEN {"CHUNK_START"} ELSE {})
                       \cup (IF k = n THEN {"CHUNK_END"} ELSE {})
        cv[k \in 0 .. n] ==
          IF k = 0 THEN Key
          ELSE Compress(cv[k - 1], SubSeq(input, (k - 1) * BLOCK_LEN + 1, k * BLOCK_LEN),
                        BLOCK_LEN, counter, flags(k))
    IN  cv[n]

\* The chaining value of a chunk that goes through a chunk state of its own.
ChunkCv(input, counter) ==
    output_chaining_value(
        chunk_state_output(chunk_state_update(chunk_state_reset(counter), input)))

compress_chunks_parallel(input, counter) ==
    LET n == Len(input) \div CHUNK_LEN
        part(k) == SubSeq(input, (k - 1) * CHUNK_LEN + 1, k * CHUNK_LEN)
        rest == SubSeq(input, n * CHUNK_LEN + 1, Len(input))
        whole == [k \in 1 .. n |-> hash_one(part(k), counter + k - 1)]
    IN  IF rest = <<>> THEN whole ELSE Append(whole, ChunkCv(rest, counter + n))

\* One layer of parents; an odd child left over becomes an output.
compress_parents_parallel(cvs) ==
    LET n == Len(cvs) \div 2
        parents == [k \in 1 .. n |->
                      output_chaining_value(parent_output(<<cvs[2 * k - 1], cvs[2 * k]>>))]
    IN  parents \o SubSeq(cvs, 2 * n + 1, Len(cvs))

\* `left_n == 1': with one lane the two values are returned as they are, so
\* that no call ever compresses the root.
Layer(left, right) ==
    IF Len(left) = 1 THEN left \o right ELSE compress_parents_parallel(left \o right)

blake3_compress_subtree_wide(input, counter) ==
    LET wide[len \in 0 .. Len(input)] ==
          [at \in 0 .. Len(input) |->
             IF len <= Degree * CHUNK_LEN
             THEN compress_chunks_parallel(SubSeq(input, at + 1, at + len),
                                           counter + at \div CHUNK_LEN)
             ELSE LET l == left_subtree_len(len)
                  IN  Layer(wide[l][at], wide[len - l][at + l])]
    IN  wide[Len(input)][0]

\* One pass of `while (num_cvs > 2)'.
Condense(cvs) == IF Len(cvs) > 2 THEN compress_parents_parallel(cvs) ELSE cvs

\* The two children of the topmost node, which is left uncompressed.
compress_subtree_to_parent_node(input, counter) ==
    LET condensed[i \in 0 .. Degree] ==
          IF i = 0 THEN blake3_compress_subtree_wide(input, counter)
          ELSE Condense(condensed[i - 1])
    IN  condensed[Degree]

-----------------------------------------------------------------------------
(* The hasher *)

\* Merge the two topmost chaining values until there are as many as total has
\* one bits.
MergeTop(s, total) ==
    IF Len(s) <= popcnt(total) THEN s
    ELSE Append(SubSeq(s, 1, Len(s) - 2),
                output_chaining_value(parent_output(<<s[Len(s) - 1], s[Len(s)]>>)))
hasher_merge_cv_stack(s, total) ==
    LET merged[i \in 0 .. Len(s)] ==
          IF i = 0 THEN s ELSE MergeTop(merged[i - 1], total)
    IN  merged[Len(s)]

\* The merges of the chunks before this value, never with it.
hasher_push_cv_NoMerge(s, cv, counter) == Append(s, cv)
hasher_push_cv(s, cv, counter) == Append(hasher_merge_cv_stack(s, counter), cv)

\* How long the next subtree is: the largest power of two of the input that
\* evenly divides what has been hashed so far.
SubtreeLen_Undivided(len, counter) == round_down_to_power_of_2(len)
SubtreeLen(len, counter) ==
    LET most == round_down_to_power_of_2(len)
        fits == {p \in Pow2 : p <= most /\ (counter * CHUNK_LEN) % p = 0}
    IN  CHOOSE p \in fits : \A q \in fits : q <= p

\* One pass of `while (input_len > BLAKE3_CHUNK_LEN)'. h is [c, s, input].
PushSubtree(h) ==
  IF Len(h.input) <= CHUNK_LEN THEN h ELSE
    LET len == SubtreeLen(Len(h.input), h.c.chunk_counter)
        part == SubSeq(h.input, 1, len)
        counter == h.c.chunk_counter
        chunks == len \div CHUNK_LEN
        pair == compress_subtree_to_parent_node(part, counter)
    IN  [c |-> [h.c EXCEPT !.chunk_counter = @ + chunks],
         s |-> IF len <= CHUNK_LEN
               THEN hasher_push_cv(h.s, ChunkCv(part, counter), counter)
               ELSE hasher_push_cv(hasher_push_cv(h.s, pair[1], counter),
                                   pair[2], counter + chunks \div 2),
         input |-> SubSeq(h.input, len + 1, Len(h.input))]

\* At most one pass per chunk of the input.
PushSubtrees(h) ==
    LET n == Len(h.input) \div CHUNK_LEN
        pushed[i \in 0 .. n] == IF i = 0 THEN h ELSE PushSubtree(pushed[i - 1])
    IN  pushed[n]

\* A partial chunk is finished first. It goes on the stack only when there is
\* more input: then it is not the root.
FinishChunk(h) ==
    LET room == CHUNK_LEN - chunk_state_len(h.c)
        take == IF room > Len(h.input) THEN Len(h.input) ELSE room
        rest == SubSeq(h.input, take + 1, Len(h.input))
        full == chunk_state_update(h.c, SubSeq(h.input, 1, take))
    IN  IF rest = <<>> THEN [h EXCEPT !.c = full, !.input = rest]
        ELSE [c |-> chunk_state_reset(full.chunk_counter + 1),
              s |-> hasher_push_cv(h.s, output_chaining_value(chunk_state_output(full)),
                                   full.chunk_counter),
              input |-> rest]

\* The bytes left over wait in the chunk state, and the stack is merged.
KeepRest_NoMerge(h) ==
    IF h.input = <<>> THEN h ELSE [h EXCEPT !.c = chunk_state_update(@, h.input)]
KeepRest(h) ==
    IF h.input = <<>> THEN h
    ELSE [h EXCEPT !.c = chunk_state_update(@, h.input),
                   !.s = hasher_merge_cv_stack(@, h.c.chunk_counter)]

blake3_hasher_update(c, s, input) ==
    LET h == [c |-> c, s |-> s, input |-> input]
        begun == IF chunk_state_len(c) > 0 THEN FinishChunk(h) ELSE h
    IN  IF begun.input = <<>> THEN begun ELSE KeepRest(PushSubtrees(begun))

\* Roll up from the chunk state, or from the two topmost chaining values.
blake3_hasher_finalize(c, s) ==
    LET partial == chunk_state_len(c) > 0
        n     == IF partial THEN Len(s) ELSE Len(s) - 2
        start == IF partial THEN chunk_state_output(c)
                 ELSE parent_output(<<s[Len(s) - 1], s[Len(s)]>>)
        up[i \in 0 .. n] ==
          IF i = 0 THEN start
          ELSE parent_output(<<s[n - i + 1], output_chaining_value(up[i - 1])>>)
    IN  output_root_bytes(IF s = <<>> THEN chunk_state_output(c) ELSE up[n])

-----------------------------------------------------------------------------
Init ==
    /\ Degree \in Degrees
    /\ chunk = chunk_state_reset(0)
    /\ stack = <<>>
    /\ fed = 0
    /\ digest = NoDigest

\* blake3_hasher_init for the next message.
Starts ==
    /\ digest # NoDigest
    /\ chunk' = chunk_state_reset(0)
    /\ stack' = <<>>
    /\ fed' = 0
    /\ digest' = NoDigest
    /\ UNCHANGED Degree

Update(k) ==
    /\ digest = NoDigest
    /\ fed + k <= MaxFed
    /\ LET h == blake3_hasher_update(chunk, stack, [i \in 1 .. k |-> Data[fed + i]])
       IN  chunk' = h.c /\ stack' = h.s
    /\ fed' = fed + k
    /\ UNCHANGED <<Degree, digest>>

Finish ==
    /\ digest = NoDigest
    /\ digest' = blake3_hasher_finalize(chunk, stack)
    /\ UNCHANGED <<Degree, chunk, stack, fed>>

Next == Starts \/ Finish \/ \E k \in 0 .. MaxUpdate : Update(k)

Spec == Init /\ [][Next]_vars

-----------------------------------------------------------------------------
(* Properties *)

\* The reference chunk of the n bytes from position `at' on, as the output of
\* its last block, which zeros fill.
Chunk(at, n) ==
    LET blocks == IF n = 0 THEN 1 ELSE (n - 1) \div BLOCK_LEN + 1
        byte(i) == IF i <= n THEN Data[at + i] ELSE Zero
        block(b) == [i \in 1 .. BLOCK_LEN |-> byte((b - 1) * BLOCK_LEN + i)]
        start(b) == IF b = 1 THEN {"CHUNK_START"} ELSE {}
        cv[b \in 0 .. blocks - 1] ==
          IF b = 0 THEN Key
          ELSE Compress(cv[b - 1], block(b), BLOCK_LEN, at \div CHUNK_LEN, start(b))
    IN  make_output(cv[blocks - 1], block(blocks), n - (blocks - 1) * BLOCK_LEN,
                    at \div CHUNK_LEN, start(blocks) \cup {"CHUNK_END"})

\* The reference tree of the n bytes from position `at' on, as the output of
\* its topmost node: a chunk, or a parent whose left child is the largest power
\* of two of chunks that leaves at least one byte for the right one.
Left(n) == CHOOSE p \in Pow2 : p < n /\ n <= 2 * p
Tree[n \in 0 .. MaxFed] ==
    [at \in Nat |->
       IF n <= CHUNK_LEN THEN Chunk(at, n)
       ELSE parent_output(<<output_chaining_value(Tree[Left(n)][at]),
                            output_chaining_value(Tree[n - Left(n)][at + Left(n)])>>)]

\* The types of the two parts of the hasher; the stack fits in cv_stack, and
\* the counters of the chunk state fit in a chunk.
TypeOK ==
    /\ chunk.buf_len \in 0 .. BLOCK_LEN
    /\ chunk_state_len(chunk) \in 0 .. CHUNK_LEN
    /\ chunk_state_len(chunk) + chunk.chunk_counter * CHUNK_LEN = fed
    /\ DOMAIN chunk.buf = 1 .. BLOCK_LEN
    /\ Len(stack) <= MAX_DEPTH + 1

\* The chaining value of n chunks from the at-th on.
Subtree(at, n) == output_chaining_value(Tree[n * CHUNK_LEN][at * CHUNK_LEN])

\* The subtrees of a whole number of chunks, one per one bit: those of the
\* higher bits, and that of the lowest.
Canonical[chunks \in 0 .. MaxFed \div CHUNK_LEN] ==
    IF chunks = 0 THEN <<>>
    ELSE Append(Canonical[chunks - LowBit(chunks)],
                Subtree(chunks - LowBit(chunks), LowBit(chunks)))

\* Once the merges that were put off are done, the stack holds the subtrees of
\* the chunks hashed so far and of nothing else, whichever updates made them.
StackIsCanonical ==
    hasher_merge_cv_stack(stack, chunk.chunk_counter) = Canonical[chunk.chunk_counter]

\* The root is never compressed before finalize: when no byte waits in the
\* chunk state the topmost node is still two chaining values, and when one
\* does no merge is outstanding.
RootIsOpen ==
    IF chunk_state_len(chunk) = 0
    THEN fed > 0 => Len(stack) >= 2
    ELSE Len(stack) = popcnt(chunk.chunk_counter)

\* The digest is the root of the reference tree of the whole message, with its
\* flag, however the message was cut and however many lanes hashed it.
DigestOfTree == digest # NoDigest => digest = output_root_bytes(Tree[fed][0])
=============================================================================
