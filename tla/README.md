# digest in TLA+

A specification of the R package *digest*: the hashers it streams data through,
the read loop that makes the digest of a file, the R functions with a protocol of
their own (`vdigest`, `hmac`, the AES objects) and how they fit together. TLC
checks every model on a small instance; the TLA+ proof system proves the
properties of most of them for every value of their constants.

The hashers' compression functions and the AES rounds are *free*: a state is the
term, or the list of blocks, they were applied to. What is checked is everything
around the arithmetic (buffering, padding, counting, merging, chaining, skipping,
positioning), which is where bytes are lost, repeated or displaced. A byte of a
message is named by its position, so one misplaced byte is a different digest.
Fletcher-32 and the CRCs, whose algorithm is their arithmetic, are modelled with it,
over smaller bytes.

## The system

| Part | State it keeps | Operations | Talks to | Hard about it |
|---|---|---|---|---|
| `digest()` front end, `R/digest.R` | none | argument checks, `check_file`, `set_skip` | `.Call` into `digest.c` | errormode, conversion of numbers to int |
| file cases, `src/digest.c` 385-733 | stream position, end-of-file indicator, bytes left, hasher context | `fopen`, `fseek`, loops of `fread` and update, finish | the file system, other processes, a hasher | file changing between reads; short reads; errors |
| in-memory cases, `src/digest.c` 238-385 | hasher context | one update, finish, or a one-shot function | a hasher | lengths of 64 bits in narrower types; a second implementation of the same hash |
| MD5, SHA-1, SHA-256 | buffer, two counter words, chaining state | starts, update, finish | - | any cut of the message, padding at the edge of a block, carry |
| SHA-512, `sha2.c` | buffer, 128-bit bit count, chaining state | Init, Update, Last, Final | - | Transform destroys the buffer in place |
| XXH32, XXH64, `xxhash.h` | four lanes, buffer, total length, a flag | reset, update, digest | - | the 32-bit length wraps; lanes or seed at the digest |
| XXH3, `xxhash.h` | accumulators, stripes of the open block, internal buffer | reset, update, digest | - | the last stripe overlaps; it is read back from the end of the buffer; secret offsets by position |
| MurmurHash3, `pmurhash.c` | hash, carry word with its count | Process, Result | - | address alignment, two builds |
| Fletcher-32, `digest.c` 172-205 | two sums, a waiting byte | update, final | - | odd pieces |
| CRC-32, CRC-32C | the register | update | - | alignment prologues, word loops, big endian, narrowed length |
| BLAKE3, `blake3.c` | chunk state, stack of chaining values | init, update, finalize | - | subtree alignment, lazy merging, depth of the stack |
| SpookyHash, `spooky_serialize.cpp` | hash state of two blocks, two 8-bit skip counters | callbacks of `R_Serialize` | R's serializer calls back | skip of a header by whole writes |
| AES, `R/AES.R`, `raes.c` | the object's IV | encrypt, decrypt | `aes.c` | IV handed from call to call, errors after it moved |
| `vdigest`, `R/vdigest.R` | the vector under way | the two functions of `getVDigest()`, the loop in C | `digest()`'s hashers | agreement with `digest()` while one skip serves all elements |
| `hmac`, `R/hmac.R` | none | key padding, two digests, conversions | `digest()` | key lengths around a block, hexadecimal to raw and back |
| `sha1`, `digest2int` | none | formatting of R values; a loop of 32-bit arithmetic | `digest()` | - |
| options, `R/init.R` | package environment | `.onLoad`, getters | all of R | - |

`digest()` is synchronous and single-threaded. What interleaves with it are other
processes on the same file. The hashers are sequential state machines whose input
arrives in pieces: those the caller chooses, what `fread` returns, or what
`R_Serialize` writes.

What makes each part correct:

* the front ends honour `errormode`, `length` and `skip` as the manual says, and
  the vectorised one answers what the other would for each element;
* a file's digest is the digest of one content the file had, the one the same
  bytes have in memory, and the call returns;
* a hasher's digest is a function of the message, not of the pieces, the address
  or what lay in its buffers, and it is the padded message (or the tree, or the
  one-shot function, or the remainder of the division) of the standard;
* AES objects encrypt a text in subsets as they would at once, and decryption
  undoes it whichever way the ciphertext is cut;
* `hmac` is RFC 2104's code.

## Modules

| Module | Models | State and actions |
|---|---|---|
| `MessageDigest` | what a streaming hasher promises | the message absorbed, the sum; `Absorb`, `Finish` |
| `BlockHash` | `md5.c`, `sha1.c`, `sha256.c` | `ctx` is the context (`total0`, `total1`, `buffer`; `stream` stands for the chaining state: what the compression function has seen); `Starts`, `Update(k)`, `Finish` are the three functions |
| `Sha512Stream` | the SHA-512 part of `sha2.c` | the same shape; `SHA512_Transform` leaves `Mixed` bytes behind in the buffer |
| `Xxh` | XXH32 and XXH64 of `xxhash.h`, both implementations | `ctx`: lanes (`v`), buffer, `total_len` (of 32 bits unless `Wide`), `large_len`; `XXH32` is the one-shot function |
| `Xxh3` | XXH3's stream and its one-shot function | `state`: accumulators, stripes so far, buffer; `XXH3_update` runs both consume loops |
| `Murmur` | `pmurhash.c` | `ctx` is hash and carry; `Process` takes a piece at any address mod 4; the variable `UnalignedSafe` is the build |
| `Fletcher` | `fletcher32_*` of `digest.c` | the context as it is, with words of `Base^2` values |
| `Crc` | `crc32.c` (little-endian, big-endian, bytewise loops), `crc32c_portable.cpp` | the register, over bytes of one bit; the implementation is a variable; `Memory` passes the in-memory case's narrowed length |
| `Blake3` | `blake3.c` | `chunk` (counter, blocks, buffer, cv as a term) and `stack`; `Update` runs the whole of `blake3_hasher_update_base`; the variable `Degree` is the number of SIMD lanes |
| `Spooky` | `spooky_serialize.cpp`, `SpookyV2.cpp`, `digest()`'s call of them | `spooky` is the `SpookyHash` with the skip counters; `Write(k, aligned)` is a callback of `R_Serialize`, first the header in its pieces |
| `AtomicDigest` | what `digest(file = TRUE)` promises | size of the file, request, answer; `Write`, `Ask`, `Answer` |
| `FileDigest` | the file cases of `digest.c` and `check_file` | `pc`, `handled` (history: `check_file` found a failure and `.errorhandler` did not stop), `left`, `pos`, `eof`, `ctx`, `fed`; one action per step (`check_file`, `OpenFails`, `Open`, `ReadBounded`, `ReadToEnd`, `Finish`), and `Grow` and `Rename` for the other processes; the hasher is an operator parameter |
| `DigestSwitch` | the `switch` of `digest.c` | instances of `BlockHash` (twice), `Sha512Stream`, `Murmur`, `Blake3`, `Xxh` and `Xxh3` as hashers for `FileDigest`, and the in-memory cases |
| `AesModes` | `R/AES.R` over a free block cipher | the IVs of an encrypting and a decrypting object; `Encrypt(k)`, `Decrypt(k, raw)`; `calls` and `counters` are history variables that guards and properties refer to |
| `Vdigest` | `R/vdigest.R`, the loop of `vdigest()` in `digest.c`, `digest()` for comparison, `set_skip` of a serialization and of an object that is none | `pc`, what is handed to C, the vector so far; `Serialized`, `AsIs`, `Streamed` are the branches of the two functions, `Step` an element, `Remove` another process |
| `Hmac` | `R/hmac.R` | the padded key, the inner digest, the result; a byte is its two hexadecimal digits |
| `BlockStreams` | `Sha512Stream`, `Blake3`, `Spooky` side by side | a variable names the one that runs |
| `LaneStreams` | `Xxh` twice, `Xxh3`, `Murmur`, `Fletcher`, `Crc` side by side | the same |
| `RFunctions` | `AesModes`, `Hmac`, `Vdigest` side by side | the same |
| `Foundations`, `...Proofs` | lemmas and proofs | - |
| `MC...` | values of the constants for TLC | - |

`FileDigest` composes with the hashers through `DigestSwitch`: the run
`file_hashers` executes the read loop around seven real hasher models and
compares the result with the in-memory case of the same switch, which for XXH32
and XXH3 is the second implementation in `xxhash.h`.

Three modules put machines of one kind side by side, for TLC to run them in one go and
for the proofs to be about what it runs. Each extends the machine that comes first in
the table and instantiates the others on shared
variables; nothing passes between them, the initial state picks one. Their
constants are checked against the assumptions of the machines by `InstancesFit`.
`Lossless` of such a module is then that of the module it extends, and the
definitions at its end state the properties of the others while they run.

The definitions keep the names of the source (`md5_update`, `SHA512_Last`,
`hasher_push_cv`, `OutBytesSpooky`, `encrypt`); operators with a suffix, such as
`Carry_Never`, are plausible bugs used to see that a property can fail.

## Runs

| Run | Question | Bounds, and why they are enough |
|---|---|---|
| `md5_stream` | Does the buffer lose nothing, do the counters count, is the digest that of the padded message, for every cut? | Blocks of 4 bytes, length field of 2, counter words of 8 values, updates of up to 7, messages of up to 38: each edge of the padding (free bytes 0 to 3) occurs, in the first block and in later ones, the low word wraps four times, and the length no longer fits its field. A second message follows each digest, over the buffer as it was left. |
| `giant_update` | *violation.* Same, with an update of two counter words and more | The carry is one, whatever the update. |
| `block_streams` | SHA-512, BLAKE3 and SpookyHash hold a block back until they know that more comes. Is the digest that of the whole message, is BLAKE3's stack what the count of chunks says, does it fit; is what Spooky hashes the serialization behind its header, and does no header of R ever straddle the skip? | SHA-512: blocks of 6 bytes, length field from byte 3, counter words of 24 values (3 blocks of bits) so that ADDINC128 carries. BLAKE3: chunks of two blocks of two bytes, lengths of 7 bits (`Bits`), for which the code's way to choose `BLAKE3_MAX_DEPTH` gives 5 layers and a stack of 6; 17 chunks: a subtree of 16 chunks, merged five levels deep, and one more; every cut, with one lane (the package's build) and four. Spooky: blocks of 3 bytes, a serialization of eight blocks, headers of versions 2 and 3 in their pieces, counters of 8 values, skips between, at and beyond the ends of the pieces. |
| `lane_streams` | XXH32, XXH64, XXH3, MurmurHash3, Fletcher-32 and the CRCs take whole stripes, words or pairs at once. Is the digest that of the whole message, whatever the pieces, addresses and build, and the one of the same bytes in memory? | XXH32 and XXH64: stripes of 4 bytes, a 32-bit counter of 16 values that wraps twice in 38 bytes. XXH3: stripes of 2, a buffer of 2 stripes, blocks of 3, messages of up to 22 bytes (three blocks and more), updates of up to 13, so that an update ends the buffer, a block and a second block. Murmur: words of 4 bytes as in the code; pieces of up to 11 bytes pass through every prologue and tail at every carry. Fletcher: all messages of up to 5 bytes of 3 values. CRC: bytes of one bit, words of 4, unrolled loops of 2 words, buffers of 0 to 53 bytes at every address modulo 4, messages of up to 53 bytes with at most one bit set (the register is affine in the bits of the message, so each place is checked by itself): the loops run twice and more, the one over the strides that remain once, and each table is used in each place. |
| `file_hashers` | Does reading in pieces implement `AtomicDigest`, and equal the in-memory digest? | Buffers of 3 bytes, files of up to 7 (two full reads and a short one), growing at any moment; lengths on both sides of the buffer, at the end of the file and beyond the largest int (15), which `as.integer` makes NA; skips negative, zero and of a buffer. Seven hashers, so that the pieces meet block sizes 4, 6, 4, chunks of 4 and stripes of 2 and 4. |
| `file_liveness` | Does a call come back? | A growing file of bounded size, a C library that forgets the end of file. |
| `file_read_error` | *violation.* Is the whole file digested? | `fread` may return less than there is. |
| `file_errormode` | *violation.* Does a failure that `check_file` finds leave the caller running with `errormode` `warn` or `silent`? | - |
| `r_functions` | AES: do subsets give what the whole gives, does decrypt undo encrypt, is a counter used once? `hmac`: is it RFC 2104? `getVDigest`: is each element hashed as `digest()` does? | AES: blocks of two bytes, counters of 2 x 2 values (both bytes wrap), texts of 9 bytes: four blocks and a half, one byte of which is nul; any cuts of 1, 2, 3, 4 and 6 bytes, different on the two sides. hmac: blocks of 4 and of 8 bytes, keys below, at and above both, digests that start with 0 to 3 zeros or have no other digit. vdigest: objects of each type, empty, of one element and of two, a list of two; `set_skip` looks at 5 elements (`Window`) for the fourth that equals a line feed: vectors that hold it there and behind, lists that hold it and that do not; every combination of the arguments; files that disappear between any two steps. |
| `aes_empty_subset` | *violation.* The AES part when a subset is empty | - |
| `hmac_long_key` | *violation.* `hmac` as its manual page says, crc32 with a long key included | - |
| `spooky_skip` | *violation.* Spooky with a negative skip | - |

`r_functions`, `aes_empty_subset` and `hmac_long_key` have deadlock checking off: a
text that has been encrypted and decrypted to its end leaves nothing to do. Everything
else can always start another message or call.

Every bound is a constant of a `.cfg` or of an instance (`MaxFed`, `MaxUpdate`,
`MaxWritten`, `MaxSize`, `TextLen`) or a guard that names one.

### What the properties except, and say so

* `CrcOfMessage`: messages shorter than `UInt` only, the range of the `unsigned`
  that the in-memory case narrows a length to.
* `Xxh3FileIsMemory`: seed 0. The file cases of `xxh3` reset without the seed that
  the in-memory cases use.
* `HmacIsRFC2104`: crc32 with a key longer than a block (`hmac_long_key` has it),
  and crc32 in the old format when the digest starts with a zero, which the format
  drops so that the digits pair otherwise.
* `DigestOfRest`, `AutoNeverFails`: `skip = "auto"` with `ascii = TRUE`, where the
  end of the header is looked for in the object and not in its serialization
  (`Misplaced`; the model takes whatever is found there).
* `Elementwise`: calls that return a vector, for the arguments of `Vectorised`: not
  empty objects and raw vectors as they are, of which there is one digest; not
  `skip = "a"`, which only the vectorised call takes for `"auto"`; not spookyhash
  without serialization, which `digest()` refuses; and not spookyhash with
  `skip = "auto"` and `ascii = TRUE` where `set_skip` finds the fourth element that
  equals a line feed at another place in the vector than in an element (`Misplaced`):
  the vectorised call, of `c(10, 10, 10, 1, 1, 10)`, skips six bytes of each
  element and `digest()` of an element none. The model runs these calls, and without the
  exception TLC finds the difference. What SpookyHash makes of the skip, and whether
  a write straddles it, is the matter of `Spooky`.

### What the violations show

* `giant_update`: `md5_update` adds one to the high word when the low word
  wrapped, and `digest.c` passes a length of up to 52 bits in one in-memory
  update (`uint32` is `unsigned long`, which has 64 bits on Unix). From 2^33 bytes on
  the length in the padding can be wrong. Files are read in pieces of 1024 bytes
  and are not affected.
* `file_read_error`: the loops stop at the first `fread` that returns 0 and do not
  ask `ferror`; an I/O error in the middle of a file gives a digest of its
  beginning.
* `file_errormode`: what `check_file` returns is ignored, so with `warn` and
  `silent` a file that it found missing or unreadable goes on to `fopen` and ends in
  `error()` from `digest.c`. The trace is: the path comes to name such a file,
  `check_file` fails and `.errorhandler` goes on (`handled`), `fopen` fails.
* `aes_empty_subset`: `1:blocks` is `1, 0` for an empty text in CTR mode, and the
  counter moves by two.
* `hmac_long_key`: for crc32 `padWithZeros` applies `substring` to the raw vector of
  the key's digest as if it were one string. Each element is a string of its own,
  so only the first one keeps its digits: one byte of the hashed key is used, and
  three zeros.
* `spooky_skip`: the skip is cast to `uint8_t`, so -1 skips 255 bytes where the
  manual says that negative values count as zero.

### Fairness

`FairSpec` of `FileDigest` adds weak fairness of the call's own steps (`Digest`): an R
call runs on its own thread and every step of it is a system call that returns.
Nothing is assumed of the writer. `Terminates` is checked with `StickyEof = FALSE`,
the less favourable C library (older C libraries read on after the end of file). It
rests on the file not growing for ever: `MaxSize` bounds it. Against a writer that
is always faster than the reader the unbounded loop does not end, in the code as
in the model. The other models wait for nobody: their callers may stop between any
two calls, and they have no liveness to state.

## Proofs

Every theorem is about the specification TLC runs, for all values of its constants
under the assumptions of its module. Where a module is instantiated its assumptions
are the operator `ConstantsFit`, a hypothesis of its lemmas, which `InstancesFit`
grants and TLC evaluates for the constants of the runs.

`Foundations` has what several of the others rest on: quotient and remainder
(`ModUnique`, `ModSum`, `ModCancel`, `WrapSeen`), induction over a set of numbers
(`SetInduction`, `IntervalInduction`) and the existence of a function defined by
steps (`StepFunction`), strong induction and greatest elements (`StrongInduction`,
`LargestExists`), and divisibility (`Divides...`). The library's induction theorems take an operator, which the
provers cannot instantiate; with the *set* of the arguments for which the claim
holds in its place the same argument goes through. That is how the recursive
functions of the models (the loops over stripes, words, blocks and digits) are
reasoned about.

`BlockHashProofs`, for every block size, width of the counter and of the length field,
both byte orders, every message and every cut:

* `TypeCorrect`, `NoByteLost`: the context is well typed and `Lossless` holds.
  `Lossless` is inductive with the types: the heart is the lemma `UpdateEffect`,
  which says what one `md5_update` does to the concatenation of stream, buffer
  and input, and is used for the caller's updates and twice for those of
  `md5_finish`.
* `NoCarryLost`: the counters count, if no update is as long as a word of the
  counter (`MaxUpdate < Word`; `giant_update` shows what happens otherwise).
* `DigestIsStandard`: the digest is that of the padded message. It combines the
  three: the shifts of `md5_finish` give the number of bits of a message because
  the words count it (`LengthWords`), `PadLength` is the least padding that leaves
  room for the length field (`FewestZeros`), and two applications of
  `UpdateEffect` append them.
* `Implements`: the shell refines `MessageDigest`; what it has absorbed is the
  stream followed by the used part of the buffer.

`BlockStreamsProofs`, about SHA-512 in `BlockStreams`, for every block size, place of
the length field, counter word, message and cut:

* `Sha512TypeCorrect`, `Sha512NoByteLost`: the invariant `IInv` says where each byte is
  (`Placed`) although the transform leaves garbage in the buffer, and that the two
  words count the bits over the carry of ADDINC128.
* `Sha512DigestIsStandard`: `SHA512_Last` overwrites what is stale before it is hashed, in
  the case of one block and in that of two.
* `Sha512Implements`: refinement of `MessageDigest`.

`XxhProofs`, for every stripe, counter range that is a multiple of it, message and
cut, XXH32 and XXH64 alike:

* `TypeCorrect`, `NoByteLost`: along the same line; `Cut` says how an input that
  completes a stripe is divided, `Appends` what an update does.
* `LanesByLength`: the choice between the lanes and the seed depends on the length
  alone. The 32-bit counter does not tell after it wrapped; `Counts` (it holds the
  length modulo its range) makes the flag `large_len` inductive.
* `FileEqualsMemory`: the streaming implementation returns what the one-shot
  implementation computes. Its tail is `total_len` modulo the stripe, which is right
  after a wrap because the stripe divides the range.
* `Implements`: refinement of `MessageDigest`.

`LaneStreamsProofs`, about the machines of `LaneStreams`, for every message, cut, and
size of stripes, buffers, blocks, bytes and words (the CRCs': of one bit):

* XXH3. `Xxh3TypeCorrect`, `LastStripeKept`, `StripesKeepPlace`,
  `Xxh3FileEqualsMemory`. The invariant (`Xxh3Inv`) adds to `TypeOK` where each byte not
  yet consumed is (`Xxh3Holds`: the stripe before the buffered bytes stays at the end of
  the buffer, and something waits unless nothing was fed) and that the stripes
  consumed are those of the message, each under the secret's part for its place
  (`Took`), which the lemmas about `XXH3_consumeStripes` establish for both consume
  loops. The streaming digest then accumulates what the one-shot function does,
  the last stripe and the scrambles included, short messages and long.
* XXH64. `Xxh64TypeCorrect`, `Xxh64Correct`: `XxhProofs` read with XXH64's constants
  (`P64`). `Xxh32Alone`: XXH32 runs in the composition as if alone.
* MurmurHash3. `MurmurTypeCorrect`, `CarryIsTail`, `MurmurInPieces`: `Covers` says that hash
  and carry hold the words and the tail of what came so far; each of the prologue, the
  four word loops (one per number of carried bytes) and the epilogue keeps it, at any
  address and in either build.
* Fletcher-32. `FletcherSums`: the sums are those of the formula although they are
  reduced at every word, and a low byte waits across updates.
* The CRCs. `CrcRemainder`. Registers of bits are a vector space under exclusive or, and
  a zero byte is a linear map of it (`ZeroByteLinear`); `Zeros(n, c)` is the register n zero
  bytes on. A table's entry is a byte followed by zeros (`TableIs`), so that four tables
  take a word, or carry a register over twelve more bytes (`FourTables`). Along a buffer
  the lemmas compare each loop with the register byte by byte (`Trace`): the words of the
  little-endian machine; those of the big-endian one, whose register is the reverse
  (`REVIs`, `BigWords`); and the four registers of CRC-32C, which together stand for one
  (`Joined`): a stride (`StrideStep`), a word for the register whose turn it is
  (`RotateStep`) and `Combine` keep what they stand for. `CrcInv` then says which register
  the bytes fed have made (`Value`: the complemented bits and the message's one, each
  behind the bytes that followed), and `CheckIs` that this is the remainder that `Check`
  counts from powers of x. As in the model, a message has at most one bit set; by
  linearity others add nothing new, which is not stated.
* `TypeCorrect` gathers the types.

The second part of `BlockStreamsProofs` is about SpookyHash, for every block size, width of
the counters, header, cut into writes and alignment. `SkipsAreNumbers` says that a skip
is `"auto"` or an integer:

* `SpookyTypeCorrect`: the remainder and the 8-bit counters keep their ranges. The cast
  in `UpdateSkipCounter` does not wrap because a write that goes beyond the skip is an
  error.
* `SpookyNoByteLost`: each byte written is counted, mixed or waits. The invariant is
  `Follows`, position by position: before two blocks have come the state is not
  looked at (`Seen`), and `m_data` may hold the copy an unaligned read left there
  behind the bytes that count.
* `DigestIsOfRest`: the digest is SpookyHash of what is left, if the skip is
  automatic or a number that fits the counter (`SkipsFit`; `spooky_skip` shows the
  rest). It needs that `to_skip` is what the manual says (`SkipIsDocumented`), and that
  the remainder of `m_data` modulo a block is that of the message, for what is
  mixed is whole blocks.
* `AutoSkipsHeader`: an automatic skip never ends in an error. `HeaderInv` follows the
  pieces of the header with the counter; it needs that some pieces of each header
  together are as long as what `set_skip` skips, the assumption `HeadersAreR`.

`Blake3Proofs`, about BLAKE3 in `BlockStreams`, for all powers of two as the sizes of
blocks and chunks and as the number of lanes, every width of a length and the depth
that goes with it, every message and cut:

* `Blake3TypeCorrect`: the counters keep their ranges, and the stack of chaining values
  never outgrows `cv_stack`, one more than `BLAKE3_MAX_DEPTH`. `AllTypeCorrect` gathers
  the types of the three machines.
* `StackCanonical`: the stack is that of the number of chunks hashed, up to the
  merges that were put off.
* `RootOpen`: what may turn out to be the root is not compressed before `finalize`.
* `Blake3Digest`: the digest is the root of the reference tree of the whole message.

The three last are not inductive apart. Their invariant, `Blake3Inv`, says of some number
n of chunks that the chunk state is the one that the bytes behind them make from
a fresh state (`ChunkAt`), and that the stack is one of `Stacks(n)`: the subtrees of
the chunks before the last one pushed, merged as far as they go, with that one, of a
power of two of chunks that divides n, on top (`Settled`, `Good`). While a byte waits
the stack is canonical; while none does the two halves of the topmost subtree lie
apart (`Open`). It is carried through an update like this:

* a merge takes a stack of `Stacks(n)` to one of `Stacks(n)` (`MergeStep`), the merges end
  with the canonical one (`Merged`), and what is pushed on that is again of `Stacks`
  (`Pushed`). `StackFits` bounds it by the one bits of a number of chunks;
* `SubtreeLenIs`: a subtree that is taken in one pass is a power of two of chunks
  which divides what came before it, so that it is a subtree of the reference tree;
* the wide compression of such a subtree returns a row of equal subtrees, the
  layers above having been joined on the way (`WideRows`, by strong induction
  on the length), and the passes of `Condense` leave its two halves (`CondenseIs`,
  `ParentNodeIs`), whatever the number of lanes;
* `PushesAre`, `FinishIs` and `HasherUpdateIs` put these together along the code, with
  `chunk_state_update` as the concatenation that `ChunkAt` is closed under.

`finalize` then rolls up the stack (`RollStep`, `RollUp`, `FinalizeIs`): what is under each
value on the way to the root is the tree of a longer end of the message.

`RFunctionsProofs`, about the R code in `RFunctions`:

* `ElementByElement`, for all objects and arguments but those that `Vectorised` excepts
  (above, at `Elementwise`). The invariant is established when
  the loop begins (`Prepared`: the one skip computed for all elements is the one
  `digest()` computes for each) and carried through it (`InOrder`).
* `CodeOfRFC2104`, for every block and digest size, key and object. `makeRaw` undoes
  the hexadecimal formatting (`RawOfHex`), `padWithZeros` makes the key of the RFC
  (`PaddedIsStandard`), and the old format of crc32 changes nothing while no zero
  leads (`DigestIsHex`).
* `CountersOnce`, for every block size, counter base and first counter and all
  subsets: the loop that carries from byte to byte adds 1 to the number the counter
  is (`IncrementAdds`), numbers have one notation (`ValueDiffers`), so the k-th counter
  is the first plus k, and no two are equal until all have been used (`CounterInv`).
* `AesTypeCorrect`, `SubsetsAsWhole`, `DecryptUndoes`, for every block size, text, IV,
  mode and pair of cuts whose subsets are whole blocks up to the last
  (`~AnySubset`, what the caller must see to, and what `r_functions` checks; without
  it the manual's claim fails, see `aes_empty_subset`). The invariant `AesInv` says that
  each object's IV is the one behind the blocks it has done (`IVAfter`: the IV itself, the
  block before, or the counter so many further), and that the ciphertext is, byte by
  byte, what the mode makes of the text from that IV (`EncryptedAs`). The loops over
  blocks keep it (`EncryptChain`, `DecryptChain`, `EncryptStream`, `DecryptStream`). With
  padding it must also say what was encrypted between two calls (`CallsInv`), since the
  decrypting side cuts there. Of the block cipher only `Cipher` is used: decryption
  undoes encryption.

`FileDigestProofs`, for every buffer size, file, writer, argument and hasher:

* `TypeCorrect`, and `NoGap`: the bytes fed are those after the skipped ones,
  without a gap and no more than `length`. `Contiguous` is not inductive alone;
  `Inv` adds that `fed` is a sequence, that what was fed is still in the file
  (nobody truncates it), and that the count of the unbounded loop stays
  negative. No assumption on read errors or the end-of-file indicator.
* `Implements`: the loop refines `AtomicDigest`, if no read fails, the stream
  keeps its end-of-file indicator, the arguments fit an int and no sum equals the
  error value. The step of the abstract answer is not the last one of the loop:
  it is the read that meets the end of the file, or reaches the length
  (`ReadSettles`); the read after it and the finish are stutters. `AnswerAtRead`
  says when the answer is settled.
* `PiecesEqualMemory`: `FileEqualsMemory`, if no read fails and the hashers agree with
  their in-memory cases on every message in pieces (`HashersAgree`: what the theorems
  about the hashers say of them, each under its own bounds). `Ended` adds to `Inv` that
  the context is the one a run of updates leaves (`Streamed`), and that a read that came
  short went at least to where the end was when the file was opened. Neither the kept
  end-of-file indicator nor the range of the arguments is needed.

Only model-checked:

* `Terminates`, since liveness and `ENABLED` are beyond the prover;
* that the hashers as `DigestSwitch` puts them together satisfy `HashersAgree`, which the
  run `file_hashers` tries: each has its own theorems, in terms of its own module.

## What is not modelled

* The arithmetic of compression functions, the AES rounds and key schedule, and
  tables of constants (but for the CRCs'): test vectors settle them.
* `sha1()` and `digest2int()`: pure functions of R values with nothing kept
  between calls. Package options and registration: reads and tables.
* Output as hexadecimal or raw bytes, messages, R's memory management.
* A file truncated or overwritten while it is read: `Grow` only appends. The
  promise of `AtomicDigest` cannot hold then, and nothing in the code or its
  manual says it would.
* A file longer than the largest int, for which a `length` that `as.integer` made NA
  would show: the runs have such a length and only shorter files, and `Implements`
  excludes it. No run has a `skip` that large. `PMurHash32`'s `int` length, which an
  in-memory vector of 2^31 bytes exceeds.
* A failing `fseek`: `check_file` lets pipes and devices through, which cannot be
  positioned; the model's files can.
* The parts of vendored code the package never calls: keyed and derive-key BLAKE3,
  seek, SHA-256 and SHA-384 of `sha2.c`, ASCII streams of `OutCharSpooky`.

## Plan

Done, in this order: the streaming shell with its abstract specification and
proofs; the other block hashers; the file loop, its abstract specification,
composition with the hashers and proofs; AES modes; the lane hashers, Spooky, the
CRCs; `vdigest` and `hmac`; proofs about XXH32, XXH64, XXH3, Spooky, `vdigest` and
`hmac`; induction over sets, and with it SHA-512, the accumulators of XXH3,
MurmurHash3, Fletcher-32, the headers of Spooky and the AES modes; the stack and the
trees of BLAKE3; the CRCs; the digest of a file as that of its bytes in memory.

What would come next: the in-memory lengths beyond an int, with a run of `Murmur` over
a small int.
