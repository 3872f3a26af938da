---------------------------- MODULE DigestSwitch ----------------------------
(***************************************************************************)
(* The switch of digest.c: which calls its cases make, for bytes in memory *)
(* and for a file, to the hashers, which are the modules of this project   *)
(* with small blocks.                                                      *)
(***************************************************************************)
EXTENDS Integers, Sequences

CONSTANTS
    Garbage,    \* a byte of the stack
    ZeroByte,   \* a zero byte
    MaxSize     \* bound: longest message

NoData == <<>>

Md5 == INSTANCE BlockHash WITH
    B <- 4, L <- 2, Word <- 32, BitsOf <- 2, BigEndian <- FALSE,
    Data <- NoData, MaxFed <- MaxSize, MaxUpdate <- MaxSize,
    ctx <- NoData, fed <- 0, digest <- NoData
Sha256 == INSTANCE BlockHash WITH
    B <- 4, L <- 2, Word <- 32, BitsOf <- 2, BigEndian <- TRUE,
    Data <- NoData, MaxFed <- MaxSize, MaxUpdate <- MaxSize,
    ctx <- NoData, fed <- 0, digest <- NoData
Sha512 == INSTANCE Sha512Stream WITH
    B <- 6, Short <- 3, Word <- 24, BitsOf <- 2, Mixed <- Garbage,
    Data <- NoData, MaxFed <- MaxSize, MaxUpdate <- MaxSize,
    ctx <- NoData, fed <- 0, digest <- NoData
Murmur32 == INSTANCE Murmur WITH
    UnalignedSafe <- FALSE, Zero <- ZeroByte,
    Data <- NoData, MaxFed <- MaxSize, MaxUpdate <- MaxSize,
    ctx <- NoData, fed <- 0, digest <- NoData
B3 == INSTANCE Blake3 WITH
    BLOCK_LEN <- 2, CHUNK_LEN <- 4, Degrees <- {2}, Degree <- 2, MAX_DEPTH <- 2,
    Bits <- 4, Data <- NoData, MaxFed <- MaxSize, MaxUpdate <- MaxSize,
    chunk <- NoData, stack <- NoData, fed <- 0, digest <- NoData
Xxh32 == INSTANCE Xxh WITH
    Wide <- FALSE, S <- 4, Word <- 8, Zero <- ZeroByte,
    Data <- NoData, MaxFed <- MaxSize, MaxUpdate <- MaxSize,
    ctx <- NoData, fed <- 0, digest <- NoData
X3 == INSTANCE Xxh3 WITH
    Stripe <- 1, Buffer <- 2, Block <- 3, MidSize <- 1,
    Data <- NoData, MaxFed <- MaxSize, MaxUpdate <- MaxSize,
    seed <- 0, state <- NoData, fed <- 0, digest <- NoData

-----------------------------------------------------------------------------
\* The contexts as the cases set them up.
Starts(algo) ==
    CASE algo = "md5"      -> Md5!md5_starts([i \in 1 .. 4 |-> Garbage])
      [] algo = "sha256"   -> Sha256!md5_starts([i \in 1 .. 4 |-> Garbage])
      [] algo = "sha512"   -> Sha512!SHA512_Init
      [] algo = "murmur32" -> Murmur32!Starts0
      [] algo = "blake3"   -> [c |-> B3!chunk_state_reset(0), s |-> NoData]
      [] algo = "xxhash32" -> Xxh32!Reset
      [] algo = "xxh3_64"  -> X3!XXH3_reset([i \in 1 .. 2 |-> Garbage])

\* One pass of the file case's loop. buf is an array on the stack.
Update(algo, ctx, s) ==
    CASE algo = "md5"      -> Md5!md5_update(ctx, s)
      [] algo = "sha256"   -> Sha256!md5_update(ctx, s)
      [] algo = "sha512"   -> Sha512!SHA512_Update(ctx, s)
      [] algo = "murmur32" -> Murmur32!PMurHash32_Process(ctx, 0, s)
      [] algo = "blake3"   ->
           LET h == B3!blake3_hasher_update(ctx.c, ctx.s, s)
           IN  IF s = <<>> THEN ctx ELSE [c |-> h.c, s |-> h.s]
      [] algo = "xxhash32" -> Xxh32!XXH32_update(ctx, s)
      [] algo = "xxh3_64"  -> X3!XXH3_update(ctx, s)

\* total_length is counted for murmur32 only.
Finish(algo, ctx, total_length) ==
    CASE algo = "md5"      -> Md5!md5_finish(ctx).stream
      [] algo = "sha256"   -> Sha256!md5_finish(ctx).stream
      [] algo = "sha512"   -> Sha512!SHA512_Final(ctx)
      [] algo = "murmur32" -> Murmur32!PMurHash32_Result(ctx, total_length)
      [] algo = "blake3"   -> B3!blake3_hasher_finalize(ctx.c, ctx.s)
      [] algo = "xxhash32" -> Xxh32!XXH32_digest(ctx)
      [] algo = "xxh3_64"  -> X3!XXH3_digest(ctx)

\* The in-memory cases: one update, or a function of its own. `txt += skip'
\* moves the address too.
Memory(algo, txt, skip) ==
    LET whole == IF algo = "murmur32"
                 THEN Murmur32!PMurHash32_Process(Starts(algo), skip % 4, txt)
                 ELSE Update(algo, Starts(algo), txt)
    IN  CASE algo = "xxhash32" -> Xxh32!XXH32(txt)
          [] algo = "xxh3_64"  -> X3!XXH3_64bits_withSeed(txt, 0)
          [] OTHER             -> Finish(algo, whole, Len(txt))
=============================================================================
