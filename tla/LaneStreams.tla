----------------------------- MODULE LaneStreams -----------------------------
(***************************************************************************)
(* The hashers that take their input at once and carry only what does not  *)
(* make a stripe, a word or a pair, side by side: XXH32, whose variables   *)
(* are those of Xxh, XXH64, XXH3, MurmurHash3, Fletcher-32 and the CRCs.   *)
(* One of them runs.                                                       *)
(***************************************************************************)
EXTENDS Xxh

CONSTANTS
    S64,                                    \* XXH64's stripe
    Stripe, Buffer, Block, MidSize, Garbage,            \* Xxh3
    ByteValues,                             \* Fletcher's Base
    Poly, Unroll, Group, Horizon, UInt, Lengths,        \* Crc
    Longest, Piece  \* bounds: longest message and single update of each

VARIABLES
    machine,                \* which of them runs
    context, given, answer, \* its context, bytes fed and digest
    seed,                   \* Xxh3's argument
    build,                  \* Murmur: with or without unaligned reads
    impl, ones, whole       \* Crc, whose register is context
otherVars == <<context, given, answer, seed, build, impl, ones, whole>>
allVars == <<vars, machine, otherVars>>

Xxh64 == INSTANCE Xxh WITH
    Wide <- TRUE, S <- S64, MaxFed <- Longest.xxh64, MaxUpdate <- Piece.xxh64,
    ctx <- context, fed <- given, digest <- answer

X3 == INSTANCE Xxh3 WITH
    MaxFed <- Longest.xxh3, MaxUpdate <- Piece.xxh3,
    state <- context, fed <- given, digest <- answer

Mu == INSTANCE Murmur WITH
    MaxFed <- Longest.murmur32, MaxUpdate <- Piece.murmur32,
    UnalignedSafe <- build, ctx <- context, fed <- given, digest <- answer

Fl == INSTANCE Fletcher WITH
    Base <- ByteValues, MaxFed <- Longest.fletcher, MaxUpdate <- Piece.fletcher,
    ctx <- context, fed <- given, digest <- answer

Cr == INSTANCE Crc WITH
    MaxFed <- Longest.crc, crc <- context, fed <- given

\* What each machine expects of its constants; XXH64 has a longer stripe and
\* the same assumption.
ASSUME InstancesFit ==
    /\ S64 \in Nat \ {0} /\ S64 < Word /\ \E k \in 1 .. Word : Word = k * S64
    /\ Longest.xxh64 \in Nat /\ Piece.xxh64 \in Nat
    /\ X3!ConstantsFit /\ Mu!ConstantsFit /\ Fl!ConstantsFit /\ Cr!ConstantsFit

Idle == <<"idle">>
NoBuild == build = Idle /\ (machine # "xxh3" => seed = Idle)
NoCrc == impl = Idle /\ ones = Idle /\ whole = Idle

AnyInit ==
    \/ machine = "xxhash32" /\ Init /\ context = Idle /\ given = Idle /\ answer = Idle
         /\ NoBuild /\ NoCrc
    \/ machine = "xxhash64" /\ Init /\ Xxh64!Init /\ NoBuild /\ NoCrc
    \/ machine = "xxh3" /\ Init /\ X3!Init /\ NoBuild /\ NoCrc
    \/ machine = "murmur32" /\ Init /\ Mu!Init /\ seed = Idle /\ NoCrc
    \/ machine = "fletcher" /\ Init /\ Fl!Init /\ NoBuild /\ NoCrc
    \/ machine = "crc" /\ Init /\ Cr!Init /\ answer = Idle /\ NoBuild

AnyNext ==
    /\ UNCHANGED machine
    /\ \/ machine = "xxhash32" /\ Next /\ UNCHANGED otherVars
       \/ machine = "xxhash64" /\ Xxh64!Next /\ UNCHANGED <<vars, seed, build, impl, ones, whole>>
       \/ machine = "xxh3" /\ X3!Next /\ UNCHANGED <<vars, build, impl, ones, whole>>
       \/ machine = "murmur32" /\ Mu!Next /\ UNCHANGED <<vars, seed, impl, ones, whole>>
       \/ machine = "fletcher" /\ Fl!Next /\ UNCHANGED <<vars, seed, build, impl, ones, whole>>
       \/ machine = "crc" /\ Cr!Next /\ UNCHANGED <<vars, answer, seed, build>>

AnySpec == AnyInit /\ [][AnyNext]_allVars

-----------------------------------------------------------------------------
(* The properties of the other hashers, while they run.                      *)

\* The states of the five others keep their ranges: no buffer overflows, no
\* carry has a whole word.
StreamsTyped ==
    /\ machine = "xxhash64" => Xxh64!TypeOK
    /\ machine = "xxh3" => X3!TypeOK
    /\ machine = "murmur32" => Mu!TypeOK
    /\ machine = "fletcher" => Fl!TypeOK

\* XXH64: it loses nothing, and chooses by its 64-bit length what starts the
\* digest, which is that of the same bytes in memory.
Xxh64Stream ==
    machine = "xxhash64" => Xxh64!Lossless /\ Xxh64!LanesWhenLong /\ Xxh64!FileIsMemory

\* XXH3: a whole last stripe can always be put together from the buffer.
LastStripeAtHand == machine = "xxh3" => X3!LastStripeAtHand
\* XXH3: the stripes consumed, under the secret's parts for their positions.
StripesInPlace == machine = "xxh3" => X3!StripesInPlace
\* XXH3: the digest of a file is that of the same bytes in memory.
Xxh3FileIsMemory == machine = "xxh3" => X3!FileIsMemory

\* Murmur: the carry holds the bytes that made no block, in order.
CarryHoldsTail == machine = "murmur32" => Mu!CarryHoldsTail
\* Murmur: the digest in pieces, at any address, is that of the whole.
MurmurOfWhole == machine = "murmur32" => Mu!DigestOfWhole

\* Fletcher: a low byte waits for its high one across updates, and the sums
\* are those of the whole message.
FletcherOfWhole == machine = "fletcher" => Fl!LowWaits /\ Fl!ChecksumOfWhole

\* CRC-32 and CRC-32C: the register is the remainder of the message's division.
CrcOfMessage == machine = "crc" => Cr!CrcOfMessage
=============================================================================
