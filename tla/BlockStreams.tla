---------------------------- MODULE BlockStreams ----------------------------
(***************************************************************************)
(* The hashers that keep a block or a chunk until they know that more will *)
(* come, side by side: SHA-512, whose variables are those of Sha512Stream, *)
(* BLAKE3, and SpookyHash over a serialization. One of them runs.          *)
(***************************************************************************)
EXTENDS Sha512Stream

CONSTANTS
    BLOCK_LEN, CHUNK_LEN, Degrees, MAX_DEPTH, Bits,     \* Blake3
    MaxTree,        \* bound: longest message and update of Blake3
    BlockSize, Uint8, HeaderLength, Versions,           \* Spooky
    HeaderWrites, Skips, AUTO, Asciis, MaxWritten, MaxWrite

VARIABLES
    machine,                                    \* which of them runs
    Degree, chunk, stack, bfed, bdigest,        \* Blake3
    arg, header, written, spooky, out           \* Spooky
blake3Vars == <<Degree, chunk, stack, bfed, bdigest>>
spookyVars == <<arg, header, written, spooky, out>>
allVars == <<vars, machine, blake3Vars, spookyVars>>

B3 == INSTANCE Blake3 WITH
    MaxFed <- MaxTree, MaxUpdate <- MaxTree, fed <- bfed, digest <- bdigest

Sp == INSTANCE Spooky WITH Garbage <- Mixed

ASSUME InstancesFit == B3!ConstantsFit /\ Sp!ConstantsFit
ASSUME HeadersAreR == Sp!HeadersFit

Idle == <<"idle">>
NoBlake3 == Degree = Idle /\ chunk = Idle /\ stack = Idle /\ bfed = Idle /\ bdigest = Idle
NoSpooky == arg = Idle /\ header = Idle /\ written = Idle /\ spooky = Idle /\ out = Idle

AnyInit ==
    \/ machine = "sha512" /\ Init /\ NoBlake3 /\ NoSpooky
    \/ machine = "blake3" /\ Init /\ B3!Init /\ NoSpooky
    \/ machine = "spookyhash" /\ Init /\ NoBlake3 /\ Sp!Init

AnyNext ==
    /\ UNCHANGED machine
    /\ \/ machine = "sha512" /\ Next /\ UNCHANGED <<blake3Vars, spookyVars>>
       \/ machine = "blake3" /\ B3!Next /\ UNCHANGED <<vars, spookyVars>>
       \/ machine = "spookyhash" /\ Sp!Next /\ UNCHANGED <<vars, blake3Vars>>

AnySpec == AnyInit /\ [][AnyNext]_allVars

-----------------------------------------------------------------------------
(* The properties of Blake3 and Spooky, while they run.                      *)

Typed == /\ machine = "blake3" => B3!TypeOK
         /\ machine = "spookyhash" => Sp!TypeOK

\* Blake3: the stack holds the subtrees of the chunks before, largest first.
StackIsCanonical == machine = "blake3" => B3!StackIsCanonical
\* Blake3: what may be the root is not compressed before the end is known.
RootIsOpen == machine = "blake3" => B3!RootIsOpen
\* Blake3: the digest is that of the tree over the whole message.
DigestOfTree == machine = "blake3" => B3!DigestOfTree

\* Spooky: each byte written was skipped, mixed or waits, in order.
SpookyLossless == machine = "spookyhash" => Sp!Lossless
\* Spooky: the digest is that of the serialization without what is skipped.
DigestOfRest == machine = "spookyhash" => Sp!DigestOfRest
\* Spooky: no write of a header goes beyond what skip = "auto" skips.
AutoNeverFails == machine = "spookyhash" => Sp!AutoNeverFails
=============================================================================
