--------------------------- MODULE MessageDigest ---------------------------
(***************************************************************************)
(* What every streaming hasher of the package promises its caller: however *)
(* a message is cut into update calls, the sum it returns is a function of *)
(* the whole message and of nothing else.                                  *)
(*                                                                         *)
(* The hashers of src/ (md5, sha1, sha256, sha512, xxhash, blake3, ...)    *)
(* are shown to implement this specification under a refinement mapping    *)
(* that recovers `message' from their buffers.                             *)
(***************************************************************************)
EXTENDS Naturals, Sequences

CONSTANTS
    Sum(_),     \* the sum of a message, defined on the message as a whole
    NoSum       \* no sum has been returned

VARIABLES
    message,    \* the bytes absorbed since the context was started
    sum         \* what finish returned

vars == <<message, sum>>

Init == message = <<>> /\ sum = NoSum

\* Some more bytes are absorbed behind those the context already holds.
Absorb ==
    /\ sum = NoSum
    /\ Len(message') >= Len(message)
    /\ SubSeq(message', 1, Len(message)) = message
    /\ sum' = NoSum

Finish ==
    /\ sum = NoSum
    /\ sum' = Sum(message)
    /\ message' = message

\* The context is started again for another message.
Restart == message' = <<>> /\ sum' = NoSum

Next == Absorb \/ Finish \/ Restart

Spec == Init /\ [][Next]_vars
=============================================================================
