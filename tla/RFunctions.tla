----------------------------- MODULE RFunctions -----------------------------
(***************************************************************************)
(* The R code with a protocol of its own, side by side: the AES modes,     *)
(* whose variables are those of AesModes, hmac(), and the functions of     *)
(* getVDigest(). One of them runs.                                         *)
(***************************************************************************)
EXTENDS AesModes

CONSTANTS
    BlockSize, DigestSize, KeyData, Keys, Messages, OldFormats,     \* Hmac
    Objects, Skips, AUTO, Prefix, Other, HeaderLength, AsciiHeader, \* Vdigest
    Window, Tens, ErrorModes

VARIABLES
    function,                       \* which of them runs
    arg, outcome,                   \* Hmac and Vdigest: arguments and result
    zeros, key, raw_digest,         \* Hmac
    exists, pc, call, ans           \* Vdigest
callVars == <<function, arg, outcome, zeros, key, raw_digest, exists, pc, call, ans>>
allVars == <<vars, callVars>>

H == INSTANCE Hmac WITH Objects <- Messages, result <- outcome
V == INSTANCE Vdigest WITH Text <- Other

ASSUME InstancesFit == H!ConstantsFit /\ V!ConstantsFit

Idle == <<"idle">>
NoHmac == zeros = Idle /\ key = Idle /\ raw_digest = Idle
NoVdigest == exists = Idle /\ pc = Idle /\ call = Idle /\ ans = Idle

AnyInit ==
    /\ function \in {"AES", "hmac", "vdigest"}
    /\ \/ function = "AES" /\ Init /\ arg = Idle /\ outcome = Idle /\ NoHmac /\ NoVdigest
       \/ function = "hmac" /\ Init /\ mode = "ECB" /\ H!Init /\ NoVdigest
       \/ function = "vdigest" /\ Init /\ mode = "ECB" /\ V!Init /\ NoHmac

AnyNext ==
    /\ UNCHANGED function
    /\ \/ function = "AES" /\ Next /\ UNCHANGED callVars
       \/ function = "hmac" /\ H!Next /\ UNCHANGED <<vars, exists, pc, call, ans>>
       \/ function = "vdigest" /\ V!Next /\ UNCHANGED <<vars, zeros, key, raw_digest>>

AnySpec == AnyInit /\ [][AnyNext]_allVars

-----------------------------------------------------------------------------
(* The properties of hmac() and of vdigest(), while they run.                *)

\* hmac() returns the code of RFC 2104.
HmacIsRFC2104 == function = "hmac" => H!HmacIsRFC2104
\* For each algorithm the manual names, and for keys of every length.
HmacAsDocumented == function = "hmac" => H!HmacAsDocumented
\* A vectorised call hashes each element as digest() does, but where spookyhash's
\* skip is that of the vector (Misplaced).
Elementwise == function = "vdigest" => V!Elementwise
=============================================================================
