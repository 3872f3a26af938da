------------------------------- MODULE Spooky -------------------------------
(***************************************************************************)
(* SpookyHash over a serialization: R_Serialize calls OutBytesSpooky with  *)
(* pieces of its own choice (spooky_serialize.cpp); the first of them, the *)
(* header, are counted and dropped, the others go to the SpookyHash of     *)
(* SpookyV2.cpp, which hashes blocks once it has two of them.              *)
(*                                                                         *)
(* Mix is free: state is what has been mixed, in order.                    *)
(***************************************************************************)
EXTENDS Integers, Sequences

CONSTANTS
    BlockSize,      \* sc_blockSize (96)
    Uint8,          \* values of a uint8 (256)
    HeaderLength,   \* what set_skip takes for the header of a binary format (14)
    Versions,       \* the serializeVersion arguments to choose from
    HeaderWrites,   \* by version, the lengths R_Serialize writes a header in
    Skips,          \* the skip arguments to choose from, AUTO among them
    AUTO,           \* skip = "auto"
    Asciis,         \* the ascii arguments to choose from
    Data,           \* the bytes written, by position from 1
    Garbage,        \* a byte of m_data before it is written
    MaxWritten,     \* bound: longest serialization
    MaxWrite        \* bound: longest single write

BufSize == 2 * BlockSize    \* sc_bufSize

\* Two blocks and the header can be counted in a uint8.
ConstantsFit ==
    /\ BlockSize \in Nat \ {0} /\ Uint8 \in Nat /\ BufSize < Uint8
    /\ HeaderLength \in 1 .. Uint8 - 1
    /\ MaxWritten \in Nat /\ MaxWrite \in Nat
    /\ AUTO \notin Int /\ Asciis \subseteq BOOLEAN

\* Where each piece of a header ends, and before the first one.
Ends(pieces) ==
    LET end[i \in 0 .. Len(pieces)] == IF i = 0 THEN 0 ELSE end[i - 1] + pieces[i]
    IN  end

\* What all headers share ends with a piece: R writes the format in two bytes
\* and each version in four.
HeadersFit ==
    \A v \in Versions :
        /\ HeaderWrites[v] \in Seq(Nat)
        /\ \E i \in 0 .. Len(HeaderWrites[v]) : Ends(HeaderWrites[v])[i] = HeaderLength

VARIABLES
    arg,        \* the arguments of the call
    header,     \* the header's writes still to come
    written,    \* the bytes R_Serialize has written
    spooky,     \* the SpookyHash
    out         \* Running, Error or the digest
vars == <<arg, header, written, spooky, out>>

Running == <<"running">>
Error == <<"error">>
ZeroByte == <<"zero">>
LastByte(n) == <<"remainder", n>>

-----------------------------------------------------------------------------
(* The arguments: R/digest.R and spookydigest_impl *)

\* which(object[1:30] == as.raw(10))[4] of an object that is not serialized:
\* the fourth element that equals 10, if it has four. NA is INT_MIN in C.
FourthTen == {0 - Uint8} \cup 4 .. Uint8 + 4

\* The values set_skip can give the skip argument.
set_skip(ascii) == IF ascii THEN FourthTen ELSE {HeaderLength}

\* static_cast<uint8_t>(Rf_asInteger(to_skip_r))
ToSkip(skip) == skip % Uint8

SpookyInit(to_skip) ==
    [state |-> <<>>, data |-> [i \in 1 .. BufSize |-> Garbage], length |-> 0,
     remainder |-> 0, skipped |-> 0, to_skip |-> to_skip]

-----------------------------------------------------------------------------
(* SpookyV2.cpp *)

\* memcpy(m_data + at, s, Len(s))
Copy(data, at, s) ==
    [i \in 1 .. BufSize |-> IF at < i /\ i <= at + Len(s) THEN s[i - at] ELSE data[i]]

\* `m_length < sc_bufSize': nothing has been mixed, the variables come from
\* the seeds; otherwise from m_state.
Variables_Reseeded(h) == IF h.length <= BufSize THEN <<>> ELSE h.state
Variables(h) == IF h.length < BufSize THEN <<>> ELSE h.state

\* `newLength < sc_bufSize': too short to be hashed.
TooShort(newLength) == newLength < BufSize

\* Where the unaligned reads leave the last block they copied: m_data.
Unaligned(data, message, from, whole) ==
    IF whole = 0 THEN data
    ELSE Copy(data, 0, SubSeq(message, from + whole - BlockSize + 1, from + whole))

SpookyUpdate(h, message, aligned) ==
    LET len       == Len(message)
        newLength == len + h.remainder
        prefix    == IF h.remainder > 0 THEN BufSize - h.remainder ELSE 0
        filled    == Copy(h.data, h.remainder, SubSeq(message, 1, prefix))
        remainder == (len - prefix) % BlockSize
        whole     == (len - prefix) - remainder
        read      == IF aligned THEN filled ELSE Unaligned(filled, message, prefix, whole)
    IN  IF TooShort(newLength)
        THEN [h EXCEPT !.data = Copy(@, h.remainder, message),
                       !.length = @ + len, !.remainder = newLength]
        ELSE [h EXCEPT
                !.state = Variables(h) \o (IF h.remainder > 0 THEN filled ELSE <<>>)
                            \o SubSeq(message, prefix + 1, prefix + whole),
                !.data = Copy(read, 0, SubSeq(message, prefix + whole + 1, len)),
                !.length = @ + len, !.remainder = remainder]

\* `remainder >= sc_blockSize': a whole block waits in the buffer.
BlockWaits_Beyond(remainder) == remainder > BlockSize
BlockWaits(remainder) == remainder >= BlockSize

\* Short for short messages; otherwise the last block is padded with zeros and
\* its last byte is the number of the others that count.
SpookyFinal(h) ==
    LET from == IF BlockWaits(h.remainder) THEN BlockSize ELSE 0
        n    == h.remainder - from
        last == [i \in 1 .. BlockSize |-> IF i = BlockSize THEN LastByte(n)
                                          ELSE IF i <= n THEN h.data[from + i] ELSE ZeroByte]
    IN  IF h.length < BufSize THEN <<"short", SubSeq(h.data, 1, h.length)>>
        ELSE <<"long", h.state \o SubSeq(h.data, 1, from), last>>

\* m_skipped = static_cast<uint8>(m_skipped + length)
UpdateSkipCounter_Once(h, length) == [h EXCEPT !.skipped = h.to_skip]
UpdateSkipCounter(h, length) == [h EXCEPT !.skipped = (@ + length) % Uint8]

-----------------------------------------------------------------------------
(* spooky_serialize.cpp *)

\* `(skipped + length) > to_skip': the write holds more than what is skipped.
Straddles_Fits(h, length) == h.skipped + length >= h.to_skip
Straddles(h, length) == h.skipped + length > h.to_skip

OutBytesSpooky(buf, aligned) ==
    IF spooky.skipped < spooky.to_skip
    THEN IF Straddles(spooky, Len(buf))
         THEN out' = Error /\ UNCHANGED spooky
         ELSE spooky' = UpdateSkipCounter(spooky, Len(buf)) /\ UNCHANGED out
    ELSE spooky' = SpookyUpdate(spooky, buf, aligned) /\ UNCHANGED out

Args == [skip : Skips, ascii : Asciis, version : Versions]

\* What `skip' can be when it reaches C.
Resolved(a) == IF a.skip = AUTO THEN set_skip(a.ascii) ELSE {a.skip}

Starts(a) ==
    /\ arg' = a
    /\ header' = HeaderWrites[a.version]
    /\ written' = 0
    /\ out' = Running
    /\ \E skip \in Resolved(a) : spooky' = SpookyInit(ToSkip(skip))

Init ==
    /\ arg \in Args
    /\ header = HeaderWrites[arg.version]
    /\ written = 0
    /\ out = Running
    /\ \E skip \in Resolved(arg) : spooky = SpookyInit(ToSkip(skip))

Call == out # Running /\ \E a \in Args : Starts(a)

\* R_Serialize writes k bytes, from memory that is aligned or not: the header
\* in its own pieces, then the object in any.
Write(k, aligned) ==
    /\ out = Running
    /\ written + k <= MaxWritten
    /\ header # <<>> => k = header[1]
    /\ header' = IF header # <<>> THEN Tail(header) ELSE header
    /\ OutBytesSpooky([i \in 1 .. k |-> Data[written + i]], aligned)
    /\ written' = written + k
    /\ UNCHANGED arg

Finish ==
    /\ out = Running /\ header = <<>>
    /\ out' = SpookyFinal(spooky)
    /\ UNCHANGED <<arg, header, written, spooky>>

Next == Call \/ Finish \/ \E k \in 0 .. MaxWrite, aligned \in BOOLEAN : Write(k, aligned)

Spec == Init /\ [][Next]_vars

-----------------------------------------------------------------------------
(* Properties *)

\* The fields of the SpookyHash: the 8-bit counters hold what they count.
TypeOK ==
    /\ spooky.remainder \in 0 .. BufSize - 1 /\ spooky.length \in 0 .. MaxWritten
    /\ spooky.to_skip \in 0 .. Uint8 - 1 /\ spooky.skipped \in 0 .. spooky.to_skip
    /\ DOMAIN spooky.data = 1 .. BufSize
    /\ written \in 0 .. MaxWritten

\* The bytes of the serialization that have been handed to the hash.
Hashed == SubSeq([i \in 1 .. written |-> Data[i]], spooky.skipped + 1, written)

\* Until an error, each byte written was either counted as skipped or is
\* hashed: those mixed and those that wait make up the rest of what was
\* written, in its order, whatever the writes.
Lossless ==
    out # Error =>
        /\ spooky.length = written - spooky.skipped
        /\ spooky.length > 0 => spooky.skipped = spooky.to_skip
        /\ IF spooky.length < BufSize
           THEN SubSeq(spooky.data, 1, spooky.length) = Hashed
           ELSE spooky.state \o SubSeq(spooky.data, 1, spooky.remainder) = Hashed

\* SpookyHash of a whole message.
SpookyHash(msg) ==
    LET n     == Len(msg)
        rest  == n % BlockSize
    IN  IF n < BufSize THEN <<"short", msg>>
        ELSE <<"long", SubSeq(msg, 1, n - rest),
               [i \in 1 .. BlockSize |-> IF i = BlockSize THEN LastByte(rest)
                                         ELSE IF i <= rest THEN msg[n - rest + i]
                                         ELSE ZeroByte]>>

\* How many bytes the manual says are skipped: none for a negative number, the
\* header, as far as it depends on R's version, for "auto".
Documented(a) ==
    IF a.skip = AUTO THEN HeaderLength ELSE IF a.skip < 0 THEN 0 ELSE a.skip

\* With ascii = TRUE "auto" looks for the header's end in the object itself,
\* which is not serialized yet, and skips what it happens to find there.
Misplaced(a) == a.skip = AUTO /\ a.ascii

\* The digest is that of the serialization without the bytes to skip, whatever
\* pieces R_Serialize writes; a serialization that ends before leaves nothing.
DigestOfRest ==
    (out \notin {Running, Error} /\ ~Misplaced(arg)) =>
        out = SpookyHash(SubSeq([i \in 1 .. written |-> Data[i]],
                                Documented(arg) + 1, written))

\* Skipping the header never meets a write that goes beyond it.
AutoNeverFails == (arg.skip = AUTO /\ ~Misplaced(arg)) => out # Error
=============================================================================
