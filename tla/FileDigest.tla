----------------------------- MODULE FileDigest -----------------------------
(***************************************************************************)
(* digest(file = TRUE): the checks of R/digest.R and the read loop that    *)
(* every `file case' of digest.c repeats around its hasher, next to a file *)
(* system in which other processes create, remove and append.              *)
(*                                                                         *)
(* The hasher is a parameter; DigestSwitch gives the real ones.            *)
(***************************************************************************)
EXTENDS Integers, Sequences

CONSTANTS
    BUF_SIZE,       \* size of the read buffer (1024)
    MaxInt,         \* largest value of an int (2^31 - 1)
    Data,           \* the bytes of the file, by position from 1
    Algos,          \* the algorithms to choose from
    Skips, Lengths, \* the skip and length arguments to choose from, -1 for Inf
    ErrorModes,     \* the errormode arguments to choose from
    None,           \* no call yet
    MaxSize,        \* bound: size of the file
    StickyEof,      \* the C library keeps the end-of-file indicator of a stream
    ReadErrors,     \* reads of the file may fail
    H_starts(_),        \* the context of an algorithm
    H_update(_, _, _),  \* algorithm, context, bytes
    H_finish(_, _, _),  \* algorithm, context, how many bytes in all
    H_memory(_, _, _)   \* the algorithm's in-memory case, of bytes after a skip

ASSUME BufferAssumption == BUF_SIZE \in Nat \ {0} /\ MaxSize \in Nat /\ MaxInt \in Nat

ASSUME ArgumentAssumption ==
    /\ Skips \subseteq Int /\ Lengths \subseteq {-1} \cup Nat
    /\ ErrorModes \subseteq {"stop", "warn", "silent"}
    /\ StickyEof \in BOOLEAN /\ ReadErrors \in BOOLEAN

Calls == [algo : Algos, skip : Skips, length : Lengths, mode : ErrorModes]

ASSUME NoneAssumption == None \notin Calls

VARIABLES
    file,       \* what the path names: its kind and how many bytes it holds
    call,       \* the arguments of the current call
    pc,         \* where the call is
    handled,    \* check_file found a failure and errorhandler did not stop
    left,       \* the int `length' of digest.c, counted down
    pos,        \* the stream's position
    eof,        \* the stream's end-of-file indicator
    ctx,        \* the hasher's context
    fed,        \* the bytes given to its update so far
    opened,     \* the size of the file when it was opened
    result

vars == <<file, call, pc, handled, left, pos, eof, ctx, fed, opened, result>>
stream == <<left, pos, eof, ctx, fed, opened>>

Error == <<"error">>
NoResult == <<>>

Kinds == {"file", "locked", "dir", "none"}

-----------------------------------------------------------------------------
\* as.integer: a number out of range becomes NA, which C sees as INT_MIN.
as_integer(x) == IF x <= MaxInt THEN x ELSE -MaxInt - 1

\* check_file returns what errorhandler does, but digest does not look at it:
\* only stop() ends the call.
check_file ==
    /\ pc = "check"
    /\ IF file.kind # "file" /\ call.mode = "stop"
       THEN pc' = "done" /\ result' = Error
       ELSE pc' = "open" /\ UNCHANGED result
    /\ handled' = (file.kind # "file" /\ call.mode # "stop")
    /\ UNCHANGED <<file, call>> /\ UNCHANGED stream

\* fopen succeeds on a directory; otherwise error() whatever the errormode.
OpenFails ==
    /\ pc = "open" /\ file.kind \in {"none", "locked"}
    /\ pc' = "done" /\ result' = Error
    /\ UNCHANGED <<file, call, handled>> /\ UNCHANGED stream

\* if (skip > 0) fseek(fp, skip, SEEK_SET)
Position_Ignored(skip) == 0
Position_Unchecked(skip) == skip
Position(skip) == IF skip > 0 THEN skip ELSE 0

Open ==
    /\ pc = "open" /\ file.kind \in {"file", "dir"}
    /\ pc' = "read"
    /\ left' = as_integer(call.length)
    /\ pos' = Position(as_integer(call.skip))
    /\ eof' = FALSE
    /\ ctx' = H_starts(call.algo)
    /\ fed' = <<>>
    /\ opened' = file.size
    /\ UNCHANGED <<file, call, handled, result>>

-----------------------------------------------------------------------------
Smaller(a, b) == IF a < b THEN a ELSE b

\* How many bytes the stream can still deliver.
Available ==
    IF eof /\ StickyEof THEN 0
    ELSE IF file.size > pos THEN Smaller(BUF_SIZE, file.size - pos) ELSE 0

\* What fread(buf, 1, sizeof(buf), fp) can return. A read that fails returns
\* what it got before, and nobody asks ferror().
Fread == IF ReadErrors THEN 0 .. Available ELSE {Available}

\* The first n bytes of the buffer.
Buffer(n) == [i \in 1 .. n |-> Data[pos + i]]

Feed(n) ==
    /\ ctx' = H_update(call.algo, ctx, Buffer(n))
    /\ fed' = fed \o Buffer(n)

\* `if (nChar > length) nChar = length': what is used of a full buffer.
Used_All(nChar, length) == nChar
Used(nChar, length) == Smaller(nChar, length)

\* The condition of the loop, after the read.
More_UntilLength(nChar, length) == length > 0
More(nChar, length) == nChar > 0 /\ length > 0

\* while ((nChar = fread(...)) > 0 && length > 0) with length >= 0
ReadBounded ==
    /\ pc = "read" /\ as_integer(call.length) >= 0
    /\ \E nChar \in Fread :
         /\ eof' = (nChar < BUF_SIZE)
         /\ pos' = pos + nChar
         /\ IF More(nChar, left)
            THEN /\ Feed(Used(nChar, left))
                 /\ left' = left - Used(nChar, left)
                 /\ pc' = pc
            ELSE pc' = "finish" /\ UNCHANGED <<left, ctx, fed>>
    /\ UNCHANGED <<file, call, handled, opened, result>>

\* while ((nChar = fread(...)) > 0)
ReadToEnd ==
    /\ pc = "read" /\ as_integer(call.length) < 0
    /\ \E nChar \in Fread :
         /\ eof' = (nChar < BUF_SIZE)
         /\ pos' = pos + nChar
         /\ IF nChar > 0
            THEN Feed(nChar) /\ pc' = pc
            ELSE pc' = "finish" /\ UNCHANGED <<ctx, fed>>
    /\ UNCHANGED <<file, call, handled, left, opened, result>>

Finish ==
    /\ pc = "finish"
    /\ result' = H_finish(call.algo, ctx, Len(fed))
    /\ pc' = "done"
    /\ UNCHANGED <<file, call, handled>> /\ UNCHANGED stream

\* The next call.
Call ==
    /\ pc \in {"idle", "done"}
    /\ call' \in Calls
    /\ pc' = "check" /\ handled' = FALSE
    /\ left' = -1 /\ pos' = 0 /\ eof' = FALSE
    /\ ctx' = H_starts(call'.algo)
    /\ fed' = <<>> /\ opened' = 0
    /\ result' = NoResult
    /\ UNCHANGED file

-----------------------------------------------------------------------------
(* The other processes *)

\* A writer appends, whether or not the file is open here.
Grow ==
    /\ file.kind = "file" /\ file.size < MaxSize
    /\ file' = [file EXCEPT !.size = @ + 1]
    /\ UNCHANGED <<call, pc, handled, result>> /\ UNCHANGED stream

\* The path comes to name something else. Once the file is open that does not
\* matter any more.
Rename ==
    /\ pc \in {"idle", "check", "open", "done"}
    /\ \E k \in Kinds : file' = [kind |-> k, size |-> 0]
    /\ UNCHANGED <<call, pc, handled, result>> /\ UNCHANGED stream

Init ==
    /\ file \in [kind : {"file"}, size : 0 .. MaxSize]
    /\ call = None /\ pc = "idle" /\ handled = FALSE
    /\ left = -1 /\ pos = 0 /\ eof = FALSE
    /\ ctx = <<>> /\ fed = <<>> /\ opened = 0 /\ result = NoResult

Digest == check_file \/ OpenFails \/ Open \/ ReadBounded \/ ReadToEnd \/ Finish

Next == Digest \/ Call \/ Grow \/ Rename

Spec == Init /\ [][Next]_vars

\* The call is not stopped forever by its own thread.
FairSpec == Spec /\ WF_vars(Digest)

-----------------------------------------------------------------------------
(* Properties *)

\* How many bytes are skipped, and the bound on the others.
Skip(skip) == IF skip > 0 THEN skip ELSE 0

\* The program counter and the stream are what digest.c can have them be; a
\* negative skip never becomes a position.
TypeOK ==
    /\ file \in [kind : Kinds, size : 0 .. MaxSize]
    /\ file.size > 0 => file.kind = "file"
    /\ call \in Calls \cup {None}
    /\ pc \in {"idle", "check", "open", "read", "finish", "done"}
    /\ call = None <=> pc = "idle"
    /\ left \in Int /\ pos \in Nat /\ opened \in Nat
    /\ eof \in BOOLEAN /\ handled \in BOOLEAN

\* While the file is read, what the hasher got are the bytes that follow the
\* skipped ones, without a gap, and with a bound no more of them than that.
Contiguous ==
    pc \in {"read", "finish"} =>
        LET skip == Skip(as_integer(call.skip))
            length == as_integer(call.length)
        IN  /\ fed = [i \in 1 .. Len(fed) |-> Data[skip + i]]
            /\ skip + Len(fed) <= pos
            /\ IF length >= 0 THEN left >= 0 /\ left + Len(fed) = length
               ELSE pos = skip + Len(fed)
            /\ left # 0 => pos = skip + Len(fed)

\* The answer is settled by the read that met the end of the file, or that
\* reached the requested length, before the loop ends.
Settled ==
    \/ pc = "finish"
    \/ pc = "read" /\ (left = 0 \/ (eof /\ StickyEof))
Answer ==
    IF pc = "done" /\ result = Error THEN Error
    ELSE IF pc = "done" \/ Settled THEN fed ELSE None

AD == INSTANCE AtomicDigest WITH
        size <- file.size, request <- call, answer <- Answer,
        Requests <- Calls, Refused <- Error

\* The bytes digested are what skip and length select from the file as it was
\* at one instant, although it grows between the reads.
ImplementsAtomicDigest == AD!Spec

\* digest.c on bytes in memory: the lines in front of the switch.
InMemory(n, skip, length) ==
    LET skipped == IF skip > 0 THEN Smaller(skip, n) ELSE 0
        nChar   == n - skipped
        used    == IF length >= 0 /\ length < nChar THEN length ELSE nChar
    IN  [i \in 1 .. used |-> Data[skipped + i]]

\* A digest of a file is the one digest.c computes from the same bytes in
\* memory, of the file as it was at some instant since it was opened, whichever
\* pieces the file was read in.
FileEqualsMemory ==
    [][pc = "finish" /\ pc' = "done" =>
        \E n \in opened .. file.size :
            result' = H_memory(call.algo,
                               InMemory(n, as_integer(call.skip), as_integer(call.length)),
                               Skip(as_integer(call.skip)))]_vars

\* digest.Rd: by default "the whole string or file is processed". No byte of a
\* file that was there at the start is left out silently.
WholeFile ==
    pc = "done" /\ result # Error /\ call.length = -1 =>
        Len(fed) >= opened - Skip(call.skip)

\* digest.Rd: with errormode warn or silent a failure that check_file finds is
\* answered by a value: what follows does not stop the caller because of it.
ErrorModeHonoured == pc = "done" /\ handled => result # Error

\* Every call comes back, even if the file grows while it is read.
Terminates == pc = "check" ~> pc = "done"
=============================================================================
