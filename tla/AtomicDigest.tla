---------------------------- MODULE AtomicDigest ----------------------------
(***************************************************************************)
(* What digest(file = TRUE) promises: its answer is made of the bytes that *)
(* the skip and length arguments select from the content the file has at   *)
(* one instant of the call, although the file is read piece by piece.      *)
(***************************************************************************)
EXTENDS Integers, Sequences

CONSTANTS
    Data,       \* the bytes of the file, by position from 1
    Requests,   \* the arguments a call may have: records with skip and length
    None,       \* no request, or no answer yet
    Refused     \* the call failed instead of answering

VARIABLES
    size,       \* how many bytes the file has
    request,    \* the arguments of the current call
    answer      \* what it will answer

vars == <<size, request, answer>>

\* The bytes of a file of n bytes that skip and length select. A length below
\* zero stands for all of them.
Slice(n, skip, length) ==
    LET from  == IF skip > 0 THEN skip ELSE 0
        there == IF n > from THEN n - from ELSE 0
        taken == IF length >= 0 /\ length < there THEN length ELSE there
    IN  [i \in 1 .. taken |-> Data[from + i]]

Init == size \in Nat /\ request = None /\ answer = None

\* Somebody else writes the file.
Write == size' \in Nat /\ UNCHANGED <<request, answer>>

Ask == request' \in Requests /\ answer' = None /\ UNCHANGED size

Answer ==
    /\ request # None /\ answer = None
    /\ \/ answer' = Slice(size, request.skip, request.length)
       \/ answer' = Refused
    /\ UNCHANGED <<size, request>>

Next == Write \/ Ask \/ Answer

Spec == Init /\ [][Next]_vars
=============================================================================
