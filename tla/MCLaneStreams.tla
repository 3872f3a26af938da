---------------------------- MODULE MCLaneStreams ----------------------------
(***************************************************************************)
(* A small instance of LaneStreams for TLC: the bytes are named by their   *)
(* positions, and each machine has messages as long as its blocks need.    *)
(***************************************************************************)
EXTENDS LaneStreams

MCData == [i \in 1 .. 60 |-> <<"msg", i>>]
MCZero == <<"zero">>
MCGarbage == <<"garbage">>

\* The polynomial x^4 + x + 1.
MCPoly == <<0, 0, 1, 1>>
MCLengths == {0, 1, 2, 3, 5, 14, 19, 30, 53}

MCLongest == [xxh64 |-> 38, xxh3 |-> 22, murmur32 |-> 21, fletcher |-> 5, crc |-> 53]
MCPiece == [xxh64 |-> 13, xxh3 |-> 13, murmur32 |-> 11, fletcher |-> 4]
=============================================================================
