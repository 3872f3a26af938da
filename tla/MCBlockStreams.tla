--------------------------- MODULE MCBlockStreams ---------------------------
(***************************************************************************)
(* Values for TLC: the bytes are named by their positions. The skips are   *)
(* numbers between, at and beyond the ends of the header's pieces.         *)
(***************************************************************************)
EXTENDS BlockStreams

MCData == [i \in 1 .. 80 |-> <<"msg", i>>]
MCMixed == <<"mixed">>

\* A header of version 2 and one of version 3.
MCHeader == [v \in {2, 3} |-> IF v = 2 THEN <<1, 2, 2>> ELSE <<1, 2, 2, 2, 3>>]
=============================================================================
