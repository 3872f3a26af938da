---------------------------- MODULE MCBlockHash ----------------------------
\* BlockHash with the message's bytes named by their positions, so that every
\* lost, repeated or displaced byte shows.
EXTENDS BlockHash

MCData == [i \in 1 .. MaxFed |-> <<"msg", i>>]
MCGarbage == <<"garbage">>
=============================================================================
