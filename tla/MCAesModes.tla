----------------------------- MODULE MCAesModes -----------------------------
\* AesModes with the bytes of the text and of the IV named by their positions.
EXTENDS AesModes

CONSTANT TextLen

\* The fourth byte is 0.
MCText == [i \in 1 .. TextLen |-> IF i = 4 THEN {} ELSE {<<"p", i>>}]
MCIV == [j \in 1 .. W |-> {<<"iv", j>>}]
\* A counter in the middle of its range and the largest one.
MCCounters == {[j \in 1 .. W |-> IF j = 1 THEN 0 ELSE Base - 1], [j \in 1 .. W |-> Base - 1]}
=============================================================================
