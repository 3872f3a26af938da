------------------------------ MODULE MCSpooky ------------------------------
\* Spooky with the bytes named by their positions, and a negative skip.
EXTENDS Spooky

MCData == [i \in 1 .. MaxWritten |-> <<"msg", i>>]
MCGarbage == <<"garbage">>
\* The writes of a header: the format, and R's versions as far as they are
\* skipped; version 3 has the native encoding behind them.
MCHeader == [v \in {2, 3} |-> IF v = 2 THEN <<1, 2, 2>> ELSE <<1, 2, 2, 2, 3>>]
MCSkips == {-1, 0, 2, AUTO}
=============================================================================
