---------------------------- MODULE MCFileDigest ----------------------------
\* FileDigest with the hashers of DigestSwitch and the bytes of the file named
\* by their positions.
EXTENDS FileDigest

CONSTANTS Garbage, ZeroByte

Switch == INSTANCE DigestSwitch

MCData == [i \in 1 .. MaxSize |-> <<"msg", i>>]
MCGarbage == <<"garbage">>
MCZero == <<"zero">>

MCStarts(algo) == Switch!Starts(algo)
MCUpdate(algo, c, s) == Switch!Update(algo, c, s)
MCFinish(algo, c, n) == Switch!Finish(algo, c, n)
MCMemory(algo, s, skip) == Switch!Memory(algo, s, skip)

\* A hasher that only counts, for the runs that are not about digests.
MCCountStarts(algo) == 0
MCCountUpdate(algo, c, s) == c + Len(s)
MCCountFinish(algo, c, n) == <<"count", c>>
MCCountMemory(algo, s, skip) == <<"count", Len(s)>>

MCSkips == {-2, 0, 3}
\* Without a limit, within the file, at its end, and more than an int can hold.
MCLengths == {-1, 0, 1, 4, 7, 20}
MCWhole == {-1}
=============================================================================
