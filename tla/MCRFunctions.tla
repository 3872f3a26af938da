---------------------------- MODULE MCRFunctions ----------------------------
\* RFunctions on a text of TextLen bytes, three algorithms and small objects.
EXTENDS RFunctions

CONSTANTS
    TextLen,    \* length of the text that is encrypted
    Ten         \* an element that is equal to a line feed

\* The fourth byte is 0.
MCText == [i \in 1 .. TextLen |-> IF i = 4 THEN {} ELSE {<<"p", i>>}]
MCIV == [j \in 1 .. W |-> {<<"iv", j>>}]
\* A counter in the middle of its range and the largest one.
MCCounters == {[j \in 1 .. W |-> IF j = 1 THEN 0 ELSE Base - 1], [j \in 1 .. W |-> Base - 1]}

\* Blocks of 4 bytes, sha512's of 8; keys below, at and above both.
MCBlock == [a \in {"md5", "sha512", "crc32"} |-> IF a = "sha512" THEN 8 ELSE 4]
MCDigest == [a \in {"md5", "sha512", "crc32"} |-> IF a = "md5" THEN 2 ELSE 4]
MCKeyData == [i \in 1 .. 9 |-> <<<<"high", i>>, <<"low", i>>>>]
MCMessages == {<<>>, <<<<<<"a">>, <<"b">>>>>>}

\* Vectors of each kind, empty, of one element and of two, and a list of them;
\* vectors with the fourth line feed in the window and behind it; a list in which
\* it can be looked for and is not found, and one in which it is found.
Object(type, elts) == [type |-> type, elts |-> elts]
MCObjects ==
    {Object("character", <<>>), Object("character", <<"f">>), Object("character", <<"f", "g">>),
     Object("raw", <<"x", "y">>), Object("integer", <<"1", "2">>),
     Object("list", <<Object("character", <<"f", "g">>), Object("raw", <<"x">>)>>),
     Object("integer", <<Ten, Ten, Ten, "1", Ten>>),
     Object("integer", <<"1", "1", Ten, Ten, Ten, Ten>>),
     Object("list", [i \in 1 .. 5 |-> Object("integer", <<IF i < 3 THEN Ten ELSE "1">>)]),
     Object("list", [i \in 1 .. 5 |-> Object("integer", <<IF i < 5 THEN Ten ELSE "1">>)])}
MCTens == {Ten}
MCSkips == {AUTO, Prefix, Other, 0, 2}
=============================================================================
