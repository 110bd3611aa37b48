---------------------------- MODULE MCDataBlock ----------------------------
(* A window of ten words: like the real 256 it leaves one word over after    *)
(* whole entries of three.                                                   *)
EXTENDS DataBlock, Bitwise

MCAnd(a, b) == a & b

\* A torn tag may come to read as the next setting's, a length of 4 as -20, and
\* each word of an entry as it should or as free space.
MCPart(a, b) ==
    {a & (b | mask) : mask \in {0, 127} \cup (IF b = 4 THEN {108} ELSE {})
                                        \cup (IF b \in Tags THEN {1} ELSE {})}

MCBlank == {Blank}

\* An entry of a tag that is not known, its length odd, before free space.
MCLog == [Blank EXCEPT ![0] = 7, ![1] = 1, ![2] = 9]

\* Somebody else's data: the parse goes by its words 0, 3 and 6 and ends there.
MCForeign == [i \in BlockIdx |-> IF i % 5 = 0 THEN 1 ELSE i]

MCImages == {Blank, MCLog, MCForeign}

\* Erased here and there.
MCLeftovers == {[i \in BlockIdx |-> IF i % 4 = 0 THEN Ones ELSE 4]}

\* User data that happens to begin with a word of ones.
MCUserData == {[i \in BlockIdx |-> IF i % 5 = 0 THEN Ones ELSE 1]}

=============================================================================
