---------------------------- MODULE MCConsoleIn ----------------------------
(* A buffer of three bytes; the user types single characters, or sends lines *)
(* whole, and calls of TcpRecv wait inside each other.                       *)
EXTENDS ConsoleIn, TLC

CONSTANTS a, b, MaxTyped, MaxEchoes

\* One key at a time; a line in one segment, with and without text after it;
\* telnet commands, whole, followed by text, cut in two, and with bytes in them
\* that mean something else elsewhere.
MCSegments ==
    {<<c>> : c \in Chars \cup {BS, CR}} \cup
    {<<c, CR>> : c \in Chars} \cup {<<CR, c>> : c \in Chars} \cup
    {<<a, b, a, b, CR>>, <<b, a, b, a, CR>>} \cup
    {<<IAC, c, c>> : c \in Chars} \cup {<<IAC, a, b, b, CR>>, <<IAC, b, a, a, CR>>}
    \cup {<<IAC, c>> : c \in Chars} \cup {<<c, BS, c>> : c \in Chars}
    \cup {<<IAC, IAC, c, c>> : c \in Chars} \cup {<<IAC, BS, CR, c>> : c \in Chars}

\* Bounds: how much a user types before a carriage return, and how many calls
\* of TcpRecv wait inside each other.
Bounded == Next /\ Len(typed') <= MaxTyped /\ Len(echoes') <= MaxEchoes

MCSpec == Init /\ [][Bounded]_vars

MCSymmetry == Permutations(Chars)

=============================================================================
