---------------------------- MODULE MCTftpFlash ----------------------------
(* Small instances of TftpFlash: one bit to a byte, two bytes to a packet.   *)
EXTENDS TftpFlash

CONSTANTS b0, MaxCmds

VARIABLE cmds  \* steps taken at the prompt, at most MaxCmds

O == {}      \* a byte with no bit programmed
X == {b0}    \* a byte with its bit programmed

\* Empty, one short packet, one full packet, and files that need two and more
\* packets, ending with a short and with an empty one; the last spans three
\* erase blocks.
MCFiles == {<<>>, <<O>>, <<X, O>>, <<O, X, X>>, <<X, O, O, X>>,
            <<O, X, O, X, O, O, X, O, X>>}

MCImages == {[c \in Cells |-> O], [c \in Cells |-> X]}

MCInit == Init /\ cmds = 0

Bounded ==
    /\ Next
    /\ cmds' = IF pc = "idle" THEN cmds + 1 ELSE cmds
    /\ cmds' <= MaxCmds

\* The bound, and nothing else, ends a behaviour.
AtBound == cmds = MaxCmds /\ pc = "idle" /\ UNCHANGED <<vars, cmds>>

MCSpec == MCInit /\ [][Bounded \/ AtBound]_<<vars, cmds>>

=============================================================================
