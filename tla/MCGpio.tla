------------------------------- MODULE MCGpio -------------------------------
(* One bit: the bits of a word meet only in intr_q.                         *)
EXTENDS Gpio

CONSTANT b0

MCBits == {b0}

\* Every register but INPUT, which like INT_STATUS is only read; OUTPUT_SET at
\* an address with further bits set, which the block drops.
MCAddrs == ((0 .. 12) \ {1, 3}) \cup {RegMod + 3}

=============================================================================
