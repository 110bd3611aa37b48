------------------------------ MODULE MCAxiBus ------------------------------
(* Counters of two bits: a burst of four beats is the longest, and its beat  *)
(* count wraps as one of 256 does in eight bits.                             *)
EXTENDS AxiBus

Burst(a, l, b) == [addr |-> a, len |-> l, burst |-> b]

\* Single accesses to ETH_TX and to ETH_RX, and bursts of every type.
MCWTxns == {Burst(1, 0, "INCR"), Burst(2, 3, "WRAP")}
MCRTxns == {Burst(0, 0, "INCR"), Burst(0, 1, "FIXED"), Burst(15, 3, "INCR")}

=============================================================================
