------------------------------- MODULE AxiLite -------------------------------
(***************************************************************************)
(* The AXI4-Lite handshake that eth_axi4lite.v and gpio.v have in common:   *)
(* when an access is accepted, and how its response is held.                *)
(*                                                                         *)
(* c is the record of the signals the bus drives in the current cycle.      *)
(* Addresses count words.                                                   *)
(***************************************************************************)
EXTENDS Integers

CONSTANT RegMod  \* 2^6: the words the eight address bits tell apart

ASSUME RegModAssumption == RegMod \in Nat \ {0}

VARIABLES s_awvalid_q, s_wvalid_q, wr_addr_q, rvalid_q, bvalid_q

lite == <<s_awvalid_q, s_wvalid_q, wr_addr_q, rvalid_q, bvalid_q>>

LiteTypeOK ==
    /\ s_awvalid_q \in BOOLEAN /\ s_wvalid_q \in BOOLEAN
    /\ wr_addr_q \in 0 .. RegMod - 1
    /\ rvalid_q \in BOOLEAN /\ bvalid_q \in BOOLEAN

\* Reset.
LiteInit ==
    /\ s_awvalid_q = FALSE /\ s_wvalid_q = FALSE /\ wr_addr_q = 0
    /\ rvalid_q = FALSE /\ bvalid_q = FALSE

-----------------------------------------------------------------------------

Reg(addr) == addr % RegMod

\* Mutant: an address is accepted while a response is being returned.
cfg_arready_o_Always == TRUE

cfg_arready_o == ~rvalid_q
cfg_awready_o(c) == ~bvalid_q /\ ~c.arvalid /\ ~s_awvalid_q
cfg_wready_o(c) == ~bvalid_q /\ ~c.arvalid /\ ~s_wvalid_q

wr_cmd_accepted_w(c) == (c.awvalid /\ cfg_awready_o(c)) \/ s_awvalid_q
wr_data_accepted_w(c) == (c.wvalid /\ cfg_wready_o(c)) \/ s_wvalid_q
wr_addr_w(c) == IF s_awvalid_q THEN wr_addr_q ELSE Reg(c.awaddr)
read_en_w(c) == c.arvalid /\ cfg_arready_o
write_en_w(c) == wr_cmd_accepted_w(c) /\ wr_data_accepted_w(c)

\* Address and data of a write may come in different cycles.
SplitTick(c) ==
    /\ s_awvalid_q' = IF c.awvalid /\ cfg_awready_o(c) /\ ~wr_data_accepted_w(c)
                        THEN TRUE ELSE s_awvalid_q /\ ~wr_data_accepted_w(c)
    /\ s_wvalid_q' = IF c.wvalid /\ cfg_wready_o(c) /\ ~wr_cmd_accepted_w(c)
                       THEN TRUE ELSE s_wvalid_q /\ ~wr_cmd_accepted_w(c)
    /\ wr_addr_q' = IF c.awvalid /\ cfg_awready_o(c)
                      THEN Reg(c.awaddr) ELSE wr_addr_q

ResponseTick(c) ==
    /\ rvalid_q' = (read_en_w(c) \/ (rvalid_q /\ ~c.rready))
    /\ bvalid_q' = (write_en_w(c) \/ (bvalid_q /\ ~c.bready))

LiteTick(c) == SplitTick(c) /\ ResponseTick(c)

=============================================================================
