------------------------------- MODULE EthRegs -------------------------------
(***************************************************************************)
(* The registers ETH_RX and ETH_TX of the Ethernet block,                   *)
(* fpga/eth_axi4lite.v, and the strobes that pop the receive FIFO and push  *)
(* the transmit FIFO.  The FIFOs themselves belong to the MAC, outside the  *)
(* repository: a byte is its number in the FIFO, modulo ByteMod.            *)
(***************************************************************************)
EXTENDS AxiLite

CONSTANTS
    ETH_RX, ETH_TX,  \* the registers' addresses
    ByteMod          \* how many bytes of a FIFO are told apart

ASSUME RegsAssumption ==
    /\ ByteMod \in Nat \ {0}
    /\ ETH_RX \in 0 .. RegMod - 1 /\ ETH_TX \in 0 .. RegMod - 1
    /\ ETH_RX # ETH_TX

VARIABLES
    wr_data_q, rd_data_q,
    tx_wr_en, rx_rd_en,
    rx_head      \* the byte at the head of the receive FIFO

regs == <<lite, wr_data_q, rd_data_q, tx_wr_en, rx_rd_en, rx_head>>

Bytes == 0 .. ByteMod - 1

\* Reset, and at least one clock edge in it: rx_rd_en has no reset of its own.
RegsInit ==
    /\ LiteInit
    /\ wr_data_q = 0 /\ rd_data_q = 0
    /\ tx_wr_en = FALSE /\ rx_rd_en = FALSE
    /\ rx_head = 0

-----------------------------------------------------------------------------

\* The read multiplexer: ETH_RX gives the head of the FIFO.
data_r(c) == IF Reg(c.araddr) = ETH_RX THEN rx_head ELSE 0

\* Mutant: the data is only kept when its address is late.
wr_data_q_next_Split(c) ==
    IF c.wvalid /\ cfg_wready_o(c) /\ ~wr_cmd_accepted_w(c)
      THEN c.wdata ELSE wr_data_q

wr_data_q_next(c) ==
    IF c.wvalid /\ cfg_wready_o(c) THEN c.wdata ELSE wr_data_q

\* The data of a write and of a read are held for a cycle, or until taken.
DataTick(c) ==
    /\ wr_data_q' = wr_data_q_next(c)
    /\ rd_data_q' = IF ~rvalid_q \/ c.rready THEN data_r(c) ELSE rd_data_q

\* Mutant: the strobe is only cleared by the read of another register.
rx_rd_en_next_Sticky(c) == (read_en_w(c) /\ Reg(c.araddr) = ETH_RX) \/ rx_rd_en

\* The strobe follows a read of ETH_RX, and keeps its value on other reads.
rx_rd_en_next(c) ==
    IF read_en_w(c) THEN Reg(c.araddr) = ETH_RX \/ rx_rd_en ELSE FALSE

\* The strobes, one cycle after the access.  The transmit FIFO takes wr_data_q
\* on tx_wr_en, the receive FIFO drops its head on rx_rd_en.
StrobeTick(c) ==
    /\ tx_wr_en' = (write_en_w(c) /\ wr_addr_w(c) = ETH_TX)
    /\ rx_rd_en' = rx_rd_en_next(c)
    /\ rx_head' = IF rx_rd_en THEN (rx_head + 1) % ByteMod ELSE rx_head

RegsTick(c) == LiteTick(c) /\ DataTick(c) /\ StrobeTick(c)

=============================================================================
