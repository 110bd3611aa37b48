------------------------------- MODULE AxiBus -------------------------------
(***************************************************************************)
(* The converter of AxiConv driving the registers of EthRegs, and an AXI4   *)
(* master in front.  All share one clock: a step is a clock cycle, in which *)
(* each part sees the others' signals and moves its registers.             *)
(*                                                                         *)
(* The master (the processor, outside the repository) keeps a valid signal  *)
(* up until it is accepted, never sends data ahead of its address, has at   *)
(* most one burst of each kind waiting behind the one under way, and raises *)
(* and drops its readiness for responses as it likes.                       *)
(***************************************************************************)
EXTENDS AxiConv, EthRegs

CONSTANTS
    WTxns, RTxns,  \* the write and read bursts the master may ask for
    NoTx

Txns == [addr : 0 .. AddrMod - 1, len : 0 .. CntMod - 1, burst : Bursts]

ASSUME TxnAssumption ==
    WTxns \subseteq Txns /\ RTxns \subseteq Txns /\ NoTx \notin Txns

\* A wrapping burst has a length AXI allows, and the address space is a whole
\* number of such bursts.
ASSUME WrapAssumption ==
    \A t \in WTxns \cup RTxns : t.burst = "WRAP" =>
        t.len \in {0, 1, 3, 7, 15} /\ AddrMod % (t.len + 1) = 0

VARIABLES
    clk,     \* the parity of the cycle: every step changes it
    m_aw,    \* the write burst whose address the master presents
    m_wtx,   \* the write burst whose data the master is sending
    m_w,     \* is data presented
    m_sent,  \* beats of it that were accepted
    m_ar,    \* the read burst the master presents
    m_bready, m_rready,  \* is the master ready for a response
    wr, wdone,  \* write burst accepted and not responded to; writes done for it
    rd, rdone,  \* read burst accepted and not completed; beats returned of it
    rissued,    \* reads of it that the registers accepted
    rxreads,    \* reads of ETH_RX so far, modulo ByteMod
    txdata,     \* the data of the last write of ETH_TX
    txowed      \* writes of ETH_TX that the FIFO has not got

master == <<m_aw, m_wtx, m_w, m_sent, m_ar, m_bready, m_rready>>
history == <<wr, wdone, rd, rdone, rissued, rxreads, txdata, txowed>>
vars == <<clk, convWrite, convRead, regs, master, history>>

TypeOK ==
    /\ clk \in BOOLEAN
    /\ ConvTypeOK
    /\ LiteTypeOK
    /\ wr_data_q \in 0 .. CntMod - 1 /\ rd_data_q \in Bytes
    /\ tx_wr_en \in BOOLEAN /\ rx_rd_en \in BOOLEAN
    /\ rx_head \in Bytes
    /\ m_aw \in WTxns \cup {NoTx} /\ m_wtx \in WTxns \cup {NoTx}
    /\ m_w \in BOOLEAN /\ m_sent \in 0 .. CntMod - 1
    /\ m_ar \in RTxns \cup {NoTx}
    /\ m_bready \in BOOLEAN /\ m_rready \in BOOLEAN
    /\ wr \in WTxns \cup {NoTx} /\ wdone \in 0 .. CntMod
    /\ rd \in RTxns \cup {NoTx} /\ rdone \in 0 .. CntMod
    /\ rissued \in 0 .. CntMod
    /\ rxreads \in Bytes
    /\ txdata \in 0 .. CntMod - 1 /\ txowed \in 0 .. 1

Init ==
    /\ clk = FALSE
    /\ ConvInit /\ RegsInit
    /\ m_aw = NoTx /\ m_wtx = NoTx /\ m_w = FALSE /\ m_sent = 0
    /\ m_ar = NoTx /\ m_bready = FALSE /\ m_rready = FALSE
    /\ wr = NoTx /\ wdone = 0 /\ rd = NoTx /\ rdone = 0
    /\ rissued = 0 /\ rxreads = 0 /\ txdata = 0 /\ txowed = 0

-----------------------------------------------------------------------------
(* The signals of a cycle.                                                 *)

\* The master's.  A beat's data is its place in the burst.
In ==
    [awvalid |-> m_aw # NoTx,
     awaddr  |-> IF m_aw # NoTx THEN m_aw.addr ELSE 0,
     awlen   |-> IF m_aw # NoTx THEN m_aw.len ELSE 0,
     awburst |-> IF m_aw # NoTx THEN m_aw.burst ELSE "FIXED",
     wvalid  |-> m_w,
     wdata   |-> m_sent,
     wlast   |-> m_wtx # NoTx /\ m_sent = m_wtx.len,
     bready  |-> m_bready,
     arvalid |-> m_ar # NoTx,
     araddr  |-> IF m_ar # NoTx THEN m_ar.addr ELSE 0,
     arlen   |-> IF m_ar # NoTx THEN m_ar.len ELSE 0,
     arburst |-> IF m_ar # NoTx THEN m_ar.burst ELSE "FIXED",
     rready  |-> m_rready]

\* From the converter to the registers.
Cfg(i) ==
    [awvalid |-> outport_awvalid_o(i), awaddr |-> outport_awaddr_o(i),
     wvalid  |-> outport_wvalid_o(i),  wdata  |-> i.wdata,
     bready  |-> outport_bready_o(i),
     arvalid |-> outport_arvalid_o(i), araddr |-> outport_araddr_o(i),
     rready  |-> outport_rready_o(i)]

\* And back.
Out(c) ==
    [awready |-> cfg_awready_o(c), wready |-> cfg_wready_o(c),
     bvalid  |-> bvalid_q, arready |-> cfg_arready_o, rvalid |-> rvalid_q]

-----------------------------------------------------------------------------

\* The master after the cycle: it drops what was accepted, and may present
\* the next address and the next data.  The data of the waiting burst follows
\* the last of the one under way.
MasterTick(i, o) ==
    LET sent == TakesW(i, o)
        last == sent /\ i.wlast
    IN  /\ \/ m_aw' = IF TakesAW(i, o) THEN NoTx ELSE m_aw
           \/ (m_aw = NoTx \/ TakesAW(i, o)) /\ m_aw' \in WTxns
        /\ m_wtx' = IF m_wtx = NoTx \/ last THEN m_aw' ELSE m_wtx
        /\ m_sent' = IF last THEN 0 ELSE IF sent THEN m_sent + 1 ELSE m_sent
        /\ m_w' \in BOOLEAN
        /\ m_w' => m_wtx' # NoTx
        /\ m_w /\ ~sent => m_w'
        /\ \/ m_ar' = IF TakesAR(i, o) THEN NoTx ELSE m_ar
           \/ (m_ar = NoTx \/ TakesAR(i, o)) /\ m_ar' \in RTxns
        /\ m_bready' \in BOOLEAN /\ m_rready' \in BOOLEAN

\* What the cycle does to the bursts under way.
HistoryTick(i, c, o) ==
    /\ wr' = IF TakesAW(i, o) THEN m_aw
             ELSE IF GivesB(i, o) THEN NoTx ELSE wr
    /\ wdone' = (IF TakesAW(i, o) \/ GivesB(i, o) THEN 0 ELSE wdone)
                  + (IF write_en_w(c) THEN 1 ELSE 0)
    /\ rd' = IF TakesAR(i, o) THEN m_ar
             ELSE IF GivesR(i, o) /\ inport_rlast_o THEN NoTx ELSE rd
    /\ rdone' = IF TakesAR(i, o) THEN 0
                ELSE IF ~GivesR(i, o) THEN rdone
                ELSE IF inport_rlast_o THEN 0 ELSE rdone + 1
    /\ rissued' = (IF TakesAR(i, o) THEN 0 ELSE rissued)
                    + (IF read_en_w(c) THEN 1 ELSE 0)
    /\ rxreads' = IF read_en_w(c) /\ Reg(c.araddr) = ETH_RX
                    THEN (rxreads + 1) % ByteMod ELSE rxreads
    /\ LET txwrite == write_en_w(c) /\ wr_addr_w(c) = ETH_TX
       IN  /\ txdata' = IF txwrite THEN c.wdata ELSE txdata
           /\ txowed' = txowed + (IF txwrite THEN 1 ELSE 0)
                               - (IF tx_wr_en THEN 1 ELSE 0)

Tick ==
    LET i == In
        c == Cfg(i)
        o == Out(c)
    IN  /\ clk' = ~clk
        /\ ConvTick(i, o) /\ RegsTick(c) /\ MasterTick(i, o) /\ HistoryTick(i, c, o)

Next == Tick

Spec == Init /\ [][Next]_vars

\* The clock runs, and the master sends its data and takes its responses.
FairSpec ==
    /\ Spec
    /\ []<>clk /\ []<>~clk
    /\ []<>(m_wtx # NoTx => m_w)
    /\ []<>m_bready
    /\ []<>m_rready

-----------------------------------------------------------------------------
(* Properties.                                                             *)

\* The address of beat k of burst t, by AXI's definition of the burst types.
BeatAddr(t, k) ==
    CASE t.burst = "FIXED" -> t.addr
      [] t.burst = "WRAP" -> LET base == t.addr - (t.addr % (t.len + 1))
                             IN  base + ((t.addr - base + k) % (t.len + 1))
      [] OTHER -> (t.addr + k) % AddrMod

\* The signals of this cycle.
I == In
C == Cfg(I)
O == Out(C)

\* The converter's own assertion ("Unexpected flow control signals"): whenever
\* it presents an address or data, the registers are ready for both or neither;
\* and what they accept is never an address or data alone.
FlowControl ==
    C.awvalid \/ C.wvalid => /\ O.awready = O.wready
                             /\ O.awready => C.awvalid /\ C.wvalid

\* The write burst of this cycle's write.
WriteTx == IF TakesAW(I, O) THEN m_aw ELSE wr
WriteNo == IF TakesAW(I, O) THEN 0 ELSE wdone

\* Every write of the registers is the next beat of the burst under way: its
\* address, its data, in order, none twice and none too many; and the burst is
\* responded to when all of its beats are written.
WriteBeats ==
    /\ write_en_w(C) => /\ WriteTx # NoTx
                        /\ WriteNo <= WriteTx.len
                        /\ wr_addr_w(C) = Reg(BeatAddr(WriteTx, WriteNo))
                        /\ C.wdata = WriteNo
    /\ inport_bvalid_o(O) => wr # NoTx /\ wdone = wr.len + 1

ReadTx == IF TakesAR(I, O) THEN m_ar ELSE rd
ReadNo == IF TakesAR(I, O) THEN 0 ELSE rissued

\* Every read of the registers is the next beat of the burst under way, and
\* rlast comes with the last beat returned and with no other.
ReadBeats ==
    /\ read_en_w(C) => /\ ReadTx # NoTx
                       /\ ReadNo <= ReadTx.len
                       /\ C.araddr = BeatAddr(ReadTx, ReadNo)
    /\ rvalid_q => /\ rd # NoTx
                   /\ inport_rlast_o <=> rdone = rd.len

\* Every read of ETH_RX gives the master the next byte of the receive FIFO:
\* the pop strobe comes exactly once per read, and in time for the next, and
\* the byte waits for a master that is not ready for it.
RxInOrder ==
    rvalid_q /\ Reg(BeatAddr(rd, rdone)) = ETH_RX
      => rd_data_q = (rxreads - 1) % ByteMod

\* Every write of ETH_TX pushes its own data into the transmit FIFO, once.
TxPushed ==
    /\ txowed = 1 <=> tx_wr_en
    /\ tx_wr_en => wr_data_q = txdata

\* A burst the master asks for is accepted and completed, whatever else it
\* asks for: reads do not starve writes.
Served ==
    /\ m_aw # NoTx ~> wr # NoTx
    /\ wr # NoTx ~> wr = NoTx
    /\ m_ar # NoTx ~> rd # NoTx
    /\ rd # NoTx ~> rd = NoTx

=============================================================================
