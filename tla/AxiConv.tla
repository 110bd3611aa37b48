------------------------------- MODULE AxiConv -------------------------------
(***************************************************************************)
(* The AXI4 to AXI4-Lite converter, fpga/axi4_axi4lite_conv.v: bursts on    *)
(* its inport become single accesses on its outport.                        *)
(*                                                                         *)
(* i is the record of the signals the master drives on the inport, o of     *)
(* those the AXI4-Lite side drives on the outport; both are of the current  *)
(* clock cycle.  A wire is an operator of them, a register a variable, and  *)
(* ConvTick is a rising edge of the clock.  Addresses count words.  The ids *)
(* and wvalid_mask_q, which no other signal depends on, are left out.       *)
(***************************************************************************)
EXTENDS Integers

CONSTANTS
    CntMod,   \* 2^8: the width of a burst length and of the beat counters
    AddrMod   \* 2^30: words in the address space

ASSUME WidthAssumption ==
    /\ CntMod \in Nat /\ CntMod >= 2
    /\ AddrMod \in Nat /\ AddrMod >= 2

VARIABLES
    awvalid_mask_q, awvalid_q, awaddr_q, awcnt_q, awlen_q, awburst_q, blast_q,
    arvalid_mask_q, arvalid_q, araddr_q, arcnt_q, arlen_q, arburst_q

convWrite == <<awvalid_mask_q, awvalid_q, awaddr_q, awcnt_q, awlen_q,
               awburst_q, blast_q>>
convRead == <<arvalid_mask_q, arvalid_q, araddr_q, arcnt_q, arlen_q, arburst_q>>

Bursts == {"FIXED", "INCR", "WRAP"}

ConvTypeOK ==
    /\ awvalid_mask_q \in BOOLEAN /\ awvalid_q \in BOOLEAN
    /\ blast_q \in BOOLEAN
    /\ awaddr_q \in 0 .. AddrMod - 1
    /\ awcnt_q \in 0 .. CntMod - 1 /\ awlen_q \in 0 .. CntMod - 1
    /\ awburst_q \in Bursts
    /\ arvalid_mask_q \in BOOLEAN /\ arvalid_q \in BOOLEAN
    /\ araddr_q \in 0 .. AddrMod - 1
    /\ arcnt_q \in 0 .. CntMod - 1 /\ arlen_q \in 0 .. CntMod - 1
    /\ arburst_q \in Bursts

\* Reset.
ConvInit ==
    /\ awvalid_mask_q = FALSE /\ awvalid_q = FALSE /\ awaddr_q = 0
    /\ awcnt_q = 0 /\ awlen_q = 0 /\ awburst_q = "FIXED" /\ blast_q = FALSE
    /\ arvalid_mask_q = FALSE /\ arvalid_q = FALSE /\ araddr_q = 0
    /\ arcnt_q = 0 /\ arlen_q = 0 /\ arburst_q = "FIXED"

-----------------------------------------------------------------------------

\* Words a wrapping burst stays within: its length, for the lengths AXI allows.
WrapWords(len) == IF len \in {0, 1, 3, 7, 15} THEN len + 1 ELSE 16

calculate_addr_next(addr, burst, len) ==
    CASE burst = "FIXED" -> addr
      [] burst = "WRAP" -> (addr - (addr % WrapWords(len)))
                             + ((addr + 1) % WrapWords(len))
      [] OTHER -> (addr + 1) % AddrMod

-----------------------------------------------------------------------------
(* The wires.                                                              *)

\* Mutant: an address is presented before its data.
outport_awvalid_o_Early(i) == (i.awvalid /\ ~awvalid_mask_q) \/ awvalid_q

outport_awvalid_o(i) ==
    \/ i.awvalid /\ i.wvalid /\ ~awvalid_mask_q
    \/ awvalid_q /\ i.wvalid
outport_awaddr_o(i) == IF awvalid_q THEN awaddr_q ELSE i.awaddr
outport_wvalid_o(i) == i.wvalid
outport_arvalid_o(i) == (i.arvalid /\ ~arvalid_mask_q) \/ arvalid_q
outport_araddr_o(i) == IF arvalid_q THEN araddr_q ELSE i.araddr
outport_rready_o(i) == i.rready

\* Mutant: the responses to the beats before the last are not taken.
outport_bready_o_Last(i) == blast_q /\ i.bready

outport_bready_o(i) == ~blast_q \/ i.bready

inport_rvalid_o(o) == o.rvalid

\* Mutant: the counter is compared with the value it has one beat earlier.
inport_rlast_o_Early == arcnt_q <= 1

inport_rlast_o == arcnt_q = 0

inport_bvalid_o(o) == o.bvalid /\ blast_q

\* Mutant: a second address is accepted while a burst is under way.
inport_awready_o_Unmasked(o) == o.awready

inport_awready_o(o) == o.awready /\ ~awvalid_mask_q
inport_wready_o(o) == o.wready
inport_arready_o(o) == o.arready /\ ~arvalid_mask_q

-----------------------------------------------------------------------------
(* The clock edge.                                                         *)

TakesAW(i, o) == i.awvalid /\ inport_awready_o(o)
TakesW(i, o) == i.wvalid /\ inport_wready_o(o)
TakesAR(i, o) == i.arvalid /\ inport_arready_o(o)
GivesB(i, o) == inport_bvalid_o(o) /\ i.bready
GivesR(i, o) == inport_rvalid_o(o) /\ i.rready

\* The accept masks.
MaskTick(i, o) ==
    /\ awvalid_mask_q' = (TakesAW(i, o) \/ (awvalid_mask_q /\ ~GivesB(i, o)))
    /\ arvalid_mask_q' = \/ TakesAR(i, o)
                         \/ arvalid_mask_q /\ ~(GivesR(i, o) /\ inport_rlast_o)

\* A burst is under way and its next access is accepted, or a command is.
ReadTick(i, o) ==
    \/ /\ arvalid_q /\ outport_arvalid_o(i) /\ o.arready
       /\ araddr_q' = calculate_addr_next(araddr_q, arburst_q, arlen_q)
       /\ arvalid_q' = (arcnt_q # 1)
       /\ arcnt_q' = (arcnt_q - 1) % CntMod
       /\ UNCHANGED <<arlen_q, arburst_q>>
    \/ /\ ~(arvalid_q /\ outport_arvalid_o(i) /\ o.arready)
       /\ TakesAR(i, o)
       /\ arvalid_q' = (i.arlen # 0)
       /\ arcnt_q' = i.arlen /\ arlen_q' = i.arlen
       /\ arburst_q' = i.arburst
       /\ araddr_q' = calculate_addr_next(i.araddr, i.arburst, i.arlen)
    \/ /\ ~(arvalid_q /\ outport_arvalid_o(i) /\ o.arready)
       /\ ~TakesAR(i, o)
       /\ UNCHANGED <<arvalid_q, araddr_q, arcnt_q, arlen_q, arburst_q>>

\* Mutant: the count of a burst whose data comes later is one short.
BeatsToCome_OneShort(len) == len

\* Mutant: the counter is a bit wider than the length.
BeatsToCome_Wide(len) == len + 1

\* Beats still to come of a burst whose address came before its data.
BeatsToCome(len) == (len + 1) % CntMod

Continues(i, o) == awvalid_q /\ outport_awvalid_o(i) /\ o.awready

WriteTick(i, o) ==
    \/ /\ Continues(i, o)
       /\ awaddr_q' = calculate_addr_next(awaddr_q, awburst_q, awlen_q)
       /\ awvalid_q' = (awcnt_q # 1)
       /\ blast_q' = (awcnt_q = 1 \/ blast_q)
       /\ awcnt_q' = (awcnt_q - 1) % CntMod
       /\ UNCHANGED <<awlen_q, awburst_q>>
    \/ /\ ~Continues(i, o) /\ TakesAW(i, o)
       /\ awlen_q' = i.awlen /\ awburst_q' = i.awburst
       /\ IF TakesW(i, o)
            THEN /\ awvalid_q' = ~i.wlast /\ blast_q' = i.wlast
                 /\ awcnt_q' = i.awlen
                 /\ awaddr_q' =
                      calculate_addr_next(i.awaddr, i.awburst, i.awlen)
            ELSE /\ awvalid_q' = TRUE /\ blast_q' = FALSE
                 /\ awcnt_q' = BeatsToCome(i.awlen)
                 /\ awaddr_q' = i.awaddr
    \/ /\ ~Continues(i, o) /\ ~TakesAW(i, o)
       /\ blast_q' = (blast_q /\ ~GivesB(i, o))
       /\ UNCHANGED <<awvalid_q, awaddr_q, awcnt_q, awlen_q, awburst_q>>

ConvTick(i, o) == MaskTick(i, o) /\ ReadTick(i, o) /\ WriteTick(i, o)

=============================================================================
