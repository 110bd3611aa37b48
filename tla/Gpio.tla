-------------------------------- MODULE Gpio --------------------------------
(***************************************************************************)
(* The GPIO block, fpga/gpio.v, cycle by cycle: its registers, the write    *)
(* strobes that act a cycle after the write, the input synchroniser and the *)
(* interrupt logic.  It implements GpioAbs.  rd_data_q, which only delays   *)
(* data_r on its way to the bus, is left out.                               *)
(*                                                                         *)
(* A write's address and data arrive together, as AxiBus!FlowControl shows  *)
(* of the converter in front: the block latches some registers from         *)
(* cfg_wdata_i, which is the right word only then.                          *)
(***************************************************************************)
EXTENDS AxiLite, Sequences

CONSTANTS
    Bits,      \* the bits of a register: a word is the set of its ones
    RebootBit, \* bit 0
    AdrBits,   \* bits 0 to 23: what BOOT_SPI_ADR keeps
    Addrs      \* the addresses the bus writes to

ASSUME GpioAssumption ==
    RebootBit \in Bits /\ AdrBits \subseteq Bits /\ Addrs \subseteq Nat

VARIABLES
    wr_data_q,
    wr_q,     \* the register whose write strobe (..._wr_q) is up, or "none"
    gpio_direction_output_q, gpio_int_mask_enable_q,
    gpio_int_level_active_high_q, gpio_int_mode_edge_q,
    boot_spi_adr_q, reboot_q,
    output_q, input_ms, input_q, input_last_q, interrupt_raw_q, intr_q,
    cmd       \* the write accepted in the last cycle, if any (history)

gpioVars == <<lite, wr_data_q, wr_q, gpio_direction_output_q,
              gpio_int_mask_enable_q, gpio_int_level_active_high_q,
              gpio_int_mode_edge_q, boot_spi_adr_q, reboot_q, output_q, input_ms,
              input_q, input_last_q, interrupt_raw_q, intr_q, cmd>>

Word == SUBSET Bits

Names == <<"DIRECTION", "INPUT", "OUTPUT", "OUTPUT_SET", "OUTPUT_CLR",
           "INT_MASK", "INT_SET", "INT_CLR", "INT_STATUS", "INT_LEVEL",
           "INT_MODE", "BOOT_SPI_ADR", "REBOOT_ADR">>

RegNames == {"none"} \cup {Names[i] : i \in DOMAIN Names}

\* The register at a word address.
RegName(a) == IF a + 1 \in DOMAIN Names THEN Names[a + 1] ELSE "none"

GpioTypeOK ==
    /\ LiteTypeOK
    /\ wr_data_q \in Word
    /\ wr_q \in {"OUTPUT", "OUTPUT_SET", "OUTPUT_CLR", "INT_SET", "INT_CLR",
                 "none"}
    /\ gpio_direction_output_q \in Word /\ gpio_int_mask_enable_q \in Word
    /\ gpio_int_level_active_high_q \in Word /\ gpio_int_mode_edge_q \in Word
    /\ boot_spi_adr_q \in SUBSET AdrBits /\ reboot_q \in BOOLEAN
    /\ output_q \in Word /\ input_ms \in Word /\ input_q \in Word
    /\ input_last_q \in Word /\ interrupt_raw_q \in Word /\ intr_q \in BOOLEAN
    /\ cmd \in RegNames \X Word

\* Reset.
GpioInit ==
    /\ LiteInit /\ wr_data_q = {} /\ wr_q = "none"
    /\ gpio_direction_output_q = {} /\ gpio_int_mask_enable_q = {}
    /\ gpio_int_level_active_high_q = {} /\ gpio_int_mode_edge_q = {}
    /\ boot_spi_adr_q = {} /\ reboot_q = FALSE
    /\ output_q = {} /\ input_ms = {} /\ input_q = {} /\ input_last_q = {}
    /\ interrupt_raw_q = {} /\ intr_q = FALSE
    /\ cmd = <<"none", {}>>

-----------------------------------------------------------------------------

\* The register written in this cycle.
WriteReg(c) == IF write_en_w(c) THEN RegName(wr_addr_w(c)) ELSE "none"

\* A register latched from the bus.
Latched(r, c, old) == IF WriteReg(c) = r THEN c.wdata ELSE old

LatchTick(c) ==
    /\ wr_data_q' = IF c.wvalid /\ cfg_wready_o(c) THEN c.wdata ELSE wr_data_q
    /\ gpio_direction_output_q' =
         Latched("DIRECTION", c, gpio_direction_output_q)
    /\ gpio_int_mask_enable_q' = Latched("INT_MASK", c, gpio_int_mask_enable_q)
    /\ gpio_int_level_active_high_q' =
         Latched("INT_LEVEL", c, gpio_int_level_active_high_q)
    /\ gpio_int_mode_edge_q' = Latched("INT_MODE", c, gpio_int_mode_edge_q)
    /\ boot_spi_adr_q' = Latched("BOOT_SPI_ADR", c, boot_spi_adr_q) \cap AdrBits
    /\ reboot_q' = IF WriteReg(c) = "REBOOT_ADR"
                     THEN RebootBit \in c.wdata ELSE reboot_q

\* The write strobes that are used: those of the others drive nothing.
wr_q_next(c) ==
    IF WriteReg(c) \in {"OUTPUT", "OUTPUT_SET", "OUTPUT_CLR", "INT_SET",
                        "INT_CLR"}
      THEN WriteReg(c) ELSE "none"

StrobeTick(c) == wr_q' = wr_q_next(c)

output_next_r ==
    CASE wr_q = "OUTPUT_SET" -> output_q \cup wr_data_q
      [] wr_q = "OUTPUT_CLR" -> output_q \ wr_data_q
      [] wr_q = "OUTPUT" -> wr_data_q
      [] OTHER -> output_q

\* Where two words differ.
Xor(a, b) == (a \ b) \cup (b \ a)

active_low_w == Bits \ gpio_int_level_active_high_q
level_active_w ==
    Xor(input_q, active_low_w) \cap (Bits \ gpio_int_mode_edge_q)
edge_active_w ==
    (Xor(input_last_q, input_q) \cap Xor(input_q, active_low_w))
      \cap gpio_int_mode_edge_q

\* Mutant: an acknowledgement also clears what is raised in its cycle.
interrupt_raw_r_AckLast ==
    LET raised == interrupt_raw_q \cup level_active_w \cup edge_active_w
    IN  CASE wr_q = "INT_CLR" -> raised \ wr_data_q
          [] wr_q = "INT_SET" -> raised \cup wr_data_q
          [] OTHER -> raised

\* Acknowledged, then raised, then set by software.
interrupt_raw_r ==
    (IF wr_q = "INT_CLR" THEN interrupt_raw_q \ wr_data_q ELSE interrupt_raw_q)
      \cup level_active_w \cup edge_active_w
      \cup (IF wr_q = "INT_SET" THEN wr_data_q ELSE {})

PinTick(pins) ==
    /\ input_ms' = pins /\ input_q' = input_ms /\ input_last_q' = input_q
    /\ output_q' = output_next_r
    /\ interrupt_raw_q' = interrupt_raw_r
    /\ intr_q' = (interrupt_raw_q \cap gpio_int_mask_enable_q # {})

\* The read multiplexer.
data_r(reg) ==
    CASE reg = "DIRECTION" -> gpio_direction_output_q
      [] reg = "INPUT" -> input_q
      [] reg = "OUTPUT" -> output_q
      [] reg = "INT_MASK" -> gpio_int_mask_enable_q
      [] reg = "INT_STATUS" -> interrupt_raw_q
      [] reg = "INT_LEVEL" -> gpio_int_level_active_high_q
      [] reg = "INT_MODE" -> gpio_int_mode_edge_q
      [] reg = "BOOT_SPI_ADR" -> boot_spi_adr_q
      [] OTHER -> {}

-----------------------------------------------------------------------------

\* What the bus does in a cycle: writes w to address a, if it writes; reads, if
\* it reads; and takes the responses it is ready for.
Cycle(writes, a, w, reads, br, rr) ==
    [awvalid |-> writes, awaddr |-> a, wvalid |-> writes, wdata |-> w,
     arvalid |-> reads, bready |-> br, rready |-> rr]

GpioTick(c, pins) ==
    /\ LiteTick(c) /\ LatchTick(c) /\ StrobeTick(c) /\ PinTick(pins)
    /\ cmd' = <<WriteReg(c), IF write_en_w(c) THEN c.wdata ELSE {}>>

Write(a, w, rr, pins) == GpioTick(Cycle(TRUE, a, w, FALSE, TRUE, rr), pins)

\* A write that is presented together with a read waits.
NoWrite(reads, br, rr, pins) ==
    GpioTick(Cycle(FALSE, 0, {}, reads, br, rr), pins)

\* Whether the bus is ready for a response matters when there is one.
Readiness(valid) == IF valid THEN BOOLEAN ELSE {TRUE}

GpioNext ==
    \E pins \in Word, rr \in Readiness(rvalid_q) :
        \/ ~bvalid_q /\ \E a \in Addrs, w \in Word : Write(a, w, rr, pins)
        \/ \E reads \in BOOLEAN, br \in Readiness(bvalid_q) :
             NoWrite(reads, br, rr, pins)

GpioSpec == GpioInit /\ [][GpioNext]_gpioVars

-----------------------------------------------------------------------------
(* Properties.                                                             *)

\* The pending interrupts and those that become pending in this cycle.
Pending == CASE wr_q = "INT_SET" -> interrupt_raw_q \cup wr_data_q
             [] wr_q = "INT_CLR" -> interrupt_raw_q \ wr_data_q
             [] OTHER -> interrupt_raw_q
Active == level_active_w \cup edge_active_w

\* The registers as GpioAbs has them: a write counts from the moment it is
\* accepted, though its strobe acts a cycle later.
Abs == INSTANCE GpioAbs WITH
    direction <- gpio_direction_output_q,
    output <- output_next_r,
    int_mask <- gpio_int_mask_enable_q,
    int_level <- gpio_int_level_active_high_q,
    int_mode <- gpio_int_mode_edge_q,
    int_status <- Pending,
    boot_spi_adr <- boot_spi_adr_q,
    reboot <- reboot_q,
    active <- Active

\* The block implements the registers the firmware relies on: no write is lost
\* or acts twice, and no interrupt is lost, one raised in the very cycle of an
\* acknowledgement least of all.
Refines == Abs!AbsSpec

=============================================================================
