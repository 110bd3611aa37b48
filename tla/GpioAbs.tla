------------------------------- MODULE GpioAbs -------------------------------
(***************************************************************************)
(* What the firmware relies on of the GPIO block: each register holds what  *)
(* the writes so far say, and an interrupt stays pending from the cycle it  *)
(* is raised until it is acknowledged.  Nothing is said of clocks or buses. *)
(***************************************************************************)
CONSTANTS
    Bits,      \* the bits of a register: a word is the set of its ones
    RebootBit, \* bit 0
    AdrBits    \* bits 0 to 23: what BOOT_SPI_ADR keeps

VARIABLES direction, output, int_mask, int_level, int_mode, int_status,
          boot_spi_adr, reboot,
          active,  \* the inputs that raise an interrupt at this moment
          cmd      \* the last step's write: a register, or "none", and a word

absVars == <<direction, output, int_mask, int_level, int_mode, int_status,
             boot_spi_adr, reboot, active, cmd>>

Word == SUBSET Bits

AbsRegs == {"DIRECTION", "INPUT", "OUTPUT", "OUTPUT_SET", "OUTPUT_CLR",
            "INT_MASK", "INT_SET", "INT_CLR", "INT_STATUS", "INT_LEVEL",
            "INT_MODE", "BOOT_SPI_ADR", "REBOOT_ADR", "none"}

AbsTypeOK ==
    /\ direction \in Word /\ output \in Word
    /\ int_mask \in Word /\ int_level \in Word /\ int_mode \in Word
    /\ int_status \in Word
    /\ boot_spi_adr \in SUBSET AdrBits /\ reboot \in BOOLEAN
    /\ active \in Word /\ cmd \in AbsRegs \X Word

AbsInit ==
    /\ direction = {} /\ output = {}
    /\ int_mask = {} /\ int_level = {} /\ int_mode = {} /\ int_status = {}
    /\ boot_spi_adr = {} /\ reboot = FALSE
    /\ active \in Word /\ cmd = <<"none", {}>>

\* Register r after word w is written to register reg.
Written(r, reg, w, old) == IF reg = r THEN w ELSE old

\* The outputs after a write: whole, or only the bits set or cleared.
OutputAfter(reg, w, old) ==
    CASE reg = "OUTPUT_SET" -> old \cup w
      [] reg = "OUTPUT_CLR" -> old \ w
      [] OTHER -> Written("OUTPUT", reg, w, old)

\* The pending interrupts after a write.
StatusAfter(reg, w, old) ==
    CASE reg = "INT_SET" -> old \cup w
      [] reg = "INT_CLR" -> old \ w
      [] OTHER -> old

\* The active interrupts become pending, and w is written to register reg, or
\* reg is no register and nothing is written.
AbsStep(reg, w) ==
    /\ cmd' = <<reg, w>>
    /\ direction' = Written("DIRECTION", reg, w, direction)
    /\ output' = OutputAfter(reg, w, output)
    /\ int_mask' = Written("INT_MASK", reg, w, int_mask)
    /\ int_level' = Written("INT_LEVEL", reg, w, int_level)
    /\ int_mode' = Written("INT_MODE", reg, w, int_mode)
    /\ int_status' = StatusAfter(reg, w, int_status \cup active)
    /\ boot_spi_adr' = Written("BOOT_SPI_ADR", reg, w \cap AdrBits, boot_spi_adr)
    /\ reboot' = Written("REBOOT_ADR", reg, RebootBit \in w, reboot)
    /\ active' \in Word

AbsNext == \E w \in Word, reg \in AbsRegs : AbsStep(reg, w)

AbsSpec == AbsInit /\ [][AbsNext]_absVars

=============================================================================
