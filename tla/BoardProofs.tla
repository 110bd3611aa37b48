---------------------------- MODULE BoardProofs ----------------------------
(***************************************************************************)
(* Proofs about the board's GPIO block and about main(), which looks at the *)
(* button and drives the LEDs and the reboot request through it.  The block *)
(* implements GpioAbs, for every width of its registers and every set of    *)
(* addresses the bus may write to.  main() keeps its types, and a press in  *)
(* time stops a delayed boot, for every delay, blink rate and timer width.  *)
(***************************************************************************)
EXTENDS Gpio, MainLoop, TLAPS

\* The inductive invariant: an address is never held without its data, nor
\* data without its address, so that cfg_wdata_i is the word of the write the
\* registers are latched on.
GpioInv == GpioTypeOK /\ ~s_awvalid_q /\ ~s_wvalid_q

\* The upper bits of an address are dropped.
LEMMA RegInRange == \A a \in Nat : Reg(a) \in 0 .. RegMod - 1
  BY RegModAssumption DEF Reg

\* Every address names a register or none.
LEMMA RegNameKnown ==
    ASSUME NEW a \in Nat
    PROVE  RegName(a) \in RegNames /\ RegName(a) \in Abs!AbsRegs
<1>1. CASE a > 12
  BY <1>1 DEF RegName, RegNames, Names, Abs!AbsRegs
<1>2. CASE a \in 0 .. 12
  <2>1. a = 0 \/ a = 1 \/ a = 2 \/ a = 3 \/ a = 4 \/ a = 5 \/ a = 6 \/ a = 7
        \/ a = 8 \/ a = 9 \/ a = 10 \/ a = 11 \/ a = 12
    BY <1>2
  <2>2. QED
    BY <2>1 DEF RegName, RegNames, Names, Abs!AbsRegs
<1>3. QED
  BY <1>1, <1>2

\* What the bus does in a cycle, by Cycle.
CycleOK(c) ==
    /\ c.awvalid \in BOOLEAN /\ c.wvalid = c.awvalid
    /\ c.awaddr \in Nat /\ c.wdata \in Word
    /\ c.arvalid \in BOOLEAN /\ c.bready \in BOOLEAN /\ c.rready \in BOOLEAN

\* Every step is a cycle.
LEMMA NextIsTick ==
    ASSUME GpioNext
    PROVE  \E c, pins : CycleOK(c) /\ pins \in Word /\ GpioTick(c, pins)
<1>1. PICK pins \in Word, rr \in BOOLEAN :
          \/ ~bvalid_q /\ \E a \in Addrs, w \in Word : Write(a, w, rr, pins)
          \/ \E reads, br \in BOOLEAN : NoWrite(reads, br, rr, pins)
  BY DEF GpioNext, Readiness
<1>2. CASE \E a \in Addrs, w \in Word : Write(a, w, rr, pins)
  <2>1. PICK a \in Addrs, w \in Word : Write(a, w, rr, pins)
    BY <1>2
  <2>2. CycleOK(Cycle(TRUE, a, w, FALSE, TRUE, rr))
    BY GpioAssumption DEF CycleOK, Cycle
  <2>3. QED
    BY <2>1, <2>2 DEF Write
<1>3. CASE \E reads, br \in BOOLEAN : NoWrite(reads, br, rr, pins)
  <2>1. PICK reads \in BOOLEAN, br \in BOOLEAN : NoWrite(reads, br, rr, pins)
    BY <1>3
  <2>2. CycleOK(Cycle(FALSE, 0, {}, reads, br, rr))
    BY DEF CycleOK, Cycle, Word
  <2>3. QED
    BY <2>1, <2>2 DEF NoWrite
<1>4. QED
  BY <1>1, <1>2, <1>3

\* A write that is accepted brings its own word with it.
LEMMA WriteFacts ==
    ASSUME GpioInv, NEW c, CycleOK(c)
    PROVE  /\ write_en_w(c) \in BOOLEAN
           /\ write_en_w(c) => c.wvalid /\ cfg_wready_o(c)
           /\ WriteReg(c) \in RegNames /\ WriteReg(c) \in Abs!AbsRegs
<1>1. write_en_w(c) => c.wvalid /\ cfg_wready_o(c)
  BY DEF GpioInv, write_en_w, wr_data_accepted_w
<1>2. wr_addr_w(c) \in Nat
  BY RegInRange, RegModAssumption
  DEF GpioInv, CycleOK, wr_addr_w, GpioTypeOK, LiteTypeOK
<1>3. WriteReg(c) \in RegNames /\ WriteReg(c) \in Abs!AbsRegs
  BY <1>2, RegNameKnown DEF WriteReg, RegNames, Abs!AbsRegs
<1>4. write_en_w(c) \in BOOLEAN
  BY DEF write_en_w
<1>5. QED
  BY <1>1, <1>3, <1>4

\* A cycle preserves the invariant.
LEMMA TickInv ==
    ASSUME GpioInv, NEW c, CycleOK(c), NEW pins \in Word, GpioTick(c, pins)
    PROVE  GpioInv'
<1>1. ~s_awvalid_q' /\ ~s_wvalid_q'
  BY DEF GpioInv, CycleOK, GpioTick, LiteTick, SplitTick, wr_data_accepted_w,
         wr_cmd_accepted_w, cfg_awready_o, cfg_wready_o
<1>2. LiteTypeOK'
  <2>1. wr_addr_q' \in 0 .. RegMod - 1
    BY RegInRange DEF GpioInv, GpioTypeOK, LiteTypeOK, CycleOK, GpioTick, LiteTick,
                      SplitTick
  <2>2. rvalid_q' \in BOOLEAN /\ bvalid_q' \in BOOLEAN
    BY DEF GpioTick, LiteTick, ResponseTick
  <2>3. s_awvalid_q' \in BOOLEAN /\ s_wvalid_q' \in BOOLEAN
    BY DEF GpioTick, LiteTick, SplitTick, GpioInv
  <2>4. QED
    BY <2>1, <2>2, <2>3 DEF LiteTypeOK
<1>3. /\ wr_data_q' \in Word
      /\ gpio_direction_output_q' \in Word /\ gpio_int_mask_enable_q' \in Word
      /\ gpio_int_level_active_high_q' \in Word
      /\ gpio_int_mode_edge_q' \in Word
      /\ boot_spi_adr_q' \in SUBSET AdrBits /\ reboot_q' \in BOOLEAN
  <2>1. /\ wr_data_q' \in Word
        /\ gpio_direction_output_q' \in Word /\ gpio_int_mask_enable_q' \in Word
        /\ gpio_int_level_active_high_q' \in Word
        /\ gpio_int_mode_edge_q' \in Word
        /\ boot_spi_adr_q' \in SUBSET AdrBits
    BY DEF GpioInv, GpioTypeOK, CycleOK, GpioTick, LatchTick, Latched
  <2>2. reboot_q' \in BOOLEAN
    <3>1. reboot_q \in BOOLEAN
      BY DEF GpioInv, GpioTypeOK
    <3>2. reboot_q' = IF WriteReg(c) = "REBOOT_ADR"
                        THEN RebootBit \in c.wdata ELSE reboot_q
      BY DEF GpioTick, LatchTick
    <3>3. CASE WriteReg(c) = "REBOOT_ADR"
      <4>1. reboot_q' = (RebootBit \in c.wdata)
        BY <3>2, <3>3
      <4>2. QED
        BY <4>1
    <3>4. CASE WriteReg(c) # "REBOOT_ADR"
      <4>1. reboot_q' = reboot_q
        BY <3>2, <3>4, Zenon
      <4>2. QED
        BY <3>1, <4>1
    <3>5. QED
      BY <3>3, <3>4
  <2>3. QED
    BY <2>1, <2>2
<1>4. wr_q' \in {"OUTPUT", "OUTPUT_SET", "OUTPUT_CLR", "INT_SET", "INT_CLR",
                 "none"}
  BY DEF GpioTick, StrobeTick, wr_q_next
<1>5. /\ output_q' \in Word /\ input_ms' \in Word /\ input_q' \in Word
      /\ input_last_q' \in Word /\ interrupt_raw_q' \in Word
      /\ intr_q' \in BOOLEAN
  BY DEF GpioInv, GpioTypeOK, GpioTick, PinTick, output_next_r, interrupt_raw_r,
         level_active_w, edge_active_w, active_low_w, Xor, Word
<1>6. cmd' \in RegNames \X Word
  BY WriteFacts DEF GpioTick, CycleOK, Word
<1>7. QED
  BY <1>1, <1>2, <1>3, <1>4, <1>5, <1>6 DEF GpioInv, GpioTypeOK

\* A cycle is a step of the abstract registers.
LEMMA TickRefines ==
    ASSUME GpioInv, NEW c, CycleOK(c), NEW pins \in Word, GpioTick(c, pins),
           GpioInv'
    PROVE  Abs!AbsNext
<1> DEFINE reg == WriteReg(c)
           w == IF write_en_w(c) THEN c.wdata ELSE {}
<1>1. reg \in Abs!AbsRegs /\ w \in Abs!Word
  BY WriteFacts DEF CycleOK, Word, Abs!Word
<1>2. reg # "none" => wr_data_q' = w /\ w = c.wdata
  BY WriteFacts DEF WriteReg, GpioTick, LatchTick
<1>3. cmd' = <<reg, w>>
  BY DEF GpioTick
<1>4. /\ gpio_direction_output_q' =
           Abs!Written("DIRECTION", reg, w, gpio_direction_output_q)
      /\ gpio_int_mask_enable_q' =
           Abs!Written("INT_MASK", reg, w, gpio_int_mask_enable_q)
      /\ gpio_int_level_active_high_q' =
           Abs!Written("INT_LEVEL", reg, w, gpio_int_level_active_high_q)
      /\ gpio_int_mode_edge_q' =
           Abs!Written("INT_MODE", reg, w, gpio_int_mode_edge_q)
      /\ boot_spi_adr_q' =
           Abs!Written("BOOT_SPI_ADR", reg, w \cap AdrBits, boot_spi_adr_q)
      /\ reboot_q' = Abs!Written("REBOOT_ADR", reg, RebootBit \in w, reboot_q)
  BY <1>2 DEF GpioInv, GpioTypeOK, GpioTick, LatchTick, Latched, Abs!Written
<1>5. output_next_r' = Abs!OutputAfter(reg, w, output_next_r)
  <2>1. output_q' = output_next_r
    BY DEF GpioTick, PinTick
  <2>2. wr_q' = IF reg \in {"OUTPUT", "OUTPUT_SET", "OUTPUT_CLR", "INT_SET",
                            "INT_CLR"} THEN reg ELSE "none"
    BY DEF GpioTick, StrobeTick, wr_q_next
  <2>3. output_next_r' =
          CASE wr_q' = "OUTPUT_SET" -> output_q' \cup wr_data_q'
            [] wr_q' = "OUTPUT_CLR" -> output_q' \ wr_data_q'
            [] wr_q' = "OUTPUT" -> wr_data_q'
            [] OTHER -> output_q'
    BY DEF output_next_r
  <2>4. QED
    BY <1>2, <2>1, <2>2, <2>3 DEF Abs!OutputAfter, Abs!Written
<1>6. Pending' = Abs!StatusAfter(reg, w, Pending \cup Active)
  <2>1. interrupt_raw_q' = Pending \cup Active
    BY DEF GpioTick, PinTick, interrupt_raw_r, Pending, Active
  <2>2. wr_q' = IF reg \in {"OUTPUT", "OUTPUT_SET", "OUTPUT_CLR", "INT_SET",
                            "INT_CLR"} THEN reg ELSE "none"
    BY DEF GpioTick, StrobeTick, wr_q_next
  <2>3. Pending' =
          CASE wr_q' = "INT_SET" -> interrupt_raw_q' \cup wr_data_q'
            [] wr_q' = "INT_CLR" -> interrupt_raw_q' \ wr_data_q'
            [] OTHER -> interrupt_raw_q'
    BY DEF Pending
  <2>4. QED
    BY <1>2, <2>1, <2>2, <2>3 DEF Abs!StatusAfter
<1>7. Active' \in Abs!Word
  BY DEF GpioInv, GpioTypeOK, Active, level_active_w, edge_active_w, active_low_w,
         Xor, Word, Abs!Word
<1>8. Abs!AbsStep(reg, w)
  BY <1>3, <1>4, <1>5, <1>6, <1>7 DEF Abs!AbsStep
<1>9. QED
  BY <1>1, <1>8 DEF Abs!AbsNext

\* The invariant holds throughout.
THEOREM Invariance == GpioSpec => []GpioInv
<1>1. GpioInit => GpioInv
  <2>1. 0 \in 0 .. RegMod - 1
    BY RegModAssumption
  <2>2. GpioInit => LiteTypeOK /\ ~s_awvalid_q /\ ~s_wvalid_q
    BY <2>1 DEF GpioInit, LiteInit, LiteTypeOK
  <2>3. {} \in Word
    BY DEF Word
  <2>4. GpioInit => cmd \in RegNames \X Word
    BY <2>3 DEF GpioInit, RegNames
  <2>5. QED
    BY <2>2, <2>3, <2>4 DEF GpioInit, GpioInv, GpioTypeOK
<1>2. GpioInv /\ [GpioNext]_gpioVars => GpioInv'
  <2>1. ASSUME GpioInv, GpioNext PROVE GpioInv'
    BY <2>1, NextIsTick, TickInv
  <2>2. ASSUME GpioInv, UNCHANGED gpioVars PROVE GpioInv'
    BY <2>2 DEF gpioVars, lite, GpioInv, GpioTypeOK, LiteTypeOK
  <2>3. QED
    BY <2>1, <2>2
<1>3. QED
  BY <1>1, <1>2, PTL DEF GpioSpec

\* gpio.v implements the registers of GpioAbs: whatever the bus and the pins
\* do, each accepted write acts exactly once, and no interrupt is lost.
THEOREM Refinement == GpioSpec => Refines
<1>1. GpioInit => Abs!AbsInit
  BY DEF GpioInit, Abs!AbsInit, output_next_r, Pending, Active, level_active_w,
         edge_active_w, active_low_w, Xor, Abs!Word
<1>2. GpioInv /\ GpioInv' /\ [GpioNext]_gpioVars => [Abs!AbsNext]_(Abs!absVars)
  <2>1. ASSUME GpioInv, GpioInv', GpioNext PROVE Abs!AbsNext
    BY <2>1, NextIsTick, TickRefines
  <2>2. ASSUME UNCHANGED gpioVars PROVE UNCHANGED Abs!absVars
    BY <2>2 DEF gpioVars, Abs!absVars, output_next_r, Pending, Active,
                level_active_w, edge_active_w, active_low_w
  <2>3. QED
    BY <2>1, <2>2
<1>3. QED
  BY <1>1, <1>2, Invariance, PTL DEF GpioSpec, Refines, Abs!AbsSpec

\* The type invariant of the block.
THEOREM GpioTypeCorrect == GpioSpec => []GpioTypeOK
<1>1. GpioInv => GpioTypeOK
  BY DEF GpioInv
<1>2. QED
  BY <1>1, Invariance, PTL

-----------------------------------------------------------------------------
(* main().                                                                 *)

\* The inductive invariant of the boot delay.  The request of the delayed boot
\* is only made late; nobody asks before; and while the timer is about to be
\* compared with the button down, the timer is at most a millisecond past the
\* press, since the button was up when it was looked at in this round.
DelayInv ==
    /\ pc \in {"start", "held"} => ~asked
    /\ pc \in {"wait", "timer"} /\ asked => timer > AUTO_BOOT_DELAY
    /\ pc = "timer" /\ button /\ downSince < AUTO_BOOT_DELAY =>
         timer <= downSince \/ (timer = downSince + 1 /\ ~round)
    /\ PressStopsDelay

-----------------------------------------------------------------------------
\* Type correctness.

\* A remainder is below a modulus that is not zero.
LEMMA ModRange ==
    ASSUME NEW a \in Int, NEW d \in Nat \ {0}
    PROVE  a % d \in 0 .. d - 1
  BY Z3

\* What the type invariant says of the numbers.
LEMMA Ranges ==
    ASSUME TypeOK
    PROVE  /\ timer \in 0 .. TimerMod - 1 /\ LastUpdate \in 0 .. TimerMod - 1
           /\ LastTimerNow \in 0 .. TimerMod - 1 /\ downSince \in 0 .. TimerMod - 1
           /\ UptimeMillsecs \in 0 .. WordMod - 1 /\ since \in 0 .. WordMod - 1
           /\ TimerMod \in Nat \ {0} /\ WordMod \in Nat \ {0}
  BY LoopAssumption DEF TypeOK

\* The board keeps the types.
LEMMA BoardType ==
    ASSUME TypeOK, Press \/ Release \/ PhyChange \/ Tick \/ Reconfigure
    PROVE  TypeOK'
<1> USE LoopAssumption DEF TypeOK, Loop, board, net, leds, clock
<1>1. CASE Press
  <2>1. button' \in BOOLEAN
    BY <1>1, Zenon DEF Press
  <2>2. downSince' \in 0 .. TimerMod - 1
    BY ONLY <1>1, Ranges, TypeOK DEF Press
  <2>3. UNCHANGED <<pc, asked, gAutoBoot, phy, timer, round, since, net, leds, clock>>
    BY <1>1 DEF Press
  <2>4. QED
    BY <2>1, <2>2, <2>3
<1>2. CASE Release
  <2>1. button' \in BOOLEAN
    BY <1>2, Zenon DEF Release
  <2>2. downSince' \in 0 .. TimerMod - 1
    BY <1>2 DEF Release
  <2>3. UNCHANGED <<pc, asked, gAutoBoot, phy, timer, round, since, net, leds, clock>>
    BY <1>2 DEF Release
  <2>4. QED
    BY <2>1, <2>2, <2>3
<1>3. CASE PhyChange
  BY <1>3 DEF PhyChange
<1>4. CASE Tick
  <2>1. timer' \in 0 .. TimerMod - 1 /\ since' \in 0 .. WordMod - 1
    <3>1. timer + 1 \in Int /\ since + 1 \in Int
      BY ONLY Ranges, TypeOK
    <3>2. (timer + 1) % TimerMod \in 0 .. TimerMod - 1
      BY ONLY <3>1, Ranges, TypeOK, ModRange
    <3>3. (since + 1) % WordMod \in 0 .. WordMod - 1
      BY ONLY <3>1, Ranges, TypeOK, ModRange
    <3>4. QED
      BY ONLY <1>4, <3>2, <3>3 DEF Tick
  <2>2. round' \in BOOLEAN
    BY <1>4, Zenon DEF Tick
  <2>3. UNCHANGED <<pc, asked, gAutoBoot, button, phy, downSince, net, leds, clock>>
    BY <1>4 DEF Tick
  <2>4. QED
    BY <2>1, <2>2, <2>3
<1>5. CASE Reconfigure
  BY <1>5 DEF Reconfigure
<1>6. QED
  BY <1>1, <1>2, <1>3, <1>4, <1>5

\* The program keeps the types.
LEMMA CPUType ==
    ASSUME TypeOK, CPU
    PROVE  TypeOK'
<1> USE LoopAssumption DEF TypeOK, Loop, board, net, leds, clock
<1>1. CASE Start
  BY <1>1 DEF Start
<1>2. CASE Held
  BY <1>2 DEF Held
<1>3. CASE WaitButton
  BY <1>3 DEF WaitButton
<1>4. CASE WaitTimer
  BY <1>4 DEF WaitTimer, DelayOver
<1>5. CASE LoopButton
  BY <1>5 DEF LoopButton
<1>6. CASE UpdateLEDs
  <2>1. NextLed \subseteq LedBits
    BY DEF NextLed, LedBits
  <2>2. QED
    BY <1>6, <2>1 DEF UpdateLEDs
<1>7. CASE NetifPoll
  <2>1. Uptime \in 0 .. WordMod - 1
    <3>1. UptimeMillsecs + (timer - LastTimerNow) \in Int
      BY ONLY Ranges, TypeOK
    <3>2. QED
      BY ONLY <3>1, Ranges, TypeOK, ModRange DEF Uptime
  <2>2. LastTimerNow' \in 0 .. TimerMod - 1 /\ UptimeMillsecs' \in 0 .. WordMod - 1
        /\ since' \in 0 .. WordMod - 1
    BY ONLY <1>7, <2>1, Ranges, TypeOK DEF NetifPoll
  <2>3. connected' \in BOOLEAN /\ ip' \in BOOLEAN
    BY <1>7, Zenon DEF NetifPoll
  <2>4. pc' = "status" /\ UNCHANGED <<asked, gAutoBoot, button, phy, timer, round,
                                     downSince, gEthStatus, netifUp, leds>>
    BY <1>7 DEF NetifPoll
  <2>5. QED
    BY <2>2, <2>3, <2>4
<1>8. CASE EthStatus
  BY <1>8 DEF EthStatus
<1>9. CASE Command
  BY <1>9 DEF Command
<1>10. QED
  BY <1>1, <1>2, <1>3, <1>4, <1>5, <1>6, <1>7, <1>8, <1>9 DEF CPU

\* Every value stays in its range, the timer and the up time in that of their
\* words (main.c:224-290).
THEOREM TypeCorrect == Spec => []TypeOK
<1>1. Init => TypeOK
  <2> SUFFICES ASSUME Init PROVE TypeOK
    OBVIOUS
  <2>1. {button, asked, netifUp, connected, ip, round} \subseteq BOOLEAN
    BY Zenon DEF Init
  <2>2. /\ {timer, LastUpdate, LastTimerNow, downSince} \subseteq 0 .. TimerMod - 1
        /\ {UptimeMillsecs, since} \subseteq 0 .. WordMod - 1
    BY LoopAssumption DEF Init
  <2>3. QED
    BY <2>1, <2>2 DEF Init, TypeOK
<1>2. TypeOK /\ [Next]_vars => TypeOK'
  <2>1. ASSUME TypeOK, UNCHANGED vars PROVE TypeOK'
    BY <2>1 DEF TypeOK, vars, board, net, leds, clock
  <2>2. QED
    BY <2>1, BoardType, CPUType DEF Next
<1>3. QED
  BY <1>1, <1>2, PTL DEF Spec

-----------------------------------------------------------------------------
\* The boot delay.

\* The autoboot decision keeps the invariant.
LEMMA BootDelay ==
    ASSUME TypeOK, DelayInv, Start \/ Held \/ WaitButton \/ WaitTimer
    PROVE  DelayInv'
<1> USE LoopAssumption DEF TypeOK, DelayInv, PressStopsDelay, Loop, board
<1>1. CASE Start
  BY <1>1 DEF Start
<1>2. CASE Held
  BY <1>2 DEF Held, StillHeld
<1>3. CASE WaitButton
  BY <1>3 DEF WaitButton
<1>4. CASE WaitTimer
  <2>1. asked' => timer' > AUTO_BOOT_DELAY
    BY <1>4 DEF WaitTimer, DelayOver
  <2>2. pc' = "wait" /\ UNCHANGED <<button, timer, downSince>>
    BY <1>4 DEF WaitTimer
  <2>3. button /\ downSince < AUTO_BOOT_DELAY => timer <= AUTO_BOOT_DELAY
    BY <1>4 DEF WaitTimer
  <2>4. QED
    BY <2>1, <2>2, <2>3
<1>5. QED
  BY <1>1, <1>2, <1>3, <1>4

\* So do the button and the timer.
LEMMA BoardDelay ==
    ASSUME TypeOK, DelayInv, Press \/ Release \/ Tick
    PROVE  DelayInv'
<1> USE LoopAssumption DEF TypeOK, DelayInv, PressStopsDelay, Loop
<1>1. CASE Press
  BY <1>1 DEF Press
<1>2. CASE Release
  BY <1>2 DEF Release
<1>3. CASE Tick
  <2>1. ~asked /\ ~asked' /\ ~round' /\ UNCHANGED <<pc, button, downSince>>
    BY <1>3 DEF Tick
  <2>2. ASSUME pc = "timer", button, downSince < AUTO_BOOT_DELAY
        PROVE  timer' <= downSince + 1
    <3>1. timer <= downSince
      BY <1>3, <2>2 DEF Tick
    <3>2. timer + 1 \in 0 .. TimerMod - 1
      BY <2>2, <3>1
    <3>3. timer' = timer + 1
      BY <1>3, <3>2 DEF Tick
    <3>4. QED
      BY <3>1, <3>3
  <2>3. timer' \in Int
    BY <1>3, ModRange DEF Tick
  <2>4. QED
    BY <2>1, <2>2, <2>3
<1>4. QED
  BY <1>1, <1>2, <1>3

\* A button that goes down before the delay is over and stays down keeps main()
\* from asking for the reboot, whatever the delay and however presses, ticks and
\* the two looks of the wait loop interleave (main.c:234-241).
THEOREM PressStopsDelayHolds == Spec => []PressStopsDelay
<1>1. Init => DelayInv
  BY DEF Init, DelayInv, PressStopsDelay
<1>2. TypeOK /\ DelayInv /\ [Next]_vars => DelayInv'
  <2> SUFFICES ASSUME TypeOK, DelayInv, [Next]_vars PROVE DelayInv'
    OBVIOUS
  <2>1. CASE CPU
    <3>1. CASE LoopButton \/ UpdateLEDs \/ NetifPoll \/ EthStatus \/ Command
      <4>1. pc' \in Loop
        BY <3>1 DEF LoopButton, UpdateLEDs, NetifPoll, EthStatus, Command, Loop
      <4>2. QED
        BY <4>1 DEF DelayInv, PressStopsDelay, Loop
    <3>2. QED
      BY <2>1, <3>1, BootDelay DEF CPU
  <2>2. CASE PhyChange
    BY <2>2 DEF PhyChange, DelayInv, PressStopsDelay
  <2>3. CASE Reconfigure
    BY <2>3 DEF Reconfigure, DelayInv, PressStopsDelay
  <2>4. CASE UNCHANGED vars
    BY <2>4 DEF vars, board, DelayInv, PressStopsDelay
  <2>5. QED
    BY <2>1, <2>2, <2>3, <2>4, BoardDelay DEF Next
<1>3. DelayInv => PressStopsDelay
  BY DEF DelayInv
<1>4. QED
  BY <1>1, <1>2, <1>3, TypeCorrect, PTL DEF Spec

=============================================================================
