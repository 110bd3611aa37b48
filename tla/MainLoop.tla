------------------------------ MODULE MainLoop ------------------------------
(***************************************************************************)
(* main() of fw/pano_ldr/main.c: the autoboot decision at power on, the     *)
(* endless loop, and what the loop keeps up to date: the LEDs (UpdateLEDs), *)
(* the link state lwIP is told and lwIP's clock (sys_now).  What a poll and *)
(* a command do beyond that is in EthDriver, ConsoleIn and TftpFlash.       *)
(*                                                                         *)
(* The button, the PHY and the millisecond timer go on by themselves.  The  *)
(* loops of main() are assumed to go round at least once per millisecond.   *)
(***************************************************************************)
EXTENDS Integers

CONSTANTS
    AUTO_BOOT_DELAY, LED_BLINK_RATE,
    TimerMod,     \* timer_now() counts modulo this (14 minutes)
    WordMod,      \* t_time and uint32_t count modulo this
    Status        \* what ETH_STATUS's link bits may be: up, and a speed

ASSUME LoopAssumption ==
    /\ AUTO_BOOT_DELAY \in Nat /\ LED_BLINK_RATE \in Nat
    /\ TimerMod \in Nat /\ WordMod \in Nat
    /\ AUTO_BOOT_DELAY + 1 < TimerMod /\ LED_BLINK_RATE + 1 < TimerMod
    /\ TimerMod < WordMod
    /\ Status \subseteq [up : BOOLEAN, speed : Nat]

VARIABLES
    pc,
    button, phy, timer,     \* the board: ETH_STATUS's link bits are phy
    asked,                  \* ReBoot wrote REBOOT_ADR
    gAutoBoot, gEthStatus,
    netifUp,                \* lwIP's link flag of gNetif
    connected, ip,          \* gTcpCon # NULL, dhcp_supplied_address(&gNetif)
    Led, LastUpdate,        \* statics of UpdateLEDs
    out,                    \* the LEDs that are lit
    LastTimerNow, UptimeMillsecs, \* statics of sys_now
    round,                  \* the CPU has gone round a loop since the last tick
    downSince,              \* history: timer at the last press before the loop
    since                   \* history: milliseconds since sys_now was called

board == <<button, phy, timer, round, downSince, since>>
net == <<gEthStatus, netifUp, connected, ip>>
leds == <<Led, LastUpdate, out>>
clock == <<LastTimerNow, UptimeMillsecs>>
vars == <<pc, asked, gAutoBoot, board, net, leds, clock>>

NoLink == [up |-> FALSE, speed |-> 0]   \* gEthStatus = 0
LedBits == {"red", "green", "blue"}
Loop == {"button", "leds", "poll", "status", "cmd"}

Init ==
    /\ pc = "start" /\ asked = FALSE
    /\ button \in BOOLEAN /\ phy \in Status /\ timer = 0
    /\ gAutoBoot \in {"off", "on", "delayed"}
    /\ gEthStatus = NoLink /\ netifUp = FALSE
    /\ connected = FALSE /\ ip = FALSE
    /\ Led = LedBits /\ LastUpdate = 0 /\ out = {}
    /\ LastTimerNow = 0 /\ UptimeMillsecs = 0
    /\ round = FALSE /\ downSince = 0 /\ since = 0

-----------------------------------------------------------------------------
\* The board.

Press ==
    /\ ~button /\ button' = TRUE /\ downSince' = IF pc \in Loop THEN 0 ELSE timer
    /\ UNCHANGED <<pc, asked, gAutoBoot, phy, timer, round, since, net, leds, clock>>

Release ==
    /\ button /\ button' = FALSE /\ downSince' = 0
    /\ UNCHANGED <<pc, asked, gAutoBoot, phy, timer, round, since, net, leds, clock>>

PhyChange ==
    /\ phy' \in Status \ {phy}
    /\ UNCHANGED <<pc, asked, gAutoBoot, button, timer, round, downSince, since,
                   net, leds, clock>>

\* A millisecond passes; the FPGA is reconfigured in less than one.
Tick ==
    /\ round /\ ~asked
    /\ timer' = (timer + 1) % TimerMod
    /\ since' = (since + 1) % WordMod
    /\ round' = FALSE
    /\ UNCHANGED <<pc, asked, gAutoBoot, button, phy, downSince, net, leds, clock>>

\* The request is taken: the FPGA loads another bitstream and main() is gone.
Reconfigure ==
    /\ asked /\ pc # "gone" /\ pc' = "gone"
    /\ UNCHANGED <<asked, gAutoBoot, board, net, leds, clock>>

-----------------------------------------------------------------------------
\* The autoboot decision.  ReBoot returns, and main() goes on until the FPGA
\* is reconfigured.

Start ==
    /\ pc = "start"
    /\ asked' = (gAutoBoot = "on" /\ ~button)
    /\ pc' = IF gAutoBoot = "delayed" THEN "held" ELSE "button"
    /\ UNCHANGED <<gAutoBoot, board, net, leds, clock>>

\* Mutant: the wait is for a press.
StillHeld_ForPress == ~button

\* while(ButtonPressed());
StillHeld == button

Held ==
    /\ pc = "held" /\ round' = TRUE
    /\ pc' = IF StillHeld THEN pc ELSE "wait"
    /\ UNCHANGED <<asked, gAutoBoot, button, phy, timer, downSince, since, net, leds, clock>>

\* while(!ButtonPressed())
WaitButton ==
    /\ pc = "wait"
    /\ pc' = IF button THEN "button" ELSE "timer"
    /\ UNCHANGED <<asked, gAutoBoot, board, net, leds, clock>>

\* Mutant: the delay ends a millisecond early.
DelayOver_Early == timer >= AUTO_BOOT_DELAY

DelayOver == timer > AUTO_BOOT_DELAY

WaitTimer ==
    /\ pc = "timer"
    /\ asked' = (asked \/ DelayOver)
    /\ pc' = "wait" /\ round' = TRUE
    /\ UNCHANGED <<gAutoBoot, button, phy, timer, downSince, since, net, leds, clock>>

-----------------------------------------------------------------------------
\* The loop.

LoopButton ==
    /\ pc = "button"
    /\ asked' = (asked \/ (gAutoBoot = "off" /\ button))
    /\ pc' = "leds" /\ round' = TRUE
    /\ UNCHANGED <<gAutoBoot, button, phy, timer, downSince, since, net, leds, clock>>

\* Mutant: a connection is noticed, the LED that was lit is not cleared.
LedsOff_Keep == IF connected THEN {} ELSE Led

\* The LEDs UpdateLEDs turns off (the branches that turn none off have Led = 0),
\* and those it turns on.
LedsOff == Led

NextLed ==
    CASE connected -> {"green"}
      [] ~connected /\ Led # {} -> {}
      [] OTHER -> IF ~gEthStatus.up THEN {"red"} ELSE IF ~ip THEN {"blue"} ELSE {"green"}

\* The LEDs are cleared and set by two stores in a row, one step here.
UpdateLEDs ==
    /\ pc = "leds" /\ pc' = "poll"
    /\ IF (timer - LastUpdate) % WordMod > LED_BLINK_RATE
         THEN /\ LastUpdate' = timer
              /\ Led' = NextLed
              /\ out' = (out \ LedsOff) \cup NextLed
         ELSE UNCHANGED leds
    /\ UNCHANGED <<asked, gAutoBoot, board, net, clock>>

\* Mutant: the timer itself is added.
Uptime_Total == UptimeMillsecs + timer

\* sys_now: the time since the last call, in 32 bits, is added.
Uptime == (UptimeMillsecs + (timer - LastTimerNow)) % WordMod

\* pano_netif_poll: TCP may open or close the connection and DHCP give or lose
\* the address, and sys_check_timeouts asks sys_now.
NetifPoll ==
    /\ pc = "poll" /\ pc' = "status"
    /\ connected' \in BOOLEAN /\ ip' \in BOOLEAN
    /\ UptimeMillsecs' = Uptime /\ LastTimerNow' = timer /\ since' = 0
    /\ UNCHANGED <<asked, gAutoBoot, button, phy, timer, round, downSince,
                   gEthStatus, netifUp, leds>>

\* Mutant: only the link bit is compared.
Changed_LinkOnly == gEthStatus.up # phy.up

Changed == gEthStatus # phy

\* A change of the link bits is kept, and lwIP is told whether the link is up.
EthStatus ==
    /\ pc = "status" /\ pc' = "cmd"
    /\ IF Changed THEN gEthStatus' = phy /\ netifUp' = phy.up
                  ELSE UNCHANGED <<gEthStatus, netifUp>>
    /\ UNCHANGED <<asked, gAutoBoot, connected, ip, board, leds, clock>>

\* ParseCmd, when a line is ready: of the commands, exit and reboot close the
\* connection, reboot asks for another bitstream, autoboot sets the mode.
Command ==
    /\ pc = "cmd" /\ pc' = "button"
    /\ \/ UNCHANGED <<asked, gAutoBoot, connected>>
       \/ connected /\ connected' = FALSE /\ UNCHANGED <<asked, gAutoBoot>>
       \/ connected /\ connected' = FALSE /\ asked' = TRUE /\ UNCHANGED gAutoBoot
       \/ connected /\ gAutoBoot' \in {"off", "on", "delayed"} \ {gAutoBoot}
          /\ UNCHANGED <<asked, connected>>
    /\ UNCHANGED <<board, gEthStatus, netifUp, ip, leds, clock>>

-----------------------------------------------------------------------------
CPU ==
    \/ Start \/ Held \/ WaitButton \/ WaitTimer
    \/ LoopButton \/ UpdateLEDs \/ NetifPoll \/ EthStatus \/ Command

Next == CPU \/ Tick \/ Press \/ Release \/ PhyChange \/ Reconfigure

\* The CPU runs, time passes, and the multiboot block does what it is asked.
Fairness == WF_vars(CPU) /\ WF_vars(Tick) /\ WF_vars(Reconfigure)

Spec == Init /\ [][Next]_vars
FairSpec == Spec /\ Fairness

-----------------------------------------------------------------------------
\* Properties.

TypeOK ==
    /\ pc \in Loop \cup {"start", "held", "wait", "timer", "gone"}
    /\ gAutoBoot \in {"off", "on", "delayed"}
    /\ phy \in Status /\ gEthStatus \in Status \cup {NoLink}
    /\ {button, asked, netifUp, connected, ip, round} \subseteq BOOLEAN
    /\ {timer, LastUpdate, LastTimerNow, downSince} \subseteq 0 .. TimerMod - 1
    /\ {UptimeMillsecs, since} \subseteq 0 .. WordMod - 1
    /\ Led \subseteq LedBits /\ out \subseteq LedBits

(* Delayed autoboot can be stopped (main.c:234-241): a button that went down *)
(* before the delay was over and is still down keeps main() from asking for  *)
(* the reboot, even though it is only looked at between looks at the timer.  *)
PressStopsDelay ==
    ~(pc \in {"wait", "timer"} /\ asked /\ button /\ downSince < AUTO_BOOT_DELAY)

(* Every power on leads somewhere (main.c:230-244): delayed loads the        *)
(* application bitstream if the button is not pressed (src/README.md:83-84), *)
(* and however the button is pressed and held at power on, main() reaches    *)
(* its loop or reboots once it is let go.                                    *)
AutoBoots ==
    /\ gAutoBoot = "delayed" /\ [](~button) => <>asked
    /\ <>[](~button) => <>(asked \/ pc \in Loop)

Flashing(c) == <>[](out \subseteq {c}) /\ []<>(out = {c}) /\ []<>(out = {})

Running == pc \in Loop

(* The LEDs come to show the state of the board, as the comment before       *)
(* UpdateLEDs says (main.c:774-779): solid green when a user is connected,   *)
(* else flashing red, blue or green, also across a wrap of timer_now().      *)
LedsShow ==
    /\ <>[](Running /\ connected) => <>[](out = {"green"})
    /\ <>[](Running /\ ~connected /\ ~phy.up) => Flashing("red")
    /\ <>[](Running /\ ~connected /\ phy.up /\ ~ip) => Flashing("blue")
    /\ <>[](Running /\ ~connected /\ phy.up /\ ip) => Flashing("green")

(* However the link went up and down, once it stays as it is lwIP is told    *)
(* so, though main() compares two samples and may miss changes between them  *)
(* (main.c:256-286).                                                         *)
LinkTold ==
    \A s \in Status :
        <>[](Running /\ phy = s) => <>[](gEthStatus = s /\ netifUp = s.up)

(* Every call of sys_now advances the local up time by the time since the    *)
(* last call: timer_now "wraps pretty quickly (14 minutes @ 50 Mhz) so use   *)
(* it to update a local up time" (main.c:356-357).                           *)
UptimeAdvances ==
    [][NetifPoll => UptimeMillsecs' = (UptimeMillsecs + since) % WordMod]_vars

(* What the table of src/README.md:105-109 says, and the code does not do.   *)

\* "Off: Pano_ldr initializes the network and waits for a connection."  So
\* with autoboot off nothing but a command loads another bitstream.
OffWaits == [][gAutoBoot = "off" /\ ~asked /\ asked' => Command]_vars

\* "On: If the Pano button is not pressed pano_ldr initializes the network and
\* waits for a connection."  So a bitstream is loaded only if it is pressed.
OnWaits == [][gAutoBoot = "on" /\ ~asked /\ asked' => Command \/ button]_vars

=============================================================================
