------------------------------ MODULE TftpFlash ------------------------------
(***************************************************************************)
(* The flash commands of pano_ldr (flash, save, verify, erase, autoerase)  *)
(* and the TFTP transfer behind them: fw/pano_ldr/tftp_ldr.c and its       *)
(* callers in fw/pano_ldr/main.c.                                          *)
(*                                                                         *)
(* A command starts a transfer and then polls the network until the        *)
(* transfer's Error field leaves TFTP_IN_PROGRESS.  lwIP's TFTP client,    *)
(* which is outside the repository, calls tftp_write, tftp_read,           *)
(* tftp_error and tftp_close from inside that poll.  Power may fail        *)
(* between any two flash operations, and in the middle of one.             *)
(*                                                                         *)
(* A byte of flash is the set of its bits that have been programmed to 0,  *)
(* so erasing gives {} and programming is union.                           *)
(***************************************************************************)
EXTENDS Integers, Sequences, FiniteSets

CONSTANTS
    FlashSize,  \* bytes in the chip                  (spi_get_flashinfo)
    EraseSize,  \* bytes in an erase block            (spi_get_flashinfo)
    BlkSize,    \* payload of a full TFTP DATA packet (512)
    Bits,       \* the bits of a byte
    Adrs,       \* addresses a user may type
    Lens,       \* lengths a user may type after "save"
    Files,      \* the files the TFTP server may hold
    Images      \* what the chip may hold when the loader starts

Byte == SUBSET Bits
Erased == {}
Cells == 0 .. FlashSize - 1

ASSUME GeometryAssumption ==
    /\ BlkSize \in Nat \ {0}
    /\ EraseSize \in Nat \ {0, 1} /\ EraseSize % BlkSize = 0
    /\ FlashSize \in Nat \ {0} /\ FlashSize % EraseSize = 0

ASSUME InputAssumption ==
    /\ Adrs \subseteq Nat
    /\ Lens \subseteq Nat
    /\ Files \subseteq Seq(Byte)
    /\ Images \subseteq [Cells -> Byte]

\* INVALID_FLASH_ADR is 0xffffffff in the code: no address of the chip.
INVALID_FLASH_ADR == -1

\* An argument that ConvertValue cannot parse, or that was not typed.
BadArg == -1

VARIABLES
    flash,            \* contents of the chip
    bAutoErase,       \* gTftp: erase blocks as the transfer reaches them
    ServerIP,         \* gTftp: is the server's address set
    TransferType,     \* gTftp: keeps its value from one command to the next
    FlashAdr,         \* gTftp
    SendLen,          \* gTftp
    BytesTransfered,  \* gTftp
    LastEraseAdr,     \* gTftp
    Error,            \* gTftp
    ErrMsg,           \* gTftp: is ErrMsg[0] # 0
    cmd,              \* the last command given
    pc,               \* where its handler is
    eBeg, eAdr, eEnd, \* EraseCmd: Adr as typed and as it advances, EndAdr
    file,             \* the server's copy of the file
    lastBlk,          \* lwIP has sent the short block that ends an upload
    said              \* what the command has printed

gTftp == <<TransferType, FlashAdr, SendLen, BytesTransfered, LastEraseAdr,
           Error, ErrMsg>>
erasing == <<eBeg, eAdr, eEnd>>
vars == <<flash, bAutoErase, ServerIP, gTftp, cmd, pc, erasing, file,
          lastBlk, said>>

Messages ==
    {"NoServer", "PastEnd", "BadArg", "NotAligned", "TransferFailed", "ErrMsg",
     "CompareFailed", "Failed", "Flashed", "Saved", "Verified", "Erased"}

TypeOK ==
    /\ flash \in [Cells -> Byte]
    /\ bAutoErase \in BOOLEAN
    /\ ServerIP \in BOOLEAN
    /\ TransferType \in {"NONE", "FLASH", "COMPARE", "SAVE"}
    /\ FlashAdr \in Nat
    /\ SendLen \in Nat
    /\ BytesTransfered \in Nat
    /\ LastEraseAdr \in Nat \cup {INVALID_FLASH_ADR}
    /\ Error \in {"OK", "COMPARE_FAIL", "IN_PROGRESS", "FAILED", "INTERNAL"}
    /\ ErrMsg \in BOOLEAN
    /\ cmd \in {"none", "flash", "save", "verify", "erase"}
    /\ pc \in {"idle", "wait", "program", "erase"}
    /\ eBeg \in Nat /\ eAdr \in Nat /\ eEnd \in Nat
    /\ file \in Seq(Byte)
    /\ lastBlk \in BOOLEAN
    /\ said \subseteq Messages

-----------------------------------------------------------------------------
(* The SPI flash chip and its driver.                                      *)

\* The first address of the erase block that holds address a.
BlockOf(a) == a - (a % EraseSize)

\* The chip decodes only the address bits it has: an address past its end
\* rolls over to the start.
Cell(a) == a % FlashSize

\* The cells of the erase block that a command for address a erases.
BlockCells(a) == BlockOf(Cell(a)) .. BlockOf(Cell(a)) + EraseSize - 1
spi_erase(f, a) == [c \in Cells |-> IF c \in BlockCells(a) THEN Erased ELSE f[c]]

\* How far cell c is past address a, going round the chip.
Past(a, c) == (c - a) % FlashSize

\* Program n bytes, data[1] .. data[n], from address a: bits only go to 0.
spi_write(f, a, data, n) ==
    [c \in Cells |-> IF Past(a, c) < n THEN f[c] \cup data[Past(a, c) + 1]
                                       ELSE f[c]]

spi_read(f, a) == f[Cell(a)]

-----------------------------------------------------------------------------
(* RAM after a reset: gTftp is zeroed and main() turns autoerase on.       *)

BootRam(ip) ==
    /\ bAutoErase' = TRUE
    /\ ServerIP' = ip
    /\ TransferType' = "NONE" /\ FlashAdr' = 0 /\ SendLen' = 0
    /\ BytesTransfered' = 0 /\ LastEraseAdr' = 0
    /\ Error' = "OK" /\ ErrMsg' = FALSE
    /\ cmd' = "none" /\ pc' = "idle" /\ eBeg' = 0 /\ eAdr' = 0 /\ eEnd' = 0
    /\ file' = <<>> /\ lastBlk' = FALSE /\ said' = {}

\* The chip holds anything, and ParseDataBlock found a server address or not.
Init ==
    /\ flash \in Images
    /\ bAutoErase = TRUE
    /\ ServerIP \in BOOLEAN
    /\ TransferType = "NONE" /\ FlashAdr = 0 /\ SendLen = 0
    /\ BytesTransfered = 0 /\ LastEraseAdr = 0
    /\ Error = "OK" /\ ErrMsg = FALSE
    /\ cmd = "none" /\ pc = "idle" /\ eBeg = 0 /\ eAdr = 0 /\ eEnd = 0
    /\ file = <<>> /\ lastBlk = FALSE /\ said = {}

-----------------------------------------------------------------------------
(* Starting a transfer.                                                    *)

\* Mutant: LastEraseAdr keeps its value from the previous transfer.
ldr_tftp_init_KeepsErase(type, started) ==
    /\ Error' = IF started THEN "IN_PROGRESS" ELSE "OK"
    /\ LastEraseAdr' = LastEraseAdr
    /\ BytesTransfered' = 0
    /\ ErrMsg' = FALSE
    /\ lastBlk' = FALSE
    /\ IF type = "SAVE" THEN file' = <<>> ELSE file' \in Files

\* ldr_tftp_init.  started is the outcome of tftp_init_client and of
\* tftp_get or tftp_put; the checks at its top pass for every command.
ldr_tftp_init(type, started) ==
    /\ Error' = IF started THEN "IN_PROGRESS" ELSE "OK"
    /\ LastEraseAdr' = INVALID_FLASH_ADR
    /\ BytesTransfered' = 0
    /\ ErrMsg' = FALSE
    /\ lastBlk' = FALSE
    /\ IF type = "SAVE" THEN file' = <<>> ELSE file' \in Files

\* GetAdrAndLen(&cp, &FlashAdr, NULL) accepts adr.
AdrAccepted(adr) == adr # BadArg /\ adr <= FlashSize

\* The command's arguments are refused.  FlashAdr is already overwritten when
\* the address is a number.
TransferRefused(c, adr) ==
    /\ pc = "idle"
    /\ ~ServerIP \/ ~AdrAccepted(adr)
    /\ FlashAdr' = IF ServerIP /\ adr # BadArg THEN adr ELSE FlashAdr
    /\ said' = {IF ~ServerIP THEN "NoServer"
                ELSE IF adr = BadArg THEN "BadArg" ELSE "PastEnd"}
    /\ cmd' = c
    /\ UNCHANGED <<flash, bAutoErase, ServerIP, TransferType, SendLen,
                   BytesTransfered, LastEraseAdr, Error, ErrMsg, pc,
                   erasing, file, lastBlk>>

\* GetTftpTransferVals succeeds, leaving type in TransferType and len in
\* SendLen, and ldr_tftp_init follows.  FlashCmd and SaveCmd give up when that
\* fails; VerifyCmd goes on to wait all the same.
StartTransfer(c, adr, type, len) ==
    \E started \in BOOLEAN :
        /\ pc = "idle"
        /\ ServerIP /\ AdrAccepted(adr)
        /\ FlashAdr' = adr
        /\ TransferType' = type
        /\ SendLen' = len
        /\ ldr_tftp_init(type, started)
        /\ pc' = IF started \/ c = "verify" THEN "wait" ELSE "idle"
        /\ said' = IF started THEN {} ELSE {"TransferFailed"}
        /\ cmd' = c
        /\ UNCHANGED <<flash, bAutoErase, ServerIP, erasing>>

FlashCmd(adr) ==
    \/ TransferRefused("flash", adr)
    \/ StartTransfer("flash", adr, "FLASH", SendLen)

VerifyCmd(adr) ==
    \/ TransferRefused("verify", adr)
    \/ StartTransfer("verify", adr, "COMPARE", SendLen)

\* A length that does not parse leaves GetTftpTransferVals with Ret still
\* RESULT_OK from the address, so SaveCmd goes on with the TransferType and the
\* SendLen of an earlier command.
SaveCmd(adr, len) ==
    \/ TransferRefused("save", adr)
    \/ IF len # BadArg
         THEN StartTransfer("save", adr, "SAVE", len)
         ELSE StartTransfer("save", adr, TransferType, SendLen)

AutoEraseCmd(on) ==
    /\ pc = "idle"
    /\ bAutoErase' = on
    /\ cmd' = "none" /\ said' = {}
    /\ UNCHANGED <<flash, ServerIP, gTftp, pc, erasing, file, lastBlk>>

\* tftp, autoboot and bootadr: AddBoardInfo may program cells of the last
\* erase block, and ParseDataBlock then loads the server address it finds.
SettingsCmd ==
    \E new \in [BlockOf(FlashSize - 1) .. FlashSize - 1 -> Byte] :
        /\ pc = "idle"
        /\ flash' = [c \in Cells |-> IF c \in DOMAIN new
                                       THEN flash[c] \cup new[c] ELSE flash[c]]
        /\ ServerIP' \in BOOLEAN
        /\ cmd' = "none" /\ said' = {}
        /\ UNCHANGED <<bAutoErase, gTftp, pc, erasing, file, lastBlk>>

\* A telnet connection, accepted at any time: without a server address, the
\* peer is assumed to be the server.
TcpAccept ==
    /\ ServerIP' = TRUE
    /\ UNCHANGED <<flash, bAutoErase, gTftp, cmd, pc, erasing, file, lastBlk,
                   said>>

-----------------------------------------------------------------------------
(* The transfer, as lwIP drives it from pano_netif_poll.  DATA arrives in   *)
(* order, in one pbuf, and each block once: a duplicate is acknowledged     *)
(* again and goes no further.                                              *)

Polling == pc = "wait" /\ Error = "IN_PROGRESS"
Receiving == Polling /\ TransferType # "SAVE"

MinOf(a, b) == IF a <= b THEN a ELSE b

\* Bytes in the next DATA packet; a packet shorter than BlkSize is the last.
PacketLen == MinOf(BlkSize, Len(file) - BytesTransfered)
Payload == [i \in 1 .. PacketLen |-> file[BytesTransfered + i]]
Adr == FlashAdr + BytesTransfered

\* lwIP calls tftp_close after the last packet; that turns IN_PROGRESS to OK.
CloseIfLast(n) == Error' = IF n < BlkSize THEN "OK" ELSE "IN_PROGRESS"

\* tftp_write of a packet with no data: its loop does not run.
WriteNothing ==
    /\ Receiving /\ PacketLen = 0
    /\ CloseIfLast(0)
    /\ UNCHANGED <<flash, bAutoErase, ServerIP, TransferType, FlashAdr,
                   SendLen, BytesTransfered, LastEraseAdr, ErrMsg, cmd, pc,
                   erasing, file, lastBlk, said>>

\* Mutant: the check against the last erased block is dropped.
NeedErase_EveryPacket == bAutoErase

\* The block that tftp_write erases before it programs this packet.
NeedErase ==
    bAutoErase /\ LastEraseAdr # BlockOf(Adr + PacketLen - 1)
NextErase ==
    IF LastEraseAdr = INVALID_FLASH_ADR THEN BlockOf(Adr)
                                        ELSE LastEraseAdr + EraseSize

\* tftp_write, TFTP_TYPE_FLASH, up to the spi_write.
WriteErase ==
    /\ Receiving /\ TransferType = "FLASH" /\ PacketLen > 0
    /\ LastEraseAdr' = IF NeedErase THEN NextErase ELSE LastEraseAdr
    /\ flash' = IF NeedErase THEN spi_erase(flash, NextErase) ELSE flash
    /\ pc' = "program"
    /\ UNCHANGED <<bAutoErase, ServerIP, TransferType, FlashAdr, SendLen,
                   BytesTransfered, Error, ErrMsg, cmd, erasing, file,
                   lastBlk, said>>

\* tftp_write, TFTP_TYPE_FLASH, from the spi_write on.
WriteProgram ==
    /\ pc = "program"
    /\ flash' = spi_write(flash, Adr, Payload, PacketLen)
    /\ BytesTransfered' = BytesTransfered + PacketLen
    /\ CloseIfLast(PacketLen)
    /\ pc' = "wait"
    /\ UNCHANGED <<bAutoErase, ServerIP, TransferType, FlashAdr, SendLen,
                   LastEraseAdr, ErrMsg, cmd, erasing, file, lastBlk, said>>

\* n bytes of this packet precede the first that differs from flash.
MatchLen(n) ==
    /\ n \in 0 .. PacketLen
    /\ \A i \in 1 .. n : spi_read(flash, Adr + i - 1) = Payload[i]
    /\ n < PacketLen => spi_read(flash, Adr + n) # Payload[n + 1]

\* Mutant: the bytes before the failure are not counted one by one.
WriteCompare_CountsPacket ==
    \E n \in 0 .. PacketLen :
        /\ Receiving /\ TransferType = "COMPARE" /\ PacketLen > 0
        /\ MatchLen(n)
        /\ BytesTransfered' = BytesTransfered + PacketLen
        /\ IF n < PacketLen THEN Error' = "COMPARE_FAIL" ELSE CloseIfLast(n)
        /\ UNCHANGED <<flash, bAutoErase, ServerIP, TransferType, FlashAdr,
                       SendLen, LastEraseAdr, ErrMsg, cmd, pc, erasing, file,
                       lastBlk, said>>

\* tftp_write, TFTP_TYPE_COMPARE.  A packet never exceeds gTemp (MaxBytes).
WriteCompare ==
    \E n \in 0 .. PacketLen :
        /\ Receiving /\ TransferType = "COMPARE" /\ PacketLen > 0
        /\ MatchLen(n)
        /\ BytesTransfered' = BytesTransfered + n
        /\ IF n < PacketLen THEN Error' = "COMPARE_FAIL" ELSE CloseIfLast(n)
        /\ UNCHANGED <<flash, bAutoErase, ServerIP, TransferType, FlashAdr,
                       SendLen, LastEraseAdr, ErrMsg, cmd, pc, erasing, file,
                       lastBlk, said>>

\* tftp_write, default: no command has stored a TransferType yet.
WriteInternal ==
    /\ Receiving /\ TransferType = "NONE" /\ PacketLen > 0
    /\ Error' = "INTERNAL"
    /\ UNCHANGED <<flash, bAutoErase, ServerIP, TransferType, FlashAdr,
                   SendLen, BytesTransfered, LastEraseAdr, ErrMsg, cmd, pc,
                   erasing, file, lastBlk, said>>

\* Mutants: the length is not cut to SendLen; its subtraction is reversed.
ReadLen_Uncut == BlkSize
ReadLen_Reversed == MinOf(BlkSize, BytesTransfered - SendLen)

\* tftp_read returns what is left, at most a block; the server stores it.
ReadLen == MinOf(BlkSize, SendLen - BytesTransfered)
tftp_read ==
    /\ Polling /\ TransferType = "SAVE" /\ ~lastBlk
    /\ file' = file \o [i \in 1 .. ReadLen |-> spi_read(flash, Adr + i - 1)]
    /\ BytesTransfered' = BytesTransfered + ReadLen
    /\ lastBlk' = (ReadLen < BlkSize)
    /\ UNCHANGED <<flash, bAutoErase, ServerIP, TransferType, FlashAdr,
                   SendLen, LastEraseAdr, Error, ErrMsg, cmd, pc, erasing,
                   said>>

\* lwIP closes: the last block was acknowledged, or the server went silent.
\* tftp_close cannot tell the two apart.
tftp_close ==
    /\ Polling
    /\ Error' = "OK"
    /\ UNCHANGED <<flash, bAutoErase, ServerIP, TransferType, FlashAdr,
                   SendLen, BytesTransfered, LastEraseAdr, ErrMsg, cmd, pc,
                   erasing, file, lastBlk, said>>

\* The server sent ERROR, with a message or without; lwIP then closes.
tftp_error ==
    /\ Polling
    /\ Error' = "FAILED"
    /\ ErrMsg' \in BOOLEAN
    /\ UNCHANGED <<flash, bAutoErase, ServerIP, TransferType, FlashAdr,
                   SendLen, BytesTransfered, LastEraseAdr, cmd, pc, erasing,
                   file, lastBlk, said>>

\* TftpTranserWait leaves its loop, and the command prints its result.
\* COMPARE_FAIL leaves Ret at RESULT_OK.
WaitOutcome ==
    IF ErrMsg THEN {"ErrMsg"}
    ELSE IF Error = "COMPARE_FAIL" THEN {"CompareFailed"}
    ELSE IF Error # "OK" THEN {"Failed"} ELSE {}
WaitOK == ~ErrMsg /\ Error \in {"OK", "COMPARE_FAIL"}
TftpTranserWait ==
    /\ pc = "wait" /\ Error # "IN_PROGRESS"
    /\ said' = said \cup WaitOutcome \cup
                 (IF WaitOK THEN {CASE cmd = "flash" -> "Flashed"
                                    [] cmd = "save" -> "Saved"
                                    [] OTHER -> "Verified"}
                            ELSE {})
    /\ pc' = "idle"
    /\ UNCHANGED <<flash, bAutoErase, ServerIP, gTftp, cmd, erasing, file,
                   lastBlk>>

-----------------------------------------------------------------------------
(* The erase command.                                                      *)

\* Len = EndAdr - Adr + 1 is unsigned; 2^32 is a multiple of the erase size,
\* so the check on it is the same on integers.
EraseAligned(a, e) == a % EraseSize = 0 /\ (e + 1) % EraseSize = 0

EraseCmd(a, e) ==
    /\ pc = "idle"
    /\ cmd' = "erase"
    /\ IF AdrAccepted(a) /\ AdrAccepted(e) /\ EraseAligned(a, e)
         THEN /\ pc' = "erase" /\ said' = {}
              /\ eBeg' = a /\ eAdr' = a /\ eEnd' = e
         ELSE /\ said' = {IF a = BadArg \/ (AdrAccepted(a) /\ e = BadArg)
                            THEN "BadArg"
                          ELSE IF AdrAccepted(a) /\ AdrAccepted(e)
                            THEN "NotAligned" ELSE "PastEnd"}
              /\ UNCHANGED <<pc, erasing>>
    /\ UNCHANGED <<flash, bAutoErase, ServerIP, gTftp, file, lastBlk>>

EraseStep ==
    /\ pc = "erase" /\ eAdr < eEnd
    /\ flash' = spi_erase(flash, eAdr)
    /\ eAdr' = eAdr + EraseSize
    /\ UNCHANGED <<bAutoErase, ServerIP, gTftp, cmd, pc, eBeg, eEnd, file,
                   lastBlk, said>>

\* Mutant: the loop ends one block early.
EraseDone_Early ==
    /\ pc = "erase" /\ eAdr + EraseSize >= eEnd
    /\ said' = {"Erased"}
    /\ pc' = "idle"
    /\ UNCHANGED <<flash, bAutoErase, ServerIP, gTftp, cmd, erasing, file,
                   lastBlk>>

EraseDone ==
    /\ pc = "erase" /\ eAdr >= eEnd
    /\ said' = {"Erased"}
    /\ pc' = "idle"
    /\ UNCHANGED <<flash, bAutoErase, ServerIP, gTftp, cmd, erasing, file,
                   lastBlk>>

-----------------------------------------------------------------------------
(* Power failure.  The flash keeps what it holds; an erase or a program in  *)
(* progress leaves the cells it was changing anywhere in between.           *)

\* BoardInfo in the last block decides whether ServerIP is set again.
Restart == \E ip \in BOOLEAN : BootRam(ip)

PowerFail == Restart /\ UNCHANGED flash

\* An erase of the block at b is what the code does next.
Erasing(b) ==
    \/ pc = "erase" /\ eAdr < eEnd /\ b = Cell(eAdr)
    \/ /\ Receiving /\ TransferType = "FLASH" /\ PacketLen > 0
       /\ NeedErase /\ b = Cell(NextErase)

PowerFailErasing(b) ==
    \E junk \in [BlockCells(b) -> Byte] :
        /\ Erasing(b)
        /\ flash' = [c \in Cells |->
                       IF c \in DOMAIN junk THEN junk[c] ELSE flash[c]]
        /\ Restart

PowerFailProgramming ==
    \E part \in [1 .. PacketLen -> Byte] :
        /\ pc = "program"
        /\ \A i \in 1 .. PacketLen : part[i] \subseteq Payload[i]
        /\ flash' = spi_write(flash, Adr, part, PacketLen)
        /\ Restart

-----------------------------------------------------------------------------

Command ==
    \/ \E adr \in Adrs \cup {BadArg} : FlashCmd(adr) \/ VerifyCmd(adr)
    \/ \E adr \in Adrs \cup {BadArg}, len \in Lens \cup {BadArg} :
          SaveCmd(adr, len)
    \/ \E a, e \in Adrs \cup {BadArg} : EraseCmd(a, e)
    \/ \E on \in BOOLEAN : AutoEraseCmd(on)
    \/ SettingsCmd

Transfer ==
    \/ WriteNothing \/ WriteErase \/ WriteProgram \/ WriteCompare
    \/ WriteInternal \/ tftp_read \/ tftp_close \/ tftp_error
    \/ TftpTranserWait

Next ==
    \/ Command
    \/ TcpAccept
    \/ Transfer
    \/ EraseStep \/ EraseDone
    \/ PowerFail \/ (\E b \in Cells : PowerFailErasing(b))
    \/ PowerFailProgramming

Spec == Init /\ [][Next]_vars

-----------------------------------------------------------------------------
(* Properties.                                                             *)

Running == pc \in {"wait", "program"}

\* The file ends inside the chip.  Nothing in the code checks that.
Fits == FlashAdr + Len(file) <= FlashSize

\* The first n bytes of the file are in flash.
InFlash(n) == \A i \in 0 .. n - 1 : flash[FlashAdr + i] = file[i + 1]

\* What tftp_write's erase-as-you-go must achieve: with autoerase on, a start
\* address on an erase boundary and a file that fits, every byte received so
\* far is in flash at every moment of the transfer, whatever the chip held
\* before, so that no erase destroys what an earlier packet wrote and no packet
\* is programmed over old contents; and so it still is when the command reports
\* success.
FlashedImage ==
    /\ bAutoErase /\ FlashAdr % EraseSize = 0 /\ Fits
    /\ TransferType = "FLASH" /\ (Running \/ "Flashed" \in said)
    => InFlash(BytesTransfered)

\* The addresses in the erase blocks that the file overlaps.
FileBlocks ==
    {c \in Cells : /\ BlockOf(FlashAdr) <= c
                   /\ c < BlockOf(FlashAdr + Len(file) - 1) + EraseSize}
FileCells == {c \in Cells : FlashAdr <= c /\ c < FlashAdr + Len(file)}

\* No step, a power failure in the middle of an erase or a program included,
\* changes a cell the user did not ask to change: the transfer of a file that
\* fits stays in the erase blocks of its file (in its own bytes when autoerase
\* is off), the erase command in its range, a saved setting in the last erase
\* block.  Of a file that does not fit nothing is promised: see Upwards.
Contained ==
    [][\A c \in Cells : flash'[c] # flash[c] =>
          \/ /\ Running /\ TransferType = "FLASH"
             /\ Fits => c \in IF bAutoErase THEN FileBlocks ELSE FileCells
          \/ pc = "erase" /\ eBeg <= c /\ c <= eEnd
          \/ pc = "idle" /\ c >= BlockOf(FlashSize - 1)]_vars

\* When erase reports that it is done, the whole range is blank.
EraseComplete ==
    "Erased" \in said =>
        \A c \in Cells : eBeg <= c /\ c <= eEnd => flash[c] = Erased

\* verify: the bytes it counted equal the file's, and when it reports a
\* failure the address it prints is that of the first byte that differs.
VerifyExact ==
    /\ cmd = "verify" /\ pc = "idle"
    /\ "Verified" \in said \/ "CompareFailed" \in said
    => /\ \A i \in 1 .. BytesTransfered :
             spi_read(flash, FlashAdr + i - 1) = file[i]
       /\ "CompareFailed" \in said =>
             /\ BytesTransfered < Len(file)
             /\ spi_read(flash, FlashAdr + BytesTransfered)
                  # file[BytesTransfered + 1]

\* save: the server's file is the region of flash, and when the closing short
\* block has been sent it is all of it.
SavedRegion ==
    TransferType = "SAVE" /\ cmd = "save" /\ (Running \/ "Saved" \in said)
    => /\ file = [i \in 1 .. BytesTransfered |->
                    spi_read(flash, FlashAdr + i - 1)]
       /\ BytesTransfered <= SendLen
       /\ lastBlk => BytesTransfered = SendLen

\* The transfer's counters agree with what is being transferred.
Progress ==
    /\ Running /\ TransferType # "SAVE" => BytesTransfered <= Len(file)
    /\ Running /\ TransferType = "SAVE" => BytesTransfered <= SendLen
    /\ pc = "program" => /\ TransferType = "FLASH" /\ Error = "IN_PROGRESS"
                         /\ BytesTransfered < Len(file)
    /\ pc = "erase" => said = {}

\* Why FlashedImage is preserved: between packets the transfer stands on a
\* packet boundary, LastEraseAdr is the block of the last byte written, and
\* the rest of that block is still blank.
EraseAhead ==
    /\ Running /\ TransferType = "FLASH" /\ Error = "IN_PROGRESS"
    /\ bAutoErase /\ FlashAdr % EraseSize = 0 /\ Fits
    => /\ BytesTransfered % BlkSize = 0
       /\ pc = "wait" =>
            LastEraseAdr = IF BytesTransfered = 0 THEN INVALID_FLASH_ADR
                                                  ELSE BlockOf(Adr - 1)
       /\ pc = "program" => LastEraseAdr = BlockOf(Adr)
       /\ LastEraseAdr # INVALID_FLASH_ADR =>
            \A c \in Cells : Adr <= c /\ c < LastEraseAdr + EraseSize
                               => flash[c] = Erased

\* The inductive invariant behind FlashedImage.
FlashInv == TypeOK /\ Progress /\ EraseAhead /\ FlashedImage

(* What the messages and the documentation say, and the code does not do.   *)

\* README: "The save command saves a region of flash as a file".
SaveOnlyReads == cmd = "save" => pc # "program"

\* README: "The verify command compares flash with the specified file".
VerifiedMeansEqual == ~({"Verified", "CompareFailed"} \subseteq said)

\* "Error 0x%x is past end of flash": what GetAdrAndLen refuses, so that a
\* flash command changes nothing below the erase block it starts in.  An address
\* of FlashSize passes, and no one compares the file with the space left: what
\* lies beyond rolls over to the start of the chip, where the loader is.
Upwards ==
    [][\A c \in Cells :
          Running /\ TransferType = "FLASH" /\ flash'[c] # flash[c]
             => c >= BlockOf(FlashAdr)]_vars

=============================================================================
