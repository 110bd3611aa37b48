--------------------------- MODULE TftpFlashProofs ---------------------------
(***************************************************************************)
(* Proofs about TftpFlash, for every chip geometry in which the packet     *)
(* size divides the erase size, every file and every initial contents.     *)
(***************************************************************************)
EXTENDS TftpFlash, SequenceTheorems, TLAPS

(* Integer division by a divisor that is not a literal.                   *)

\* Division with remainder.
LEMMA DivMod ==
    ASSUME NEW a \in Int, NEW d \in Nat \ {0}
    PROVE  /\ a \div d \in Int
           /\ a % d \in 0 .. d - 1
           /\ a = d * (a \div d) + (a % d)
  BY Z3

\* A remainder is unique.
LEMMA ModUnique ==
    ASSUME NEW a \in Int, NEW d \in Nat \ {0}, NEW q \in Int, NEW r \in Nat,
           r < d, a = d * q + r
    PROVE  a % d = r
  BY Z3

-----------------------------------------------------------------------------

-----------------------------------------------------------------------------
(* Arithmetic of erase blocks.                                             *)

\* A block holds the addresses from its first one up to the next block's.
LEMMA BlockBounds ==
    ASSUME NEW a \in Nat
    PROVE  /\ BlockOf(a) \in Nat
           /\ BlockOf(a) <= a
           /\ a < BlockOf(a) + EraseSize
<1>1. EraseSize \in Nat \ {0}
  BY GeometryAssumption
<1>2. a % EraseSize \in 0 .. EraseSize - 1
  BY <1>1, DivMod
<1>3. a % EraseSize <= a
  <2>1. /\ a = EraseSize * (a \div EraseSize) + (a % EraseSize)
        /\ a \div EraseSize \in Int
    BY <1>1, DivMod
  <2>2. a \div EraseSize >= 0
    BY <1>1, <1>2, <2>1, Z3
  <2> QED
    BY <1>1, <1>2, <2>1, <2>2, Z3
<1> QED
  BY <1>1, <1>2, <1>3 DEF BlockOf

\* A packet that starts on a packet boundary stays in one erase block.
LEMMA PacketInBlock ==
    ASSUME NEW a \in Nat, a % BlkSize = 0, NEW n \in 1 .. BlkSize
    PROVE  BlockOf(a + n - 1) = BlockOf(a)
<1> DEFINE E == EraseSize
           B == BlkSize
           k == a \div B
           m == E \div B
           q == a \div E
           r == a % E
<1>1. E \in Nat \ {0} /\ B \in Nat \ {0} /\ E % B = 0
  BY GeometryAssumption
<1>2. k \in Int /\ a = B * k
  BY <1>1, DivMod
<1>3. m \in Int /\ E = B * m
  BY <1>1, DivMod
<1>4. q \in Int /\ r \in 0 .. E - 1 /\ a = E * q + r
  BY <1>1, DivMod
<1> HIDE DEF k, m, q, r, E, B
<1>5. r = B * (k - m * q)
  BY <1>1, <1>2, <1>3, <1>4, Z3
<1>6. k - m * q < m
  <2>1. B * (k - m * q) < B * m
    BY <1>3, <1>4, <1>5
  <2> QED
    BY <1>1, <1>2, <1>3, <1>4, <2>1, Z3
<1>7. r + B <= E
  <2>1. B * (k - m * q) + B <= B * m
    BY <1>1, <1>2, <1>3, <1>4, <1>6, Z3
  <2> QED
    BY <1>3, <1>5, <2>1
<1>8. r + n - 1 \in Nat /\ r + n - 1 < E
  BY <1>1, <1>4, <1>7 DEF B
<1>9. a + n - 1 = E * q + (r + n - 1)
  <2>1. n \in Int
    BY <1>1 DEF B
  <2>2. E * q \in Int
    BY <1>1, <1>4
  <2> QED
    BY <1>1, <1>4, <2>1, <2>2
<1>10. (a + n - 1) % E = r + n - 1
  <2> DEFINE s == a + n - 1
             t == r + n - 1
  <2>1. s \in Int /\ t \in Nat /\ t < E /\ s = E * q + t
    BY <1>1, <1>8, <1>9 DEF B
  <2> HIDE DEF s, t
  <2>2. s % E = t
    BY <1>1, <1>4, <2>1, ModUnique
  <2> QED
    BY <2>2 DEF s, t
<1>11. n \in Int
  BY <1>1 DEF B
<1>12. BlockOf(a + n - 1) = (a + n - 1) - (r + n - 1)
  BY <1>10 DEF BlockOf, E
<1>13. BlockOf(a) = a - r
  BY DEF BlockOf, E, r
<1>14. r \in Int
  BY <1>4
<1> QED
  BY <1>11, <1>12, <1>13, <1>14

\* The address before a is in a's block, or a is the start of the next one.
LEMMA BlockBefore ==
    ASSUME NEW a \in Nat \ {0}
    PROVE  /\ a % EraseSize = 0 =>
                /\ BlockOf(a - 1) + EraseSize = a
                /\ BlockOf(a) = a
           /\ a % EraseSize # 0 => BlockOf(a - 1) = BlockOf(a)
<1> DEFINE E == EraseSize
           q == a \div E
           r == a % E
<1>1. E \in Nat \ {0}
  BY GeometryAssumption
<1>2. q \in Int /\ r \in 0 .. E - 1 /\ a = E * q + r
  BY <1>1, DivMod
<1>3. CASE r = 0
  <2>1. a - 1 = E * (q - 1) + (E - 1)
    BY <1>1, <1>2, <1>3, Z3
  <2>2. (a - 1) % E = E - 1
    <3> HIDE DEF E, q, r
    <3> QED
      BY <1>1, <1>2, <2>1, ModUnique
  <2>3. BlockOf(a - 1) = (a - 1) - (E - 1)
    BY <2>2 DEF BlockOf
  <2>4. BlockOf(a) = a
    BY <1>3 DEF BlockOf
  <2>5. BlockOf(a - 1) + EraseSize = a
    BY <1>1, <2>3
  <2> QED
    BY <1>3, <2>4, <2>5
<1>4. CASE r # 0
  <2>1. a - 1 = E * q + (r - 1)
    BY <1>1, <1>2, <1>4, Z3
  <2>2. (a - 1) % E = r - 1
    <3> HIDE DEF E, q, r
    <3> QED
      BY <1>1, <1>2, <1>4, <2>1, ModUnique
  <2> QED
    BY <1>1, <1>2, <1>4, <2>2 DEF BlockOf
<1> QED
  BY <1>3, <1>4

\* Packet boundaries from an aligned start are packet boundaries of the chip.
LEMMA AlignedSum ==
    ASSUME NEW a \in Nat, NEW n \in Nat, a % EraseSize = 0, n % BlkSize = 0
    PROVE  (a + n) % BlkSize = 0
<1> DEFINE E == EraseSize
           B == BlkSize
           x == a \div E
           y == n \div B
           m == E \div B
<1>1. E \in Nat \ {0} /\ B \in Nat \ {0} /\ E % B = 0
  BY GeometryAssumption
<1>2. x \in Int /\ a = E * x
  BY <1>1, DivMod
<1>3. y \in Int /\ n = B * y
  BY <1>1, DivMod
<1>4. m \in Int /\ E = B * m
  BY <1>1, DivMod
<1> HIDE DEF E, B, x, y, m
<1>5. a + n = B * (m * x + y) + 0
  BY <1>1, <1>2, <1>3, <1>4, Z3
<1>6. (a + n) % B = 0
  <2> DEFINE s == a + n
             z == m * x + y
  <2>1. s \in Int /\ z \in Int /\ s = B * z + 0
    BY <1>2, <1>3, <1>4, <1>5
  <2> HIDE DEF s, z
  <2>2. s % B = 0
    BY <1>1, <2>1, ModUnique
  <2> QED
    BY <2>2 DEF s
<1> QED
  BY <1>6 DEF B

\* One more full packet is again a whole number of packets.
LEMMA NextPacket ==
    ASSUME NEW n \in Nat, n % BlkSize = 0
    PROVE  (n + BlkSize) % BlkSize = 0
<1> DEFINE y == n \div BlkSize
<1>1. BlkSize \in Nat \ {0}
  BY GeometryAssumption
<1>2. y \in Int /\ n = BlkSize * y
  BY <1>1, DivMod
<1> HIDE DEF y
<1>3. n + BlkSize = BlkSize * (y + 1) + 0
  BY <1>1, <1>2, Z3
<1> QED
  BY <1>1, <1>2, <1>3, ModUnique

-----------------------------------------------------------------------------
(* Type correctness.                                                       *)

TypeInv == TypeOK /\ Progress

Aligned(a) == a % EraseSize = 0

\* The block after a block, and the distance between two blocks.
LEMMA AlignedNext ==
    ASSUME NEW a \in Int, Aligned(a)
    PROVE  Aligned(a + EraseSize)
<1> DEFINE y == a \div EraseSize
           s == a + EraseSize
<1>1. EraseSize \in Nat \ {0}
  BY GeometryAssumption
<1>2. y \in Int /\ a = EraseSize * y
  BY <1>1, DivMod DEF Aligned
<1>3. s \in Int /\ y + 1 \in Int
  BY <1>1, <1>2
<1>4. s = EraseSize * (y + 1) + 0
  BY <1>1, <1>2, Z3
<1> HIDE DEF y, s
<1>5. s % EraseSize = 0
  BY <1>1, <1>3, <1>4, ModUnique
<1>6. QED
  BY <1>5 DEF Aligned, s

LEMMA AlignedGap ==
    ASSUME NEW a \in Int, NEW b \in Int, Aligned(a), Aligned(b), a < b
    PROVE  a + EraseSize <= b
<1> DEFINE x == a \div EraseSize
           y == b \div EraseSize
<1>1. EraseSize \in Nat \ {0}
  BY GeometryAssumption
<1>2. x \in Int /\ a = EraseSize * x
  BY <1>1, DivMod DEF Aligned
<1>3. y \in Int /\ b = EraseSize * y
  BY <1>1, DivMod DEF Aligned
<1> HIDE DEF x, y
<1>4. x < y
  BY <1>1, <1>2, <1>3, Z3
<1>5. QED
  BY <1>1, <1>2, <1>3, <1>4, Z3

LEMMA BlockAligned ==
    ASSUME NEW a \in Nat
    PROVE  Aligned(BlockOf(a))
<1> DEFINE q == a \div EraseSize
           s == BlockOf(a)
<1>1. EraseSize \in Nat \ {0}
  BY GeometryAssumption
<1>2. /\ q \in Int /\ a % EraseSize \in Int
      /\ a = EraseSize * q + (a % EraseSize)
  BY <1>1, DivMod
<1>3. EraseSize * q \in Int
  BY <1>1, <1>2
<1>4. s = EraseSize * q + 0 /\ s \in Int
  BY <1>2, <1>3 DEF BlockOf
<1> HIDE DEF q, s
<1>5. s % EraseSize = 0
  BY <1>1, <1>2, <1>4, ModUnique
<1>6. QED
  BY <1>5 DEF Aligned, s

LEMMA BlockMonotone ==
    ASSUME NEW a \in Nat, NEW b \in Nat, a <= b
    PROVE  BlockOf(a) <= BlockOf(b)
<1>1. /\ BlockOf(a) \in Nat /\ BlockOf(a) <= a
      /\ BlockOf(b) \in Nat /\ b < BlockOf(b) + EraseSize
      /\ Aligned(BlockOf(a)) /\ Aligned(BlockOf(b))
  BY BlockBounds, BlockAligned
<1>2. BlockOf(b) < BlockOf(a) => BlockOf(b) + EraseSize <= BlockOf(a)
  BY <1>1, AlignedGap
<1>3. EraseSize \in Nat
  BY GeometryAssumption
<1>4. QED
  BY <1>1, <1>2, <1>3

\* A packet is no longer than a block, and than what is left of the file.
LEMMA PacketBounds ==
    ASSUME TypeInv, TransferType # "SAVE", Running
    PROVE  /\ PacketLen \in Nat
           /\ PacketLen <= BlkSize
           /\ BytesTransfered + PacketLen <= Len(file)
           /\ PacketLen < BlkSize \/ PacketLen = BlkSize
  BY GeometryAssumption DEF TypeInv, TypeOK, Progress, PacketLen, MinOf

\* tftp_read never returns a negative length.
LEMMA ReadBounds ==
    ASSUME TypeInv, TransferType = "SAVE", Running
    PROVE  ReadLen \in Nat /\ BytesTransfered + ReadLen <= SendLen
  BY GeometryAssumption DEF TypeInv, TypeOK, Progress, ReadLen, MinOf

\* Rolling over: every address selects a cell, and one inside the chip its own.
LEMMA CellOf ==
    ASSUME NEW a \in Int
    PROVE  /\ Cell(a) \in Cells
           /\ a \in Cells => Cell(a) = a
           /\ BlockCells(Cell(a)) = BlockCells(a)
<1>1. FlashSize \in Nat \ {0}
  BY GeometryAssumption
<1>2. Cell(a) \in Cells
  BY <1>1, DivMod DEF Cell, Cells
<1>3. ASSUME a \in Cells PROVE Cell(a) = a
  <2>1. a \in Nat /\ a < FlashSize /\ a = FlashSize * 0 + a
    BY <1>1, <1>3 DEF Cells
  <2> QED
    BY <1>1, <2>1, ModUnique DEF Cell
<1>4. Cell(Cell(a)) = Cell(a)
  <2> DEFINE b == Cell(a)
  <2>1. b \in Nat /\ b < FlashSize /\ b = FlashSize * 0 + b
    BY <1>1, <1>2 DEF Cells
  <2> HIDE DEF b
  <2>2. Cell(b) = b
    BY <1>1, <2>1, ModUnique DEF Cell
  <2> QED
    BY <2>2 DEF b
<1> QED
  BY <1>2, <1>3, <1>4 DEF BlockCells

LEMMA ReadType ==
    ASSUME flash \in [Cells -> Byte], NEW a \in Int
    PROVE  spi_read(flash, a) \in Byte
  BY CellOf DEF spi_read

LEMMA EraseType ==
    ASSUME flash \in [Cells -> Byte], NEW a \in Nat
    PROVE  spi_erase(flash, a) \in [Cells -> Byte]
  BY DEF spi_erase, Erased, Byte

\* What an erase at the start of a block of the chip covers.
LEMMA EraseAt ==
    ASSUME NEW a \in Cells, a % EraseSize = 0
    PROVE  BlockCells(a) = a .. a + EraseSize - 1
<1>1. a \in Int /\ EraseSize \in Nat
  BY GeometryAssumption DEF Cells
<1>2. Cell(a) = a /\ BlockOf(a) = a
  BY <1>1, CellOf DEF BlockOf
<1> QED
  BY <1>2 DEF BlockCells

\* As long as a program stays in the chip, nothing goes round it.
LEMMA PastBounds ==
    ASSUME NEW a \in Nat, NEW n \in Nat, a + n <= FlashSize, NEW c \in Cells
    PROVE  /\ Past(a, c) < n <=> a <= c /\ c < a + n
           /\ a <= c => Past(a, c) = c - a
<1>1. FlashSize \in Nat \ {0} /\ c \in Nat /\ c < FlashSize /\ c - a \in Int
  BY GeometryAssumption DEF Cells
<1>2. ASSUME a <= c PROVE Past(a, c) = c - a
  <2>1. c - a \in Nat /\ c - a < FlashSize /\ c - a = FlashSize * 0 + (c - a)
    BY <1>1, <1>2
  <2> QED
    BY <1>1, <2>1, ModUnique DEF Past
<1>3. ASSUME c < a PROVE Past(a, c) = (c - a) + FlashSize
  <2> DEFINE r == (c - a) + FlashSize
  <2>1. /\ r \in Nat /\ r < FlashSize
        /\ c - a = FlashSize * (-1) + r
    BY <1>1, <1>3
  <2> HIDE DEF r
  <2>2. (c - a) % FlashSize = r
    BY <1>1, <2>1, ModUnique
  <2> QED
    BY <2>2 DEF Past, r
<1> QED
  BY <1>1, <1>2, <1>3

LEMMA WriteType ==
    ASSUME flash \in [Cells -> Byte], NEW a \in Nat,
           NEW n \in Nat, NEW data, \A i \in 1 .. n : data[i] \in Byte
    PROVE  spi_write(flash, a, data, n) \in [Cells -> Byte]
<1> SUFFICES ASSUME NEW c \in Cells, Past(a, c) < n
             PROVE  flash[c] \cup data[Past(a, c) + 1] \in Byte
  BY DEF spi_write
<1>1. c - a \in Int /\ FlashSize \in Nat \ {0}
  BY GeometryAssumption DEF Cells
<1>2. Past(a, c) \in Nat
  <2> DEFINE d == c - a
  <2> HIDE DEF d
  <2>1. d % FlashSize \in 0 .. FlashSize - 1
    BY <1>1, DivMod DEF d
  <2> QED
    BY <1>1, <2>1 DEF Past, d
<1>3. Past(a, c) + 1 \in 1 .. n
  BY <1>2
<1>4. data[Past(a, c) + 1] \in Byte
  BY <1>3
<1> QED
  BY <1>4 DEF Byte

\* What programming inside the chip does to a cell.
LEMMA WriteAt ==
    ASSUME NEW a \in Nat, NEW n \in Nat, a + n <= FlashSize, NEW data,
           NEW c \in Cells
    PROVE  /\ a <= c /\ c < a + n =>
                spi_write(flash, a, data, n)[c] = flash[c] \cup data[c - a + 1]
           /\ ~(a <= c /\ c < a + n) =>
                spi_write(flash, a, data, n)[c] = flash[c]
  BY PastBounds DEF spi_write

LEMMA InitTypeInv == Init => TypeInv
<1> SUFFICES ASSUME Init PROVE TypeInv
  OBVIOUS
<1>1. flash \in [Cells -> Byte]
  BY InputAssumption DEF Init
<1>2. <<>> \in Seq(Byte)
  OBVIOUS
<1>3. Progress
  BY DEF Init, Progress, Running
<1> QED
  BY <1>1, <1>2, <1>3 DEF Init, TypeInv, TypeOK

\* A restart forgets everything but the flash.
LEMMA RestartTypeInv ==
    ASSUME Restart, flash' \in [Cells -> Byte]
    PROVE  TypeInv'
<1>1. PICK ip \in BOOLEAN : BootRam(ip)
  BY DEF Restart
<1>2. <<>> \in Seq(Byte)
  OBVIOUS
<1>3. Progress'
  BY <1>1 DEF BootRam, Progress, Running
<1>4. TypeOK'
  BY <1>1, <1>2 DEF BootRam, TypeOK
<1> QED
  BY <1>3, <1>4 DEF TypeInv

\* The commands.
LEMMA CommandTypeInv ==
    ASSUME TypeInv, Command
    PROVE  TypeInv'
<1> USE DEF TypeInv, TypeOK, Progress, Running, Messages
<1>1. ASSUME NEW c \in {"flash", "save", "verify"},
             NEW adr \in Adrs \cup {BadArg}, TransferRefused(c, adr)
      PROVE  TypeInv'
  BY <1>1, InputAssumption DEF TransferRefused, BadArg, erasing
<1>2. ASSUME NEW c \in {"flash", "save", "verify"},
             NEW adr \in Adrs \cup {BadArg}, NEW len \in Nat,
             NEW type \in {"NONE", "FLASH", "COMPARE", "SAVE"},
             StartTransfer(c, adr, type, len)
      PROVE  TypeInv'
  <2>1. PICK started \in BOOLEAN :
             /\ StartTransfer(c, adr, type, len)
             /\ ldr_tftp_init(type, started)
             /\ pc' = IF started \/ c = "verify" THEN "wait" ELSE "idle"
             /\ said' = IF started THEN {} ELSE {"TransferFailed"}
    BY <1>2 DEF StartTransfer
  <2>2. adr \in Nat
    BY <1>2, InputAssumption DEF StartTransfer, AdrAccepted
  <2>3. file' \in Seq(Byte)
    <3>1. <<>> \in Seq(Byte)
      OBVIOUS
    <3> QED
      BY <2>1, <3>1, InputAssumption DEF ldr_tftp_init
  <2>4. /\ Error' \in {"OK", "IN_PROGRESS"} /\ BytesTransfered' = 0
        /\ LastEraseAdr' = INVALID_FLASH_ADR /\ ErrMsg' = FALSE
        /\ lastBlk' = FALSE
    BY <2>1 DEF ldr_tftp_init
  <2>5. /\ FlashAdr' \in Nat /\ SendLen' \in Nat
        /\ TransferType' = type /\ cmd' = c
        /\ UNCHANGED <<flash, bAutoErase, ServerIP, eBeg, eAdr, eEnd>>
    BY <2>1, <2>2 DEF StartTransfer, erasing
  <2>6. pc' \in {"wait", "idle"} /\ said' \subseteq Messages
    BY <2>1
  <2>7. Len(file') \in Nat
    BY <2>3
  <2>8. Progress'
    BY <2>4, <2>5, <2>6, <2>7
  <2> QED
    BY <2>3, <2>4, <2>5, <2>6, <2>8
<1>3. ASSUME NEW adr \in Adrs \cup {BadArg}, FlashCmd(adr) \/ VerifyCmd(adr)
      PROVE  TypeInv'
  BY <1>1, <1>2, <1>3 DEF FlashCmd, VerifyCmd
<1>4. ASSUME NEW adr \in Adrs \cup {BadArg}, NEW len \in Lens \cup {BadArg},
             SaveCmd(adr, len)
      PROVE  TypeInv'
  BY <1>1, <1>2, <1>4, InputAssumption DEF SaveCmd
<1>5. ASSUME NEW a \in Adrs \cup {BadArg}, NEW e \in Adrs \cup {BadArg},
             EraseCmd(a, e)
      PROVE  TypeInv'
  <2>1. CASE AdrAccepted(a) /\ AdrAccepted(e) /\ EraseAligned(a, e)
    BY <1>5, <2>1, InputAssumption DEF EraseCmd, AdrAccepted, gTftp
  <2>2. CASE ~(AdrAccepted(a) /\ AdrAccepted(e) /\ EraseAligned(a, e))
    BY <1>5, <2>2 DEF EraseCmd, gTftp, erasing
  <2> QED
    BY <2>1, <2>2
<1>6. ASSUME NEW on \in BOOLEAN, AutoEraseCmd(on)
      PROVE  TypeInv'
  BY <1>6 DEF AutoEraseCmd, gTftp, erasing
<1>7. ASSUME SettingsCmd
      PROVE  TypeInv'
  <2>1. flash' \in [Cells -> Byte]
    BY <1>7 DEF SettingsCmd, Byte
  <2> QED
    BY <1>7, <2>1 DEF SettingsCmd, gTftp, erasing
<1> QED
  BY <1>3, <1>4, <1>5, <1>6, <1>7 DEF Command

\* The transfer's callbacks and the end of the wait.
LEMMA TransferTypeInv ==
    ASSUME TypeInv, Transfer
    PROVE  TypeInv'
<1> USE DEF TypeInv, TypeOK, Progress, Running, Messages
<1>1. CASE WriteNothing
  BY <1>1 DEF WriteNothing, Receiving, Polling, CloseIfLast, erasing
<1>2. CASE WriteErase
  <2>1. /\ PacketLen \in Nat /\ PacketLen > 0 /\ PacketLen <= BlkSize
        /\ BytesTransfered + PacketLen <= Len(file)
    BY <1>2, PacketBounds DEF WriteErase, Receiving, Polling
  <2>2. Adr \in Nat
    BY DEF Adr
  <2>3. NextErase \in Nat
    <3>1. BlockOf(Adr) \in Nat
      BY <2>2, BlockBounds
    <3>2. EraseSize \in Nat /\ LastEraseAdr \in Nat \cup {INVALID_FLASH_ADR}
      BY GeometryAssumption
    <3> QED
      BY <3>1, <3>2 DEF NextErase
  <2>4. /\ flash' \in [Cells -> Byte]
        /\ LastEraseAdr' \in Nat \cup {INVALID_FLASH_ADR}
    BY <1>2, <2>3, EraseType DEF WriteErase
  <2>5. BytesTransfered < Len(file)
    BY <2>1
  <2> QED
    BY <1>2, <2>4, <2>5 DEF WriteErase, Receiving, Polling, erasing
<1>3. CASE WriteProgram
  <2>1. /\ PacketLen \in Nat /\ PacketLen <= BlkSize
        /\ BytesTransfered + PacketLen <= Len(file)
    BY <1>3, PacketBounds DEF WriteProgram
  <2>2. \A i \in 1 .. PacketLen : Payload[i] \in Byte
    BY <2>1 DEF Payload
  <2>3. flash' \in [Cells -> Byte]
    BY <1>3, <2>1, <2>2, WriteType, GeometryAssumption DEF WriteProgram, Adr
  <2> QED
    BY <1>3, <2>1, <2>3 DEF WriteProgram, CloseIfLast, erasing
<1>4. CASE WriteCompare
  <2>1. /\ PacketLen \in Nat /\ PacketLen <= BlkSize
        /\ BytesTransfered + PacketLen <= Len(file)
    BY <1>4, PacketBounds DEF WriteCompare, Receiving, Polling
  <2>2. /\ BytesTransfered' \in Nat /\ BytesTransfered' <= Len(file)
        /\ Error' \in {"COMPARE_FAIL", "OK", "IN_PROGRESS"}
    BY <1>4, <2>1 DEF WriteCompare, CloseIfLast
  <2> QED
    BY <1>4, <2>2 DEF WriteCompare, Receiving, Polling, erasing
<1>5. CASE WriteInternal
  BY <1>5 DEF WriteInternal, Receiving, Polling, erasing
<1>6. CASE tftp_read
  <2>1. ReadLen \in Nat /\ BytesTransfered + ReadLen <= SendLen
    BY <1>6, ReadBounds DEF tftp_read, Polling
  <2>2. [i \in 1 .. ReadLen |-> spi_read(flash, Adr + i - 1)] \in Seq(Byte)
    <3> DEFINE data == [i \in 1 .. ReadLen |-> spi_read(flash, Adr + i - 1)]
    <3>1. Adr \in Int /\ flash \in [Cells -> Byte]
      BY DEF TypeInv, TypeOK, Adr
    <3>2. \A i \in 1 .. ReadLen : spi_read(flash, Adr + i - 1) \in Byte
      BY <2>1, <3>1, ReadType
    <3>3. data \in [1 .. ReadLen -> Byte]
      BY <3>2
    <3> QED
      BY <2>1, <3>3
  <2>3. file' \in Seq(Byte)
    BY <1>6, <2>2 DEF tftp_read
  <2> QED
    BY <1>6, <2>1, <2>3 DEF tftp_read, Polling, erasing
<1>7. CASE tftp_close
  BY <1>7 DEF tftp_close, Polling, erasing
<1>8. CASE tftp_error
  BY <1>8 DEF tftp_error, Polling, erasing
<1>9. CASE TftpTranserWait
  <2>1. said' \subseteq Messages
    BY <1>9 DEF TftpTranserWait, WaitOutcome
  <2> QED
    BY <1>9, <2>1 DEF TftpTranserWait, gTftp, erasing
<1> QED
  BY <1>1, <1>2, <1>3, <1>4, <1>5, <1>6, <1>7, <1>8, <1>9 DEF Transfer

LEMMA NextTypeInv ==
    ASSUME TypeInv, [Next]_vars
    PROVE  TypeInv'
<1>1. CASE TcpAccept
  BY <1>1 DEF TcpAccept, gTftp, erasing, TypeInv, TypeOK, Progress, Running
<1>2. CASE EraseStep
  <2>1. flash' \in [Cells -> Byte]
    BY <1>2, EraseType DEF EraseStep, TypeInv, TypeOK
  <2>2. eAdr' \in Nat
    BY <1>2, GeometryAssumption DEF EraseStep, TypeInv, TypeOK
  <2> QED
    BY <1>2, <2>1, <2>2
       DEF EraseStep, gTftp, TypeInv, TypeOK, Progress, Running
<1>3. CASE EraseDone
  BY <1>3 DEF EraseDone, gTftp, erasing, TypeInv, TypeOK, Progress, Running,
              Messages
<1>4. CASE PowerFail
  BY <1>4, RestartTypeInv DEF PowerFail, TypeInv, TypeOK
<1>5. ASSUME NEW b \in Cells, PowerFailErasing(b) PROVE TypeInv'
  <2>1. flash' \in [Cells -> Byte]
    BY <1>5 DEF PowerFailErasing, TypeInv, TypeOK
  <2> QED
    BY <1>5, <2>1, RestartTypeInv DEF PowerFailErasing
<1>6. CASE PowerFailProgramming
  <2>1. PacketLen \in Nat /\ Adr \in Nat /\ FlashSize \in Nat
    BY <1>6, PacketBounds, GeometryAssumption
       DEF PowerFailProgramming, TypeInv, TypeOK, Progress, Running, Adr
  <2>2. flash' \in [Cells -> Byte]
    BY <1>6, <2>1, WriteType DEF PowerFailProgramming, TypeInv, TypeOK
  <2> QED
    BY <1>6, <2>2, RestartTypeInv DEF PowerFailProgramming
<1>7. CASE UNCHANGED vars
  BY <1>7 DEF vars, gTftp, erasing, TypeInv, TypeOK, Progress, Running
<1> QED
  BY <1>1, <1>2, <1>3, <1>4, <1>5, <1>6, <1>7, CommandTypeInv, TransferTypeInv
     DEF Next

\* Every variable keeps its type; in particular no counter of a transfer goes
\* below zero, where the code would read or program a huge length.
THEOREM TypeCorrect == Spec => []TypeOK
<1>1. TypeInv /\ [Next]_vars => TypeInv'
  BY NextTypeInv
<1>2. TypeInv => TypeOK
  BY DEF TypeInv
<1> QED
  BY <1>1, <1>2, InitTypeInv, PTL DEF Spec

-----------------------------------------------------------------------------
(* The flashed image.                                                      *)

\* Between commands, and before any report of success, nothing is claimed.
LEMMA Quiet ==
    ASSUME ~Running', "Flashed" \notin said'
    PROVE  EraseAhead' /\ FlashedImage'
  BY DEF EraseAhead, FlashedImage

\* The erase step leaves the bytes before Adr alone and the rest of Adr's
\* block blank.
LEMMA EraseStepEffect ==
    ASSUME TypeInv, EraseAhead, WriteErase,
           bAutoErase, FlashAdr % EraseSize = 0, Fits
    PROVE  /\ LastEraseAdr' = BlockOf(Adr)
           /\ \A c \in Cells : c < Adr => flash'[c] = flash[c]
           /\ \A c \in Cells : Adr <= c /\ c < BlockOf(Adr) + EraseSize
                                 => flash'[c] = Erased
<1> DEFINE n == PacketLen
<1>1. /\ n \in 1 .. BlkSize
      /\ pc = "wait" /\ TransferType = "FLASH" /\ Error = "IN_PROGRESS"
  BY PacketBounds, GeometryAssumption
     DEF WriteErase, Receiving, Polling, Running
<1>2. /\ BytesTransfered % BlkSize = 0
      /\ LastEraseAdr = IF BytesTransfered = 0 THEN INVALID_FLASH_ADR
                                               ELSE BlockOf(Adr - 1)
      /\ LastEraseAdr # INVALID_FLASH_ADR =>
           \A c \in Cells : Adr <= c /\ c < LastEraseAdr + EraseSize
                              => flash[c] = Erased
  BY <1>1 DEF EraseAhead, Running
<1>3. FlashAdr \in Nat /\ BytesTransfered \in Nat /\ Adr \in Nat
  BY DEF TypeInv, TypeOK, Adr
<1>4. BlockOf(Adr + n - 1) = BlockOf(Adr)
  <2>1. Adr % BlkSize = 0
    BY <1>2, <1>3, AlignedSum DEF Adr
  <2> QED
    BY <1>1, <1>3, <2>1, PacketInBlock
<1>5. BlockOf(Adr) \in Nat /\ EraseSize \in Nat \ {0}
  BY <1>3, BlockBounds, GeometryAssumption
<1>6. \A c \in Cells : c \in Int
  BY GeometryAssumption DEF Cells
<1>7. Adr < FlashAdr + Len(file)
  <2>1. BytesTransfered + n <= Len(file) /\ Len(file) \in Nat
    BY <1>1, PacketBounds DEF Running, TypeInv, TypeOK
  <2> QED
    BY <1>1, <1>3, <2>1, GeometryAssumption DEF Adr
<1>8. ASSUME NeedErase, NextErase = Adr, BlockOf(Adr) = Adr
      PROVE  /\ LastEraseAdr' = BlockOf(Adr)
             /\ \A c \in Cells : c < Adr => flash'[c] = flash[c]
             /\ \A c \in Cells : Adr <= c /\ c < BlockOf(Adr) + EraseSize
                                   => flash'[c] = Erased
  <2>1. LastEraseAdr' = Adr /\ flash' = spi_erase(flash, Adr)
    BY <1>8 DEF WriteErase
  <2>2. Adr \in Cells
    <3>1. Adr < FlashAdr + Len(file) /\ FlashAdr + Len(file) <= FlashSize
      BY <1>7 DEF Fits
    <3> QED
      BY <1>3, <3>1, GeometryAssumption DEF Cells, TypeInv, TypeOK
  <2>3. Adr % EraseSize = 0
    BY <1>3, <1>8, BlockAligned DEF Aligned
  <2>4. BlockCells(Adr) = Adr .. Adr + EraseSize - 1
    BY <2>2, <2>3, EraseAt
  <2> QED
    BY <1>3, <1>5, <1>6, <1>8, <2>1, <2>4 DEF spi_erase
<1>9. CASE BytesTransfered = 0
  <2>1. Adr = FlashAdr /\ LastEraseAdr = INVALID_FLASH_ADR
    BY <1>2, <1>3, <1>9 DEF Adr
  <2>2. BlockOf(Adr) = Adr
    BY <1>3, <2>1 DEF BlockOf
  <2>3. NeedErase /\ NextErase = Adr
    BY <1>3, <1>4, <2>1, <2>2 DEF NeedErase, NextErase, INVALID_FLASH_ADR
  <2> QED
    BY <1>8, <2>2, <2>3
<1>10. CASE BytesTransfered # 0
  <2>1. LastEraseAdr = BlockOf(Adr - 1) /\ Adr \in Nat \ {0} /\ Adr - 1 \in Nat
    BY <1>2, <1>3, <1>10 DEF Adr
  <2>2. LastEraseAdr \in Nat /\ LastEraseAdr # INVALID_FLASH_ADR
    BY <2>1, BlockBounds DEF INVALID_FLASH_ADR
  <2>3. CASE Adr % EraseSize = 0
    <3>1. BlockOf(Adr - 1) + EraseSize = Adr /\ BlockOf(Adr) = Adr
      BY <2>1, <2>3, BlockBefore
    <3>2. NeedErase /\ NextErase = Adr
      BY <1>4, <1>5, <2>1, <2>2, <3>1 DEF NeedErase, NextErase
    <3> QED
      BY <1>8, <3>1, <3>2
  <2>4. CASE Adr % EraseSize # 0
    <3>1. LastEraseAdr = BlockOf(Adr)
      BY <2>1, <2>4, BlockBefore
    <3>2. ~NeedErase
      BY <1>4, <3>1 DEF NeedErase
    <3>3. LastEraseAdr' = LastEraseAdr /\ flash' = flash
      BY <3>2 DEF WriteErase
    <3> QED
      BY <1>2, <2>2, <3>1, <3>3
  <2> QED
    BY <2>3, <2>4
<1> QED
  BY <1>9, <1>10

LEMMA WriteEraseFlashInv ==
    ASSUME FlashInv, WriteErase
    PROVE  EraseAhead' /\ FlashedImage'
<1>1. TypeInv /\ EraseAhead /\ FlashedImage
  BY DEF FlashInv, TypeInv
<1>2. /\ pc = "wait" /\ pc' = "program"
      /\ UNCHANGED <<bAutoErase, TransferType, FlashAdr, BytesTransfered,
                     Error, file, said>>
      /\ TransferType = "FLASH" /\ Error = "IN_PROGRESS"
  BY DEF WriteErase, Receiving, Polling
<1>3. Adr' = Adr
  BY <1>2 DEF Adr
<1> SUFFICES ASSUME bAutoErase, FlashAdr % EraseSize = 0, Fits
             PROVE  EraseAhead' /\ FlashedImage'
  BY <1>2 DEF EraseAhead, FlashedImage, Fits
<1>4. /\ LastEraseAdr' = BlockOf(Adr)
      /\ \A c \in Cells : c < Adr => flash'[c] = flash[c]
      /\ \A c \in Cells : Adr <= c /\ c < BlockOf(Adr) + EraseSize
                            => flash'[c] = Erased
  BY <1>1, EraseStepEffect
<1>5. EraseAhead'
  <2>1. BytesTransfered % BlkSize = 0
    BY <1>1, <1>2 DEF EraseAhead, Running
  <2> QED
    BY <1>2, <1>3, <1>4, <2>1 DEF EraseAhead, BlockOf
<1>6. FlashedImage'
  <2>1. InFlash(BytesTransfered)
    BY <1>1, <1>2 DEF FlashedImage, Running
  <2>2. \A i \in 0 .. BytesTransfered - 1 :
           FlashAdr + i < Adr /\ FlashAdr + i \in Cells
    <3>1. BytesTransfered <= Len(file) /\ FlashAdr + Len(file) <= FlashSize
          /\ FlashAdr \in Nat /\ BytesTransfered \in Nat /\ Len(file) \in Nat
      BY <1>1, <1>2 DEF TypeInv, TypeOK, Progress, Running, Fits
    <3> QED
      BY <3>1, GeometryAssumption DEF Adr, Cells
  <2>3. InFlash(BytesTransfered)'
    BY <1>2, <1>4, <2>1, <2>2 DEF InFlash
  <2> QED
    BY <2>3 DEF FlashedImage
<1> QED
  BY <1>5, <1>6

LEMMA WriteProgramFlashInv ==
    ASSUME FlashInv, WriteProgram
    PROVE  EraseAhead' /\ FlashedImage'
<1> DEFINE n == PacketLen
<1>1. TypeInv /\ EraseAhead /\ FlashedImage
  BY DEF FlashInv, TypeInv
<1>2. /\ pc = "program" /\ pc' = "wait"
      /\ UNCHANGED <<bAutoErase, TransferType, FlashAdr, LastEraseAdr, file,
                     said>>
      /\ TransferType = "FLASH" /\ Error = "IN_PROGRESS"
      /\ BytesTransfered < Len(file)
      /\ BytesTransfered' = BytesTransfered + n
      /\ flash' = spi_write(flash, Adr, Payload, n)
      /\ Error' = IF n < BlkSize THEN "OK" ELSE "IN_PROGRESS"
  BY <1>1 DEF WriteProgram, TypeInv, Progress, CloseIfLast
<1>3. /\ n \in Nat /\ n <= BlkSize /\ n > 0
      /\ BytesTransfered + n <= Len(file)
  <2>1. BytesTransfered \in Nat /\ Len(file) \in Nat
    BY <1>1 DEF TypeInv, TypeOK
  <2>2. n > 0
    BY <1>2, <2>1, GeometryAssumption DEF PacketLen, MinOf
  <2> QED
    BY <1>1, <1>2, <2>2, PacketBounds DEF Running
<1>4. FlashAdr \in Nat /\ BytesTransfered \in Nat /\ Adr \in Nat
      /\ Adr = FlashAdr + BytesTransfered
  BY <1>1 DEF TypeInv, TypeOK, Adr
<1> SUFFICES ASSUME bAutoErase, FlashAdr % EraseSize = 0, Fits
             PROVE  EraseAhead' /\ FlashedImage'
  BY <1>2 DEF EraseAhead, FlashedImage, Fits
<1>5. /\ BytesTransfered % BlkSize = 0
      /\ LastEraseAdr = BlockOf(Adr)
  BY <1>1, <1>2 DEF EraseAhead, Running
<1>6. BlockOf(Adr + n - 1) = BlockOf(Adr)
  <2>1. Adr % BlkSize = 0
    BY <1>4, <1>5, AlignedSum
  <2>2. n \in 1 .. BlkSize
    BY <1>3, GeometryAssumption
  <2> QED
    BY <1>4, <2>1, <2>2, PacketInBlock
<1>7. /\ BlockOf(Adr) \in Nat /\ EraseSize \in Nat
      /\ Adr + n - 1 < BlockOf(Adr) + EraseSize
  BY <1>3, <1>4, <1>6, BlockBounds, GeometryAssumption
<1>8. \A c \in Cells : Adr <= c /\ c < BlockOf(Adr) + EraseSize
                         => flash[c] = Erased
  BY <1>1, <1>2, <1>5, <1>7 DEF EraseAhead, Running, INVALID_FLASH_ADR
<1>9. \A c \in Cells :
        /\ c \in Int
        /\ Adr <= c /\ c < Adr + n =>
              flash'[c] = flash[c] \cup Payload[c - Adr + 1]
        /\ ~(Adr <= c /\ c < Adr + n) => flash'[c] = flash[c]
  <2>1. Adr + n <= FlashSize /\ n \in Nat /\ Adr \in Nat
    <3>1. FlashAdr + Len(file) <= FlashSize /\ Len(file) \in Nat
      BY <1>1 DEF Fits, TypeInv, TypeOK
    <3> QED
      BY <1>3, <1>4, <3>1, GeometryAssumption
  <2> HIDE DEF n
  <2>2. \A c \in Cells :
          /\ Adr <= c /\ c < Adr + n =>
                flash'[c] = flash[c] \cup Payload[c - Adr + 1]
          /\ ~(Adr <= c /\ c < Adr + n) => flash'[c] = flash[c]
    BY <1>2, <2>1, WriteAt
  <2>3. \A c \in Cells : c \in Int
    BY GeometryAssumption DEF Cells
  <2> QED
    BY <2>2, <2>3
<1>10. Adr' = Adr + n
  BY <1>2, <1>3, <1>4 DEF Adr
<1>11. EraseAhead'
  <2>1. CASE n < BlkSize
    BY <1>2, <2>1 DEF EraseAhead
  <2>2. CASE n = BlkSize
    <3>1. BytesTransfered' % BlkSize = 0
      BY <1>2, <1>4, <1>5, <2>2, NextPacket
    <3>2. BytesTransfered' # 0
      BY <1>2, <1>3, <1>4
    <3>3. BlockOf(Adr' - 1) = BlockOf(Adr)
      BY <1>3, <1>4, <1>6, <1>10
    <3>4. \A c \in Cells : Adr + n <= c /\ c < BlockOf(Adr) + EraseSize
                             => flash'[c] = Erased
      BY <1>3, <1>4, <1>8, <1>9
    <3>5. LastEraseAdr' = BlockOf(Adr' - 1)
      BY <1>2, <1>5, <3>3
    <3> QED
      BY <1>2, <1>5, <1>10, <3>1, <3>2, <3>4, <3>5 DEF EraseAhead, BlockOf
  <2> QED
    BY <1>3, <2>1, <2>2, GeometryAssumption
<1>12. InFlash(BytesTransfered)'
  <2> SUFFICES ASSUME NEW i \in 0 .. (BytesTransfered + n) - 1
               PROVE  flash'[FlashAdr + i] = file[i + 1]
    <3>1. /\ FlashAdr' = FlashAdr /\ file' = file
          /\ BytesTransfered' = BytesTransfered + n
      BY <1>2
    <3> QED
      BY <3>1 DEF InFlash
  <2>1. FlashAdr + i \in Cells
    <3>1. FlashAdr + Len(file) <= FlashSize /\ Len(file) \in Nat
      BY <1>1 DEF Fits, TypeInv, TypeOK
    <3> QED
      BY <1>3, <1>4, <3>1, GeometryAssumption DEF Cells
  <2>2. CASE i < BytesTransfered
    <3>1. flash[FlashAdr + i] = file[i + 1]
      BY <1>1, <1>2, <1>4, <2>2 DEF FlashedImage, InFlash, Running
    <3> QED
      BY <1>3, <1>4, <1>9, <2>2, <2>1, <3>1
  <2>3. CASE i >= BytesTransfered
    <3> DEFINE j == i - BytesTransfered + 1
    <3>1. j \in 1 .. n /\ BytesTransfered + j = i + 1
      BY <1>3, <1>4, <2>3
    <3>2. /\ Adr <= FlashAdr + i /\ FlashAdr + i < Adr + n
          /\ FlashAdr + i < BlockOf(Adr) + EraseSize
          /\ (FlashAdr + i) - Adr + 1 = j
      BY <1>3, <1>4, <1>7, <2>3
    <3>3. flash[FlashAdr + i] = Erased
      BY <1>8, <2>1, <3>2
    <3>4. flash'[FlashAdr + i] = flash[FlashAdr + i] \cup Payload[j]
      <4> DEFINE x == FlashAdr + i
      <4>1. x \in Cells /\ Adr <= x /\ x < Adr + n /\ x - Adr + 1 = j
        BY <2>1, <3>2
      <4> HIDE DEF x, n, j
      <4>2. flash'[x] = flash[x] \cup Payload[x - Adr + 1]
        BY <1>9, <4>1
      <4> QED
        BY <4>1, <4>2 DEF x
    <3>5. Payload[j] = file[i + 1]
      BY <3>1 DEF Payload
    <3> QED
      BY <3>3, <3>4, <3>5 DEF Erased
  <2> QED
    BY <1>3, <1>4, <2>2, <2>3
<1> QED
  BY <1>11, <1>12 DEF FlashedImage

LEMMA CommandFlashInv ==
    ASSUME FlashInv, Command
    PROVE  EraseAhead' /\ FlashedImage'
<1>1. ASSUME NEW c, NEW adr, TransferRefused(c, adr)
      PROVE  EraseAhead' /\ FlashedImage'
  BY <1>1, Quiet DEF TransferRefused, Running
<1>2. ASSUME NEW c, NEW adr, NEW type, NEW len,
             StartTransfer(c, adr, type, len)
      PROVE  EraseAhead' /\ FlashedImage'
  <2>1. /\ BytesTransfered' = 0 /\ LastEraseAdr' = INVALID_FLASH_ADR
        /\ pc' \in {"wait", "idle"}
        /\ said' \in {{}, {"TransferFailed"}}
    BY <1>2 DEF StartTransfer, ldr_tftp_init
  <2>2. FlashedImage'
    BY <2>1 DEF FlashedImage, InFlash
  <2>3. 0 % BlkSize = 0
    BY GeometryAssumption, ModUnique
  <2>4. EraseAhead'
    BY <2>1, <2>3 DEF EraseAhead, Running
  <2> QED
    BY <2>2, <2>4
<1>3. ASSUME NEW adr, FlashCmd(adr) \/ VerifyCmd(adr)
      PROVE  EraseAhead' /\ FlashedImage'
  BY <1>1, <1>2, <1>3 DEF FlashCmd, VerifyCmd
<1>4. ASSUME NEW adr, NEW len, SaveCmd(adr, len)
      PROVE  EraseAhead' /\ FlashedImage'
  BY <1>1, <1>2, <1>4 DEF SaveCmd
<1>5. ASSUME NEW a, NEW e, EraseCmd(a, e)
      PROVE  EraseAhead' /\ FlashedImage'
  BY <1>5, Quiet DEF EraseCmd, Running
<1>6. ASSUME NEW on, AutoEraseCmd(on)
      PROVE  EraseAhead' /\ FlashedImage'
  BY <1>6, Quiet DEF AutoEraseCmd, Running
<1>7. CASE SettingsCmd
  BY <1>7, Quiet DEF SettingsCmd, Running
<1> QED
  BY <1>3, <1>4, <1>5, <1>6, <1>7 DEF Command

LEMMA TransferFlashInv ==
    ASSUME FlashInv, Transfer
    PROVE  EraseAhead' /\ FlashedImage'
\* A step that ends the transfer without touching flash.
<1>1. ASSUME Polling, Error' # "IN_PROGRESS",
             UNCHANGED <<flash, bAutoErase, TransferType, FlashAdr,
                         BytesTransfered, pc, file, said>>
      PROVE  EraseAhead' /\ FlashedImage'
  BY <1>1 DEF FlashInv, EraseAhead, FlashedImage, InFlash, Fits, Running, Polling
\* A step of a transfer that does not program.
<1>2. ASSUME TransferType' # "FLASH"
      PROVE  EraseAhead' /\ FlashedImage'
  BY <1>2 DEF EraseAhead, FlashedImage
<1>3. CASE WriteNothing
  BY <1>1, <1>3, GeometryAssumption DEF WriteNothing, Receiving, CloseIfLast
<1>4. CASE WriteErase
  BY <1>4, WriteEraseFlashInv
<1>5. CASE WriteProgram
  BY <1>5, WriteProgramFlashInv
<1>6. CASE WriteCompare
  BY <1>2, <1>6 DEF WriteCompare
<1>7. CASE WriteInternal
  BY <1>2, <1>7 DEF WriteInternal
<1>8. CASE tftp_read
  BY <1>2, <1>8 DEF tftp_read
<1>9. CASE tftp_close
  BY <1>1, <1>9 DEF tftp_close
<1>10. CASE tftp_error
  BY <1>1, <1>10 DEF tftp_error
<1>11. CASE TftpTranserWait
  <2>1. EraseAhead'
    BY <1>11 DEF TftpTranserWait, EraseAhead, Running
  <2>2. FlashedImage'
    BY <1>11 DEF TftpTranserWait, FlashInv, FlashedImage, InFlash, Fits, Running,
                 gTftp
  <2> QED
    BY <2>1, <2>2
<1> QED
  BY <1>3, <1>4, <1>5, <1>6, <1>7, <1>8, <1>9, <1>10, <1>11 DEF Transfer

LEMMA NextFlashInv ==
    ASSUME FlashInv, [Next]_vars
    PROVE  FlashInv'
<1>1. TypeInv'
  BY NextTypeInv DEF FlashInv, TypeInv
<1>2. EraseAhead' /\ FlashedImage'
  <2>1. CASE TcpAccept
    BY <2>1 DEF TcpAccept, gTftp, FlashInv, EraseAhead, FlashedImage, InFlash,
                Fits, Running, Adr
  <2>2. CASE EraseStep
    BY <2>2, Quiet DEF EraseStep, FlashInv, Progress, Running
  <2>3. CASE EraseDone
    BY <2>3, Quiet DEF EraseDone, Running
  <2>4. CASE Restart
    BY <2>4, Quiet DEF Restart, BootRam, Running
  <2>5. CASE UNCHANGED vars
    BY <2>5 DEF vars, gTftp, FlashInv, EraseAhead, FlashedImage, InFlash,
                Fits, Running, Adr
  <2> QED
    BY <2>1, <2>2, <2>3, <2>4, <2>5, CommandFlashInv, TransferFlashInv
       DEF Next, PowerFail, PowerFailErasing, PowerFailProgramming
<1> QED
  BY <1>1, <1>2 DEF FlashInv, TypeInv

\* The inductive invariant holds throughout.
LEMMA FlashInvHolds == Spec => []FlashInv
<1>1. Init => FlashInv
  <2>1. Init => EraseAhead /\ FlashedImage
    BY DEF Init, EraseAhead, FlashedImage, Running
  <2> QED
    BY <2>1, InitTypeInv DEF FlashInv, TypeInv
<1>2. FlashInv /\ [Next]_vars => FlashInv'
  BY NextFlashInv
<1> QED
  BY <1>1, <1>2, PTL DEF Spec

\* For every geometry, file that fits and initial contents: with autoerase on
\* and an aligned start, every byte that tftp_write has counted is in flash, through
\* the transfer and when it is reported, although the blocks are erased one by
\* one while it runs.
THEOREM FlashedImageHolds == Spec => []FlashedImage
<1>1. FlashInv => FlashedImage
  BY DEF FlashInv
<1> QED
  BY <1>1, FlashInvHolds, PTL

\* Throughout such a transfer LastEraseAdr is the block that tftp_write last
\* wrote to, and what is left of that block is blank.
THEOREM EraseAheadHolds == Spec => []EraseAhead
<1>1. FlashInv => EraseAhead
  BY DEF FlashInv
<1> QED
  BY <1>1, FlashInvHolds, PTL

-----------------------------------------------------------------------------
(* The invariants behind the other commands.                               *)

\* The erase command: its loop stands on a block boundary, the range ends at
\* one, and what the loop has passed is blank.
EraseInv ==
    /\ pc = "erase" =>
         /\ Aligned(eAdr) /\ Aligned(eEnd + 1) /\ eBeg <= eAdr
         /\ eEnd <= FlashSize
         /\ \A c \in Cells : eBeg <= c /\ c < eAdr => flash[c] = Erased
    /\ "Erased" \in said => pc = "idle"
    /\ EraseComplete

\* The bytes that verify has counted equal the file's.
Counted ==
    \A i \in 1 .. BytesTransfered : spi_read(flash, FlashAdr + i - 1) = file[i]

\* The next byte differs.
Differs ==
    /\ BytesTransfered < Len(file)
    /\ spi_read(flash, FlashAdr + BytesTransfered) # file[BytesTransfered + 1]

\* The verify command: it only ever compares, and an error it will report is
\* about the byte it stopped at.
VerifyInv ==
    /\ cmd = "verify" /\ Running =>
         /\ TransferType = "COMPARE" /\ "CompareFailed" \notin said
         /\ Counted
         /\ Error = "COMPARE_FAIL" => Differs
    /\ VerifyExact

\* Erase-as-you-go, at any start address: LastEraseAdr is a block between the
\* first of the file's and the one being written.
LastEraseInv ==
    Running /\ TransferType = "FLASH" /\ LastEraseAdr # INVALID_FLASH_ADR =>
        /\ Aligned(LastEraseAdr)
        /\ BlockOf(FlashAdr) <= LastEraseAdr
        /\ LastEraseAdr <= BlockOf(IF pc = "program" THEN Adr + PacketLen - 1
                                                     ELSE Adr)

-----------------------------------------------------------------------------
(* The erase command.                                                      *)

\* A step of the erase loop stays in the range and blanks the next block.
LEMMA EraseStepBounds ==
    ASSUME TypeInv, EraseInv, pc = "erase", eAdr < eEnd
    PROVE  /\ eBeg <= eAdr /\ eAdr + EraseSize <= eEnd + 1
           /\ BlockCells(eAdr) = eAdr .. eAdr + EraseSize - 1
<1>1. eAdr \in Int /\ eEnd + 1 \in Int /\ eAdr < eEnd + 1
  BY DEF TypeInv, TypeOK
<1>2. Aligned(eAdr) /\ Aligned(eEnd + 1) /\ eBeg <= eAdr
  BY DEF EraseInv
<1>3. eAdr \in Cells
  BY <1>1, GeometryAssumption DEF EraseInv, TypeInv, TypeOK, Cells
<1>4. BlockCells(eAdr) = eAdr .. eAdr + EraseSize - 1
  BY <1>2, <1>3, EraseAt DEF Aligned
<1>5. QED
  BY <1>1, <1>2, <1>4, AlignedGap

LEMMA NextEraseInv ==
    ASSUME TypeInv, EraseInv, [Next]_vars
    PROVE  EraseInv'
<1>1. ASSUME pc' # "erase", "Erased" \notin said' PROVE EraseInv'
  BY <1>1 DEF EraseInv, EraseComplete
<1>2. ASSUME UNCHANGED <<flash, pc, eBeg, eAdr, eEnd, said>> PROVE EraseInv'
  BY <1>2 DEF EraseInv, EraseComplete
<1>3. ASSUME NEW a \in Adrs \cup {BadArg}, NEW e \in Adrs \cup {BadArg},
             EraseCmd(a, e)
      PROVE  EraseInv'
  <2>1. CASE AdrAccepted(a) /\ AdrAccepted(e) /\ EraseAligned(a, e)
    <3>1. /\ pc' = "erase" /\ said' = {}
          /\ eBeg' = a /\ eAdr' = a /\ eEnd' = e /\ a \in Nat /\ e \in Nat
          /\ Aligned(a) /\ Aligned(e + 1) /\ e <= FlashSize
      BY <1>3, <2>1, InputAssumption
         DEF EraseCmd, AdrAccepted, EraseAligned, Aligned
    <3>2. \A c \in Cells : ~(a <= c /\ c < a)
      BY <3>1, GeometryAssumption DEF Cells
    <3>3. QED
      BY <3>1, <3>2 DEF EraseInv, EraseComplete, Aligned
  <2>2. CASE ~(AdrAccepted(a) /\ AdrAccepted(e) /\ EraseAligned(a, e))
    BY <1>1, <1>3, <2>2 DEF EraseCmd
  <2>3. QED
    BY <2>1, <2>2
<1>4. CASE Command
  <2>1. ASSUME NEW c, NEW adr, TransferRefused(c, adr) PROVE EraseInv'
    BY <1>1, <2>1 DEF TransferRefused
  <2>2. ASSUME NEW c, NEW adr, NEW type, NEW len,
               StartTransfer(c, adr, type, len)
        PROVE  EraseInv'
    BY <1>1, <2>2 DEF StartTransfer
  <2>3. ASSUME NEW on, AutoEraseCmd(on) PROVE EraseInv'
    BY <1>1, <2>3 DEF AutoEraseCmd
  <2>4. CASE SettingsCmd
    BY <1>1, <2>4 DEF SettingsCmd
  <2>5. QED
    BY <1>3, <1>4, <2>1, <2>2, <2>3, <2>4
       DEF Command, FlashCmd, VerifyCmd, SaveCmd
<1>5. CASE TcpAccept
  BY <1>2, <1>5 DEF TcpAccept, erasing
<1>6. CASE Transfer
  <2>1. pc \in {"wait", "program"} /\ pc' # "erase"
    BY <1>6 DEF Transfer, WriteNothing, WriteErase, WriteProgram, WriteCompare,
       WriteInternal, tftp_read, tftp_close, tftp_error, TftpTranserWait,
       Receiving, Polling
  <2>2. "Erased" \notin said
    BY <2>1 DEF EraseInv
  <2>3. "Erased" \notin said'
    <3>1. CASE TftpTranserWait
      BY <2>2, <3>1 DEF TftpTranserWait, WaitOutcome
    <3>2. CASE said' = said
      BY <2>2, <3>2
    <3>3. QED
      BY <1>6, <3>1, <3>2 DEF Transfer, WriteNothing, WriteErase, WriteProgram,
         WriteCompare, WriteInternal, tftp_read, tftp_close, tftp_error
  <2>4. QED
    BY <1>1, <2>1, <2>3
<1>7. CASE EraseStep
  <2>1. /\ pc = "erase" /\ pc' = "erase" /\ flash' = spi_erase(flash, eAdr)
        /\ eAdr < eEnd
        /\ eAdr' = eAdr + EraseSize /\ UNCHANGED <<eBeg, eEnd, said>>
    BY <1>7 DEF EraseStep
  <2>2. /\ eBeg \in Int /\ eAdr \in Int /\ eEnd \in Int /\ EraseSize \in Nat
        /\ \A c \in Cells : c \in Int
    BY GeometryAssumption DEF TypeInv, TypeOK, Cells
  <2>3. /\ Aligned(eAdr) /\ Aligned(eEnd + 1) /\ eBeg <= eAdr
        /\ \A c \in Cells : eBeg <= c /\ c < eAdr => flash[c] = Erased
        /\ said = {} /\ eEnd <= FlashSize
    BY <2>1 DEF EraseInv, TypeInv, Progress
  <2>4. Aligned(eAdr') /\ Aligned(eEnd' + 1) /\ eBeg' <= eAdr'
    BY <2>1, <2>2, <2>3, AlignedNext
  <2>5. \A c \in Cells : eBeg <= c /\ c < eAdr + EraseSize => flash'[c] = Erased
    <3>1. BlockCells(eAdr) = eAdr .. eAdr + EraseSize - 1
      BY <2>1, EraseStepBounds
    <3> QED
      BY <2>1, <2>2, <2>3, <3>1 DEF spi_erase
  <2>6. QED
    BY <2>1, <2>3, <2>4, <2>5 DEF EraseInv, EraseComplete, Aligned
<1>8. CASE EraseDone
  <2>1. /\ pc = "erase" /\ eAdr >= eEnd /\ pc' = "idle"
        /\ UNCHANGED <<flash, eBeg, eAdr, eEnd>>
    BY <1>8 DEF EraseDone, erasing
  <2>2. /\ Aligned(eAdr) /\ Aligned(eEnd + 1)
        /\ \A c \in Cells : eBeg <= c /\ c < eAdr => flash[c] = Erased
    BY <2>1 DEF EraseInv
  <2>3. eAdr \in Int /\ eEnd \in Int /\ EraseSize \in Nat /\ EraseSize > 1
    BY GeometryAssumption DEF TypeInv, TypeOK
  <2>4. eEnd < eAdr
    <3>1. eAdr < eEnd + 1 => eAdr + EraseSize <= eEnd + 1
      BY <2>2, <2>3, AlignedGap
    <3>2. QED
      BY <2>1, <2>3, <3>1
  <2>5. \A c \in Cells : c \in Int
    BY GeometryAssumption DEF Cells
  <2>6. \A c \in Cells : eBeg <= c /\ c <= eEnd => flash[c] = Erased
    BY <2>2, <2>3, <2>4, <2>5
  <2>7. QED
    BY <2>1, <2>6 DEF EraseInv, EraseComplete
<1>9. CASE Restart
  BY <1>1, <1>9 DEF Restart, BootRam
<1>10. CASE UNCHANGED vars
  BY <1>2, <1>10 DEF vars, erasing
<1>11. QED
  BY <1>4, <1>5, <1>6, <1>7, <1>8, <1>9, <1>10
     DEF Next, PowerFail, PowerFailErasing, PowerFailProgramming

LEMMA TypeInvHolds == Spec => []TypeInv
<1>1. TypeInv /\ [Next]_vars => TypeInv'
  BY NextTypeInv
<1>2. QED
  BY <1>1, InitTypeInv, PTL DEF Spec

LEMMA EraseInvHolds == Spec => []EraseInv
<1>1. Init => EraseInv
  BY DEF Init, EraseInv, EraseComplete
<1>2. TypeInv /\ EraseInv /\ [Next]_vars => EraseInv'
  BY NextEraseInv
<1>3. QED
  BY <1>1, <1>2, TypeInvHolds, PTL DEF Spec

\* When the erase command prints that it is done, every cell of the range the
\* user typed is blank (main.c, EraseCmd), on every geometry with more than one
\* byte to an erase block.
THEOREM EraseCompleteHolds == Spec => []EraseComplete
<1>1. EraseInv => EraseComplete
  BY DEF EraseInv
<1>2. QED
  BY <1>1, EraseInvHolds, PTL

-----------------------------------------------------------------------------
(* The verify command.                                                     *)

\* Comparing a packet extends what is known to be equal by the bytes counted.
LEMMA CompareCounts ==
    ASSUME TypeInv, WriteCompare, Counted
    PROVE  Counted' /\ (Error' = "COMPARE_FAIL" => Differs')
<1>1. PICK n \in 0 .. PacketLen :
          /\ Receiving /\ TransferType = "COMPARE"
          /\ MatchLen(n)
          /\ BytesTransfered' = BytesTransfered + n
          /\ IF n < PacketLen THEN Error' = "COMPARE_FAIL" ELSE CloseIfLast(n)
          /\ UNCHANGED <<flash, FlashAdr, file>>
  BY DEF WriteCompare
<1>2. /\ PacketLen \in Nat /\ BytesTransfered + PacketLen <= Len(file)
      /\ BytesTransfered \in Nat /\ FlashAdr \in Nat /\ Len(file) \in Nat
  BY <1>1, PacketBounds DEF Receiving, Polling, Running, TypeInv, TypeOK
<1>3. n \in Nat /\ n <= PacketLen
  BY <1>2
<1>4. \A j \in 1 .. n : spi_read(flash, Adr + j - 1) = file[BytesTransfered + j]
  <2>1. \A j \in 1 .. n : spi_read(flash, Adr + j - 1) = Payload[j]
    BY <1>1 DEF MatchLen
  <2>2. \A j \in 1 .. n : Payload[j] = file[BytesTransfered + j]
    BY <1>2, <1>3 DEF Payload
  <2>3. QED
    BY <2>1, <2>2
<1>5. \A i \in 1 .. BytesTransfered + n :
         spi_read(flash, FlashAdr + i - 1) = file[i]
  <2> SUFFICES ASSUME NEW i \in 1 .. BytesTransfered + n
               PROVE  spi_read(flash, FlashAdr + i - 1) = file[i]
    OBVIOUS
  <2>1. CASE i <= BytesTransfered
    BY <1>2, <1>3, <2>1 DEF Counted
  <2>2. CASE i > BytesTransfered
    <3> DEFINE j == i - BytesTransfered
    <3>1. j \in 1 .. n /\ BytesTransfered + j = i /\ Adr + j - 1 = FlashAdr + i - 1
      BY <1>2, <1>3, <2>2 DEF Adr
    <3> HIDE DEF j
    <3>2. QED
      BY <1>4, <3>1
  <2>3. QED
    BY <1>2, <1>3, <2>1, <2>2
<1>6. Counted'
  BY <1>1, <1>5 DEF Counted, spi_read
<1>7. ASSUME Error' = "COMPARE_FAIL" PROVE Differs'
  <2>1. n < PacketLen
    BY <1>1, <1>2, <1>3, <1>7 DEF CloseIfLast
  <2>2. spi_read(flash, Adr + n) # Payload[n + 1]
    BY <1>1, <2>1 DEF MatchLen
  <2>3. Payload[n + 1] = file[BytesTransfered + n + 1]
    BY <1>2, <1>3, <2>1 DEF Payload
  <2>4. Adr + n = FlashAdr + (BytesTransfered + n)
    BY <1>2, <1>3 DEF Adr
  <2>5. BytesTransfered + n < Len(file)
    BY <1>2, <1>3, <2>1
  <2>6. QED
    BY <1>1, <2>2, <2>3, <2>4, <2>5 DEF Differs, spi_read
<1>8. QED
  BY <1>6, <1>7

LEMMA NextVerifyInv ==
    ASSUME TypeInv, VerifyInv, [Next]_vars
    PROVE  VerifyInv'
<1>1. ASSUME ~Running', "Verified" \notin said', "CompareFailed" \notin said'
      PROVE  VerifyInv'
  BY <1>1 DEF VerifyInv, VerifyExact
<1>2. ASSUME UNCHANGED <<flash, FlashAdr, BytesTransfered, file>>
      PROVE  (Counted' <=> Counted) /\ (Differs' <=> Differs)
  BY <1>2 DEF Counted, Differs, spi_read
<1>3. ASSUME UNCHANGED <<flash, gTftp, cmd, pc, file, said>> PROVE VerifyInv'
  BY <1>3 DEF gTftp, VerifyInv, VerifyExact, Counted, Differs, Running, spi_read
<1>4. CASE Command
  <2>1. ASSUME NEW c, NEW adr, TransferRefused(c, adr) PROVE VerifyInv'
    BY <1>1, <2>1 DEF TransferRefused, Running
  <2>2. ASSUME NEW c, NEW adr, NEW type, NEW len, c = "verify" => type = "COMPARE",
               StartTransfer(c, adr, type, len)
        PROVE  VerifyInv'
    <3>1. /\ TransferType' = type /\ cmd' = c
          /\ BytesTransfered' = 0 /\ Error' \in {"IN_PROGRESS", "OK"}
          /\ said' \in {{}, {"TransferFailed"}}
      BY <2>2 DEF StartTransfer, ldr_tftp_init
    <3>2. Counted'
      BY <3>1 DEF Counted
    <3>3. QED
      BY <2>2, <3>1, <3>2 DEF VerifyInv, VerifyExact
  <2>3. ASSUME NEW a, NEW e, EraseCmd(a, e) PROVE VerifyInv'
    BY <1>1, <2>3 DEF EraseCmd, Running
  <2>4. ASSUME NEW on, AutoEraseCmd(on) PROVE VerifyInv'
    BY <1>1, <2>4 DEF AutoEraseCmd, Running
  <2>5. CASE SettingsCmd
    BY <1>1, <2>5 DEF SettingsCmd, Running
  <2>6. QED
    BY <1>4, <2>1, <2>2, <2>3, <2>4, <2>5
       DEF Command, FlashCmd, VerifyCmd, SaveCmd
<1>5. CASE TcpAccept
  BY <1>3, <1>5 DEF TcpAccept
<1>6. CASE Transfer
  <2>1. Running
    BY <1>6 DEF Transfer, WriteNothing, WriteErase, WriteProgram, WriteCompare,
       WriteInternal, tftp_read, tftp_close, tftp_error, TftpTranserWait,
       Receiving, Polling, Running
  <2>2. cmd' = cmd
    BY <1>6 DEF Transfer, WriteNothing, WriteErase, WriteProgram, WriteCompare,
       WriteInternal, tftp_read, tftp_close, tftp_error, TftpTranserWait
  <2>3. CASE cmd # "verify"
    BY <2>2, <2>3 DEF VerifyInv, VerifyExact
  <2>4. CASE cmd = "verify"
    <3>1. /\ TransferType = "COMPARE" /\ "CompareFailed" \notin said /\ Counted
          /\ Error = "COMPARE_FAIL" => Differs
      BY <2>1, <2>4 DEF VerifyInv
    <3>2. ASSUME Running', UNCHANGED <<TransferType, said>>, Counted',
                 Error' = "COMPARE_FAIL" => Differs'
          PROVE  VerifyInv'
      BY <3>1, <3>2 DEF VerifyInv, VerifyExact, Running
    <3>3. CASE WriteCompare
      BY <3>1, <3>2, <3>3, CompareCounts
         DEF WriteCompare, Receiving, Polling, Running
    <3>4. ASSUME Polling, Error' # "COMPARE_FAIL",
                 UNCHANGED <<flash, FlashAdr, BytesTransfered, file, pc,
                             TransferType, said>>
          PROVE  VerifyInv'
      BY <1>2, <3>1, <3>2, <3>4 DEF Polling, Running
    <3>5. CASE WriteNothing
      BY <3>4, <3>5 DEF WriteNothing, Receiving, CloseIfLast
    <3>6. CASE tftp_close
      BY <3>4, <3>6 DEF tftp_close
    <3>7. CASE tftp_error
      BY <3>4, <3>7 DEF tftp_error
    <3>8. CASE TftpTranserWait
      <4>1. /\ pc' = "idle" /\ UNCHANGED <<flash, FlashAdr, BytesTransfered, file>>
        BY <3>8 DEF TftpTranserWait, gTftp
      <4>2. "CompareFailed" \in said' => Error = "COMPARE_FAIL"
        BY <3>1, <3>8 DEF TftpTranserWait, WaitOutcome
      <4>3. Counted' /\ ("CompareFailed" \in said' => Differs')
        BY <1>2, <3>1, <4>1, <4>2
      <4>4. QED
        BY <4>1, <4>3 DEF VerifyInv, VerifyExact, Running, Counted, Differs
    <3>9. QED
      BY <1>6, <3>1, <3>3, <3>5, <3>6, <3>7, <3>8
         DEF Transfer, WriteErase, WriteProgram, WriteInternal, tftp_read,
             TypeInv, Progress
  <2>5. QED
    BY <2>3, <2>4
<1>7. CASE EraseStep
  <2>1. pc' = "erase"
    BY <1>7 DEF EraseStep
  <2>2. QED
    BY <2>1 DEF VerifyInv, VerifyExact, Running
<1>8. CASE EraseDone
  BY <1>1, <1>8 DEF EraseDone, Running
<1>9. CASE Restart
  BY <1>1, <1>9 DEF Restart, BootRam, Running
<1>10. CASE UNCHANGED vars
  BY <1>3, <1>10 DEF vars
<1>11. QED
  BY <1>4, <1>5, <1>6, <1>7, <1>8, <1>9, <1>10
     DEF Next, PowerFail, PowerFailErasing, PowerFailProgramming

\* What verify reports is about the bytes it says it is about: those it counted
\* equal the file's, and a failure names the first that differs (tftp_write's
\* compare loop and VerifyCmd), whether it failed in a first, a full or a last
\* packet.
THEOREM VerifyExactHolds == Spec => []VerifyExact
<1>1. Init => VerifyInv
  BY DEF Init, VerifyInv, VerifyExact, Running
<1>2. TypeInv /\ VerifyInv /\ [Next]_vars => VerifyInv'
  BY NextVerifyInv
<1>3. VerifyInv => VerifyExact
  BY DEF VerifyInv
<1>4. QED
  BY <1>1, <1>2, <1>3, TypeInvHolds, PTL DEF Spec

-----------------------------------------------------------------------------
(* The save command.                                                       *)

\* One more block of an upload extends the server's file by that much flash.
LEMMA ReadExtends ==
    ASSUME TypeInv, tftp_read,
           file = [i \in 1 .. BytesTransfered |-> spi_read(flash, FlashAdr + i - 1)]
    PROVE  file' = [i \in 1 .. BytesTransfered' |->
                      spi_read(flash, FlashAdr + i - 1)]
<1> DEFINE n == ReadLen
           m == BytesTransfered
           more == [i \in 1 .. n |-> spi_read(flash, Adr + i - 1)]
           all == [i \in 1 .. m + n |-> spi_read(flash, FlashAdr + i - 1)]
<1>1. n \in Nat /\ m \in Nat /\ FlashAdr \in Nat /\ Adr = FlashAdr + m
  BY ReadBounds DEF tftp_read, Polling, Running, TypeInv, TypeOK, Adr
<1>2. file' = file \o more /\ BytesTransfered' = m + n
  BY DEF tftp_read
<1> HIDE DEF n
<1>3. /\ \A a \in Int : spi_read(flash, a) \in Byte
      /\ file \in Seq(Byte) /\ more \in Seq(Byte) /\ all \in Seq(Byte)
      /\ Len(file) = m /\ Len(more) = n /\ Len(all) = m + n
  <2>1. \A a \in Int : spi_read(flash, a) \in Byte
    BY ReadType DEF TypeInv, TypeOK
  <2>2. file \in Seq(Byte)
    BY DEF TypeInv, TypeOK
  <2>3. QED
    BY <1>1, <2>1, <2>2
<1>4. \A i \in 1 .. m + n : (file \o more)[i] = all[i]
  <2> SUFFICES ASSUME NEW i \in 1 .. m + n
               PROVE  (file \o more)[i] = spi_read(flash, FlashAdr + i - 1)
    OBVIOUS
  <2>1. (file \o more)[i] = IF i <= m THEN file[i] ELSE more[i - m]
    <3> HIDE DEF more, all, m
    <3>1. QED
      BY <1>1, <1>3, ConcatProperties
  <2>2. CASE i <= m
    BY <1>1, <2>1, <2>2
  <2>3. CASE i > m
    <3>1. i - m \in 1 .. n /\ Adr + (i - m) - 1 = FlashAdr + i - 1
      BY <1>1, <2>3
    <3>2. QED
      BY <1>1, <2>1, <2>3, <3>1
  <2>4. QED
    BY <1>1, <2>2, <2>3
<1>5. file \o more = all
  <2> HIDE DEF more, all, m
  <2>1. file \o more \in Seq(Byte) /\ Len(file \o more) = m + n
    BY <1>3, ConcatProperties
  <2>2. QED
    BY <1>3, <1>4, <2>1, SeqEqual
<1>6. QED
  BY <1>2, <1>5

LEMMA NextSavedRegion ==
    ASSUME TypeInv, SavedRegion, [Next]_vars
    PROVE  SavedRegion'
<1>1. ASSUME ~Running', "Saved" \notin said' PROVE SavedRegion'
  BY <1>1 DEF SavedRegion
<1>2. ASSUME UNCHANGED <<flash, TransferType, FlashAdr, SendLen,
                         BytesTransfered, cmd, file, lastBlk>>,
             TransferType = "SAVE" /\ cmd = "save" =>
               Running \/ "Saved" \in said \/ ~(Running' \/ "Saved" \in said')
      PROVE  SavedRegion'
  BY <1>2 DEF SavedRegion, spi_read
<1>3. CASE Command
  <2>1. ASSUME NEW c, NEW adr, TransferRefused(c, adr) PROVE SavedRegion'
    BY <1>1, <2>1 DEF TransferRefused, Running
  <2>2. ASSUME NEW c, NEW adr, NEW type, NEW len \in Nat,
               StartTransfer(c, adr, type, len)
        PROVE  SavedRegion'
    <3>1. /\ BytesTransfered' = 0 /\ SendLen' = len /\ lastBlk' = FALSE
          /\ TransferType' = type
          /\ type = "SAVE" => file' = <<>>
      BY <2>2 DEF StartTransfer, ldr_tftp_init
    <3>2. QED
      BY <3>1 DEF SavedRegion
  <2>3. ASSUME NEW a, NEW e, EraseCmd(a, e) PROVE SavedRegion'
    BY <1>1, <2>3 DEF EraseCmd, Running
  <2>4. ASSUME NEW on, AutoEraseCmd(on) PROVE SavedRegion'
    BY <1>1, <2>4 DEF AutoEraseCmd, Running
  <2>5. CASE SettingsCmd
    BY <1>1, <2>5 DEF SettingsCmd, Running
  <2>6. SendLen \in Nat
    BY DEF TypeInv, TypeOK
  <2>7. ASSUME NEW len \in Lens \cup {BadArg}, len # BadArg PROVE len \in Nat
    BY <2>7, InputAssumption
  <2>8. QED
    BY <1>3, <2>1, <2>2, <2>3, <2>4, <2>5, <2>6, <2>7
       DEF Command, FlashCmd, VerifyCmd, SaveCmd
<1>4. CASE TcpAccept
  BY <1>2, <1>4 DEF TcpAccept, gTftp, Running
<1>5. CASE Transfer
  <2>1. CASE TransferType # "SAVE"
    <3>1. TransferType' = TransferType
      BY <1>5 DEF Transfer, WriteNothing, WriteErase, WriteProgram, WriteCompare,
         WriteInternal, tftp_read, tftp_close, tftp_error, TftpTranserWait, gTftp
    <3>2. QED
      BY <2>1, <3>1 DEF SavedRegion
  <2>2. CASE TransferType = "SAVE" /\ tftp_read
    <3>1. /\ pc = "wait"
          /\ UNCHANGED <<flash, TransferType, FlashAdr, SendLen, cmd, pc, said>>
          /\ BytesTransfered' = BytesTransfered + ReadLen
      BY <2>2 DEF tftp_read, Polling
    <3> SUFFICES ASSUME cmd = "save" PROVE SavedRegion'
      BY <3>1 DEF SavedRegion
    <3>2. /\ file = [i \in 1 .. BytesTransfered |-> spi_read(flash, FlashAdr + i - 1)]
      BY <2>2, <3>1 DEF SavedRegion, Running
    <3>3. file' = [i \in 1 .. BytesTransfered' |-> spi_read(flash, FlashAdr + i - 1)]
      BY <2>2, <3>2, ReadExtends
    <3>4. ReadLen \in Nat /\ BytesTransfered' <= SendLen
      BY <2>2, <3>1, ReadBounds DEF Running
    <3>5. lastBlk' => BytesTransfered' = SendLen
      <4>1. lastBlk' => ReadLen < BlkSize
        BY <2>2, Zenon DEF tftp_read
      <4>2. ReadLen < BlkSize => BytesTransfered + ReadLen = SendLen
        BY GeometryAssumption DEF ReadLen, MinOf, TypeInv, TypeOK
      <4>3. QED
        BY <3>1, <4>1, <4>2
    <3>6. QED
      BY <3>1, <3>3, <3>4, <3>5 DEF SavedRegion, spi_read
  <2>3. CASE tftp_close \/ tftp_error
    BY <1>2, <2>3 DEF tftp_close, tftp_error, Polling, Running
  <2>4. CASE TftpTranserWait
    BY <1>2, <2>4 DEF TftpTranserWait, gTftp, Running
  <2>5. CASE TransferType = "SAVE" /\ ~tftp_read
    BY <1>5, <2>3, <2>4, <2>5
       DEF Transfer, WriteNothing, WriteErase, WriteProgram, WriteCompare,
           WriteInternal, Receiving, TypeInv, Progress
  <2>6. QED
    BY <2>1, <2>2, <2>5
<1>6. CASE EraseStep
  BY <1>1, <1>6 DEF EraseStep, TypeInv, Progress, Running
<1>7. CASE EraseDone
  BY <1>1, <1>7 DEF EraseDone, Running
<1>8. CASE Restart
  BY <1>1, <1>8 DEF Restart, BootRam, Running
<1>9. CASE UNCHANGED vars
  BY <1>2, <1>9 DEF vars, gTftp, Running
<1>10. QED
  BY <1>3, <1>4, <1>5, <1>6, <1>7, <1>8, <1>9
     DEF Next, PowerFail, PowerFailErasing, PowerFailProgramming

\* At every moment of a save the server holds exactly the first bytes of the
\* region, and after the closing short block all of them (tftp_read), for every
\* length, a multiple of the block size and zero included.
THEOREM SavedRegionHolds == Spec => []SavedRegion
<1>1. Init => SavedRegion
  BY DEF Init, SavedRegion, Running
<1>2. TypeInv /\ SavedRegion /\ [Next]_vars => SavedRegion'
  BY NextSavedRegion
<1>3. QED
  BY <1>1, <1>2, TypeInvHolds, PTL DEF Spec

-----------------------------------------------------------------------------
(* What a step may change.                                                 *)

\* The block tftp_write erases next is one of the file's, and no further on
\* than the packet it is about to program.
LEMMA NextEraseBounds ==
    ASSUME TypeInv, LastEraseInv, Receiving, TransferType = "FLASH",
           PacketLen > 0, NeedErase
    PROVE  /\ NextErase \in Nat /\ Aligned(NextErase)
           /\ BlockOf(FlashAdr) <= NextErase
           /\ NextErase <= BlockOf(Adr + PacketLen - 1)
<1> DEFINE n == PacketLen
           last == Adr + n - 1
<1>1. /\ n \in Nat /\ n > 0 /\ FlashAdr \in Nat /\ Adr \in Nat
      /\ FlashAdr <= Adr /\ last \in Nat /\ Adr <= last
  BY PacketBounds DEF Receiving, Polling, Running, TypeInv, TypeOK, Adr
<1> HIDE DEF n, last
<1>2. /\ BlockOf(FlashAdr) \in Nat /\ BlockOf(Adr) \in Nat /\ BlockOf(last) \in Nat
      /\ BlockOf(FlashAdr) <= BlockOf(Adr) /\ BlockOf(Adr) <= BlockOf(last)
      /\ Aligned(BlockOf(Adr)) /\ Aligned(BlockOf(last))
  BY <1>1, BlockBounds, BlockMonotone, BlockAligned
<1>3. CASE LastEraseAdr = INVALID_FLASH_ADR
  BY <1>2, <1>3 DEF NextErase, last, n
<1>4. CASE LastEraseAdr # INVALID_FLASH_ADR
  <2>1. LastEraseAdr \in Nat /\ EraseSize \in Nat
    BY <1>4, GeometryAssumption DEF TypeInv, TypeOK
  <2>2. /\ Aligned(LastEraseAdr) /\ BlockOf(FlashAdr) <= LastEraseAdr
        /\ LastEraseAdr <= BlockOf(Adr)
    BY <1>4 DEF LastEraseInv, Receiving, Polling, Running
  <2>3. LastEraseAdr # BlockOf(last)
    BY DEF NeedErase, last, n
  <2>4. LastEraseAdr < BlockOf(last)
    BY <1>2, <2>1, <2>2, <2>3
  <2>5. LastEraseAdr + EraseSize <= BlockOf(last)
    BY <1>2, <2>1, <2>2, <2>4, AlignedGap
  <2>6. Aligned(LastEraseAdr + EraseSize)
    BY <2>1, <2>2, AlignedNext
  <2>7. NextErase = LastEraseAdr + EraseSize
    BY <1>4 DEF NextErase
  <2>8. QED
    BY <1>2, <2>1, <2>2, <2>5, <2>6, <2>7 DEF last, n
<1>5. QED
  BY <1>3, <1>4

LEMMA NextLastEraseInv ==
    ASSUME TypeInv, LastEraseInv, [Next]_vars
    PROVE  LastEraseInv'
<1>1. ASSUME ~Running' PROVE LastEraseInv'
  BY <1>1 DEF LastEraseInv
<1>2. ASSUME UNCHANGED <<TransferType, FlashAdr, BytesTransfered, LastEraseAdr,
                         pc, file>>
      PROVE  LastEraseInv'
  BY <1>2 DEF LastEraseInv, Running, BlockOf, Aligned, Adr, PacketLen
<1>3. CASE Command
  <2>1. ASSUME NEW c, NEW adr, NEW type, NEW len, StartTransfer(c, adr, type, len)
        PROVE  LastEraseInv'
    BY <2>1 DEF StartTransfer, ldr_tftp_init, LastEraseInv
  <2>2. ASSUME NEW c, NEW adr, TransferRefused(c, adr) PROVE LastEraseInv'
    BY <1>1, <2>2 DEF TransferRefused, Running
  <2>3. ASSUME NEW a, NEW e, EraseCmd(a, e) PROVE LastEraseInv'
    BY <1>1, <2>3 DEF EraseCmd, Running
  <2>4. ASSUME NEW on, AutoEraseCmd(on) PROVE LastEraseInv'
    BY <1>1, <2>4 DEF AutoEraseCmd, Running
  <2>5. CASE SettingsCmd
    BY <1>1, <2>5 DEF SettingsCmd, Running
  <2>6. QED
    BY <1>3, <2>1, <2>2, <2>3, <2>4, <2>5
       DEF Command, FlashCmd, VerifyCmd, SaveCmd
<1>4. CASE TcpAccept
  BY <1>2, <1>4 DEF TcpAccept, gTftp
<1>5. CASE WriteErase
  <2>1. /\ Receiving /\ TransferType = "FLASH" /\ PacketLen > 0 /\ pc = "wait"
        /\ pc' = "program"
        /\ UNCHANGED <<TransferType, FlashAdr, BytesTransfered, file>>
        /\ LastEraseAdr' = IF NeedErase THEN NextErase ELSE LastEraseAdr
    BY <1>5 DEF WriteErase, Receiving, Polling
  <2>2. Adr' = Adr /\ PacketLen' = PacketLen
    BY <2>1 DEF Adr, PacketLen
  <2>3. LastEraseAdr' # INVALID_FLASH_ADR =>
          /\ Aligned(LastEraseAdr')
          /\ BlockOf(FlashAdr) <= LastEraseAdr'
          /\ LastEraseAdr' <= BlockOf(Adr + PacketLen - 1)
    <3>1. CASE NeedErase
      BY <2>1, <3>1, NextEraseBounds
    <3>2. CASE ~NeedErase
      <4> DEFINE last == Adr + PacketLen - 1
      <4>1. Adr \in Nat /\ last \in Nat /\ Adr <= last
        BY <2>1, PacketBounds DEF Running, TypeInv, TypeOK, Adr
      <4> HIDE DEF last
      <4>2. BlockOf(Adr) <= BlockOf(last) /\ BlockOf(Adr) \in Nat
            /\ BlockOf(last) \in Nat
        BY <4>1, BlockMonotone, BlockBounds
      <4>3. LastEraseAdr \in Nat \cup {INVALID_FLASH_ADR}
        BY DEF TypeInv, TypeOK
      <4>4. LastEraseAdr # INVALID_FLASH_ADR =>
              /\ Aligned(LastEraseAdr) /\ BlockOf(FlashAdr) <= LastEraseAdr
              /\ LastEraseAdr <= BlockOf(Adr)
        BY <2>1 DEF LastEraseInv, Running
      <4>5. LastEraseAdr # INVALID_FLASH_ADR => LastEraseAdr <= BlockOf(last)
        BY <4>2, <4>3, <4>4
      <4>6. QED
        BY <2>1, <3>2, <4>4, <4>5 DEF last
    <3>3. QED
      BY <3>1, <3>2
  <2>4. QED
    BY <2>1, <2>2, <2>3 DEF LastEraseInv, BlockOf, Aligned
<1>6. CASE WriteProgram
  <2> DEFINE n == PacketLen
             last == Adr + n - 1
             next == Adr + n
  <2>1. /\ pc = "program" /\ pc' = "wait" /\ TransferType = "FLASH"
        /\ UNCHANGED <<TransferType, FlashAdr, LastEraseAdr>>
        /\ BytesTransfered' = BytesTransfered + n
        /\ BytesTransfered < Len(file)
    BY <1>6 DEF WriteProgram, TypeInv, Progress
  <2>2. /\ BytesTransfered \in Nat /\ FlashAdr \in Nat /\ n \in Nat /\ Len(file) \in Nat
    BY <2>1, PacketBounds DEF Running, TypeInv, TypeOK
  <2>3. n > 0
    BY <2>1, <2>2, GeometryAssumption DEF PacketLen, MinOf
  <2>4. Adr' = next /\ last \in Nat /\ next \in Nat /\ last <= next
    BY <2>1, <2>2, <2>3 DEF Adr
  <2>5. LastEraseAdr # INVALID_FLASH_ADR =>
          /\ Aligned(LastEraseAdr) /\ BlockOf(FlashAdr) <= LastEraseAdr
          /\ LastEraseAdr <= BlockOf(last)
    BY <2>1 DEF LastEraseInv, Running
  <2> HIDE DEF n, last, next
  <2>6. BlockOf(last) <= BlockOf(next) /\ BlockOf(last) \in Nat /\ BlockOf(next) \in Nat
    BY <2>4, BlockMonotone, BlockBounds
  <2>7. LastEraseAdr \in Nat \cup {INVALID_FLASH_ADR}
    BY DEF TypeInv, TypeOK
  <2>8. LastEraseAdr # INVALID_FLASH_ADR => LastEraseAdr <= BlockOf(next)
    BY <2>5, <2>6, <2>7
  <2>9. QED
    BY <2>1, <2>4, <2>5, <2>8 DEF LastEraseInv, BlockOf, Aligned
<1>7. CASE WriteCompare
  BY <1>7 DEF WriteCompare, LastEraseInv
<1>8. CASE tftp_read
  BY <1>8 DEF tftp_read, LastEraseInv
<1>9. CASE WriteNothing \/ WriteInternal \/ tftp_close \/ tftp_error
  BY <1>2, <1>9 DEF WriteNothing, WriteInternal, tftp_close, tftp_error
<1>10. CASE TftpTranserWait
  BY <1>1, <1>10 DEF TftpTranserWait, Running
<1>11. CASE EraseStep \/ EraseDone
  BY <1>1, <1>11 DEF EraseStep, EraseDone, Running
<1>12. CASE Restart
  BY <1>1, <1>12 DEF Restart, BootRam, Running
<1>13. CASE UNCHANGED vars
  BY <1>2, <1>13 DEF vars, gTftp
<1>14. QED
  BY <1>3, <1>4, <1>5, <1>6, <1>7, <1>8, <1>9, <1>10, <1>11, <1>12, <1>13
     DEF Next, Transfer, PowerFail, PowerFailErasing, PowerFailProgramming

\* Where a step may change the chip.
MayChange(c) ==
    \/ /\ Running /\ TransferType = "FLASH"
       /\ Fits => c \in IF bAutoErase THEN FileBlocks ELSE FileCells
    \/ pc = "erase" /\ eBeg <= c /\ c <= eEnd
    \/ pc = "idle" /\ c >= BlockOf(FlashSize - 1)

\* The block that is about to be erased is one the command may change.
LEMMA EraseContained ==
    ASSUME TypeInv, EraseInv, LastEraseInv, NEW b, Erasing(b),
           NEW c \in Cells, c \in BlockCells(b)
    PROVE  MayChange(c)
<1>1. c \in Nat /\ EraseSize \in Nat
  BY GeometryAssumption DEF Cells
<1>2. CASE pc = "erase" /\ eAdr < eEnd /\ b = Cell(eAdr)
  <2>1. /\ eBeg <= eAdr /\ eAdr + EraseSize <= eEnd + 1
        /\ BlockCells(eAdr) = eAdr .. eAdr + EraseSize - 1
    BY <1>2, EraseStepBounds
  <2>2. eBeg \in Nat /\ eAdr \in Nat /\ eEnd \in Nat
    BY DEF TypeInv, TypeOK
  <2>3. BlockCells(b) = BlockCells(eAdr)
    BY <1>2, <2>2, CellOf
  <2>4. eBeg <= c /\ c <= eEnd
    BY <1>1, <2>1, <2>2, <2>3
  <2>5. QED
    BY <1>2, <2>4 DEF MayChange
<1>3. CASE /\ Receiving /\ TransferType = "FLASH" /\ PacketLen > 0
           /\ NeedErase /\ b = Cell(NextErase)
  <2> DEFINE last == Adr + PacketLen - 1
             end == FlashAdr + Len(file) - 1
  <2>1. Running /\ bAutoErase
    BY <1>3 DEF Receiving, Polling, Running, NeedErase
  <2>2. FlashAdr \in Nat /\ last \in Nat /\ end \in Nat /\ last <= end
    BY <1>3, <2>1, PacketBounds DEF TypeInv, TypeOK, Adr
  <2>3. /\ NextErase \in Nat /\ Aligned(NextErase)
        /\ BlockOf(FlashAdr) <= NextErase /\ NextErase <= BlockOf(last)
    BY <1>3, NextEraseBounds
  <2> HIDE DEF last, end
  <2>4. /\ BlockOf(FlashAdr) \in Nat /\ BlockOf(last) \in Nat /\ BlockOf(end) \in Nat
        /\ BlockOf(last) <= BlockOf(end)
    BY <2>2, BlockBounds, BlockMonotone
  <2>5. ASSUME Fits PROVE c \in FileBlocks
    <3>1. BlockOf(end) <= end /\ end < FlashSize /\ FlashSize \in Nat
      <4>1. end < FlashSize /\ FlashSize \in Nat
        BY <2>2, <2>5, GeometryAssumption DEF Fits, end, TypeInv, TypeOK
      <4> QED
        BY <2>2, <4>1, BlockBounds
    <3>2. NextErase \in Cells
      BY <2>2, <2>3, <2>4, <3>1 DEF Cells
    <3>3. b = NextErase /\ BlockCells(b) = NextErase .. NextErase + EraseSize - 1
      BY <1>3, <2>3, <3>2, CellOf, EraseAt DEF Aligned
    <3>4. BlockOf(FlashAdr) <= c /\ c < BlockOf(end) + EraseSize
      BY <1>1, <2>3, <2>4, <3>3
    <3> QED
      BY <3>4 DEF FileBlocks, end
  <2>7. QED
    BY <1>3, <2>1, <2>5 DEF MayChange
<1>4. QED
  BY <1>2, <1>3 DEF Erasing

\* So are the cells of the packet that is about to be programmed.
LEMMA ProgramContained ==
    ASSUME TypeInv, pc = "program",
           NEW data, NEW c \in Cells,
           spi_write(flash, Adr, data, PacketLen)[c] # flash[c]
    PROVE  MayChange(c)
<1>1. /\ Running /\ TransferType = "FLASH"
      /\ PacketLen \in Nat /\ BytesTransfered + PacketLen <= Len(file)
      /\ FlashAdr \in Nat /\ BytesTransfered \in Nat /\ Len(file) \in Nat
      /\ BytesTransfered < Len(file)
  BY PacketBounds DEF Running, TypeInv, TypeOK, Progress
<1> SUFFICES ASSUME Fits
             PROVE  c \in FileBlocks /\ c \in FileCells
  BY <1>1 DEF MayChange
<1>2. c \in Nat /\ EraseSize \in Nat
  BY GeometryAssumption DEF Cells
<1>3. Adr <= c /\ c < Adr + PacketLen
  <2>1. Adr \in Nat /\ Adr + PacketLen <= FlashSize
    BY <1>1, GeometryAssumption DEF Adr, Fits
  <2>2. Past(Adr, c) < PacketLen <=> Adr <= c /\ c < Adr + PacketLen
    BY <1>1, <2>1, PastBounds
  <2>3. ~(Past(Adr, c) < PacketLen) =>
           spi_write(flash, Adr, data, PacketLen)[c] = flash[c]
    BY DEF spi_write
  <2> QED
    BY <2>2, <2>3
<1>4. FlashAdr <= c /\ c < FlashAdr + Len(file)
  BY <1>1, <1>2, <1>3 DEF Adr
<1> DEFINE end == FlashAdr + Len(file) - 1
<1>5. end \in Nat /\ c <= end
  BY <1>1, <1>2, <1>4
<1> HIDE DEF end
<1>6. /\ BlockOf(FlashAdr) \in Nat /\ BlockOf(FlashAdr) <= FlashAdr
      /\ BlockOf(end) \in Nat /\ end < BlockOf(end) + EraseSize
  BY <1>1, <1>5, BlockBounds
<1>7. BlockOf(FlashAdr) <= c /\ c < BlockOf(end) + EraseSize
  BY <1>1, <1>2, <1>4, <1>5, <1>6
<1>8. QED
  BY <1>4, <1>7 DEF FileBlocks, FileCells, end

LEMMA NextContained ==
    ASSUME TypeInv, EraseInv, LastEraseInv, Next,
           NEW c \in Cells, flash'[c] # flash[c]
    PROVE  MayChange(c)
<1>1. c \in Nat /\ FlashSize \in Nat \ {0}
  BY GeometryAssumption DEF Cells
<1>2. CASE Command
  <2>1. pc = "idle" /\ SettingsCmd
    BY <1>2 DEF Command, FlashCmd, VerifyCmd, SaveCmd, TransferRefused,
       StartTransfer, EraseCmd, AutoEraseCmd, SettingsCmd
  <2>2. c \in BlockOf(FlashSize - 1) .. FlashSize - 1
    BY <2>1 DEF SettingsCmd
  <2>3. BlockOf(FlashSize - 1) \in Nat
    BY <1>1, BlockBounds
  <2>4. QED
    BY <1>1, <2>1, <2>2, <2>3 DEF MayChange
<1>3. CASE WriteErase
  <2>1. /\ NeedErase /\ flash' = spi_erase(flash, NextErase)
        /\ Receiving /\ TransferType = "FLASH" /\ PacketLen > 0
        /\ Erasing(Cell(NextErase))
    BY <1>3 DEF WriteErase, Erasing
  <2>2. NextErase \in Int
    BY <2>1, NextEraseBounds
  <2>3. c \in BlockCells(Cell(NextErase))
    <3>1. c \in BlockCells(NextErase)
      BY <2>1 DEF spi_erase
    <3> QED
      BY <2>2, <3>1, CellOf
  <2>4. QED
    BY <2>1, <2>3, EraseContained
<1>4. CASE EraseStep
  <2>1. flash' = spi_erase(flash, eAdr) /\ Erasing(Cell(eAdr))
    BY <1>4 DEF EraseStep, Erasing
  <2>2. c \in BlockCells(Cell(eAdr))
    <3>1. c \in BlockCells(eAdr) /\ eAdr \in Int
      BY <2>1 DEF spi_erase, TypeInv, TypeOK
    <3> QED
      BY <3>1, CellOf
  <2>3. QED
    BY <2>1, <2>2, EraseContained
<1>5. ASSUME NEW b \in Cells, PowerFailErasing(b) PROVE MayChange(c)
  <2>1. Erasing(b) /\ c \in BlockCells(b)
    BY <1>5 DEF PowerFailErasing
  <2>2. QED
    BY <2>1, EraseContained
<1>6. CASE WriteProgram
  <2>1. pc = "program" /\ flash' = spi_write(flash, Adr, Payload, PacketLen)
    BY <1>6 DEF WriteProgram
  <2>2. QED
    BY <2>1, ProgramContained
<1>7. CASE PowerFailProgramming
  <2>1. PICK part : pc = "program" /\ flash' = spi_write(flash, Adr, part, PacketLen)
    BY <1>7 DEF PowerFailProgramming
  <2>2. QED
    BY <2>1, ProgramContained
<1>8. QED
  BY <1>2, <1>3, <1>4, <1>5, <1>6, <1>7
     DEF Next, Transfer, TcpAccept, WriteNothing, WriteCompare, WriteInternal,
         tftp_read, tftp_close, tftp_error, TftpTranserWait, EraseDone, PowerFail

\* No step changes a cell the user did not ask to change, for every start
\* address, aligned or not, and a power failure in the middle of an erase or of
\* a program included: the transfer of a file that fits the chip stays in the
\* erase blocks of its file, in its own bytes when autoerase is off, and the
\* erase command in its range, on a chip whose addresses roll over at its end.
THEOREM ContainedHolds == Spec => Contained
<1>1. Init => LastEraseInv
  BY DEF Init, LastEraseInv, Running
<1>2. TypeInv /\ LastEraseInv /\ [Next]_vars => LastEraseInv'
  BY NextLastEraseInv
<1>3. TypeInv /\ EraseInv /\ LastEraseInv /\ [Next]_vars
        => [\A c \in Cells : flash'[c] # flash[c] =>
              \/ /\ Running /\ TransferType = "FLASH"
                 /\ Fits => c \in IF bAutoErase THEN FileBlocks ELSE FileCells
              \/ pc = "erase" /\ eBeg <= c /\ c <= eEnd
              \/ pc = "idle" /\ c >= BlockOf(FlashSize - 1)]_vars
  BY NextContained DEF MayChange
<1>4. QED
  BY <1>1, <1>2, <1>3, TypeInvHolds, EraseInvHolds, PTL DEF Spec, Contained

=============================================================================
