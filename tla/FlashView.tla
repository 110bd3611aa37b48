------------------------------ MODULE FlashView ------------------------------
(***************************************************************************)
(* The commands of fw/pano_ldr/main.c that show the flash: map, which lists *)
(* the blank and the used regions, and dump, which prints a range in rows.  *)
(* Once round a loop of the code is a step.  The printed text is kept as    *)
(* what it says; a byte of a dump is known by the flash address it is from. *)
(***************************************************************************)
EXTENDS Naturals, Sequences, SequencesExt

CONSTANTS
    FlashSize, EraseSize, PageSize,   \* the chip's FlashInfo_t
    Chunk,        \* sizeof(gTemp), the most a dump reads at once (1024)
    RowLen,       \* bytes in a row of a dump (16)
    WordMod,      \* uint32_t counts modulo this
    DumpArgs      \* the <<address, length>> that may be typed

Words == 0 .. WordMod - 1

ASSUME ViewAssumption ==
    /\ FlashSize \in Nat \ {0} /\ EraseSize \in Nat \ {0} /\ PageSize \in Nat \ {0}
    /\ FlashSize % EraseSize = 0 /\ EraseSize % PageSize = 0
    /\ Chunk \in Nat \ {0} /\ RowLen \in Nat \ {0} /\ WordMod \in Nat
    /\ FlashSize + EraseSize < WordMod /\ DumpArgs \subseteq Words \X Words

VARIABLES
    cmd,                          \* the command and how far it is
    flash,                        \* is the byte at an address 0xff?
    connected,                    \* gTcpCon # NULL
    Adr,                          \* local of both commands
    LastAdr, bWasEmpty, bPrintStart, \* locals of MapCmd
    start,                        \* the region's start, as printed
    regions,                      \* lines the map has printed
    Length, BytesRead,            \* locals of DumpCmd
    Left,                         \* bytes of gTemp NetDumpHex has still to print
    BytesOnLine,                  \* of gNetPrint
    rows,                         \* rows the dump has printed
    asked                         \* history: the arguments of the dump

map == <<LastAdr, bWasEmpty, bPrintStart, start, regions>>
dump == <<Length, BytesRead, Left, BytesOnLine, rows, asked>>
vars == <<cmd, flash, connected, Adr, map, dump>>

FlashAdrs == 0 .. FlashSize - 1

Init ==
    /\ cmd = "idle" /\ connected = TRUE
    /\ flash = [a \in FlashAdrs |-> TRUE]
    /\ Adr = 0 /\ LastAdr = 0 /\ bWasEmpty = TRUE /\ bPrintStart = TRUE /\ start = 0
    /\ regions = <<>>
    /\ Length = 0 /\ BytesRead = 0 /\ Left = 0 /\ BytesOnLine = 0 /\ rows = <<>>
    /\ asked = <<0, 0>>

-----------------------------------------------------------------------------
\* MapCmd.

\* What CheckEmpty may return for flash f: every page of the block is blank.
\* MapCmd also asks about the block behind the last, which the chip has not.
CheckEmpty(f, a) ==
    IF a < FlashSize
      THEN {\A i \in 0 .. EraseSize \div PageSize - 1 :
              \A o \in 0 .. PageSize - 1 : f[a + i * PageSize + o]}
      ELSE BOOLEAN

\* Other commands have left the flash in some state.
MapBegin ==
    /\ cmd = "idle" /\ cmd' = "map"
    /\ flash' \in [FlashAdrs -> BOOLEAN]
    /\ Adr' = 0 /\ LastAdr' = 0 /\ bPrintStart' = TRUE /\ start' = 0
    /\ bWasEmpty' \in CheckEmpty(flash', 0)
    /\ UNCHANGED <<connected, regions, dump>>

\* Mutant: a region that reaches the end of the chip is not forced out.
NewEmpty_NotForced(e, next) == e

\* The last block is always the end of a region.
NewEmpty(e, next) == IF bWasEmpty = e /\ next = FlashSize THEN ~e ELSE e

MapStep ==
    /\ cmd = "map" /\ Adr < FlashSize
    /\ start' = IF bPrintStart THEN Adr ELSE start
    /\ Adr' = Adr + EraseSize
    /\ \E e \in CheckEmpty(flash, Adr') :
         /\ bWasEmpty' = NewEmpty(e, Adr')
         /\ bPrintStart' = (bWasEmpty # bWasEmpty')
         /\ IF bPrintStart'
              THEN /\ regions' = Append(regions, [from |-> start', to |-> Adr' - 1,
                                                  size |-> Adr' - LastAdr,
                                                  empty |-> ~bWasEmpty'])
                   /\ LastAdr' = Adr'
              ELSE UNCHANGED <<regions, LastAdr>>
    /\ UNCHANGED <<cmd, flash, connected, dump>>

MapEnd ==
    /\ cmd = "map" /\ Adr >= FlashSize /\ cmd' = "mapped"
    /\ UNCHANGED <<flash, connected, Adr, map, dump>>

-----------------------------------------------------------------------------
\* DumpCmd.

\* GetAdrAndLen: the length is reduced to stay within the flash; the sum is in
\* 32 bits.
GetLen(a, n) == IF (a + n) % WordMod > FlashSize THEN FlashSize - a ELSE n

DumpBegin(a, n) ==
    /\ cmd = "idle"
    /\ asked' = <<a, n>>
    /\ IF a > FlashSize
         THEN cmd' = "dumpend" /\ UNCHANGED <<Adr, Length>>
         ELSE cmd' = "dump" /\ Adr' = a /\ Length' = GetLen(a, n)
    /\ UNCHANGED <<flash, connected, map, BytesRead, Left, BytesOnLine, rows>>

\* The loop of DumpCmd goes on.
Continues == connected /\ BytesRead < Length

\* Not what is left: the last chunk is as long as the others.
Bytes2Read == IF Length > Chunk THEN Chunk ELSE Length

\* The cell of the chip that a read at a gives: past the end it rolls over.
Cell(a) == a % FlashSize

\* A chunk is read into gTemp, and DumpCmd moves on once it is printed.
DumpChunk ==
    /\ cmd = "dump" /\ Left = 0
    /\ IF Continues
         THEN Left' = Bytes2Read /\ UNCHANGED cmd
         ELSE cmd' = "dumpend" /\ UNCHANGED Left
    /\ UNCHANGED <<flash, connected, Adr, map, Length, BytesRead, BytesOnLine, rows, asked>>

\* Mutant: the line is ended a byte late.
OnLine_Late(n) == IF n = RowLen THEN 0 ELSE n + 1

\* BytesOnLine after one more byte on a line of n.
OnLine(n) == IF n + 1 = RowLen THEN 0 ELSE n + 1

\* NetDumpHex prints one byte, at the start of a row or in it.
DumpByte ==
    /\ cmd = "dump" /\ Left > 0
    /\ LET i == Bytes2Read - Left
           at == (Adr + i) % WordMod
       IN  rows' = IF BytesOnLine = 0
                     THEN Append(rows, [adr |-> at, bytes |-> <<Cell(at)>>])
                     ELSE [rows EXCEPT ![Len(rows)].bytes = Append(@, Cell(at))]
    /\ BytesOnLine' = OnLine(BytesOnLine)
    /\ Left' = Left - 1
    /\ IF Left = 1
         THEN /\ Adr' = (Adr + Bytes2Read) % WordMod
              /\ BytesRead' = BytesRead + Bytes2Read
         ELSE UNCHANGED <<Adr, BytesRead>>
    /\ UNCHANGED <<cmd, flash, connected, map, Length, asked>>

\* The connection is closed while NetPuts waits for its buffer.
Close ==
    /\ cmd = "dump" /\ connected /\ connected' = FALSE
    /\ UNCHANGED <<cmd, flash, Adr, map, dump>>

\* Mutant: the count of bytes on the line survives the dump.
DumpEnd_Keep ==
    /\ cmd = "dumpend" /\ cmd' = "dumped"
    /\ UNCHANGED <<flash, connected, Adr, map, dump>>

\* NetDumpHex(NULL,0): the row is ended.
DumpEnd ==
    /\ cmd = "dumpend" /\ cmd' = "dumped"
    /\ BytesOnLine' = 0
    /\ UNCHANGED <<flash, connected, Adr, map, Length, BytesRead, Left, rows, asked>>

-----------------------------------------------------------------------------
\* The command returns: its locals are gone, and the console gets the next one.
\* The flash is only looked at by a map, which finds it in any state.
Finish ==
    /\ cmd \in {"mapped", "dumped"} /\ cmd' = "idle"
    /\ connected' = TRUE /\ flash' = [a \in FlashAdrs |-> TRUE]
    /\ Adr' = 0 /\ LastAdr' = 0 /\ bWasEmpty' = TRUE /\ bPrintStart' = TRUE /\ start' = 0
    /\ regions' = <<>> /\ Length' = 0 /\ BytesRead' = 0 /\ Left' = 0 /\ rows' = <<>>
    /\ asked' = <<0, 0>>
    /\ UNCHANGED BytesOnLine

Next ==
    \/ MapBegin \/ MapStep \/ MapEnd
    \/ \E a \in DumpArgs : DumpBegin(a[1], a[2])
    \/ DumpChunk \/ DumpByte \/ Close \/ DumpEnd
    \/ Finish

Spec == Init /\ [][Next]_vars

-----------------------------------------------------------------------------
\* Properties.

TypeOK ==
    /\ cmd \in {"idle", "map", "mapped", "dump", "dumpend", "dumped"}
    /\ flash \in [FlashAdrs -> BOOLEAN]
    /\ {connected, bWasEmpty, bPrintStart} \subseteq BOOLEAN
    /\ {Adr, LastAdr, start, Length} \subseteq Words
    /\ BytesRead \in Nat /\ Left \in 0 .. Chunk /\ BytesOnLine \in 0 .. RowLen - 1
    /\ regions \in Seq([from : Words, to : Words, size : Words, empty : BOOLEAN])
    /\ rows \in Seq([adr : Words, bytes : Seq(Words)])

Blank(b) == \A a \in b .. b + EraseSize - 1 : flash[a]

(* The map tells the truth (main.c:1016-1043): its lines cover the chip from *)
(* the first byte to the last without gap or overlap, every erase block of a *)
(* line is as the line says, neighbours differ and the sizes are right,      *)
(* whatever the read behind the end of the chip returned.                    *)
MapExact ==
    /\ \A k \in 1 .. Len(regions) :
         LET r == regions[k]
         IN  /\ r.from = IF k = 1 THEN 0 ELSE regions[k - 1].to + 1
             /\ r.size = r.to + 1 - r.from
             /\ k > 1 => r.empty # regions[k - 1].empty
             /\ \A a \in r.from .. r.to : a % EraseSize = 0 => Blank(a) = r.empty
    /\ cmd = "mapped" => regions # <<>> /\ Last(regions).to = FlashSize - 1

Min2(a, b) == IF a < b THEN a ELSE b

\* The bytes the user asked for that the flash has.
Want == IF asked[1] > FlashSize THEN 0 ELSE Min2(asked[2], FlashSize - asked[1])

\* Bytes printed.
Shown == IF rows = <<>> THEN 0 ELSE RowLen * (Len(rows) - 1) + Len(Last(rows).bytes)

(* A dump shows what was asked for (main.c:829-838, 704-733).  Every row has *)
(* the address of its first byte and RowLen bytes in order, the last one     *)
(* fewer, whatever chunks the range was read in and however earlier dumps    *)
(* ended.  Unless its connection closes a dump leaves out no byte of the     *)
(* range, provided address plus length is a uint32_t; and what fits one read *)
(* is all it prints (see DumpInRange).                                       *)
DumpExact ==
    /\ \A k \in 1 .. Len(rows) :
         LET r == rows[k]
         IN  /\ r.adr = (asked[1] + RowLen * (k - 1)) % WordMod
             /\ k < Len(rows) => Len(r.bytes) = RowLen
             /\ \A j \in 1 .. Len(r.bytes) : r.bytes[j] = Cell((r.adr + j - 1) % WordMod)
    /\ cmd = "dumped" /\ connected /\ asked[1] + asked[2] < WordMod =>
         Shown >= Want /\ (Want <= Chunk => Shown = Want)

(* What the documentation says, and the code does not do.                    *)

\* "The dump command displays the specified range of flash in hex", reduced
\* "to stay within flash": no byte more than was asked for and the flash has.
DumpInRange == asked[1] + asked[2] < WordMod => Shown <= Want

=============================================================================
