-------------------------- MODULE FlashViewProofs --------------------------
(* The map and the dump show the flash as it is, for every chip geometry,    *)
(* every length of a chunk and of a row, and every range that is typed.      *)
EXTENDS FlashView, SequenceTheorems, TLAPS

(* Integer division by a divisor that is not a literal.                   *)

\* Division with remainder.
LEMMA DivMod ==
    ASSUME NEW a \in Int, NEW d \in Nat \ {0}
    PROVE  /\ a \div d \in Int
           /\ a % d \in 0 .. d - 1
           /\ a = d * (a \div d) + (a % d)
  BY Z3

\* A remainder is unique.
LEMMA ModUnique ==
    ASSUME NEW a \in Int, NEW d \in Nat \ {0}, NEW q \in Int, NEW r \in Nat,
           r < d, a = d * q + r
    PROVE  a % d = r
  BY Z3

\* A number below the divisor is its own remainder.
LEMMA ModSmall ==
    ASSUME NEW d \in Nat \ {0}, NEW r \in 0 .. d - 1
    PROVE  r % d = r
<1>1. r \in Int /\ r \in Nat /\ r < d /\ r = d * 0 + r
  OBVIOUS
<1>2. QED
  BY <1>1, ModUnique

-----------------------------------------------------------------------------

-----------------------------------------------------------------------------
\* Type correctness.

Region == [from : Words, to : Words, size : Words, empty : BOOLEAN]
Row == [adr : Words, bytes : Seq(Words)]

\* The size a line of the map prints is not negative, the arguments of the
\* dump are words, and a row that is begun is there.
TypeInv ==
    /\ TypeOK
    /\ asked \in Words \X Words
    /\ cmd = "map" => LastAdr <= Adr
    /\ BytesOnLine # 0 /\ cmd = "dump" => rows # <<>>
    /\ cmd \notin {"dump", "dumpend"} => BytesOnLine = 0

\* The cell a read gives is numbered like an address.
LEMMA CellWord ==
    ASSUME NEW a \in Words
    PROVE  Cell(a) \in Words
<1>1. a \in Int /\ FlashSize \in Nat \ {0} /\ FlashSize < WordMod /\ WordMod \in Nat
  BY ViewAssumption DEF Words
<1>2. a % FlashSize \in 0 .. FlashSize - 1
  BY <1>1, Z3
<1>3. QED
  BY <1>1, <1>2 DEF Cell, Words

\* A remainder is a word.
LEMMA ModWord ==
    ASSUME NEW a \in Int
    PROVE  a % WordMod \in Words
<1>1. WordMod \in Nat \ {0}
  BY ViewAssumption
<1>2. QED
  BY <1>1, DivMod DEF Words

LEMMA InitTypeInv == Init => TypeInv
<1> SUFFICES ASSUME Init PROVE TypeInv
  OBVIOUS
<1>1. {connected, bWasEmpty, bPrintStart} \subseteq BOOLEAN
  BY Zenon DEF Init
<1>2. flash \in [FlashAdrs -> BOOLEAN]
  BY Zenon DEF Init
<1>3. 0 \in Words
  BY ViewAssumption DEF Words
<1>4. asked \in Words \X Words
  BY <1>3 DEF Init
<1>5. QED
  BY <1>1, <1>2, <1>3, <1>4, ViewAssumption DEF Init, TypeInv, TypeOK

LEMMA NewEmptyType ==
    ASSUME NEW e \in BOOLEAN, NEW next
    PROVE  NewEmpty(e, next) \in BOOLEAN
  BY Zenon DEF NewEmpty

\* The steps of the map.
LEMMA MapTypeInv ==
    ASSUME TypeInv, MapBegin \/ MapStep \/ MapEnd
    PROVE  TypeInv'
<1> USE ViewAssumption
<1>1. CASE MapBegin
  <2>1. flash' \in [FlashAdrs -> BOOLEAN] /\ bPrintStart' \in BOOLEAN
    BY <1>1, Zenon DEF MapBegin
  <2>2. bWasEmpty' \in BOOLEAN
    BY <1>1, Zenon DEF MapBegin, CheckEmpty
  <2>3. Adr' = 0 /\ LastAdr' = 0 /\ start' = 0 /\ cmd' = "map" /\ cmd = "idle"
    BY <1>1 DEF MapBegin
  <2>4. UNCHANGED <<connected, regions, dump>>
    BY <1>1 DEF MapBegin
  <2>5. QED
    BY <2>1, <2>2, <2>3, <2>4 DEF TypeInv, TypeOK, Words, dump
<1>2. CASE MapStep
  <2>1. Adr \in Nat /\ Adr < FlashSize /\ LastAdr \in Nat /\ LastAdr <= Adr /\ start \in Words
    BY <1>2 DEF MapStep, TypeInv, TypeOK, Words
  <2>2. Adr' = Adr + EraseSize /\ Adr' \in Words /\ Adr' - 1 \in Words
        /\ Adr' - LastAdr \in Words /\ Adr \in Words
    BY <1>2, <2>1 DEF MapStep, Words
  <2>3. start' \in Words
    BY <1>2, <2>1, <2>2 DEF MapStep
  <2>4. PICK e \in CheckEmpty(flash, Adr') :
         /\ bWasEmpty' = NewEmpty(e, Adr')
         /\ bPrintStart' = (bWasEmpty # bWasEmpty')
         /\ IF bPrintStart'
              THEN /\ regions' = Append(regions, [from |-> start', to |-> Adr' - 1,
                                                  size |-> Adr' - LastAdr,
                                                  empty |-> ~bWasEmpty'])
                   /\ LastAdr' = Adr'
              ELSE UNCHANGED <<regions, LastAdr>>
    BY <1>2 DEF MapStep
  <2>5. e \in BOOLEAN
    BY <2>4, Zenon DEF CheckEmpty
  <2>6. bWasEmpty' \in BOOLEAN
    BY <2>4, <2>5, NewEmptyType, Zenon
  <2>7. bPrintStart' \in BOOLEAN /\ (~bWasEmpty') \in BOOLEAN
    BY <2>4, Zenon
  <2>8. LastAdr' \in Words /\ LastAdr' <= Adr'
    BY <2>1, <2>2, <2>4 DEF TypeInv, TypeOK, Words
  <2>9. regions' \in Seq(Region)
    <3>1. regions \in Seq(Region)
      BY DEF TypeInv, TypeOK, Region
    <3>2. [from |-> start', to |-> Adr' - 1, size |-> Adr' - LastAdr,
           empty |-> ~bWasEmpty'] \in Region
      BY <2>2, <2>3, <2>7 DEF Region
    <3>3. QED
      BY <2>4, <3>1, <3>2
  <2>10. UNCHANGED <<cmd, flash, connected, dump>> /\ cmd = "map"
    BY <1>2 DEF MapStep
  <2>11. {connected', bWasEmpty', bPrintStart'} \subseteq BOOLEAN
    BY <2>6, <2>7, <2>10 DEF TypeInv, TypeOK
  <2>12. QED
    BY <2>2, <2>3, <2>8, <2>9, <2>10, <2>11 DEF TypeInv, TypeOK, dump, Region
<1>3. CASE MapEnd
  BY <1>3 DEF MapEnd, TypeInv, TypeOK, map, dump
<1>4. QED
  BY <1>1, <1>2, <1>3

LEMMA RowExcept ==
    ASSUME NEW r \in Row, NEW b
    PROVE  [r EXCEPT !.bytes = b] = [adr |-> r.adr, bytes |-> b]
  BY DEF Row

\* The steps of the dump.
LEMMA DumpTypeInv ==
    ASSUME TypeInv, (\E a \in DumpArgs : DumpBegin(a[1], a[2])) \/ DumpChunk \/ DumpByte
    PROVE  TypeInv'
<1> USE ViewAssumption
<1>1. CASE \E a \in DumpArgs : DumpBegin(a[1], a[2])
  <2>1. PICK a \in DumpArgs : DumpBegin(a[1], a[2])
    BY <1>1
  <2>2. a[1] \in Words /\ a[2] \in Words
    OBVIOUS
  <2>3. a[1] <= FlashSize => GetLen(a[1], a[2]) \in Words
    BY <2>2 DEF GetLen, Words
  <2>4. cmd = "idle" /\ asked' = <<a[1], a[2]>>
        /\ UNCHANGED <<flash, connected, map, BytesRead, Left, BytesOnLine, rows>>
    BY <2>1 DEF DumpBegin
  <2>5. \/ cmd' = "dumpend" /\ UNCHANGED <<Adr, Length>>
        \/ cmd' = "dump" /\ Adr' = a[1] /\ Length' = GetLen(a[1], a[2]) /\ a[1] <= FlashSize
    BY <2>1, <2>2 DEF DumpBegin, Words
  <2>6. Adr' \in Words /\ Length' \in Words
    BY <2>2, <2>3, <2>5 DEF TypeInv, TypeOK
  <2>7. BytesOnLine' = 0 /\ cmd' \in {"dump", "dumpend"}
    BY <2>4, <2>5 DEF TypeInv
  <2>8. QED
    BY <2>2, <2>4, <2>6, <2>7 DEF TypeInv, TypeOK, map
<1>2. CASE DumpChunk
  <2>1. Bytes2Read \in 0 .. Chunk
    BY DEF TypeInv, TypeOK, Words, Bytes2Read
  <2>2. cmd' \in {"dump", "dumpend"} /\ Left' \in 0 .. Chunk
    BY <1>2, <2>1 DEF DumpChunk, TypeInv, TypeOK
  <2>3. UNCHANGED <<flash, connected, Adr, map, Length, BytesRead, BytesOnLine, rows, asked>>
        /\ cmd = "dump"
    BY <1>2 DEF DumpChunk
  <2>4. QED
    BY <2>2, <2>3 DEF TypeInv, TypeOK, map
<1>3. CASE DumpByte
  <2> DEFINE byte == (Adr + (Bytes2Read - Left)) % WordMod
  <2> DEFINE next == (Adr + Bytes2Read) % WordMod
  <2>0. Left > 0 /\ Left' = Left - 1
        /\ IF Left = 1 THEN Adr' = next /\ BytesRead' = BytesRead + Bytes2Read
                       ELSE UNCHANGED <<Adr, BytesRead>>
    BY <1>3 DEF DumpByte
  <2>1. Bytes2Read \in 0 .. Chunk /\ Left \in 1 .. Chunk /\ Adr \in Nat
    BY <2>0 DEF TypeInv, TypeOK, Words, Bytes2Read
  <2>2. byte \in Words /\ next \in Words
    <3>1. Adr + (Bytes2Read - Left) \in Int /\ Adr + Bytes2Read \in Int
      BY <2>1
    <3>2. QED
      BY <3>1, ModWord
  <2>3. rows' = IF BytesOnLine = 0
                     THEN Append(rows, [adr |-> byte, bytes |-> <<Cell(byte)>>])
                     ELSE [rows EXCEPT ![Len(rows)].bytes = Append(@, Cell(byte))]
    BY <1>3 DEF DumpByte
  <2>4. rows' \in Seq(Row) /\ rows' # <<>>
    <3>1. rows \in Seq(Row)
      BY DEF TypeInv, TypeOK, Row
    <3>2. CASE BytesOnLine = 0
      <4>1. [adr |-> byte, bytes |-> <<Cell(byte)>>] \in Row
        BY <2>2, CellWord DEF Row
      <4>2. QED
        BY <2>3, <3>1, <3>2, <4>1
    <3>3. CASE BytesOnLine # 0
      <4>1. rows # <<>> /\ Len(rows) \in 1 .. Len(rows)
        BY <1>3, <3>1, <3>3 DEF TypeInv, DumpByte
      <4> DEFINE r == rows[Len(rows)]
                 q == [adr |-> r.adr, bytes |-> Append(r.bytes, Cell(byte))]
      <4>2. r \in Row
        BY <3>1, <4>1
      <4>3. q \in Row
        BY <4>2, <2>2, CellWord, AppendProperties DEF Row
      <4>4. rows' = [rows EXCEPT ![Len(rows)] = q]
        <5>1. [r EXCEPT !.bytes = Append(@, Cell(byte))] = q
          BY <4>2, RowExcept, Zenon
        <5>2. QED
          BY <2>3, <3>3, <5>1
      <4>5. QED
        BY <3>1, <4>1, <4>3, <4>4, ExceptSeq
    <3>4. QED
      BY <3>2, <3>3
  <2>5. Adr' \in Words /\ BytesRead' \in Nat /\ Left' \in 0 .. Chunk
    <3> HIDE DEF next
    <3>1. QED
      BY <2>0, <2>1, <2>2 DEF TypeInv, TypeOK
  <2>6. BytesOnLine' \in 0 .. RowLen - 1
    BY <1>3 DEF DumpByte, OnLine, TypeInv, TypeOK
  <2>7. UNCHANGED <<cmd, flash, connected, map, Length, asked>> /\ cmd = "dump"
    BY <1>3 DEF DumpByte
  <2>8. QED
    BY <2>4, <2>5, <2>6, <2>7 DEF TypeInv, TypeOK, map, Row
<1>4. QED
  BY <1>1, <1>2, <1>3

LEMMA NextTypeInv ==
    ASSUME TypeInv, [Next]_vars
    PROVE  TypeInv'
<1>1. CASE Close
  <2>1. connected' \in BOOLEAN
    BY <1>1, Zenon DEF Close
  <2>2. QED
    BY <1>1, <2>1 DEF Close, TypeInv, TypeOK, map, dump
<1>2. CASE DumpEnd
  BY <1>2, ViewAssumption DEF DumpEnd, TypeInv, TypeOK, map
<1>3. CASE Finish
  <2>1. {connected', bWasEmpty', bPrintStart'} \subseteq BOOLEAN
    BY <1>3, Zenon DEF Finish
  <2>2. flash' \in [FlashAdrs -> BOOLEAN]
    BY <1>3, Zenon DEF Finish
  <2>3. 0 \in Words /\ asked' \in Words \X Words
    BY <1>3, ViewAssumption DEF Words, Finish
  <2>4. cmd' = "idle" /\ BytesOnLine' = 0
    BY <1>3 DEF Finish, TypeInv
  <2>5. QED
    BY <1>3, <2>1, <2>2, <2>3, <2>4, ViewAssumption DEF Finish, TypeInv, TypeOK
<1>4. CASE UNCHANGED vars
  BY <1>4 DEF vars, map, dump, TypeInv, TypeOK
<1>5. QED
  BY <1>1, <1>2, <1>3, <1>4, MapTypeInv, DumpTypeInv DEF Next

\* The numbers the commands print are 32-bit words and the sizes of the map
\* never negative (main.c:704-733, 829-838, 1016-1043).
THEOREM TypeCorrect == Spec => []TypeOK
<1>1. TypeInv /\ [Next]_vars => TypeInv'
  BY NextTypeInv
<1>2. TypeInv => TypeOK
  BY DEF TypeInv
<1>3. QED
  BY InitTypeInv, <1>1, <1>2, PTL DEF Spec

-----------------------------------------------------------------------------
\* The map.

\* Where the loop of MapCmd is: the blocks from LastAdr to Adr are of one kind,
\* the other kind than the last line's, and the line for them is printed when
\* the kind changes or the chip ends.
MapProgress ==
    /\ Adr % EraseSize = 0 /\ Adr <= FlashSize
    /\ LastAdr = IF regions = <<>> THEN 0 ELSE regions[Len(regions)].to + 1
    /\ IF bPrintStart THEN LastAdr = Adr ELSE start = LastAdr
    /\ Adr < FlashSize =>
         \A a \in LastAdr .. Adr : a % EraseSize = 0 => Blank(a) = bWasEmpty
    /\ Adr = FlashSize => LastAdr = FlashSize /\ regions # <<>>
    /\ regions # <<>> => regions[Len(regions)].empty # bWasEmpty

\* The inductive invariant of the map.
MapInv ==
    /\ MapExact
    /\ cmd \notin {"map", "mapped"} => regions = <<>>
    /\ cmd = "map" => MapProgress

\* Whether the block at a of flash f is blank.
BlankIn(f, a) == \A x \in a .. a + EraseSize - 1 : f[x]

\* Multiples of a number are that number apart.
LEMMA Multiples ==
    ASSUME NEW d \in Nat \ {0}, NEW a \in Nat, a % d = 0
    PROVE  /\ (a + d) % d = 0
           /\ \A b \in Nat : b % d = 0 /\ a < b => a + d <= b
<1> DEFINE x == a \div d
<1>1. x \in Int /\ a = d * x
  BY DivMod
<1> HIDE DEF x
<1>2. (a + d) % d = 0
  <2> DEFINE z == x + 1
             b == a + d
  <2>1. z \in Int /\ b \in Int /\ b = d * z + 0
    BY <1>1
  <2> HIDE DEF z, b
  <2>2. b % d = 0
    BY ONLY <2>1, ModUnique, d \in Nat \ {0}
  <2>3. QED
    BY <2>2 DEF b
<1>3. ASSUME NEW b \in Nat, b % d = 0, a < b
      PROVE  a + d <= b
  <2> DEFINE y == b \div d
  <2>1. y \in Int /\ b = d * y
    BY <1>3, DivMod
  <2> HIDE DEF y
  <2>2. d * x < d * y
    BY <1>1, <1>3, <2>1
  <2>3. x < y
    BY <1>1, <2>1, <2>2
  <2>4. d * (x + 1) <= d * y
    BY <1>1, <2>1, <2>3
  <2>5. QED
    BY <1>1, <2>1, <2>4
<1>4. QED
  BY <1>2, <1>3

\* CheckEmpty's walk over the pages of a block looks at every byte of it once.
LEMMA PagesOfBlock ==
    ASSUME NEW a \in Nat, NEW f
    PROVE  (\A i \in 0 .. EraseSize \div PageSize - 1 :
              \A o \in 0 .. PageSize - 1 : f[a + i * PageSize + o])
           <=> BlankIn(f, a)
<1> DEFINE P == PageSize
           d == EraseSize \div PageSize
<1>1. P \in Nat \ {0} /\ EraseSize \in Nat \ {0}
  BY ViewAssumption
<1>2. d \in Int /\ EraseSize = P * d
  BY <1>1, DivMod, ViewAssumption
<1> HIDE DEF P, d
<1>3. ASSUME \A i \in 0 .. d - 1 : \A o \in 0 .. P - 1 : f[a + i * P + o],
             NEW x \in a .. a + EraseSize - 1
      PROVE  f[x]
  <2> DEFINE y == x - a
  <2>1. y \in Nat /\ y < P * d
    BY <1>1, <1>2
  <2> HIDE DEF y
  <2> DEFINE i == y \div P
             o == y % P
  <2>2. i \in Int /\ o \in 0 .. P - 1 /\ y = P * i + o
    <3>1. y \in Int /\ P \in Nat \ {0}
      BY <1>1, <2>1
    <3>2. QED
      BY ONLY <3>1, DivMod
  <2> HIDE DEF i, o
  <2>3. P * i < P * d
    BY <1>1, <1>2, <2>1, <2>2
  <2>4. i < d
    BY <1>1, <1>2, <2>2, <2>3
  <2>5. i >= 0
    <3>1. P * i > P * (-1)
      BY <1>1, <2>1, <2>2
    <3>2. QED
      BY <1>1, <2>2, <3>1
  <2>6. f[a + i * P + o]
    BY <1>3, <1>2, <2>2, <2>4, <2>5
  <2>7. x = a + i * P + o
    BY <1>1, <2>2 DEF y
  <2>8. QED
    BY <2>6, <2>7
<1>4. ASSUME BlankIn(f, a), NEW i \in 0 .. d - 1, NEW o \in 0 .. P - 1
      PROVE  f[a + i * P + o]
  <2>1. i * P \in Nat /\ i * P + P <= EraseSize
    <3>1. P * (i + 1) <= P * d
      BY <1>1, <1>2
    <3>2. QED
      BY <1>1, <1>2, <3>1
  <2>2. a + i * P + o \in a .. a + EraseSize - 1
    BY <1>1, <2>1
  <2>3. QED
    BY <1>4, <2>2 DEF BlankIn
<1>5. QED
  BY <1>3, <1>4 DEF BlankIn, P, d

\* So a block of the chip is reported as it is.
LEMMA CheckEmptyIs ==
    ASSUME NEW f, NEW a \in Nat, a < FlashSize, NEW e \in CheckEmpty(f, a)
    PROVE  e = BlankIn(f, a)
<1>1. e = (\A i \in 0 .. EraseSize \div PageSize - 1 :
              \A o \in 0 .. PageSize - 1 : f[a + i * PageSize + o])
  BY Zenon DEF CheckEmpty
<1>2. BlankIn(f, a) \in BOOLEAN
  BY Zenon DEF BlankIn
<1>3. QED
  BY <1>1, <1>2, PagesOfBlock, Zenon

\* A step of the loop of MapCmd.
LEMMA MapStepInv ==
    ASSUME TypeInv, TypeInv', MapInv, MapStep
    PROVE  MapInv'
<1> DEFINE n == Len(regions)
           next == Adr + EraseSize
           line == [from |-> LastAdr, to |-> next - 1, size |-> next - LastAdr,
                    empty |-> bWasEmpty]
<1>1. /\ cmd = "map" /\ cmd' = "map" /\ Adr < FlashSize /\ Adr' = next
      /\ start' = (IF bPrintStart THEN Adr ELSE start)
      /\ flash' = flash
  BY DEF MapStep
<1>2. /\ Adr \in Nat /\ LastAdr \in Nat /\ start \in Nat /\ LastAdr <= Adr
      /\ regions \in Seq(Region) /\ n \in Nat
      /\ bWasEmpty \in BOOLEAN /\ bWasEmpty' \in BOOLEAN /\ bPrintStart' \in BOOLEAN
      /\ EraseSize \in Nat \ {0} /\ FlashSize \in Nat /\ next \in Nat
  BY <1>1, ViewAssumption DEF TypeInv, TypeOK, Words, Region
<1>3. /\ Adr % EraseSize = 0
      /\ LastAdr = (IF regions = <<>> THEN 0 ELSE regions[n].to + 1)
      /\ IF bPrintStart THEN LastAdr = Adr ELSE start = LastAdr
      /\ \A a \in LastAdr .. Adr : a % EraseSize = 0 => Blank(a) = bWasEmpty
      /\ regions # <<>> => regions[n].empty # bWasEmpty
  BY <1>1 DEF MapInv, MapProgress
<1>4. next % EraseSize = 0 /\ next <= FlashSize
  BY <1>1, <1>2, <1>3, Multiples, ViewAssumption
<1>5. \A a \in LastAdr .. next - 1 : a % EraseSize = 0 => Blank(a) = bWasEmpty
  <2> SUFFICES ASSUME NEW a \in LastAdr .. next - 1, a % EraseSize = 0
               PROVE  a \in LastAdr .. Adr
    BY <1>3
  <2>1. a \in Nat /\ a < Adr + EraseSize
    BY <1>2
  <2>2. \A b \in Nat : b % EraseSize = 0 /\ Adr < b => Adr + EraseSize <= b
    BY <1>2, <1>3, Multiples
  <2>3. ~(Adr < a)
    BY <1>2, <2>1, <2>2
  <2>4. QED
    BY <1>2, <2>1, <2>3
<1>6. PICK e \in CheckEmpty(flash, next) :
         /\ bWasEmpty' = NewEmpty(e, next)
         /\ bPrintStart' = (bWasEmpty # bWasEmpty')
         /\ IF bPrintStart'
              THEN /\ regions' = Append(regions, [from |-> start', to |-> next - 1,
                                                  size |-> next - LastAdr,
                                                  empty |-> ~bWasEmpty'])
                   /\ LastAdr' = next
              ELSE UNCHANGED <<regions, LastAdr>>
  BY <1>1 DEF MapStep
<1>7. next < FlashSize => bWasEmpty' = Blank(next)
  <2> SUFFICES ASSUME next < FlashSize PROVE bWasEmpty' = Blank(next)
    OBVIOUS
  <2>1. e = BlankIn(flash, next)
    BY <1>2, CheckEmptyIs
  <2>2. next # FlashSize
    BY <1>2
  <2>3. bWasEmpty' = e
    BY <1>6, <2>2 DEF NewEmpty
  <2>4. QED
    BY <2>1, <2>3, Zenon DEF Blank, BlankIn
<1>8. next = FlashSize => bPrintStart'
  <2>1. e \in BOOLEAN
    BY <1>6, Zenon DEF CheckEmpty
  <2>2. next = FlashSize => bWasEmpty # bWasEmpty'
    BY <1>2, <1>6, <2>1, Zenon DEF NewEmpty
  <2>3. QED
    BY <1>6, <2>2
<1>9. \A a : Blank(a)' = Blank(a)
  BY <1>1 DEF Blank
<1>10. start' = LastAdr
  BY <1>1, <1>3
<1> HIDE DEF next
<1>11. CASE bPrintStart'
  <2>1. bWasEmpty = ~bWasEmpty'
    BY <1>2, <1>6, <1>11, Zenon
  <2>2. regions' = Append(regions, line) /\ LastAdr' = next
    BY <1>6, <1>10, <1>11, <2>1
  <2>3. line \in Region
    <3>1. next = Adr + EraseSize /\ next <= FlashSize /\ FlashSize < WordMod
          /\ WordMod \in Nat
      BY <1>2, <1>4, ViewAssumption DEF next
    <3>2. LastAdr \in Words /\ next - 1 \in Words /\ next - LastAdr \in Words
      BY ONLY <1>2, <3>1 DEF Words
    <3>3. QED
      BY <1>2, <3>2 DEF Region
  <2>4. /\ Len(regions') = n + 1 /\ regions' # <<>>
        /\ \A k \in 1 .. n : regions'[k] = regions[k]
        /\ regions'[n + 1] = line
    BY <1>2, <2>2, <2>3, AppendProperties
  <2>5. MapExact'
    <3> SUFFICES ASSUME NEW k \in 1 .. n + 1
                 PROVE  LET r == regions'[k]
                        IN  /\ r.from = IF k = 1 THEN 0 ELSE regions'[k - 1].to + 1
                            /\ r.size = r.to + 1 - r.from
                            /\ k > 1 => r.empty # regions'[k - 1].empty
                            /\ \A a \in r.from .. r.to :
                                 a % EraseSize = 0 => Blank(a) = r.empty
      BY <1>1, <1>9, <2>4 DEF MapExact
    <3>1. CASE k \in 1 .. n
      <4>1. regions'[k] = regions[k] /\ (k > 1 => regions'[k - 1] = regions[k - 1])
        BY <1>2, <2>4, <3>1
      <4>2. QED
        BY <3>1, <4>1 DEF MapInv, MapExact
    <3>2. CASE k = n + 1
      <4>1. regions'[k] = line
        BY <2>4, <3>2
      <4>2. k > 1 => regions'[k - 1] = regions[n] /\ regions # <<>>
        BY <1>2, <2>4, <3>2
      <4>3. k = 1 => regions = <<>>
        BY <1>2, <3>2
      <4>4. line.from = IF k = 1 THEN 0 ELSE regions'[k - 1].to + 1
        BY <1>2, <1>3, <3>2, <4>2, <4>3
      <4>5. line.size = line.to + 1 - line.from
        BY <1>2 DEF next
      <4>6. k > 1 => line.empty # regions'[k - 1].empty
        BY <1>3, <4>2
      <4>7. \A a \in line.from .. line.to : a % EraseSize = 0 => Blank(a) = line.empty
        BY <1>5
      <4>8. QED
        BY <4>1, <4>4, <4>5, <4>6, <4>7
    <3>3. QED
      BY <1>2, <3>1, <3>2
  <2>6. MapProgress'
    <3>1. next < FlashSize =>
            \A a \in next .. next : a % EraseSize = 0 => Blank(a)' = bWasEmpty'
      BY <1>2, <1>7, <1>9
    <3>2. regions'[Len(regions')].to + 1 = next
      BY <1>2, <2>4 DEF next
    <3>3. regions'[Len(regions')].empty # bWasEmpty'
      BY <1>2, <2>1, <2>4
    <3>4. QED
      BY <1>1, <1>4, <1>11, <2>2, <2>4, <3>1, <3>2, <3>3 DEF MapProgress
  <2>7. QED
    BY <1>1, <2>5, <2>6 DEF MapInv
<1>12. CASE ~bPrintStart'
  <2>1. UNCHANGED <<regions, LastAdr, bWasEmpty>> /\ next < FlashSize
    BY <1>2, <1>4, <1>6, <1>8, <1>12
  <2>2. MapExact'
    BY <1>1, <1>9, <2>1 DEF MapInv, MapExact
  <2>3. \A a \in LastAdr .. next : a % EraseSize = 0 => Blank(a) = bWasEmpty
    BY <1>2, <1>5, <1>7, <2>1
  <2>4. MapProgress'
    <3>1. \A a \in LastAdr' .. Adr' : a % EraseSize = 0 => Blank(a)' = bWasEmpty'
      BY <1>1, <1>9, <2>1, <2>3
    <3>2. /\ Adr' % EraseSize = 0 /\ Adr' <= FlashSize /\ Adr' # FlashSize
          /\ start' = LastAdr'
      BY <1>1, <1>2, <1>4, <1>10, <2>1
    <3>3. QED
      BY <1>3, <1>12, <2>1, <3>1, <3>2 DEF MapProgress
  <2>5. QED
    BY <1>1, <2>2, <2>4 DEF MapInv
<1>13. QED
  BY <1>2, <1>11, <1>12

LEMMA NextMapInv ==
    ASSUME TypeInv, TypeInv', MapInv, [Next]_vars
    PROVE  MapInv'
<1>1. CASE MapBegin
  <2>1. regions' = <<>> /\ cmd' = "map" /\ Adr' = 0 /\ LastAdr' = 0 /\ bPrintStart'
    BY <1>1 DEF MapBegin, MapInv
  <2>2. bWasEmpty' = Blank(0)'
    <3>1. bWasEmpty' \in CheckEmpty(flash', 0) /\ 0 < FlashSize
      BY <1>1, ViewAssumption DEF MapBegin
    <3>2. bWasEmpty' = BlankIn(flash', 0)
      BY <3>1, CheckEmptyIs
    <3>3. QED
      BY <3>2, Zenon DEF Blank, BlankIn
  <2>3. \A a \in 0 .. 0 : Blank(a)' = bWasEmpty'
    BY <2>2
  <2>4. MapProgress'
    BY <2>1, <2>3, ViewAssumption DEF MapProgress
  <2>5. QED
    BY <2>1, <2>4 DEF MapInv, MapExact
<1>2. CASE MapStep
  BY <1>2, MapStepInv
<1>3. CASE MapEnd
  <2>1. /\ cmd = "map" /\ cmd' = "mapped" /\ Adr >= FlashSize
        /\ UNCHANGED <<flash, regions>>
    BY <1>3 DEF MapEnd, map
  <2>2. regions # <<>> /\ regions[Len(regions)].to + 1 = FlashSize
    <3>1. Adr \in Nat /\ MapProgress
      BY <2>1 DEF TypeInv, TypeOK, Words, MapInv
    <3>2. Adr = FlashSize
      BY <2>1, <3>1, ViewAssumption DEF MapProgress
    <3>3. QED
      BY <3>1, <3>2 DEF MapProgress
  <2>3. regions \in Seq(Region) /\ Len(regions) \in 1 .. Len(regions)
    BY <2>2 DEF TypeInv, TypeOK, Region
  <2>4. regions[Len(regions)].to \in Nat
    <3>1. regions[Len(regions)] \in Region
      BY <2>3, ElementOfSeq
    <3>2. QED
      BY <3>1 DEF Region, Words
  <2>5. Last(regions)'.to = FlashSize - 1
    BY <2>1, <2>2, <2>4, ViewAssumption DEF Last
  <2>6. \A a : Blank(a)' = Blank(a)
    BY <2>1 DEF Blank
  <2>7. QED
    BY <2>1, <2>2, <2>5, <2>6 DEF MapInv, MapExact
<1>4. CASE (\E a \in DumpArgs : DumpBegin(a[1], a[2])) \/ DumpChunk \/ DumpByte \/ Close \/ DumpEnd
  <2>1. cmd \notin {"map", "mapped"} /\ cmd' \notin {"map", "mapped"} /\ regions' = regions
    BY <1>4 DEF DumpBegin, DumpChunk, DumpByte, Close, DumpEnd, map
  <2>2. QED
    BY <2>1 DEF MapInv, MapExact
<1>5. CASE Finish
  BY <1>5 DEF Finish, MapInv, MapExact
<1>6. CASE UNCHANGED vars
  <2>1. UNCHANGED <<cmd, flash, Adr, LastAdr, bWasEmpty, bPrintStart, start, regions>>
    BY <1>6 DEF vars, map
  <2>2. \A a : Blank(a)' = Blank(a)
    BY <2>1 DEF Blank
  <2>3. QED
    BY <2>1, <2>2 DEF MapInv, MapExact, MapProgress, Last
<1>7. QED
  BY <1>1, <1>2, <1>3, <1>4, <1>5, <1>6 DEF Next

LEMMA TypeInvHolds == Spec => []TypeInv
<1>1. TypeInv /\ [Next]_vars => TypeInv'
  BY NextTypeInv
<1>2. QED
  BY InitTypeInv, <1>1, PTL DEF Spec

\* The map's lines cover the chip without gap or overlap, every erase block is
\* as its line says, neighbours differ and the sizes are right, for every
\* geometry and whatever the read behind the chip returns (main.c:1016-1043).
THEOREM MapExactHolds == Spec => []MapExact
<1>1. Init => MapInv
  BY DEF Init, MapInv, MapExact
<1>2. TypeInv /\ TypeInv' /\ MapInv /\ [Next]_vars => MapInv'
  BY NextMapInv
<1>3. MapInv => MapExact
  BY DEF MapInv
<1>4. QED
  BY <1>1, <1>2, <1>3, TypeInvHolds, PTL DEF Spec

-----------------------------------------------------------------------------
\* The dump.

\* Bytes the loops of DumpCmd and NetDumpHex have gone over.
Printed == BytesRead + IF Left = 0 THEN 0 ELSE Bytes2Read - Left

RowsInv ==
    \A k \in 1 .. Len(rows) :
       /\ rows[k].adr = (asked[1] + RowLen * (k - 1)) % WordMod
       /\ k < Len(rows) => Len(rows[k].bytes) = RowLen
       /\ \A j \in 1 .. Len(rows[k].bytes) : rows[k].bytes[j] = Cell((rows[k].adr + j - 1) % WordMod)

LastRow == rows[Len(rows)]

\* The counts of the dump: the rows hold what the loops have gone over, and
\* BytesOnLine says how long the last one is.
CountInv ==
    /\ cmd \notin {"dump", "dumpend", "dumped"} =>
         rows = <<>> /\ BytesRead = 0 /\ Left = 0 /\ Length = 0
    /\ cmd \in {"dumpend", "dumped"} => Left = 0 /\ (connected => BytesRead >= Length)
    /\ cmd \in {"dump", "dumpend", "dumped"} =>
         /\ Length = IF asked[1] > FlashSize THEN 0 ELSE GetLen(asked[1], asked[2])
         /\ Left <= Bytes2Read
         /\ Left > 0 => BytesRead < Length
         /\ BytesRead < Length + Chunk
         /\ Length <= Chunk => BytesRead = 0 \/ BytesRead = Length
    /\ Shown = Printed
    /\ rows # <<>> => Len(LastRow.bytes) \in 1 .. RowLen
    /\ cmd = "dump" =>
         /\ Adr = (asked[1] + BytesRead) % WordMod
         /\ BytesOnLine = IF rows = <<>> \/ Len(LastRow.bytes) = RowLen
                            THEN 0 ELSE Len(LastRow.bytes)

\* A remainder may be taken of a summand first.
LEMMA ModSum ==
    ASSUME NEW x \in Int, NEW y \in Int
    PROVE  ((x % WordMod) + y) % WordMod = (x + y) % WordMod
<1> DEFINE m == WordMod
           q == x \div m
           r == x % m
<1>1. m \in Nat \ {0}
  BY ViewAssumption
<1>2. q \in Int /\ r \in Int /\ x = m * q + r
  BY <1>1, DivMod
<1> HIDE DEF q, r
<1> DEFINE s == r + y
<1>3. s \in Int
  BY <1>2
<1> HIDE DEF s, m
<1> DEFINE u == s \div m
           v == s % m
<1>4. u \in Int /\ v \in 0 .. m - 1 /\ s = m * u + v
  BY ONLY <1>1, <1>3, DivMod
<1> HIDE DEF u, v
<1> DEFINE z == q + u
           t == x + y
<1>5. t \in Int /\ z \in Int /\ v \in Nat /\ v < m /\ t = m * z + v
  <2>1. t = m * q + (r + y)
    <3>1. m * q \in Int
      BY <1>1, <1>2
    <3>2. QED
      BY <1>2, <3>1
  <2>2. r + y = m * u + v
    BY <1>4 DEF s
  <2>3. QED
    BY <1>1, <1>2, <1>4, <2>1, <2>2
<1> HIDE DEF z, t
<1>6. t % m = v
  BY ONLY <1>1, <1>5, ModUnique
<1>7. QED
  BY <1>6 DEF t, v, s, r, m

\* A word is its own remainder.
LEMMA WordSmall ==
    ASSUME NEW x \in Words
    PROVE  x % WordMod = x
<1>1. WordMod \in Nat \ {0} /\ x \in 0 .. WordMod - 1
  BY ViewAssumption DEF Words
<1>2. QED
  BY <1>1, ModSmall

\* The rows and what is read, once NetDumpHex printed a byte.
LEMMA DumpByteRows ==
    ASSUME TypeInv, RowsInv, CountInv, DumpByte
    PROVE  /\ RowsInv'
           /\ Shown' = Shown + 1
           /\ rows' # <<>>
           /\ Len(LastRow'.bytes) \in 1 .. RowLen
           /\ BytesOnLine' = IF Len(LastRow'.bytes) = RowLen THEN 0 ELSE Len(LastRow'.bytes)
<1> DEFINE n == Len(rows)
           byte == (Adr + (Bytes2Read - Left)) % WordMod
<1>1. /\ cmd = "dump" /\ Left > 0 /\ asked' = asked
      /\ rows' = IF BytesOnLine = 0
                     THEN Append(rows, [adr |-> byte, bytes |-> <<Cell(byte)>>])
                     ELSE [rows EXCEPT ![Len(rows)].bytes = Append(@, Cell(byte))]
      /\ BytesOnLine' = OnLine(BytesOnLine)
  BY DEF DumpByte
<1>2. /\ rows \in Seq(Row) /\ n \in Nat /\ Left \in Nat /\ BytesRead \in Nat
      /\ Bytes2Read \in Nat /\ Length \in Nat /\ asked[1] \in Nat /\ RowLen \in Nat \ {0}
      /\ BytesOnLine \in 0 .. RowLen - 1
  BY ViewAssumption DEF TypeInv, TypeOK, Row, Words, Bytes2Read
<1>3. \A k \in 1 .. n : rows[k] \in Row
  BY <1>2, ElementOfSeq
<1>4. Shown \in Int /\ byte = (asked[1] + Shown) % WordMod /\ byte \in Words
  <2> DEFINE i == Bytes2Read - Left
             x == asked[1] + BytesRead
  <2>1. i \in Int /\ x \in Int /\ Adr = x % WordMod /\ Shown = BytesRead + i
    BY <1>1, <1>2 DEF CountInv, Printed
  <2>2. byte = (x + i) % WordMod
    <3> HIDE DEF x
    <3>1. QED
      BY <2>1, ModSum
  <2>3. x + i = asked[1] + Shown /\ asked[1] + Shown \in Int /\ Shown \in Int
    BY <1>2, <2>1
  <2>4. QED
    BY <2>2, <2>3, ModWord
<1> HIDE DEF byte
<1>5. CASE BytesOnLine = 0
  <2> DEFINE row == [adr |-> byte, bytes |-> <<Cell(byte)>>]
  <2>1. row \in Row /\ rows' = Append(rows, row)
    BY <1>1, <1>4, <1>5, CellWord DEF Row
  <2>2. /\ Len(rows') = n + 1 /\ rows' # <<>>
        /\ \A k \in 1 .. n : rows'[k] = rows[k]
        /\ rows'[n + 1] = row
    BY <1>2, <2>1, AppendProperties
  <2>3. rows = <<>> \/ Len(LastRow.bytes) = RowLen
    BY <1>1, <1>5, <1>2 DEF CountInv
  <2>4. Shown = RowLen * n
    <3>1. CASE rows = <<>>
      BY <1>2, <3>1 DEF Shown
    <3>2. CASE rows # <<>>
      <4>1. Shown = RowLen * (n - 1) + RowLen
        BY <2>3, <3>2 DEF Shown, Last, LastRow
      <4>2. QED
        BY <1>2, <4>1
    <3>3. QED
      BY <3>1, <3>2
  <2>5. row.bytes[1] = Cell((row.adr + 1 - 1) % WordMod) /\ Len(row.bytes) = 1
    BY <1>4, WordSmall DEF Words
  <2>6. RowsInv'
    <3> SUFFICES ASSUME NEW k \in 1 .. n + 1
                 PROVE  /\ rows'[k].adr = (asked[1] + RowLen * (k - 1)) % WordMod
                        /\ k < n + 1 => Len(rows'[k].bytes) = RowLen
                        /\ \A j \in 1 .. Len(rows'[k].bytes) :
                             rows'[k].bytes[j] = Cell((rows'[k].adr + j - 1) % WordMod)
      BY <1>1, <2>2 DEF RowsInv
    <3>1. CASE k \in 1 .. n
      <4>1. rows'[k] = rows[k] /\ rows # <<>>
        BY <1>2, <2>2, <3>1
      <4>2. Len(rows[k].bytes) = RowLen
        BY <1>2, <2>3, <3>1, <4>1 DEF RowsInv, LastRow
      <4>3. QED
        BY <3>1, <4>1, <4>2 DEF RowsInv
    <3>2. CASE k = n + 1
      <4>1. rows'[k] = row /\ k - 1 = n
        BY <1>2, <2>2, <3>2
      <4>2. row.adr = (asked[1] + RowLen * (k - 1)) % WordMod
        BY <1>4, <2>4, <4>1
      <4>3. QED
        BY <1>2, <2>5, <3>2, <4>1, <4>2
    <3>3. QED
      BY <1>2, <3>1, <3>2
  <2>7. LastRow' = row /\ Shown' = RowLen * n + 1
    BY <1>2, <2>2, <2>5 DEF LastRow, Shown, Last
  <2>8. QED
    BY <1>1, <1>2, <1>5, <2>2, <2>4, <2>5, <2>6, <2>7 DEF OnLine
<1>6. CASE BytesOnLine # 0
  <2> DEFINE r == rows[n]
             l == Len(r.bytes)
             row == [adr |-> r.adr, bytes |-> Append(r.bytes, Cell(byte))]
  <2>1. rows # <<>> /\ n \in 1 .. n /\ r \in Row
    BY <1>1, <1>2, <1>3, <1>6 DEF TypeInv
  <2>2. l \in 1 .. RowLen - 1 /\ BytesOnLine = l /\ Shown = RowLen * (n - 1) + l
    BY <1>1, <1>2, <1>6, <2>1 DEF CountInv, LastRow, Shown, Last
  <2>3. r.bytes \in Seq(Words) /\ r.adr \in Words /\ row \in Row
    BY <1>4, <2>1, CellWord, AppendProperties DEF Row
  <2>4. /\ Len(row.bytes) = l + 1 /\ row.bytes[l + 1] = Cell(byte)
        /\ \A j \in 1 .. l : row.bytes[j] = r.bytes[j]
    BY <1>4, <2>3, CellWord, AppendProperties
  <2>5. rows' = [rows EXCEPT ![n] = row]
    <3>1. [r EXCEPT !.bytes = Append(@, Cell(byte))] = row
      BY <2>1, RowExcept, Zenon
    <3>2. QED
      BY <1>1, <1>6, <3>1
  <2>6. /\ Len(rows') = n /\ rows' # <<>>
        /\ \A k \in 1 .. n : rows'[k] = IF k = n THEN row ELSE rows[k]
    BY <1>2, <2>1, <2>3, <2>5, ExceptSeq
  <2>7. byte = (r.adr + (l + 1) - 1) % WordMod
    <3> DEFINE w == RowLen * (n - 1)
               x == asked[1] + w
    <3>1. w \in Int /\ l \in Int /\ r.adr = x % WordMod /\ Shown = w + l
      BY <1>2, <2>1, <2>2 DEF RowsInv
    <3> HIDE DEF w, l
    <3>2. x \in Int /\ asked[1] + Shown = x + l
      BY <1>2, <3>1
    <3> HIDE DEF x
    <3>3. byte = (r.adr + l) % WordMod
      BY <1>4, <3>1, <3>2, ModSum
    <3>4. r.adr + (l + 1) - 1 = r.adr + l
      BY <2>3, <3>1 DEF Words
    <3>5. QED
      BY <3>3, <3>4
  <2> HIDE DEF row, l
  <2>8. RowsInv'
    <3> SUFFICES ASSUME NEW k \in 1 .. n
                 PROVE  /\ rows'[k].adr = (asked[1] + RowLen * (k - 1)) % WordMod
                        /\ k < n => Len(rows'[k].bytes) = RowLen
                        /\ \A j \in 1 .. Len(rows'[k].bytes) :
                             rows'[k].bytes[j] = Cell((rows'[k].adr + j - 1) % WordMod)
      BY <1>1, <2>6 DEF RowsInv
    <3>1. CASE k # n
      BY <2>6, <3>1 DEF RowsInv
    <3>2. CASE k = n
      <4>1. rows'[k] = row /\ row.adr = r.adr
        BY <2>6, <3>2 DEF row
      <4>2. \A j \in 1 .. l + 1 : row.bytes[j] = Cell((r.adr + j - 1) % WordMod)
        <5>1. \A j \in 1 .. l : r.bytes[j] = Cell((r.adr + j - 1) % WordMod)
          BY <2>1 DEF RowsInv, l
        <5>2. QED
          BY <2>2, <2>4, <2>7, <5>1
      <4>3. QED
        BY <1>2, <2>1, <2>4, <3>2, <4>1, <4>2 DEF RowsInv
    <3>3. QED
      BY <3>1, <3>2
  <2>9. LastRow' = row /\ Shown' = RowLen * (n - 1) + (l + 1)
    BY <2>1, <2>4, <2>6 DEF LastRow, Shown, Last
  <2>10. Shown' = Shown + 1
    <3> DEFINE w == RowLen * (n - 1)
    <3>1. w \in Int /\ Shown = w + l /\ Shown' = w + (l + 1)
      BY <1>2, <2>2, <2>9
    <3> HIDE DEF w
    <3>2. QED
      BY <2>2, <3>1
  <2>11. Len(LastRow'.bytes) = l + 1 /\ BytesOnLine' = (IF l + 1 = RowLen THEN 0 ELSE l + 1)
    BY <1>1, <2>2, <2>4, <2>9 DEF OnLine
  <2>12. QED
    BY <1>2, <2>2, <2>6, <2>8, <2>10, <2>11
<1>7. QED
  BY <1>5, <1>6

\* The inductive invariant of the dump.
DumpInv == RowsInv /\ CountInv

\* A dump is begun; one that starts behind the chip is over at once.
LEMMA DumpBeginInv ==
    ASSUME TypeInv, DumpInv, NEW a \in DumpArgs, DumpBegin(a[1], a[2])
    PROVE  DumpInv'
<1>1. a[1] \in Words /\ a[2] \in Words
  BY ViewAssumption
<1>2. /\ cmd = "idle" /\ asked' = <<a[1], a[2]>>
      /\ UNCHANGED <<connected, BytesRead, Left, BytesOnLine, rows>>
  BY DEF DumpBegin
<1>3. IF a[1] > FlashSize
        THEN cmd' = "dumpend" /\ UNCHANGED <<Adr, Length>>
        ELSE cmd' = "dump" /\ Adr' = a[1] /\ Length' = GetLen(a[1], a[2])
  BY DEF DumpBegin
<1>4. rows' = <<>> /\ BytesRead' = 0 /\ Left' = 0 /\ Length = 0 /\ BytesOnLine' = 0
  BY <1>2 DEF TypeInv, DumpInv, CountInv
<1>5. asked'[1] = a[1] /\ asked'[2] = a[2]
  BY <1>2
<1>6. Length' = IF asked'[1] > FlashSize THEN 0 ELSE GetLen(asked'[1], asked'[2])
  BY <1>3, <1>4, <1>5
<1>7. Length' \in Nat
  BY <1>1, <1>5, <1>6, ViewAssumption DEF GetLen, Words
<1>8. Bytes2Read' \in Nat /\ Shown' = 0 /\ Printed' = 0
  BY <1>4, <1>7, ViewAssumption DEF Bytes2Read, Shown, Printed
<1>9. cmd' = "dump" => Adr' = (asked'[1] + BytesRead') % WordMod
  <2> SUFFICES ASSUME cmd' = "dump" PROVE a[1] = (a[1] + 0) % WordMod
    BY <1>3, <1>4, <1>5
  <2>1. a[1] + 0 = a[1]
    BY <1>1 DEF Words
  <2>2. QED
    BY <1>1, <2>1, WordSmall
<1>10. cmd' = "dumpend" => Length' = 0
  BY <1>3, <1>4
<1>11. cmd' \in {"dump", "dumpend"}
  BY <1>3
<1>12. RowsInv'
  BY <1>4 DEF RowsInv
<1>13. CountInv'
  BY <1>4, <1>6, <1>7, <1>8, <1>9, <1>10, <1>11, ViewAssumption DEF CountInv
<1>14. QED
  BY <1>12, <1>13 DEF DumpInv

\* A chunk is read, or the loop of DumpCmd ends.
LEMMA DumpChunkInv ==
    ASSUME TypeInv, DumpInv, DumpChunk
    PROVE  DumpInv'
<1>1. /\ cmd = "dump" /\ Left = 0
      /\ UNCHANGED <<connected, Adr, Length, BytesRead, BytesOnLine, rows, asked>>
  BY DEF DumpChunk
<1>2. \/ Left' = Bytes2Read /\ cmd' = cmd /\ BytesRead < Length
      \/ Left' = Left /\ cmd' = "dumpend" /\ ~(connected /\ BytesRead < Length)
  BY DEF DumpChunk, Continues
<1>3. Length \in Nat /\ BytesRead \in Nat /\ Chunk \in Nat \ {0}
  BY ViewAssumption DEF TypeInv, TypeOK, Words
<1>4. Bytes2Read \in Nat /\ Bytes2Read' = Bytes2Read /\ (Length > 0 => Bytes2Read > 0)
  BY <1>1, <1>3 DEF Bytes2Read
<1>5. Shown' = Shown /\ LastRow' = LastRow
  BY <1>1 DEF Shown, LastRow, Last
<1>6. Printed' = Printed
  BY <1>1, <1>2, <1>3, <1>4 DEF Printed
<1>7. RowsInv'
  BY <1>1 DEF DumpInv, RowsInv
<1>8. CountInv'
  BY <1>1, <1>2, <1>3, <1>4, <1>5, <1>6 DEF DumpInv, CountInv
<1>9. QED
  BY <1>7, <1>8 DEF DumpInv

\* A byte is printed, and after the last of a chunk DumpCmd moves on.
LEMMA DumpByteInv ==
    ASSUME TypeInv, DumpInv, DumpByte
    PROVE  DumpInv'
<1>1. /\ cmd = "dump" /\ cmd' = "dump" /\ Left > 0 /\ Left' = Left - 1
      /\ IF Left = 1
           THEN /\ Adr' = (Adr + Bytes2Read) % WordMod
                /\ BytesRead' = BytesRead + Bytes2Read
           ELSE UNCHANGED <<Adr, BytesRead>>
      /\ UNCHANGED <<connected, Length, asked>>
  BY DEF DumpByte
<1>2. /\ Length \in Nat /\ BytesRead \in Nat /\ Chunk \in Nat \ {0} /\ Left \in Nat
      /\ asked[1] \in Nat
  BY ViewAssumption DEF TypeInv, TypeOK, Words
<1>3. /\ Bytes2Read \in Nat /\ Bytes2Read' = Bytes2Read /\ Bytes2Read <= Chunk
      /\ Length <= Chunk => Bytes2Read = Length
  BY <1>1, <1>2 DEF Bytes2Read
<1>4. /\ RowsInv' /\ Shown' = Shown + 1 /\ rows' # <<>>
      /\ Len(LastRow'.bytes) \in 1 .. RowLen
      /\ BytesOnLine' = IF Len(LastRow'.bytes) = RowLen THEN 0 ELSE Len(LastRow'.bytes)
  BY DumpByteRows DEF DumpInv
<1>5. /\ Length = (IF asked[1] > FlashSize THEN 0 ELSE GetLen(asked[1], asked[2]))
      /\ Left <= Bytes2Read /\ BytesRead < Length /\ Shown = Printed
      /\ Length <= Chunk => BytesRead = 0 \/ BytesRead = Length
      /\ Adr = (asked[1] + BytesRead) % WordMod
  BY <1>1 DEF DumpInv, CountInv
<1>6. Shown' = Printed'
  <2>1. Printed = BytesRead + (Bytes2Read - Left)
    BY <1>1, <1>2 DEF Printed
  <2>2. Printed' = Printed + 1
    BY <1>1, <1>2, <1>3, <2>1 DEF Printed
  <2>3. QED
    BY <1>4, <1>5, <2>2
<1>7. Adr' = (asked[1] + BytesRead') % WordMod
  <2>1. CASE Left = 1
    <3> DEFINE x == asked[1] + BytesRead
    <3>1. x \in Int /\ Bytes2Read \in Int /\ asked[1] + BytesRead' = x + Bytes2Read
      BY <1>1, <1>2, <1>3, <2>1
    <3>2. Adr' = ((x % WordMod) + Bytes2Read) % WordMod
      BY <1>1, <1>5, <2>1
    <3> HIDE DEF x
    <3>3. QED
      BY <3>1, <3>2, ModSum
  <2>2. CASE Left # 1
    BY <1>1, <1>5, <2>2
  <2>3. QED
    BY <2>1, <2>2
<1>8. /\ Left' <= Bytes2Read' /\ (Left' > 0 => BytesRead' < Length)
      /\ BytesRead' < Length + Chunk
      /\ Length <= Chunk => BytesRead' = 0 \/ BytesRead' = Length
  BY <1>1, <1>2, <1>3, <1>5
<1>9. CountInv'
  BY <1>1, <1>4, <1>5, <1>6, <1>7, <1>8 DEF CountInv
<1>10. QED
  BY <1>4, <1>9 DEF DumpInv

LEMMA NextDumpInv ==
    ASSUME TypeInv, DumpInv, [Next]_vars
    PROVE  DumpInv'
<1>1. CASE MapBegin \/ MapStep \/ MapEnd
  <2>1. cmd \in {"idle", "map"} /\ cmd' \in {"map", "mapped"} /\ UNCHANGED dump
    BY <1>1 DEF MapBegin, MapStep, MapEnd
  <2>2. rows' = <<>> /\ BytesRead' = 0 /\ Left' = 0 /\ Length' = 0
    BY <2>1 DEF DumpInv, CountInv, dump
  <2>3. Shown' = 0 /\ Printed' = 0
    BY <2>2 DEF Shown, Printed
  <2>4. QED
    BY <2>1, <2>2, <2>3 DEF DumpInv, RowsInv, CountInv
<1>2. CASE Close \/ DumpEnd
  <2>1. /\ UNCHANGED <<Adr, Length, BytesRead, Left, rows, asked>>
        /\ \/ cmd = "dump" /\ cmd' = "dump" /\ BytesOnLine' = BytesOnLine
           \/ cmd = "dumpend" /\ cmd' = "dumped" /\ connected' = connected
    BY <1>2 DEF Close, DumpEnd, dump
  <2>2. Shown' = Shown /\ Printed' = Printed /\ LastRow' = LastRow /\ Bytes2Read' = Bytes2Read
    BY <2>1 DEF Shown, Printed, LastRow, Last, Bytes2Read
  <2>3. QED
    BY <2>1, <2>2 DEF DumpInv, RowsInv, CountInv
<1>3. CASE Finish
  <2>1. cmd' = "idle" /\ rows' = <<>> /\ BytesRead' = 0 /\ Left' = 0 /\ Length' = 0
    BY <1>3 DEF Finish
  <2>2. Shown' = 0 /\ Printed' = 0
    BY <2>1 DEF Shown, Printed
  <2>3. QED
    BY <2>1, <2>2 DEF DumpInv, RowsInv, CountInv
<1>4. CASE UNCHANGED vars
  <2>1. UNCHANGED <<cmd, connected, Adr, Length, BytesRead, Left, BytesOnLine, rows, asked>>
    BY <1>4 DEF vars, dump
  <2>2. Shown' = Shown /\ Printed' = Printed /\ LastRow' = LastRow /\ Bytes2Read' = Bytes2Read
    BY <2>1 DEF Shown, Printed, LastRow, Last, Bytes2Read
  <2>3. QED
    BY <2>1, <2>2 DEF DumpInv, RowsInv, CountInv
<1>5. QED
  BY <1>1, <1>2, <1>3, <1>4, DumpBeginInv, DumpChunkInv, DumpByteInv DEF Next

\* What a dump that ran to its end has printed.
LEMMA DumpInvExact ==
    ASSUME TypeInv, DumpInv
    PROVE  DumpExact
<1>1. \A k \in 1 .. Len(rows) :
         LET r == rows[k]
         IN  /\ r.adr = (asked[1] + RowLen * (k - 1)) % WordMod
             /\ k < Len(rows) => Len(r.bytes) = RowLen
             /\ \A j \in 1 .. Len(r.bytes) : r.bytes[j] = Cell((r.adr + j - 1) % WordMod)
  BY DEF DumpInv, RowsInv
<1>2. ASSUME cmd = "dumped", connected, asked[1] + asked[2] < WordMod
      PROVE  /\ Shown >= Want
             /\ Want <= Chunk => Shown = Want
  <2>1. /\ asked[1] \in Nat /\ asked[2] \in Nat /\ Length \in Nat /\ BytesRead \in Nat
        /\ FlashSize \in Nat /\ Chunk \in Nat \ {0} /\ WordMod \in Nat
    BY ViewAssumption DEF TypeInv, TypeOK, Words
  <2>2. (asked[1] + asked[2]) % WordMod = asked[1] + asked[2]
    BY <1>2, <2>1
  <2>3. /\ Length = (IF asked[1] > FlashSize THEN 0 ELSE GetLen(asked[1], asked[2]))
        /\ Left = 0 /\ BytesRead >= Length /\ BytesRead < Length + Chunk
        /\ Length <= Chunk => BytesRead = 0 \/ BytesRead = Length
        /\ Shown = Printed
    BY <1>2 DEF DumpInv, CountInv
  <2>4. Want = Length
    BY <2>1, <2>2, <2>3 DEF Want, Min2, GetLen
  <2>5. Shown = BytesRead
    BY <2>1, <2>3 DEF Printed
  <2>6. QED
    BY <2>1, <2>3, <2>4, <2>5
<1>3. QED
  BY <1>1, <1>2 DEF DumpExact

\* Every row of a dump has the address of its first byte and RowLen bytes in
\* order, and a dump that is not cut off leaves out no byte of the range that
\* was asked for and, when that fits one read, prints no other, for every
\* chunk, row and chip size (main.c:704-733, 829-838).
THEOREM DumpExactHolds == Spec => []DumpExact
<1>1. Init => DumpInv
  BY DEF Init, DumpInv, RowsInv, CountInv, Shown, Printed
<1>2. TypeInv /\ DumpInv /\ [Next]_vars => DumpInv'
  BY NextDumpInv
<1>3. TypeInv /\ DumpInv => DumpExact
  BY DumpInvExact
<1>4. QED
  BY <1>1, <1>2, <1>3, TypeInvHolds, PTL DEF Spec

=============================================================================
