-------------------------- MODULE ConsoleOutProofs --------------------------
(* The console's output buffer accounts for every byte and the peer gets     *)
(* what was printed in order, for every size of the buffer, of lwIP's send   *)
(* buffer and number of connections.                                         *)
EXTENDS ConsoleOut, FiniteSetTheorems, SequenceTheorems, TLAPS

-----------------------------------------------------------------------------
\* Type correctness.

\* A byte that was waited for goes to the start of the buffer, yet is counted:
\* prLen may pass the buffer's length, by one while somebody is connected, and
\* by one more for each wait that the end of the connection cuts short.
TypeInv ==
    /\ TypeOK
    /\ IF gTcpCon = NoCon
         THEN prLen + Cardinality(waits) <= BufLen + MaxEchoes + 2
         ELSE prLen <= BufLen \/ (prLen = BufLen + 1 /\ BytesSent # prLen)
    /\ text + Cardinality(waits) <= MaxText

\* How many wait.
LEMMA WaitCount ==
    ASSUME NEW W, W \subseteq Waiters
    PROVE  /\ Cardinality(W) \in 0 .. MaxEchoes + 1
           /\ W = {} => Cardinality(W) = 0
           /\ \A w : Cardinality(W \cup {w}) \in {Cardinality(W), Cardinality(W) + 1}
           /\ \A w \in W : Cardinality(W \ {w}) = Cardinality(W) - 1
<1>0. MaxEchoes \in Nat
  BY OutputAssumption
<1>1. IsFiniteSet(Waiters) /\ Cardinality(Waiters) = MaxEchoes + 1
  BY <1>0, FS_Interval DEF Waiters, Main
<1>2. IsFiniteSet(W) /\ Cardinality(W) <= MaxEchoes + 1
  BY <1>1, FS_Subset
<1>3. Cardinality(W) \in 0 .. MaxEchoes + 1
  <2>1. Cardinality(W) \in Nat
    BY <1>2, FS_CardinalityType
  <2>2. QED
    BY <1>2, <2>1
<1>4. W = {} => Cardinality(W) = 0
  BY FS_EmptySet
<1>5. \A w : Cardinality(W \cup {w}) \in {Cardinality(W), Cardinality(W) + 1}
  <2> TAKE w
  <2>1. Cardinality(W \cup {w}) = IF w \in W THEN Cardinality(W) ELSE Cardinality(W) + 1
    BY <1>2, FS_AddElement
  <2>2. QED
    BY <2>1
<1>6. \A w \in W : Cardinality(W \ {w}) = Cardinality(W) - 1
  BY <1>2, FS_RemoveElement
<1>7. QED
  BY <1>3, <1>4, <1>5, <1>6, Zenon

\* The bytes read from the buffer are bytes.
LEMMA BytesType ==
    ASSUME NEW buf \in [BufIdx -> 0 .. MaxText], NEW from \in Nat, NEW n \in Nat
    PROVE  /\ Bytes(buf, from, n) \in Seq(0 .. MaxText)
           /\ Len(Bytes(buf, from, n)) = n
<1>1. \A i \in 1 .. n : (IF from + i - 1 \in BufIdx THEN buf[from + i - 1] ELSE 0) \in 0 .. MaxText
  BY OutputAssumption
<1>2. QED
  BY <1>1 DEF Bytes

\* NetPrintFillPcb queues some or none of the bytes that are not queued yet,
\* and never more than lwIP has room for.
Queues(p, buf, len, queued, sent, una, n) ==
    /\ gTcpCon # NoCon /\ p \in Pcbs /\ len > queued
    /\ n \in 0 .. len - queued
    /\ n = len - queued \/ n = SndBuf - una[p]
    /\ una[p] + n <= SndBuf
    /\ BytesQueued' = queued + n
    /\ unacked' = [una EXCEPT ![p] = @ + n]
    /\ got' = IF p = gTcpCon /\ sole THEN got \o Bytes(buf, sent, n) ELSE got

LEMMA FillEffect ==
    ASSUME NEW p \in Pcbs \cup {NoCon}, NEW buf, NEW len \in Nat, NEW queued \in Nat,
           NEW sent \in Nat, NEW una \in [Pcbs -> 0 .. SndBuf],
           NetPrintFillPcb(p, buf, len, queued, sent, una)
    PROVE  \/ BytesQueued' = queued /\ unacked' = una /\ got' = got
           \/ \E n \in Nat : Queues(p, buf, len, queued, sent, una, n)
<1> DEFINE room == SndBuf - una[p]
           n == IF len - queued <= room THEN len - queued ELSE room
<1>1. CASE /\ gTcpCon # NoCon /\ CanWrite(p) /\ len - queued > 0
           /\ BytesQueued' = queued + n
           /\ unacked' = [una EXCEPT ![p] = @ + n]
           /\ got' = IF p = gTcpCon /\ sole THEN got \o Bytes(buf, sent, n) ELSE got
  <2>1. p \in Pcbs
    BY <1>1 DEF CanWrite
  <2>2. una[p] \in 0 .. SndBuf /\ SndBuf \in Nat
    BY <2>1, OutputAssumption
  <2>3. n \in Nat /\ n <= len - queued /\ una[p] + n <= SndBuf /\ len > queued
        /\ (n = len - queued \/ n = SndBuf - una[p])
    BY <1>1, <2>2
  <2>4. Queues(p, buf, len, queued, sent, una, n)
    BY <1>1, <2>1, <2>3 DEF Queues
  <2>5. QED
    BY <2>3, <2>4
<1>2. CASE BytesQueued' = queued /\ unacked' = una /\ UNCHANGED got
  BY <1>2
<1>3. QED
  BY <1>1, <1>2 DEF NetPrintFillPcb, ToQueue

\* What it leaves behind has the right types.
LEMMA FillType ==
    ASSUME NEW p \in Pcbs \cup {NoCon}, NEW buf \in [BufIdx -> 0 .. MaxText],
           NEW len \in Nat, NEW queued \in Nat, NEW sent \in Nat,
           NEW una \in [Pcbs -> 0 .. SndBuf], got \in Seq(0 .. MaxText),
           NetPrintFillPcb(p, buf, len, queued, sent, una)
    PROVE  /\ BytesQueued' \in Nat
           /\ BytesQueued' = queued \/ (gTcpCon # NoCon /\ BytesQueued' <= len)
           /\ unacked' \in [Pcbs -> 0 .. SndBuf]
           /\ got' \in Seq(0 .. MaxText)
<1>1. CASE BytesQueued' = queued /\ unacked' = una /\ got' = got
  BY <1>1
<1>2. CASE \E n \in Nat : Queues(p, buf, len, queued, sent, una, n)
  <2>1. PICK n \in Nat : Queues(p, buf, len, queued, sent, una, n)
    BY <1>2
  <2>2. una[p] + n \in 0 .. SndBuf /\ BytesQueued' = queued + n /\ queued + n <= len
        /\ gTcpCon # NoCon /\ p \in Pcbs /\ unacked' = [una EXCEPT ![p] = @ + n]
    BY <2>1, OutputAssumption DEF Queues
  <2>3. got' \in Seq(0 .. MaxText)
    <3>1. got \o Bytes(buf, sent, n) \in Seq(0 .. MaxText)
      BY BytesType, ConcatProperties
    <3>2. QED
      BY <2>1, <3>1 DEF Queues
  <2>4. QED
    BY <2>2, <2>3
<1>3. QED
  BY <1>1, <1>2, FillEffect

\* One byte is put in the buffer.
LEMMA PutType ==
    ASSUME TypeOK, text < MaxText, NEW i \in BufIdx, PutByte(i)
    PROVE  /\ PrintBuf' \in [BufIdx -> 0 .. MaxText]
           /\ text' = text + 1 /\ text' \in 0 .. MaxText
           /\ prLen' = prLen + 1 /\ mixed' \in BOOLEAN
<1>1. text \in Nat /\ MaxText \in Nat
  BY OutputAssumption DEF TypeOK
<1>2. Num(0) \in 0 .. MaxText
  BY <1>1 DEF Num
<1>3. mixed' \in BOOLEAN
  BY Zenon DEF PutByte
<1>4. QED
  BY <1>1, <1>2, <1>3 DEF PutByte, TypeOK

\* NetPuts, of a dump or of an echo.
LEMMA NetPutsType ==
    ASSUME TypeInv, NEW who \in Waiters, NetPuts(who),
           UNCHANGED <<gTcpCon, state>>, dumping' \in BOOLEAN
    PROVE  TypeInv'
<1> USE OutputAssumption
<1>1. waits \subseteq Waiters
  BY DEF TypeInv, TypeOK
<1>2. /\ Cardinality(waits) \in 0 .. MaxEchoes + 1
      /\ Cardinality(waits \cup {who}) \in {Cardinality(waits), Cardinality(waits) + 1}
  BY <1>1, WaitCount
<1>3. text \in Nat /\ prLen \in Nat /\ text + Cardinality(waits) < MaxText
  BY DEF TypeInv, TypeOK, NetPuts
<1>4. CASE gTcpCon = NoCon
  <2>1. UNCHANGED <<gTcpCon, state, unacked, gNetPrint, waits, history>>
    BY <1>4 DEF NetPuts
  <2>2. QED
    BY <2>1 DEF TypeInv, TypeOK, gNetPrint, history
<1>5. CASE gTcpCon # NoCon /\ HasRoom
  <2>1. PutByte(prLen) /\ UNCHANGED <<unacked, BytesQueued, BytesSent, waits, got, sole>>
    BY <1>5 DEF NetPuts
  <2>2. prLen \in BufIdx /\ text < MaxText
    BY <1>2, <1>3, <1>5 DEF HasRoom, BufIdx
  <2>3. /\ PrintBuf' \in [BufIdx -> 0 .. MaxText]
        /\ text' = text + 1 /\ text' \in 0 .. MaxText
        /\ prLen' = prLen + 1 /\ mixed' \in BOOLEAN
    BY <2>1, <2>2, PutType DEF TypeInv
  <2>4. prLen' <= BufLen /\ prLen' \in 0 .. BufLen + MaxEchoes + 2
    BY <1>3, <1>5, <2>3 DEF HasRoom
  <2>5. text' + Cardinality(waits') <= MaxText
    BY <1>2, <1>3, <2>1, <2>3
  <2>6. QED
    BY <1>5, <2>1, <2>3, <2>4, <2>5 DEF TypeInv, TypeOK
<1>6. CASE gTcpCon # NoCon /\ ~HasRoom
  <2>1. /\ NetPrintFillPcb(gTcpCon, PrintBuf, prLen, BytesQueued, BytesSent, unacked)
        /\ waits' = waits \cup {who}
        /\ UNCHANGED <<PrintBuf, prLen, BytesSent, text, sole, mixed>>
    BY <1>6 DEF NetPuts
  <2>2. /\ BytesQueued' \in Nat /\ (BytesQueued' = BytesQueued \/ BytesQueued' <= prLen)
        /\ unacked' \in [Pcbs -> 0 .. SndBuf] /\ got' \in Seq(0 .. MaxText)
    <3>1. /\ BytesQueued \in Nat /\ BytesSent \in Nat /\ gTcpCon \in Pcbs \cup {NoCon}
          /\ PrintBuf \in [BufIdx -> 0 .. MaxText] /\ unacked \in [Pcbs -> 0 .. SndBuf]
          /\ got \in Seq(0 .. MaxText)
      BY DEF TypeInv, TypeOK
    <3>2. QED
      BY <1>3, <2>1, <3>1, FillType
  <2>3. prLen <= BufLen + 1
    BY <1>6, <1>3 DEF TypeInv
  <2>4. BytesQueued' \in 0 .. BufLen + 1
    BY <1>3, <2>2, <2>3 DEF TypeInv, TypeOK
  <2>5. text' + Cardinality(waits') <= MaxText
    BY <1>2, <1>3, <2>1
  <2>6. waits' \subseteq Waiters
    BY <1>1, <2>1
  <2>7. QED
    BY <1>6, <2>1, <2>2, <2>4, <2>5, <2>6 DEF TypeInv, TypeOK
<1>7. QED
  BY <1>4, <1>5, <1>6

\* The main thread's other steps.
LEMMA MainType ==
    ASSUME TypeInv, (\E n \in 1 .. BufLen : NetPrintf(n)) \/ DumpEnd \/ Resumes \/ ExitCmd
    PROVE  TypeInv'
<1> USE OutputAssumption
<1>1. waits \subseteq Waiters /\ Cardinality(waits) \in 0 .. MaxEchoes + 1
      /\ (waits = {} => Cardinality(waits) = 0)
  BY WaitCount DEF TypeInv, TypeOK
<1>2. /\ text \in Nat /\ prLen \in Nat /\ BytesQueued \in 0 .. BufLen + 1 /\ BytesSent \in Nat
      /\ PrintBuf \in [BufIdx -> 0 .. MaxText] /\ unacked \in [Pcbs -> 0 .. SndBuf]
      /\ got \in Seq(0 .. MaxText) /\ gTcpCon \in Pcbs \cup {NoCon}
      /\ text + Cardinality(waits) <= MaxText
  BY DEF TypeInv, TypeOK
<1>3. gTcpCon # NoCon => prLen <= BufLen + 1
  BY <1>2 DEF TypeInv
<1>4. CASE \E n \in 1 .. BufLen : NetPrintf(n)
  <2>1. PICK n \in 1 .. BufLen : NetPrintf(n)
    BY <1>4
  <2> DEFINE buf == [i \in BufIdx |-> IF i < n THEN Num(i) ELSE PrintBuf[i]]
  <2>2. /\ waits = {} /\ text + n <= MaxText /\ PrintBuf' = buf /\ prLen' = n
        /\ text' = (IF gTcpCon = NoCon THEN text ELSE text + n)
        /\ NetPrintFillPcb(gTcpCon, buf, n, BytesQueued, BytesSent, unacked)
        /\ UNCHANGED <<gTcpCon, state, BytesSent, dumping, waits, sole, mixed>>
    BY <2>1 DEF NetPrintf
  <2>3. \A i \in BufIdx : i < n => Num(i) \in 0 .. MaxText
    BY <1>2, <2>2 DEF Num, BufIdx
  <2>4. buf \in [BufIdx -> 0 .. MaxText]
    BY <1>2, <2>3
  <2>5. /\ BytesQueued' \in Nat /\ (BytesQueued' = BytesQueued \/ BytesQueued' <= n)
        /\ unacked' \in [Pcbs -> 0 .. SndBuf] /\ got' \in Seq(0 .. MaxText)
    <3>1. n \in Nat /\ BytesQueued \in Nat
      BY <1>2
    <3> HIDE DEF buf
    <3>2. QED
      BY <1>2, <2>2, <2>4, <3>1, FillType
  <2>6. BytesQueued' \in 0 .. BufLen + 1
    BY <1>2, <2>5
  <2>7. text' + Cardinality(waits') <= MaxText /\ text' \in 0 .. MaxText
    BY <1>1, <1>2, <2>2
  <2>8. IF gTcpCon' = NoCon THEN prLen' + Cardinality(waits') <= BufLen + MaxEchoes + 2
                            ELSE prLen' <= BufLen
    BY <1>1, <2>2
  <2>9. QED
    BY <2>2, <2>4, <2>5, <2>6, <2>7, <2>8 DEF TypeInv, TypeOK
<1>5. CASE DumpEnd
  <2>1. /\ NetPrintFillPcb(gTcpCon, PrintBuf, prLen, BytesQueued, BytesSent, unacked)
        /\ UNCHANGED <<gTcpCon, state, PrintBuf, prLen, BytesSent, waits, text, sole, mixed>>
    BY <1>5 DEF DumpEnd
  <2>2. dumping' \in BOOLEAN
    BY <1>5, Zenon DEF DumpEnd
  <2>3. /\ BytesQueued' \in Nat
        /\ BytesQueued' = BytesQueued \/ (gTcpCon # NoCon /\ BytesQueued' <= prLen)
        /\ unacked' \in [Pcbs -> 0 .. SndBuf] /\ got' \in Seq(0 .. MaxText)
    <3>1. BytesQueued \in Nat
      BY <1>2
    <3>2. QED
      BY <1>2, <2>1, <3>1, FillType
  <2>4. BytesQueued' \in 0 .. BufLen + 1
    BY <1>2, <1>3, <2>3
  <2>5. QED
    BY <2>1, <2>2, <2>3, <2>4 DEF TypeInv, TypeOK
<1>6. CASE Resumes
  <2>1. PICK who \in Waiters : NetPutsResumes(who)
    BY <1>6 DEF Resumes
  <2>2. /\ who \in waits /\ BufEmpty /\ PutByte(0) /\ waits' = waits \ {who}
        /\ UNCHANGED <<gTcpCon, state, unacked, BytesQueued, BytesSent, dumping, got, sole>>
    BY <2>1 DEF NetPutsResumes
  <2>3. Cardinality(waits') = Cardinality(waits) - 1 /\ waits' \subseteq Waiters
    BY <1>1, <2>2, WaitCount
  <2>4. Cardinality(waits') \in 0 .. MaxEchoes + 1
    BY <2>3, WaitCount
  <2>5. 0 \in BufIdx /\ text < MaxText
    BY <1>1, <1>2, <2>3, <2>4 DEF BufIdx
  <2>6. /\ PrintBuf' \in [BufIdx -> 0 .. MaxText]
        /\ text' = text + 1 /\ text' \in 0 .. MaxText
        /\ prLen' = prLen + 1 /\ mixed' \in BOOLEAN
    BY <2>2, <2>5, PutType DEF TypeInv
  <2>7. IF gTcpCon' = NoCon
          THEN prLen' + Cardinality(waits') <= BufLen + MaxEchoes + 2
          ELSE prLen' <= BufLen \/ (prLen' = BufLen + 1 /\ BytesSent' # prLen')
    BY <1>1, <1>2, <2>2, <2>3, <2>6 DEF TypeInv, BufEmpty
  <2>8. prLen' \in 0 .. BufLen + MaxEchoes + 2
    BY <1>2, <2>4, <2>6, <2>7
  <2>9. text' + Cardinality(waits') <= MaxText
    BY <1>1, <1>2, <2>3, <2>6
  <2>10. QED
    BY <2>2, <2>3, <2>6, <2>7, <2>8, <2>9 DEF TypeInv, TypeOK
<1>7. CASE ExitCmd
  <2>1. gTcpCon' = NoCon /\ UNCHANGED <<unacked, gNetPrint, dumping, waits, history>>
    BY <1>7 DEF ExitCmd
  <2>2. state' \in [Pcbs -> {"free", "open", "peerClosed", "closing"}]
    BY <1>7 DEF ExitCmd, TypeInv, TypeOK
  <2>3. prLen + Cardinality(waits) <= BufLen + MaxEchoes + 2
    BY <1>1, <1>2, <1>3 DEF TypeInv
  <2>4. QED
    BY <2>1, <2>2, <2>3 DEF TypeInv, TypeOK, gNetPrint, history
<1>8. QED
  BY <1>4, <1>5, <1>6, <1>7

\* lwIP's callbacks.
LEMMA CallbackType ==
    ASSUME TypeInv, NEW p \in Pcbs, Callback(p)
    PROVE  TypeInv'
<1> USE OutputAssumption
<1>1. waits \subseteq Waiters /\ Cardinality(waits) \in 0 .. MaxEchoes + 1
  BY WaitCount DEF TypeInv, TypeOK
<1>2. /\ text \in Nat /\ prLen \in Nat /\ BytesQueued \in Nat /\ BytesQueued <= BufLen + 1
      /\ BytesSent \in Nat
      /\ PrintBuf \in [BufIdx -> 0 .. MaxText] /\ unacked \in [Pcbs -> 0 .. SndBuf]
      /\ got \in Seq(0 .. MaxText) /\ gTcpCon \in Pcbs \cup {NoCon}
      /\ text + Cardinality(waits) <= MaxText
      /\ state \in [Pcbs -> {"free", "open", "peerClosed", "closing"}]
  BY DEF TypeInv, TypeOK
<1>3. gTcpCon # NoCon => prLen <= BufLen + 1
  BY <1>2 DEF TypeInv
<1>4. CASE TcpAccept(p)
  <2>1. /\ gTcpCon' = p /\ prLen' = 0 /\ BytesQueued' = 0 /\ BytesSent' = 0 /\ text' = 0
        /\ got' = <<>> /\ UNCHANGED <<dumping, waits>>
    BY <1>4 DEF TcpAccept, Emptied
  <2>2. /\ state' \in [Pcbs -> {"free", "open", "peerClosed", "closing"}]
        /\ unacked' \in [Pcbs -> 0 .. SndBuf] /\ PrintBuf' \in [BufIdx -> 0 .. MaxText]
    BY <1>2, <1>4 DEF TcpAccept
  <2>3. sole' \in BOOLEAN /\ mixed' \in BOOLEAN
    BY <1>4, Zenon DEF TcpAccept
  <2>4. text' + Cardinality(waits') <= MaxText
    BY <1>1, <1>2, <2>1
  <2>5. QED
    BY <2>1, <2>2, <2>3, <2>4 DEF TypeInv, TypeOK
<1>5. CASE TcpRecvEcho(p)
  <2> DEFINE depth == Cardinality(waits \ {Main}) + 1
  <2>1. NetPuts(depth) /\ depth \in Waiters /\ UNCHANGED <<gTcpCon, state, dumping>>
    <3>1. waits \ {Main} \subseteq Waiters
      BY <1>1
    <3>2. Cardinality(waits \ {Main}) \in 0 .. MaxEchoes + 1
      BY <3>1, WaitCount
    <3>3. depth <= MaxEchoes /\ NetPuts(depth) /\ UNCHANGED <<gTcpCon, state, dumping>>
      BY <1>5 DEF TcpRecvEcho
    <3>4. QED
      BY <3>2, <3>3 DEF Waiters, Main
  <2>2. dumping' \in BOOLEAN
    BY <2>1 DEF TypeInv, TypeOK
  <2> HIDE DEF depth
  <2>3. QED
    BY <2>1, <2>2, NetPutsType
<1>6. CASE TcpRecvClosed(p)
  <2>1. gTcpCon' = NoCon /\ UNCHANGED <<unacked, gNetPrint, dumping, waits, history>>
    BY <1>6 DEF TcpRecvClosed
  <2>2. state' \in [Pcbs -> {"free", "open", "peerClosed", "closing"}]
    BY <1>2, <1>6 DEF TcpRecvClosed
  <2>3. prLen + Cardinality(waits) <= BufLen + MaxEchoes + 2
    BY <1>1, <1>2, <1>3 DEF TypeInv
  <2>4. QED
    BY <2>1, <2>2, <2>3 DEF TypeInv, TypeOK, gNetPrint, history
<1>7. CASE \E n \in 1 .. SndBuf : TcpSent(p, n)
  <2>1. PICK n \in 1 .. SndBuf : TcpSent(p, n)
    BY <1>7
  <2> DEFINE una == [unacked EXCEPT ![p] = @ - n]
  <2>2. n \in 1 .. unacked[p] /\ unacked[p] \in 0 .. SndBuf
        /\ UNCHANGED <<gTcpCon, state, PrintBuf, dumping, waits, text, sole, mixed>>
    BY <1>2, <2>1 DEF TcpSent
  <2>3. una \in [Pcbs -> 0 .. SndBuf] /\ BytesSent + n \in Nat
    BY <1>2, <2>2
  <2>4. CASE BytesSent + n = prLen
    <3>1. prLen' = 0 /\ BytesQueued' = 0 /\ BytesSent' = 0 /\ unacked' = una /\ got' = got
      BY <2>1, <2>4 DEF TcpSent, Emptied
    <3>2. gTcpCon' = NoCon => prLen' + Cardinality(waits') <= BufLen + MaxEchoes + 2
      BY <1>1, <2>2, <3>1
    <3>3. QED
      BY <2>2, <2>3, <3>1, <3>2 DEF TypeInv, TypeOK
  <2>5. CASE BytesSent + n # prLen
    <3>1. /\ BytesSent' = BytesSent + n /\ prLen' = prLen
          /\ NetPrintFillPcb(p, PrintBuf, prLen, BytesQueued, BytesSent + n, una)
      BY <2>1, <2>5 DEF TcpSent
    <3>2. /\ BytesQueued' \in Nat
          /\ BytesQueued' = BytesQueued \/ (gTcpCon # NoCon /\ BytesQueued' <= prLen)
          /\ unacked' \in [Pcbs -> 0 .. SndBuf] /\ got' \in Seq(0 .. MaxText)
      <4> HIDE DEF una
      <4>1. QED
        BY <1>2, <2>3, <3>1, FillType
    <3>3. BytesQueued' \in 0 .. BufLen + 1
      BY <1>2, <1>3, <3>2
    <3>4. BytesSent' # prLen' /\ BytesSent' \in Nat
      BY <2>3, <2>5, <3>1
    <3>5. QED
      BY <2>2, <3>1, <3>2, <3>3, <3>4 DEF TypeInv, TypeOK
  <2>6. QED
    BY <2>4, <2>5
<1>8. CASE TcpPoll(p)
  <2>1. /\ NetPrintFillPcb(p, PrintBuf, prLen, BytesQueued, BytesSent, unacked)
        /\ UNCHANGED <<gTcpCon, state, PrintBuf, prLen, BytesSent, dumping, waits,
                       text, sole, mixed>>
    BY <1>8 DEF TcpPoll
  <2>2. /\ BytesQueued' \in Nat
        /\ BytesQueued' = BytesQueued \/ (gTcpCon # NoCon /\ BytesQueued' <= prLen)
        /\ unacked' \in [Pcbs -> 0 .. SndBuf] /\ got' \in Seq(0 .. MaxText)
    BY <1>2, <2>1, FillType
  <2>3. BytesQueued' \in 0 .. BufLen + 1
    BY <1>2, <1>3, <2>2
  <2>4. QED
    BY <2>1, <2>2, <2>3 DEF TypeInv, TypeOK
<1>9. CASE TcpError(p)
  <2>1. UNCHANGED <<gTcpCon, gNetPrint, dumping, waits, history>>
    BY <1>9 DEF TcpError
  <2>2. /\ state' \in [Pcbs -> {"free", "open", "peerClosed", "closing"}]
        /\ unacked' \in [Pcbs -> 0 .. SndBuf]
    BY <1>2, <1>9 DEF TcpError
  <2>3. QED
    BY <2>1, <2>2 DEF TypeInv, TypeOK, gNetPrint, history
<1>10. QED
  BY <1>4, <1>5, <1>6, <1>7, <1>8, <1>9 DEF Callback

LEMMA InitTypeInv == Init => TypeInv
<1> SUFFICES ASSUME Init PROVE TypeInv
  OBVIOUS
<1>1. dumping \in BOOLEAN /\ sole \in BOOLEAN /\ mixed \in BOOLEAN
  BY Zenon DEF Init
<1>2. Cardinality(waits) = 0
  BY FS_EmptySet DEF Init
<1>3. TypeOK
  BY <1>1, OutputAssumption DEF Init, TypeOK
<1>4. QED
  BY <1>2, <1>3, OutputAssumption DEF Init, TypeInv

LEMMA NextTypeInv ==
    ASSUME TypeInv, [Next]_vars
    PROVE  TypeInv'
<1>1. CASE DumpByte
  <2>1. NetPuts(Main) /\ UNCHANGED <<gTcpCon, state>>
    BY <1>1 DEF DumpByte
  <2>2. dumping' \in BOOLEAN
    BY <1>1, Zenon DEF DumpByte
  <2>3. Main \in Waiters
    BY OutputAssumption DEF Main, Waiters
  <2>4. QED
    BY <2>1, <2>2, <2>3, NetPutsType
<1>2. CASE UNCHANGED vars
  BY <1>2 DEF vars, gNetPrint, history, TypeInv, TypeOK
<1>3. CASE \E p \in Pcbs : Callback(p)
  BY <1>3, CallbackType
<1>4. QED
  BY <1>1, <1>2, <1>3, MainType DEF Next, Dump

LEMMA TypeInvHolds == Spec => []TypeInv
<1>1. TypeInv /\ [Next]_vars => TypeInv'
  BY NextTypeInv
<1>2. QED
  BY InitTypeInv, <1>1, PTL DEF Spec

\* The counters of gNetPrint stay within a few bytes of the buffer, also when
\* connections overlap and acknowledge for each other, and lwIP is never given
\* more than it has room for (main.c:600-735).
THEOREM TypeCorrect == Spec => []TypeOK
<1>1. TypeInv => TypeOK
  BY DEF TypeInv
<1>2. QED
  BY <1>1, TypeInvHolds, PTL

-----------------------------------------------------------------------------
\* The session.

\* No other connection exists during a session.
Alone == sole /\ gTcpCon # NoCon => \A q \in Pcbs \ {gTcpCon} : state[q] = "free"

\* lwIP's callbacks are about the session's connection, and a buffer that was
\* sent in full is empty.
SessionInv ==
    /\ Alone
    /\ Session /\ prLen = BytesSent => prLen = 0
    /\ Conserved

\* The bytes of the session that the peer was sent, and those in the buffer:
\* lwIP has taken none or all of what the buffer holds.
OrderInv ==
    Session /\ ~mixed =>
        /\ BytesQueued = 0 \/ BytesQueued = prLen
        /\ Len(got) = text - prLen + BytesQueued
        /\ \A i \in 1 .. Len(got) : got[i] = i
        /\ \A i \in 0 .. prLen - 1 : PrintBuf[i] = text - prLen + i + 1

\* A second connection ends the session's claim to be alone.
LEMMA NextAlone ==
    ASSUME TypeInv, Alone, [Next]_vars
    PROVE  Alone'
<1>1. CASE \E p \in Pcbs : TcpAccept(p)
  <2>1. PICK p \in Pcbs : TcpAccept(p)
    BY <1>1
  <2>2. sole' => \A q \in Pcbs \ {p} : state'[q] = "free"
    BY <2>1 DEF TcpAccept, TypeInv, TypeOK
  <2>3. QED
    BY <2>1, <2>2 DEF Alone, TcpAccept
<1>2. CASE ExitCmd \/ \E p \in Pcbs : TcpRecvClosed(p)
  BY <1>2 DEF ExitCmd, TcpRecvClosed, Alone
<1>3. CASE \E p \in Pcbs : TcpError(p)
  BY <1>3 DEF TcpError, Alone, history, TypeInv, TypeOK
<1>4. CASE UNCHANGED <<gTcpCon, state, sole>>
  BY <1>4 DEF Alone
<1>5. QED
  <2>1. CASE \E n \in 1 .. BufLen : NetPrintf(n)
    BY <2>1, <1>4 DEF NetPrintf
  <2>2. CASE Dump
    BY <2>2, <1>4 DEF Dump, DumpByte, DumpEnd, NetPuts, history
  <2>3. CASE Resumes
    BY <2>3, <1>4 DEF Resumes, NetPutsResumes
  <2>4. CASE \E p \in Pcbs : TcpRecvEcho(p) \/ (\E n \in 1 .. SndBuf : TcpSent(p, n)) \/ TcpPoll(p)
    BY <2>4, <1>4 DEF TcpRecvEcho, NetPuts, TcpSent, TcpPoll, history
  <2>5. CASE UNCHANGED vars
    BY <2>5, <1>4 DEF vars, history
  <2>6. QED
    BY <1>1, <1>2, <1>3, <2>1, <2>2, <2>3, <2>4, <2>5 DEF Next, Callback

\* The ways a step can go on with a session: one byte is put behind those in
\* the buffer; the buffer is given to lwIP; or it is not touched.
Put ==
    /\ HasRoom /\ PutByte(prLen)
    /\ UNCHANGED <<unacked, BytesQueued, BytesSent, got>>

Flush ==
    /\ NetPrintFillPcb(gTcpCon, PrintBuf, prLen, BytesQueued, BytesSent, unacked)
    /\ UNCHANGED <<PrintBuf, prLen, BytesSent, text, mixed>>

Still == UNCHANGED <<unacked, PrintBuf, prLen, BytesQueued, BytesSent, text, got, mixed>>

SessionStep ==
    \/ \E n \in 1 .. BufLen : NetPrintf(n)
    \/ \E n \in 1 .. SndBuf : TcpSent(gTcpCon, n)
    \/ Put \/ Flush \/ Still

\* A session goes on with one of those, or has just begun.
LEMMA SessionSteps ==
    ASSUME TypeInv, SessionInv, [Next]_vars, Session'
    PROVE  \/ \E p \in Pcbs : TcpAccept(p)
           \/ Session /\ gTcpCon' = gTcpCon /\ SessionStep
<1> DEFINE Same == UNCHANGED <<gTcpCon, state, sole>>
<1>1. gTcpCon' # NoCon /\ sole' /\ state'[gTcpCon'] = "open"
  BY DEF Session
<1>2. Same => Session /\ gTcpCon' = gTcpCon
  BY DEF Session
<1>3. ASSUME Session, NEW p \in Pcbs, state[p] # "free" PROVE p = gTcpCon
  BY <1>3 DEF Session, SessionInv, Alone
<1>4. CASE \E n \in 1 .. BufLen : NetPrintf(n)
  BY <1>2, <1>4 DEF NetPrintf, SessionStep
<1>5. ASSUME NEW who, NetPuts(who), UNCHANGED <<gTcpCon, state>>
      PROVE  Session /\ gTcpCon' = gTcpCon /\ SessionStep
  <2>1. Same
    BY <1>5 DEF NetPuts, history
  <2>2. Put \/ Flush
    BY <1>1, <1>5 DEF NetPuts, Put, Flush
  <2>3. QED
    BY <1>2, <2>1, <2>2 DEF SessionStep
<1>6. CASE Dump
  <2>1. CASE DumpByte
    BY <1>5, <2>1 DEF DumpByte
  <2>2. CASE DumpEnd
    BY <1>2, <2>2 DEF DumpEnd, Flush, SessionStep
  <2>3. QED
    BY <1>6, <2>1, <2>2 DEF Dump
<1>7. CASE Resumes
  <2>1. PICK who \in Waiters : NetPutsResumes(who)
    BY <1>7 DEF Resumes
  <2>2. Same /\ BufEmpty /\ PutByte(0) /\ UNCHANGED <<unacked, BytesQueued, BytesSent, got>>
    BY <2>1 DEF NetPutsResumes
  <2>3. prLen = 0
    BY <1>1, <1>2, <2>2 DEF BufEmpty, SessionInv
  <2>4. Put
    BY <2>2, <2>3, OutputAssumption DEF Put, HasRoom
  <2>5. QED
    BY <1>2, <2>2, <2>4 DEF SessionStep
<1>8. CASE ExitCmd
  BY <1>1, <1>8 DEF ExitCmd
<1>9. ASSUME NEW p \in Pcbs, Callback(p), ~TcpAccept(p)
      PROVE  Session /\ gTcpCon' = gTcpCon /\ SessionStep
  <2>1. CASE TcpRecvEcho(p)
    BY <1>5, <2>1 DEF TcpRecvEcho
  <2>2. CASE TcpRecvClosed(p)
    BY <1>1, <2>2 DEF TcpRecvClosed
  <2>3. CASE \E n \in 1 .. SndBuf : TcpSent(p, n)
    <3>1. Same /\ state[p] # "free"
      BY <2>3 DEF TcpSent
    <3>2. p = gTcpCon /\ Session
      BY <1>2, <1>3, <3>1
    <3>3. QED
      BY <2>3, <3>1, <3>2 DEF SessionStep
  <2>4. CASE TcpPoll(p)
    <3>1. Same /\ state[p] # "free"
      BY <2>4 DEF TcpPoll
    <3>2. p = gTcpCon /\ Session
      BY <1>2, <1>3, <3>1
    <3>3. Flush
      BY <2>4, <3>2 DEF TcpPoll, Flush
    <3>4. QED
      BY <3>1, <3>2, <3>3 DEF SessionStep
  <2>5. CASE TcpError(p)
    <3>1. /\ state[p] # "free" /\ gTcpCon' = gTcpCon /\ sole' = sole
          /\ state' = [state EXCEPT ![p] = "free"]
      BY <2>5 DEF TcpError, history
    <3>2. Session /\ p # gTcpCon
      BY <1>1, <3>1 DEF Session, TypeInv, TypeOK
    <3>3. QED
      BY <1>3, <3>1, <3>2
  <2>6. QED
    BY <1>9, <2>1, <2>2, <2>3, <2>4, <2>5 DEF Callback
<1>10. CASE UNCHANGED vars
  BY <1>2, <1>10 DEF vars, gNetPrint, history, Still, SessionStep
<1>11. QED
  BY <1>4, <1>6, <1>7, <1>8, <1>9, <1>10 DEF Next

\* Giving bytes to lwIP keeps the account.
LEMMA FillAccount ==
    ASSUME NEW p \in Pcbs, NEW buf, NEW len \in Nat, NEW queued \in Nat, NEW sent \in Nat,
           NEW una \in [Pcbs -> 0 .. SndBuf], queued <= len, sent + una[p] = queued,
           NetPrintFillPcb(p, buf, len, queued, sent, una)
    PROVE  sent + unacked'[p] = BytesQueued' /\ BytesQueued' <= len
<1>1. una[p] \in Nat
  BY OutputAssumption
<1>2. CASE BytesQueued' = queued /\ unacked' = una /\ got' = got
  BY <1>2
<1>3. CASE \E n \in Nat : Queues(p, buf, len, queued, sent, una, n)
  <2>1. PICK n \in Nat : Queues(p, buf, len, queued, sent, una, n)
    BY <1>3
  <2>2. unacked'[p] = una[p] + n /\ BytesQueued' = queued + n /\ n <= len - queued
    BY <2>1 DEF Queues
  <2>3. QED
    BY <1>1, <2>2
<1>4. QED
  BY <1>2, <1>3, FillEffect

\* The numbers of a session.
LEMMA SessionNumbers ==
    ASSUME TypeInv, SessionInv, Session
    PROVE  /\ gTcpCon \in Pcbs /\ prLen \in Nat /\ BytesQueued \in Nat /\ BytesSent \in Nat
           /\ unacked \in [Pcbs -> 0 .. SndBuf] /\ unacked[gTcpCon] \in 0 .. SndBuf
           /\ PrintBuf \in [BufIdx -> 0 .. MaxText] /\ got \in Seq(0 .. MaxText)
           /\ text \in Nat
           /\ BytesSent + unacked[gTcpCon] = BytesQueued
           /\ BytesQueued <= prLen /\ prLen <= BufLen
           /\ prLen = BytesSent => prLen = 0
           /\ BufLen \in Nat \ {0} /\ SndBuf \in Nat /\ BufLen <= SndBuf
<1>1. gTcpCon \in Pcbs
  BY DEF Session, TypeInv, TypeOK
<1>2. /\ prLen \in Nat /\ BytesQueued \in Nat /\ BytesSent \in Nat /\ text \in Nat
      /\ unacked \in [Pcbs -> 0 .. SndBuf]
      /\ PrintBuf \in [BufIdx -> 0 .. MaxText] /\ got \in Seq(0 .. MaxText)
  BY OutputAssumption DEF TypeInv, TypeOK
<1>3. unacked[gTcpCon] \in 0 .. SndBuf
  BY <1>1, <1>2
<1>4. QED
  BY <1>1, <1>2, <1>3, OutputAssumption DEF SessionInv, Conserved

\* The account and the emptiness of a buffer that was sent.
LEMMA NextConserved ==
    ASSUME TypeInv, SessionInv, [Next]_vars, Session'
    PROVE  /\ BytesSent' + unacked'[gTcpCon'] = BytesQueued'
           /\ BytesQueued' <= prLen' /\ prLen' <= BufLen
           /\ prLen' = BytesSent' => prLen' = 0
<1>1. CASE \E p \in Pcbs : TcpAccept(p)
  <2>1. PICK p \in Pcbs : TcpAccept(p)
    BY <1>1
  <2>2. /\ gTcpCon' = p /\ prLen' = 0 /\ BytesQueued' = 0 /\ BytesSent' = 0
        /\ unacked' = [unacked EXCEPT ![p] = 0]
    BY <2>1 DEF TcpAccept, Emptied
  <2>3. unacked'[p] = 0
    BY <2>2 DEF TypeInv, TypeOK
  <2>4. QED
    BY <2>2, <2>3, OutputAssumption
<1>2. CASE Session /\ gTcpCon' = gTcpCon /\ SessionStep
  <2> USE <1>2
  <2> DEFINE g == gTcpCon
  <2>1. /\ g \in Pcbs /\ prLen \in Nat /\ BytesQueued \in Nat /\ BytesSent \in Nat
        /\ unacked \in [Pcbs -> 0 .. SndBuf] /\ unacked[g] \in 0 .. SndBuf
        /\ BytesSent + unacked[g] = BytesQueued
        /\ BytesQueued <= prLen /\ prLen <= BufLen
        /\ prLen = BytesSent => prLen = 0
        /\ BufLen \in Nat \ {0} /\ SndBuf \in Nat
    BY SessionNumbers
  <2>2. CASE \E n \in 1 .. BufLen : NetPrintf(n)
    <3>1. PICK n \in 1 .. BufLen : NetPrintf(n)
      BY <2>2
    <3>2. n \in Nat /\ n > 0 /\ n <= BufLen
      BY <2>1
    <3>3. /\ prLen = BytesSent /\ prLen' = n /\ BytesSent' = BytesSent
          /\ \E buf : NetPrintFillPcb(g, buf, n, BytesQueued, BytesSent, unacked)
      BY <3>1 DEF NetPrintf, BufEmpty, Session
    <3>4. BytesSent = 0 /\ BytesQueued = 0
      BY <2>1, <3>3
    <3>5. BytesSent + unacked'[g] = BytesQueued' /\ BytesQueued' <= n
      BY <2>1, <3>2, <3>3, <3>4, FillAccount
    <3>6. QED
      BY <3>2, <3>3, <3>4, <3>5
  <2>3. CASE \E n \in 1 .. SndBuf : TcpSent(g, n)
    <3>1. PICK n \in 1 .. SndBuf : TcpSent(g, n)
      BY <2>3
    <3> DEFINE una == [unacked EXCEPT ![g] = @ - n]
    <3>2. n \in 1 .. unacked[g]
      BY <3>1 DEF TcpSent
    <3>3. una \in [Pcbs -> 0 .. SndBuf] /\ una[g] = unacked[g] - n
          /\ BytesSent + n \in Nat /\ (BytesSent + n) + una[g] = BytesQueued
      BY <2>1, <3>2
    <3>4. CASE BytesSent + n = prLen
      <4>1. prLen' = 0 /\ BytesQueued' = 0 /\ BytesSent' = 0 /\ unacked' = una
        BY <3>1, <3>4 DEF TcpSent, Emptied
      <4>2. una[g] = 0
        BY <2>1, <3>2, <3>3, <3>4
      <4>3. QED
        BY <2>1, <4>1, <4>2
    <3>5. CASE BytesSent + n # prLen
      <4>1. /\ BytesSent' = BytesSent + n /\ prLen' = prLen
            /\ NetPrintFillPcb(g, PrintBuf, prLen, BytesQueued, BytesSent + n, una)
        BY <3>1, <3>5 DEF TcpSent
      <4>2. (BytesSent + n) + unacked'[g] = BytesQueued' /\ BytesQueued' <= prLen
        <5> DEFINE sent == BytesSent + n
        <5> HIDE DEF una, sent
        <5>1. sent \in Nat /\ sent + una[g] = BytesQueued
          BY <3>3 DEF sent
        <5>2. NetPrintFillPcb(g, PrintBuf, prLen, BytesQueued, sent, una)
          BY <4>1 DEF sent
        <5>3. sent + unacked'[g] = BytesQueued' /\ BytesQueued' <= prLen
          BY <2>1, <3>3, <5>1, <5>2, FillAccount
        <5>4. QED
          BY <5>3 DEF sent
      <4>3. QED
        BY <2>1, <3>5, <4>1, <4>2
    <3>6. QED
      BY <3>4, <3>5
  <2>4. CASE Put
    BY <2>1, <2>4 DEF Put, PutByte, HasRoom
  <2>5. CASE Flush
    <3>1. /\ NetPrintFillPcb(g, PrintBuf, prLen, BytesQueued, BytesSent, unacked)
          /\ UNCHANGED <<prLen, BytesSent>>
      BY <2>5 DEF Flush
    <3>2. BytesSent + unacked'[g] = BytesQueued' /\ BytesQueued' <= prLen
      BY <2>1, <3>1, FillAccount
    <3>3. QED
      BY <2>1, <3>1, <3>2
  <2>6. CASE Still
    BY <2>1, <2>6 DEF Still
  <2>7. QED
    BY <2>2, <2>3, <2>4, <2>5, <2>6 DEF SessionStep
<1>3. QED
  BY <1>1, <1>2, SessionSteps

LEMMA SessionInvHolds == Spec => []SessionInv
<1>1. Init => SessionInv
  BY DEF Init, SessionInv, Alone, Session, Conserved
<1>2. TypeInv /\ SessionInv /\ [Next]_vars => SessionInv'
  <2> SUFFICES ASSUME TypeInv, SessionInv, [Next]_vars PROVE SessionInv'
    OBVIOUS
  <2>1. Alone'
    BY NextAlone DEF SessionInv, Alone
  <2>2. Session' => /\ BytesSent' + unacked'[gTcpCon'] = BytesQueued'
                    /\ BytesQueued' <= prLen' /\ prLen' <= BufLen
                    /\ prLen' = BytesSent' => prLen' = 0
    BY NextConserved
  <2>3. QED
    BY <2>1, <2>2 DEF SessionInv, Alone, Conserved
<1>3. QED
  BY <1>1, <1>2, TypeInvHolds, PTL DEF Spec

\* What was sent and what is in flight is what was queued, and nothing is
\* queued beyond what was printed or put beyond the buffer, however printing,
\* waiting, acknowledgements, failed tcp_writes, closes and resets interleave
\* (main.c:635-696, 738-767).
THEOREM ConservedHolds == Spec => []Conserved
<1>1. SessionInv => Conserved
  BY DEF SessionInv
<1>2. QED
  BY <1>1, SessionInvHolds, PTL

-----------------------------------------------------------------------------
\* The order of the bytes.

\* When lwIP holds none of the buffer it has room for all of it: the bytes it
\* is given are those that come next, where t is the number of the last.
LEMMA FillOrder ==
    ASSUME NEW buf \in [BufIdx -> 0 .. MaxText], NEW len \in Nat, NEW queued \in Nat,
           NEW sent \in Nat, NEW una \in [Pcbs -> 0 .. SndBuf], NEW t \in Nat,
           gTcpCon \in Pcbs, sole, got \in Seq(0 .. MaxText),
           len <= BufLen, queued = 0 \/ queued = len, sent + una[gTcpCon] = queued,
           Len(got) = t - len + queued, \A i \in 1 .. Len(got) : got[i] = i,
           \A i \in 0 .. len - 1 : buf[i] = t - len + i + 1,
           NetPrintFillPcb(gTcpCon, buf, len, queued, sent, una)
    PROVE  /\ BytesQueued' = 0 \/ BytesQueued' = len
           /\ Len(got') = t - len + BytesQueued'
           /\ \A i \in 1 .. Len(got') : got'[i] = i
<1> DEFINE g == gTcpCon
<1>1. CASE BytesQueued' = queued /\ unacked' = una /\ got' = got
  BY <1>1
<1>2. CASE \E n \in Nat : Queues(g, buf, len, queued, sent, una, n)
  <2>1. PICK n \in Nat : Queues(g, buf, len, queued, sent, una, n)
    BY <1>2
  <2>2. una[g] \in Nat /\ BufLen \in Nat /\ SndBuf \in Nat /\ BufLen <= SndBuf
    BY OutputAssumption
  <2>3. queued = 0 /\ sent = 0 /\ una[g] = 0
    BY <2>1, <2>2 DEF Queues
  <2>4. n = len
    BY <2>1, <2>2, <2>3 DEF Queues
  <2>5. BytesQueued' = len /\ got' = got \o Bytes(buf, 0, len)
    BY <2>1, <2>3, <2>4 DEF Queues
  <2> DEFINE b == Bytes(buf, 0, len)
  <2>6. b \in Seq(0 .. MaxText) /\ Len(b) = len
    BY BytesType
  <2>7. \A i \in 1 .. len : b[i] = Len(got) + i
    <3> SUFFICES ASSUME NEW i \in 1 .. len PROVE b[i] = Len(got) + i
      OBVIOUS
    <3>1. 0 + i - 1 = i - 1 /\ i - 1 \in 0 .. len - 1 /\ i - 1 \in BufIdx
      BY <2>2 DEF BufIdx
    <3>2. b[i] = buf[i - 1]
      BY <3>1 DEF Bytes
    <3>3. buf[i - 1] = t - len + (i - 1) + 1
      BY <3>1
    <3>4. QED
      BY <2>3, <3>2, <3>3
  <2> HIDE DEF b
  <2>8. Len(got) \in Nat
    OBVIOUS
  <2>9. /\ Len(got \o b) = Len(got) + len
        /\ \A i \in 1 .. Len(got) + len :
             (got \o b)[i] = IF i <= Len(got) THEN got[i] ELSE b[i - Len(got)]
    BY <2>6, ConcatProperties
  <2>10. \A i \in 1 .. Len(got) + len : (got \o b)[i] = i
    <3> SUFFICES ASSUME NEW i \in 1 .. Len(got) + len PROVE (got \o b)[i] = i
      OBVIOUS
    <3>1. CASE i <= Len(got)
      BY <2>8, <2>9, <3>1
    <3>2. CASE ~(i <= Len(got))
      <4>1. i - Len(got) \in 1 .. len
        BY <2>8, <3>2
      <4>2. (got \o b)[i] = b[i - Len(got)]
        BY <2>9, <3>2
      <4>3. QED
        BY <2>7, <2>8, <4>1, <4>2
    <3>3. QED
      BY <3>1, <3>2
  <2>11. QED
    BY <2>3, <2>5, <2>8, <2>9, <2>10 DEF b
<1>3. QED
  BY <1>1, <1>2, FillEffect

LEMMA NextOrder ==
    ASSUME TypeInv, SessionInv, OrderInv, [Next]_vars
    PROVE  OrderInv'
<1> SUFFICES ASSUME Session', ~mixed'
             PROVE  /\ BytesQueued' = 0 \/ BytesQueued' = prLen'
                    /\ Len(got') = text' - prLen' + BytesQueued'
                    /\ \A i \in 1 .. Len(got') : got'[i] = i
                    /\ \A i \in 0 .. prLen' - 1 : PrintBuf'[i] = text' - prLen' + i + 1
  BY DEF OrderInv
<1>1. CASE \E p \in Pcbs : TcpAccept(p)
  <2>1. prLen' = 0 /\ BytesQueued' = 0 /\ text' = 0 /\ got' = <<>>
    BY <1>1 DEF TcpAccept, Emptied
  <2>2. QED
    BY <2>1
<1>2. CASE Session /\ gTcpCon' = gTcpCon /\ SessionStep
  <2> USE <1>2
  <2> DEFINE g == gTcpCon
  <2>1. /\ g \in Pcbs /\ prLen \in Nat /\ BytesQueued \in Nat /\ BytesSent \in Nat
        /\ unacked \in [Pcbs -> 0 .. SndBuf] /\ unacked[g] \in 0 .. SndBuf
        /\ PrintBuf \in [BufIdx -> 0 .. MaxText] /\ got \in Seq(0 .. MaxText)
        /\ text \in Nat /\ Len(got) \in Nat
        /\ BytesSent + unacked[g] = BytesQueued
        /\ BytesQueued <= prLen /\ prLen <= BufLen
        /\ prLen = BytesSent => prLen = 0
        /\ BufLen \in Nat \ {0} /\ SndBuf \in Nat
    BY SessionNumbers
  <2>2. sole /\ g # NoCon
    BY DEF Session
  <2>3. ~mixed
    BY DEF SessionStep, NetPrintf, TcpSent, Put, PutByte, Flush, Still
  <2>4. /\ BytesQueued = 0 \/ BytesQueued = prLen
        /\ Len(got) = text - prLen + BytesQueued
        /\ \A i \in 1 .. Len(got) : got[i] = i
        /\ \A i \in 0 .. prLen - 1 : PrintBuf[i] = text - prLen + i + 1
    BY <2>3 DEF OrderInv
  <2>5. CASE \E n \in 1 .. BufLen : NetPrintf(n)
    <3>1. PICK n \in 1 .. BufLen : NetPrintf(n)
      BY <2>5
    <3> DEFINE buf == [i \in BufIdx |-> IF i < n THEN Num(i) ELSE PrintBuf[i]]
               t == text + n
    <3>2. /\ prLen = BytesSent /\ prLen' = n /\ PrintBuf' = buf /\ text' = t
          /\ NetPrintFillPcb(g, buf, n, BytesQueued, BytesSent, unacked)
          /\ text + n <= MaxText
      BY <2>2, <3>1 DEF NetPrintf, BufEmpty
    <3>3. BytesQueued = 0 /\ BytesSent = 0 /\ prLen = 0 /\ Len(got) = text
      BY <2>1, <2>4, <3>2
    <3>4. n \in Nat /\ n <= BufLen /\ t \in Nat /\ t - n = text
      BY <2>1
    <3>5. \A i \in 0 .. n - 1 : buf[i] = t - n + i + 1
      BY <2>1, <2>2, <3>4 DEF Num, BufIdx
    <3>6. buf \in [BufIdx -> 0 .. MaxText]
      <4>1. \A i \in BufIdx : i < n => Num(i) \in 0 .. MaxText
        BY <2>1, <3>2, OutputAssumption DEF Num, BufIdx
      <4>2. QED
        BY <2>1, <4>1
    <3> HIDE DEF buf, t
    <3>7. BytesSent + unacked[g] = BytesQueued /\ Len(got) = t - n + BytesQueued
      BY <2>1, <3>3, <3>4
    <3>8. /\ BytesQueued' = 0 \/ BytesQueued' = n
          /\ Len(got') = t - n + BytesQueued'
          /\ \A i \in 1 .. Len(got') : got'[i] = i
      BY <2>1, <2>2, <2>4, <3>2, <3>3, <3>4, <3>5, <3>6, <3>7, FillOrder
    <3>9. QED
      BY <3>2, <3>5, <3>8
  <2>6. CASE \E n \in 1 .. SndBuf : TcpSent(g, n)
    <3>1. PICK n \in 1 .. SndBuf : TcpSent(g, n)
      BY <2>6
    <3> DEFINE una == [unacked EXCEPT ![g] = @ - n]
               sent == BytesSent + n
    <3>2. n \in 1 .. unacked[g] /\ UNCHANGED <<PrintBuf, text>>
      BY <3>1 DEF TcpSent
    <3>3. /\ una \in [Pcbs -> 0 .. SndBuf] /\ una[g] = unacked[g] - n
          /\ sent \in Nat /\ sent + una[g] = BytesQueued
      BY <2>1, <3>2
    <3>4. CASE BytesSent + n = prLen
      <4>1. prLen' = 0 /\ BytesQueued' = 0 /\ got' = got
        BY <3>1, <3>4 DEF TcpSent, Emptied
      <4>2. BytesQueued = prLen
        BY <2>1, <3>2, <3>4
      <4>3. QED
        BY <2>1, <2>4, <3>2, <4>1, <4>2
    <3>5. CASE BytesSent + n # prLen
      <4>1. /\ prLen' = prLen
            /\ NetPrintFillPcb(g, PrintBuf, prLen, BytesQueued, sent, una)
        BY <3>1, <3>5 DEF TcpSent
      <4>2. /\ BytesQueued' = 0 \/ BytesQueued' = prLen
            /\ Len(got') = text - prLen + BytesQueued'
            /\ \A i \in 1 .. Len(got') : got'[i] = i
        <5> HIDE DEF una, sent
        <5>1. QED
          BY <2>1, <2>2, <2>4, <3>3, <4>1, FillOrder
      <4>3. QED
        BY <2>4, <3>2, <4>1, <4>2
    <3>6. QED
      BY <3>4, <3>5
  <2>7. CASE Put
    <3>1. /\ prLen < BufLen /\ PrintBuf' = [PrintBuf EXCEPT ![prLen] = text + 1]
          /\ prLen' = prLen + 1 /\ text' = text + 1
          /\ BytesQueued' = BytesQueued /\ got' = got
      BY <2>1, <2>2, <2>7 DEF Put, PutByte, HasRoom, Num
    <3>2. BytesQueued = 0
      <4>1. ~(BytesSent < BytesQueued)
        BY <2>2, <2>7, Zenon DEF Put, PutByte
      <4>2. QED
        BY <2>1, <2>4, <4>1
    <3>3. prLen \in BufIdx
      BY <2>1, <3>1 DEF BufIdx
    <3>4. \A i \in 0 .. prLen : PrintBuf'[i] = text - prLen + i + 1
      <4>1. PrintBuf'[prLen] = text + 1
        BY <2>1, <3>1, <3>3
      <4>2. \A i \in BufIdx : i # prLen => PrintBuf'[i] = PrintBuf[i]
        BY <2>1, <3>1
      <4>3. \A i \in 0 .. prLen : i \in BufIdx
        BY <2>1, <3>1 DEF BufIdx
      <4>4. \A i \in 0 .. prLen : i # prLen => i \in 0 .. prLen - 1
        BY <2>1
      <4>5. \A i \in 0 .. prLen : i # prLen => PrintBuf'[i] = text - prLen + i + 1
        BY <2>4, <4>2, <4>3, <4>4
      <4>6. text + 1 = text - prLen + prLen + 1
        BY <2>1
      <4>7. QED
        BY <4>1, <4>5, <4>6
    <3>5. QED
      BY <2>1, <2>4, <3>1, <3>2, <3>4
  <2>8. CASE Flush
    <3>1. /\ NetPrintFillPcb(g, PrintBuf, prLen, BytesQueued, BytesSent, unacked)
          /\ UNCHANGED <<PrintBuf, prLen, text>>
      BY <2>8 DEF Flush
    <3>2. /\ BytesQueued' = 0 \/ BytesQueued' = prLen
          /\ Len(got') = text - prLen + BytesQueued'
          /\ \A i \in 1 .. Len(got') : got'[i] = i
      BY <2>1, <2>2, <2>4, <3>1, FillOrder
    <3>3. QED
      BY <2>4, <3>1, <3>2
  <2>9. CASE Still
    BY <2>4, <2>9 DEF Still
  <2>10. QED
    BY <2>5, <2>6, <2>7, <2>8, <2>9 DEF SessionStep
<1>3. QED
  BY <1>1, <1>2, SessionSteps

\* A sequence that counts up is a prefix of a longer one that does.
LEMMA CountingPrefix ==
    ASSUME NEW S, NEW q \in Seq(S), NEW t \in Nat, Len(q) <= t,
           \A i \in 1 .. Len(q) : q[i] = i
    PROVE  IsPrefix(q, [i \in 1 .. t |-> i])
<1> DEFINE c == [i \in 1 .. t |-> i]
           l == Len(q)
<1>1. l \in Nat /\ Len(c) = t
  OBVIOUS
<1>2. /\ \A i \in 1 .. l : q[i] \in Nat /\ c[i] \in Nat
      /\ \A i \in 1 .. l : q[i] = c[i]
  BY <1>1
<1> HIDE DEF c
<1>3. /\ SubSeq(q, 1, l) \in Seq(Nat) /\ SubSeq(c, 1, l) \in Seq(Nat)
      /\ Len(SubSeq(q, 1, l)) = l /\ Len(SubSeq(c, 1, l)) = l
      /\ \A i \in 1 .. l : SubSeq(q, 1, l)[i] = q[i] /\ SubSeq(c, 1, l)[i] = c[i]
  BY <1>1, <1>2, SubSeqProperties
<1>4. SubSeq(q, 1, l) = SubSeq(c, 1, l)
  BY <1>2, <1>3, SeqEqual
<1>5. QED
  BY <1>1, <1>4 DEF IsPrefix, c

\* The peer gets the bytes that were printed, each once and in order, unless
\* NetPuts appended to a buffer in flight (main.c:668-683, 738-767).
THEOREM InOrderHolds == Spec => []InOrder
<1>1. Init => OrderInv
  BY DEF Init, OrderInv, Session
<1>2. TypeInv /\ SessionInv /\ OrderInv /\ [Next]_vars => OrderInv'
  BY NextOrder
<1>3. TypeInv /\ SessionInv /\ OrderInv => InOrder
  <2> SUFFICES ASSUME TypeInv, SessionInv, OrderInv, Session, ~mixed
               PROVE  IsPrefix(got, [i \in 1 .. text |-> i])
    BY DEF InOrder
  <2>1. got \in Seq(0 .. MaxText) /\ text \in Nat /\ BytesQueued <= prLen
        /\ BytesQueued \in Nat /\ prLen \in Nat
    BY SessionNumbers
  <2>2. Len(got) <= text /\ \A i \in 1 .. Len(got) : got[i] = i
    BY <2>1 DEF OrderInv
  <2>3. QED
    BY <2>1, <2>2, CountingPrefix
<1>4. QED
  BY <1>1, <1>2, <1>3, TypeInvHolds, SessionInvHolds, PTL DEF Spec

=============================================================================
