--------------------------- MODULE EthDriverProofs ---------------------------
(***************************************************************************)
(* Proofs that pano_netif_poll delivers the frames of the receive FIFO      *)
(* whole and one at a time, in a build that reads the high byte of the      *)
(* length first, and that pano_netif_output puts into the transmit FIFO     *)
(* what lwIP sends; for frames, pbufs and bytes of every size.              *)
(***************************************************************************)
EXTENDS EthDriver, SequenceTheorems, WellFoundedInduction, TLAPS

(* Integer division, and induction for a set.                             *)

\* Division with remainder.
LEMMA DivMod ==
    ASSUME NEW a \in Int, NEW d \in Nat \ {0}
    PROVE  /\ a \div d \in Int
           /\ a % d \in 0 .. d - 1
           /\ a = d * (a \div d) + (a % d)
  BY Z3

\* Induction over the natural numbers, for a set instead of a predicate: the
\* least number outside the set would have its predecessor inside.
LEMMA SetInduction ==
    ASSUME NEW S, 0 \in S, \A n \in Nat : n \in S => n + 1 \in S
    PROVE  Nat \subseteq S
<1> DEFINE T == Nat \ S
           R == OpToRel(<, Nat)
<1>1. SUFFICES ASSUME T # {} PROVE FALSE
  OBVIOUS
<1>2. IsWellFoundedOn(R, Nat)
  BY NatLessThanWellFounded
<1>3. T \subseteq Nat
  OBVIOUS
<1> HIDE DEF T, R
<1>4. PICK x \in T : \A y \in T : ~(<<y, x>> \in R)
  BY <1>1, <1>2, <1>3, WFMin
<1> USE DEF T, R
<1>5. x \in Nat /\ x # 0
  OBVIOUS
<1>6. x - 1 \in Nat /\ (x - 1) + 1 = x
  BY <1>5
<1>7. x - 1 \notin S
  BY <1>6, <1>4
<1>8. <<x - 1, x>> \in R
  BY <1>6, <1>5 DEF OpToRel
<1>9. QED
  BY <1>4, <1>6, <1>7, <1>8

-----------------------------------------------------------------------------

\* s is what is left of frame f, as the MAC hands it out, after k bytes.
Rest(s, f, k) ==
    /\ Len(s) = Len(f) + 2 - k
    /\ \A j \in 1 .. Len(s) : s[j] = Encode(f)[j + k]

\* The receive FIFO holds whole frames, except for the first if it was cut.
RxInv ==
    /\ rx \in Seq(Seq(Nat))
    /\ \A k \in 1 .. Len(rx) : k > 1 \/ ~cut => \E f \in RxFrames : rx[k] = Encode(f)
    /\ \A k \in 1 .. Len(rx) : rx[k] # <<>>
    /\ cut => rx # <<>>

\* The locals of a poll are reset where the next one begins.
LocalInv ==
    /\ i \in Nat /\ Count \in Nat /\ taken \in Nat /\ first \in Nat
    /\ buf \in Seq(Nat)
    /\ pc \notin {"data", "drop", "boot", "clear"} => i = 0
    /\ pc \notin {"data", "input"} => buf = <<>>

\* Bytes of the frame that the poll has read.
Pos == CASE pc = "high" -> 0
         [] pc = "low" -> 1
         [] OTHER -> i + 2

\* A poll that knows where it is: the head of the FIFO is the rest of its
\* frame, and the locals say how far it got.
PollInv ==
    ~lost =>
        /\ pc \notin {"boot", "clear"}
        /\ Reading =>
             /\ frame \in RxFrames /\ taken = 0
             /\ rx # <<>> /\ Rest(rx[1], frame, Pos)
        /\ ~Reading => ~cut
        /\ pc = "low" => first = Len(frame) \div ByteMod
        /\ pc \in {"alloc", "data", "drop"} => Count = Len(frame)
        /\ pc \in {"data", "drop"} => i < Count
        /\ pc = "data" => Len(buf) = i /\ \A j \in 1 .. i : buf[j] = frame[j]
        /\ pc = "input" => taken = 1 /\ buf = frame

-----------------------------------------------------------------------------
\* The encoding of a frame.

LEMMA FrameFacts ==
    ASSUME NEW f \in RxFrames
    PROVE  /\ f \in Seq(Nat) /\ Len(f) \in Nat /\ Len(f) # 0 /\ Len(f) <= MaxFrame
<1>1. f \in Seq(Bytes) /\ Len(f) \in 1 .. MaxFrame
  BY EthAssumption
<1>2. \A k \in 1 .. Len(f) : f[k] \in Nat
  BY <1>1, EthAssumption DEF Bytes
<1>3. QED
  BY <1>1, <1>2, EthAssumption

LEMMA EncodeSeq ==
    ASSUME NEW f \in Seq(Nat)
    PROVE  /\ Encode(f) \in Seq(Nat)
           /\ Len(Encode(f)) = Len(f) + 2
           /\ Encode(f)[1] = Len(f) \div ByteMod
           /\ Encode(f)[2] = Len(f) % ByteMod
           /\ \A j \in 1 .. Len(f) : Encode(f)[j + 2] = f[j]
           /\ Len(f) = (Len(f) \div ByteMod) * ByteMod + (Len(f) % ByteMod)
           /\ Len(f) \div ByteMod \in Nat /\ Len(f) % ByteMod \in Nat
<1> DEFINE n == Len(f)
           q == n \div ByteMod
           r == n % ByteMod
           h == <<q, r>>
<1>1. n \in Nat /\ ByteMod \in Nat \ {0}
  BY EthAssumption
<1>2. q \in Int /\ r \in 0 .. ByteMod - 1 /\ n = ByteMod * q + r
  BY <1>1, DivMod
<1>3. Encode(f) = h \o f
  BY DEF Encode
<1> HIDE DEF n, q, r
<1>4. q >= 0
  BY <1>1, <1>2, Z3
<1>5. n = q * ByteMod + r
  BY <1>1, <1>2, Z3
<1>6. q \in Nat /\ r \in Nat
  BY <1>1, <1>2, <1>4
<1>7. h \in Seq(Nat) /\ Len(h) = 2 /\ h[1] = q /\ h[2] = r
  BY <1>6
<1> HIDE DEF h
<1>8. /\ h \o f \in Seq(Nat) /\ Len(h \o f) = 2 + Len(f)
      /\ \A k \in 1 .. 2 + Len(f) :
            (h \o f)[k] = IF k <= 2 THEN h[k] ELSE f[k - 2]
  <2>1. /\ h \o f \in Seq(Nat) /\ Len(h \o f) = Len(h) + Len(f)
        /\ \A k \in 1 .. Len(h) + Len(f) :
              (h \o f)[k] = IF k <= Len(h) THEN h[k] ELSE f[k - Len(h)]
    BY <1>1, <1>7, ConcatProperties
  <2>2. QED
    BY <1>7, <2>1
<1>9. (h \o f)[1] = q /\ (h \o f)[2] = r
  BY <1>1, <1>7, <1>8 DEF n
<1>10. \A j \in 1 .. Len(f) : (h \o f)[j + 2] = f[j]
  BY <1>1, <1>8 DEF n
<1>11. Len(h \o f) = Len(f) + 2
  BY <1>1, <1>8 DEF n
<1>12. QED
  BY <1>3, <1>5, <1>6, <1>8, <1>9, <1>10, <1>11 DEF n, q, r

LEMMA EncodeFacts ==
    ASSUME NEW f \in RxFrames
    PROVE  /\ Encode(f) \in Seq(Nat)
           /\ Len(Encode(f)) = Len(f) + 2
           /\ Encode(f)[1] = Len(f) \div ByteMod
           /\ Encode(f)[2] = Len(f) % ByteMod
           /\ \A j \in 1 .. Len(f) : Encode(f)[j + 2] = f[j]
           /\ Len(f) = (Len(f) \div ByteMod) * ByteMod + (Len(f) % ByteMod)
           /\ Len(f) \div ByteMod \in Nat
  BY FrameFacts, EncodeSeq

\* What is left of a frame, one byte later.
LEMMA RestTail ==
    ASSUME NEW f \in RxFrames, NEW s \in Seq(Nat), NEW k \in Nat, s # <<>>,
           Rest(s, f, k)
    PROVE  /\ s[1] = Encode(f)[k + 1]
           /\ Rest(Tail(s), f, k + 1)
<1>1. /\ Len(s) \in Nat /\ Len(s) >= 1 /\ Len(Tail(s)) = Len(s) - 1
      /\ \A j \in 1 .. Len(s) - 1 : Tail(s)[j] = s[j + 1]
  BY HeadTailProperties
<1>2. Len(f) \in Nat
  BY FrameFacts
<1>3. Len(s) = Len(f) + 2 - k /\ \A j \in 1 .. Len(s) : s[j] = Encode(f)[j + k]
  BY DEF Rest
<1>4. s[1] = Encode(f)[k + 1]
  <2>1. 1 \in 1 .. Len(s) /\ 1 + k = k + 1
    BY <1>1
  <2>2. s[1] = Encode(f)[1 + k]
    BY <1>3, <2>1
  <2>3. QED
    BY <2>1, <2>2
<1>5. \A j \in 1 .. Len(s) - 1 : Tail(s)[j] = Encode(f)[j + (k + 1)]
  <2> SUFFICES ASSUME NEW j \in 1 .. Len(s) - 1
               PROVE  Tail(s)[j] = Encode(f)[j + (k + 1)]
    OBVIOUS
  <2>1. j + 1 \in 1 .. Len(s) /\ (j + 1) + k = j + (k + 1)
    BY <1>1
  <2>2. s[j + 1] = Encode(f)[(j + 1) + k]
    BY <1>3, <2>1
  <2>3. QED
    BY <1>1, <2>1, <2>2
<1>6. QED
  BY <1>1, <1>2, <1>3, <1>4, <1>5 DEF Rest

-----------------------------------------------------------------------------
\* The receive FIFO.

\* One read of a FIFO that holds something.
LEMMA ReadHead ==
    ASSUME RxInv, NEW b, Read(b), rx # <<>>
    PROVE  /\ rx[1] \in Seq(Nat) /\ rx[1] # <<>> /\ b = rx[1][1] /\ b \in Nat
           /\ Len(rx[1]) = 1 => rx' = Tail(rx) /\ ~cut' /\ taken' = taken + 1
           /\ Len(rx[1]) # 1 => /\ rx' # <<>> /\ rx'[1] = Tail(rx[1])
                                /\ rx' = [rx EXCEPT ![1] = Tail(rx[1])]
                                /\ cut' /\ taken' = taken
<1>1. rx \in Seq(Seq(Nat)) /\ Len(rx) \in Nat /\ Len(rx) >= 1
  BY DEF RxInv
<1>2. rx[1] \in Seq(Nat) /\ rx[1] # <<>> /\ Head(rx) = rx[1]
  BY <1>1 DEF RxInv
<1>3. Head(rx[1]) = rx[1][1] /\ Head(rx[1]) \in Nat
  BY <1>2
<1>4. b = rx[1][1]
  BY <1>2, <1>3 DEF Read
<1>5. Len(rx[1]) = 1 => rx' = Tail(rx) /\ ~cut' /\ taken' = taken + 1
  BY <1>2 DEF Read, rxVars
<1>6. Len(rx[1]) # 1 => /\ rx' = [rx EXCEPT ![1] = Tail(rx[1])]
                        /\ cut' /\ taken' = taken
  BY <1>2 DEF Read, rxVars
<1>7. Len(rx[1]) # 1 => rx' # <<>> /\ rx'[1] = Tail(rx[1])
  <2> DEFINE s == [rx EXCEPT ![1] = Tail(rx[1])]
  <2>1. s \in Seq(Seq(Nat)) /\ Len(s) = Len(rx) /\ s[1] = Tail(rx[1])
    BY <1>1, <1>2
  <2>2. s # <<>>
    BY <1>1, <2>1
  <2>3. QED
    BY <1>6, <2>1, <2>2
<1>8. QED
  BY <1>2, <1>3, <1>4, <1>5, <1>6, <1>7

LEMMA ReadRxInv ==
    ASSUME RxInv, NEW b, Read(b)
    PROVE  RxInv'
<1>1. CASE rx = <<>>
  BY <1>1 DEF Read, rxVars, RxInv
<1>2. CASE rx # <<>>
  <2>1. /\ rx \in Seq(Seq(Nat)) /\ Len(rx) \in Nat /\ Len(rx) >= 1
        /\ \A k \in 1 .. Len(rx) : k > 1 => \E f \in RxFrames : rx[k] = Encode(f)
        /\ \A k \in 1 .. Len(rx) : rx[k] # <<>>
    BY <1>2 DEF RxInv
  <2>2. CASE Len(rx[1]) = 1
    <3>1. rx' = Tail(rx) /\ ~cut'
      BY <1>2, <2>2, ReadHead
    <3>2. /\ Tail(rx) \in Seq(Seq(Nat)) /\ Len(Tail(rx)) = Len(rx) - 1
          /\ \A k \in 1 .. Len(rx) - 1 : Tail(rx)[k] = rx[k + 1]
      BY <1>2, <2>1, HeadTailProperties
    <3>3. \A k \in 1 .. Len(rx) - 1 : k + 1 \in 1 .. Len(rx) /\ k + 1 > 1
      BY <2>1
    <3>4. QED
      BY <2>1, <3>1, <3>2, <3>3 DEF RxInv
  <2>3. CASE Len(rx[1]) # 1
    <3>1. /\ rx' = [rx EXCEPT ![1] = Tail(rx[1])] /\ rx' # <<>> /\ cut'
          /\ rx[1] \in Seq(Nat) /\ rx[1] # <<>>
      BY <1>2, <2>3, ReadHead
    <3>2. Tail(rx[1]) \in Seq(Nat) /\ Len(Tail(rx[1])) = Len(rx[1]) - 1
          /\ Len(rx[1]) \in Nat /\ Len(rx[1]) >= 1
      BY <3>1, HeadTailProperties
    <3> DEFINE t == Tail(rx[1])
    <3>3. t # <<>> /\ t \in Seq(Nat)
      <4>1. Len(t) # 0 /\ t \in Seq(Nat)
        BY <2>3, <3>2
      <4> HIDE DEF t
      <4>2. QED
        BY <4>1
    <3> HIDE DEF t
    <3>4. /\ rx' \in Seq(Seq(Nat)) /\ Len(rx') = Len(rx) /\ rx'[1] = t
          /\ \A k \in 1 .. Len(rx) : k > 1 => rx'[k] = rx[k]
      <4>1. rx' = [rx EXCEPT ![1] = t]
        BY <3>1 DEF t
      <4>2. QED
        BY <2>1, <3>3, <4>1
    <3>5. \A k \in 1 .. Len(rx) : rx'[k] # <<>>
      <4>1. \A k \in 1 .. Len(rx) : k = 1 \/ k > 1
        BY <2>1
      <4>2. QED
        BY <2>1, <3>3, <3>4, <4>1
    <3>6. QED
      BY <2>1, <3>1, <3>4, <3>5 DEF RxInv
  <2>4. QED
    BY <2>2, <2>3
<1>3. QED
  BY <1>1, <1>2

LEMMA ReceiveRxInv ==
    ASSUME RxInv, NEW f \in RxFrames, Receive(f)
    PROVE  /\ RxInv' /\ rx' # <<>> /\ cut' = cut
           /\ rx # <<>> => rx'[1] = rx[1]
<1>1. rx' = Append(rx, Encode(f)) /\ cut' = cut
  BY DEF Receive
<1>2. Encode(f) \in Seq(Nat) /\ Encode(f) # <<>>
  <2>1. Encode(f) \in Seq(Nat) /\ Len(Encode(f)) = Len(f) + 2 /\ Len(f) \in Nat
    BY EncodeFacts, FrameFacts
  <2>2. QED
    BY <2>1
<1>3. rx \in Seq(Seq(Nat)) /\ Len(rx) \in Nat
  BY DEF RxInv
<1> DEFINE e == Encode(f)
<1>4. e \in Seq(Nat) /\ e # <<>> /\ e = Encode(f)
  BY <1>2
<1> HIDE DEF e
<1>5. /\ rx' \in Seq(Seq(Nat)) /\ Len(rx') = Len(rx) + 1
      /\ rx'[Len(rx) + 1] = e
      /\ \A k \in 1 .. Len(rx) : rx'[k] = rx[k]
  <2>1. rx' = Append(rx, e)
    BY <1>1, <1>4
  <2>2. QED
    BY <1>3, <1>4, <2>1, AppendProperties
<1>6. \A k \in 1 .. Len(rx) + 1 : k \in 1 .. Len(rx) \/ k = Len(rx) + 1
  BY <1>3
<1>7. rx' # <<>>
  BY <1>3, <1>5
<1>8. rx # <<>> => rx'[1] = rx[1]
  BY <1>3, <1>5
<1>9. RxInv'
  BY <1>1, <1>4, <1>5, <1>6, <1>7 DEF RxInv
<1>10. QED
  BY <1>1, <1>7, <1>8, <1>9

LEMMA NextRxInv ==
    ASSUME RxInv, [Next]_vars
    PROVE  RxInv'
<1>1. ASSUME UNCHANGED <<rx, cut>> PROVE RxInv'
  BY <1>1 DEF RxInv
<1>2. CASE Network
  <2>1. CASE RxReset
    <3>1. rx' = <<>> /\ ~cut'
      BY <2>1 DEF RxReset
    <3>2. QED
      BY <3>1 DEF RxInv
  <2>2. QED
    BY <1>2, <2>1, ReceiveRxInv DEF Network
<1>3. CASE Poll
  BY <1>1, <1>3, ReadRxInv
     DEF Poll, ClearStep, PollBegin, ReadHigh, ReadLow, PbufAlloc, DataByte,
         DataOverrun, DropByte, NetifInput, Return, rxVars
<1>4. QED
  BY <1>1, <1>2, <1>3
     DEF Next, MacSend, TxReset, Send, WriteHigh, WriteLow, DataOut, Output,
         rxVars, vars

LEMMA RxInvHolds == Spec => []RxInv
<1>1. Init => RxInv
  <2> SUFFICES ASSUME Init PROVE RxInv
    OBVIOUS
  <2>1. ~cut
    BY DEF Init
  <2>2. CASE rx = <<>>
    BY <2>1, <2>2 DEF RxInv
  <2>3. ASSUME NEW f \in RxFrames, rx = <<Encode(f)>> PROVE RxInv
    <3>1. Encode(f) \in Seq(Nat) /\ Len(Encode(f)) = Len(f) + 2 /\ Len(f) \in Nat
      BY EncodeFacts, FrameFacts
    <3>2. Encode(f) # <<>>
      BY <3>1
    <3>3. QED
      BY <2>1, <2>3, <3>1, <3>2 DEF RxInv
  <2>4. QED
    BY <2>2, <2>3 DEF Init
<1>2. RxInv /\ [Next]_vars => RxInv'
  BY NextRxInv
<1>3. QED
  BY <1>1, <1>2, PTL DEF Spec

-----------------------------------------------------------------------------
\* The locals of the driver.

LEMMA NextLocalInv ==
    ASSUME LocalInv, [Next]_vars
    PROVE  LocalInv'
<1> USE DEF LocalInv
<1>1. ASSUME NEW b, Read(b) PROVE taken' \in Nat
  BY <1>1 DEF Read, rxVars
<1>2. ASSUME NEW b \in Bytes PROVE b \in Nat
  BY EthAssumption DEF Bytes
<1>3. CASE Network
  <2>1. UNCHANGED <<pc, taken, first, Count, i, buf>>
    BY <1>3 DEF Network, RxReset, Receive, pollVars
  <2>2. lost => lost'
    BY <1>3, Zenon DEF Network, RxReset, Receive, pollVars
  <2>3. QED
    BY <2>1, <2>2
<1>4. CASE ClearStep
  <2>1. UNCHANGED <<first, Count, buf>> /\ i' \in Nat /\ taken' \in Nat
    BY <1>1, <1>4 DEF ClearStep, rxVars
  <2>2. CASE Cleared
    BY <1>4, <2>1, <2>2 DEF ClearStep
  <2>3. CASE ~Cleared
    BY <1>4, <2>1, <2>3 DEF ClearStep
  <2>4. QED
    BY <2>2, <2>3
<1>5. CASE PollBegin
  BY <1>5 DEF PollBegin
<1>6. CASE ReadHigh
  <2>1. PICK b \in Bytes : Read(b) /\ first' = b
    BY <1>6 DEF ReadHigh
  <2>2. QED
    BY <1>1, <1>2, <1>6, <2>1 DEF ReadHigh
<1>7. CASE ReadLow
  <2>1. PICK b \in Bytes : Read(b) /\ Count' = Length(first, b)
    BY <1>7 DEF ReadLow
  <2>2. Count' \in Nat
    BY <1>2, <2>1, EthAssumption DEF Length
  <2>3. pc' \in {"clear", "alloc"} /\ pc = "low" /\ first' = 0 /\ UNCHANGED <<i, buf, lost>>
    BY <1>7 DEF ReadLow
  <2>4. QED
    BY <1>1, <2>1, <2>2, <2>3
<1>8. CASE PbufAlloc
  BY <1>8 DEF PbufAlloc, rxVars, pollVars
<1>9. CASE DataByte
  <2>1. PICK b \in Bytes : Read(b) /\ buf' = Append(buf, b)
    BY <1>9 DEF DataByte
  <2>2. buf' \in Seq(Nat)
    BY <1>2, <2>1
  <2>3. /\ UNCHANGED <<first, Count, lost>>
        /\ \/ i' = i + 1 /\ pc' = "data"
           \/ i' = 0 /\ pc' = "input"
    BY <1>9 DEF DataByte
  <2>4. QED
    BY <1>1, <2>1, <2>2, <2>3
<1>10. CASE DropByte
  <2>1. PICK b \in Bytes : Read(b)
    BY <1>10 DEF DropByte
  <2>2. /\ UNCHANGED <<first, Count, buf, lost>> /\ pc = "drop"
        /\ \/ i' = i + 1 /\ pc' = "drop"
           \/ i' = 0 /\ pc' = "stack"
    BY <1>10 DEF DropByte
  <2>3. QED
    BY <1>1, <2>1, <2>2
<1>11. CASE NetifInput
  BY <1>11 DEF NetifInput, rxVars
<1>12. CASE Return
  BY <1>12 DEF Return
<1>13. CASE MacSend \/ TxReset \/ UNCHANGED vars
  BY <1>13 DEF MacSend, TxReset, rxVars, pollVars, vars
<1>14. ASSUME NEW c, Output(c) PROVE LocalInv'
  BY <1>14 DEF Output, rxVars, pollVars
<1>15. CASE Send
  <2>1. /\ pc \in {"txhigh", "txlow", "txdata"} /\ pc' \in {"txlow", "txdata", "stack"}
        /\ UNCHANGED <<taken, first, Count, i, buf, lost>>
    BY <1>15 DEF Send, WriteHigh, WriteLow, DataOut, rxVars, pollVars
  <2>2. QED
    BY <2>1
<1>16. CASE DataOverrun
  <2>1. PICK b \in Bytes : Read(b)
    BY <1>16 DEF DataOverrun
  <2>2. /\ UNCHANGED <<first, Count>> /\ pc' = "wild" /\ i' = 0 /\ buf' = <<>>
    BY <1>16 DEF DataOverrun
  <2>3. QED
    BY <1>1, <2>1, <2>2
<1>17. QED
  BY <1>3, <1>4, <1>5, <1>6, <1>7, <1>8, <1>9, <1>10, <1>11, <1>12, <1>13,
     <1>14, <1>15, <1>16 DEF Next, Poll

LEMMA LocalInvHolds == Spec => []LocalInv
<1>1. Init => LocalInv
  BY DEF Init, LocalInv
<1>2. LocalInv /\ [Next]_vars => LocalInv'
  BY NextLocalInv
<1>3. QED
  BY <1>1, <1>2, PTL DEF Spec

-----------------------------------------------------------------------------
\* The poll.

\* A poll begins at the start of a frame.
LEMMA PollBeginInv ==
    ASSUME RxInv, LocalInv, PollInv, PollBegin
    PROVE  PollInv'
<1> SUFFICES ASSUME ~lost' PROVE PollInv'
  BY DEF PollInv
<1>1. /\ pc = "idle" /\ taken' = 0 /\ UNCHANGED <<rx, cut, i>>
      /\ pc' = IF rx # <<>> THEN "high" ELSE "stack"
      /\ frame' = IF rx = <<>> \/ lost THEN <<>> ELSE SubSeq(Head(rx), 3, Len(Head(rx)))
  BY DEF PollBegin, HaveFrame
<1>2. rx = <<>> \/ ~lost
  BY Zenon DEF PollBegin
<1>3. CASE rx = <<>>
  BY <1>1, <1>3 DEF PollInv, RxInv, Reading
<1>4. CASE rx # <<>>
  <2>1. ~lost /\ ~cut
    BY <1>1, <1>2, <1>4 DEF PollInv, Reading
  <2>2. rx \in Seq(Seq(Nat)) /\ Len(rx) \in Nat /\ 1 \in 1 .. Len(rx)
    BY <1>4 DEF RxInv
  <2>3. PICK f \in RxFrames : rx[1] = Encode(f)
    BY <2>1, <2>2 DEF RxInv
  <2>4. /\ Encode(f) \in Seq(Nat) /\ Len(Encode(f)) = Len(f) + 2
        /\ \A j \in 1 .. Len(f) : Encode(f)[j + 2] = f[j]
        /\ f \in Seq(Nat) /\ Len(f) \in Nat
    BY EncodeFacts, FrameFacts
  <2>5. SubSeq(rx[1], 3, Len(rx[1])) = f
    <3> DEFINE e == Encode(f)
               u == SubSeq(e, 3, Len(e))
    <3>1. e \in Seq(Nat) /\ Len(e) = Len(f) + 2 /\ \A j \in 1 .. Len(f) : e[j + 2] = f[j]
      BY <2>4
    <3> HIDE DEF e
    <3>2. \A k \in 3 .. Len(e) : e[k] \in Nat
      BY <2>4, <3>1
    <3>3. /\ u \in Seq(Nat) /\ Len(u) = Len(e) - 3 + 1
          /\ \A k \in 1 .. Len(e) - 3 + 1 : u[k] = e[3 + k - 1]
      <4>1. /\ Len(e) \in Int
            /\ (IF 3 <= Len(e) THEN Len(e) - 3 + 1 ELSE 0) = Len(e) - 3 + 1
        BY <2>4, <3>1
      <4>2. /\ u \in Seq(Nat) /\ Len(u) = IF 3 <= Len(e) THEN Len(e) - 3 + 1 ELSE 0
            /\ \A k \in 1 .. Len(e) - 3 + 1 : u[k] = e[3 + k - 1]
        BY <3>2, <4>1, SubSeqProperties, SMTT(20)
      <4>3. QED
        BY <4>1, <4>2
    <3> HIDE DEF u
    <3>4. Len(u) = Len(f) /\ \A k \in 1 .. Len(f) : u[k] = f[k]
      <4>1. Len(e) - 3 + 1 = Len(f) /\ \A k \in 1 .. Len(f) : 3 + k - 1 = k + 2
        BY <2>4, <3>1
      <4>2. QED
        BY <3>1, <3>3, <4>1
    <3>5. u = f
      BY <2>4, <3>3, <3>4, SeqEqual
    <3>6. QED
      BY <2>3, <3>5 DEF u, e
  <2>6. frame' = f
    BY <1>1, <1>4, <2>1, <2>2, <2>5
  <2>7. Rest(rx[1], f, 0)
    BY <2>3, <2>4 DEF Rest
  <2>8. pc' = "high"
    BY <1>1, <1>4
  <2>9. Pos' = 0
    BY <2>8 DEF Pos
  <2>10. Rest(rx'[1], frame', Pos')
    BY <1>1, <2>6, <2>7, <2>9
  <2>11. QED
    BY <1>1, <1>4, <2>6, <2>8, <2>10 DEF PollInv, Reading
<1>5. QED
  BY <1>3, <1>4

\* A read in the middle of a frame leaves the rest of it.
LEMMA ReadRest ==
    ASSUME RxInv, PollInv, ~lost, Reading, Pos \in Nat, NEW b, Read(b)
    PROVE  /\ frame \in RxFrames /\ Len(frame) \in Nat /\ taken = 0
           /\ b = Encode(frame)[Pos + 1]
           /\ Pos + 1 = Len(frame) + 2 => ~cut' /\ taken' = 1
           /\ Pos + 1 # Len(frame) + 2 =>
                rx' # <<>> /\ Rest(rx'[1], frame, Pos + 1) /\ taken' = 0
<1>1. frame \in RxFrames /\ taken = 0 /\ rx # <<>> /\ Rest(rx[1], frame, Pos)
  BY DEF PollInv
<1>2. Len(frame) \in Nat
  BY <1>1, FrameFacts
<1>3. /\ rx[1] \in Seq(Nat) /\ rx[1] # <<>> /\ b = rx[1][1]
      /\ Len(rx[1]) = 1 => ~cut' /\ taken' = taken + 1
      /\ Len(rx[1]) # 1 => rx' # <<>> /\ rx'[1] = Tail(rx[1]) /\ taken' = taken
  BY <1>1, ReadHead
<1>4. rx[1][1] = Encode(frame)[Pos + 1] /\ Rest(Tail(rx[1]), frame, Pos + 1)
  BY <1>1, <1>3, RestTail
<1>5. Len(rx[1]) = Len(frame) + 2 - Pos
  BY <1>1 DEF Rest
<1>6. Pos + 1 = Len(frame) + 2 <=> Len(rx[1]) = 1
  BY <1>2, <1>5
<1>7. QED
  BY <1>1, <1>2, <1>3, <1>4, <1>6

LEMMA ReadLengthInv ==
    ASSUME RxInv, LocalInv, PollInv, ReadHigh \/ ReadLow, HighFirst
    PROVE  PollInv'
<1> SUFFICES ASSUME ~lost' PROVE PollInv'
  BY DEF PollInv
<1>1. ~lost /\ Reading /\ frame' = frame /\ i' = i /\ i = 0
  BY DEF ReadHigh, ReadLow, Reading, LocalInv
<1>2. CASE ReadHigh
  <2>1. PICK b \in Bytes : Read(b) /\ first' = b
    BY <1>2 DEF ReadHigh
  <2>2. pc = "high" /\ pc' = "low" /\ Pos = 0 /\ Pos' = 1
    BY <1>2 DEF ReadHigh, Pos
  <2>3. /\ frame \in RxFrames /\ Len(frame) \in Nat /\ b = Encode(frame)[0 + 1]
        /\ 0 + 1 # Len(frame) + 2 =>
             rx' # <<>> /\ Rest(rx'[1], frame, 0 + 1) /\ taken' = 0
    BY <1>1, <2>1, <2>2, ReadRest
  <2>4. b = Len(frame) \div ByteMod
    BY <2>3, EncodeFacts
  <2>5. rx' # <<>> /\ Rest(rx'[1], frame, 1) /\ taken' = 0
    BY <2>3
  <2>6. Rest(rx'[1], frame', Pos')
    BY <1>1, <2>2, <2>5
  <2>7. QED
    BY <1>1, <2>1, <2>2, <2>3, <2>4, <2>5, <2>6 DEF PollInv, Reading
<1>3. CASE ReadLow
  <2>1. PICK b \in Bytes : Read(b) /\ Count' = Length(first, b)
    BY <1>3 DEF ReadLow
  <2>2. pc = "low" /\ pc' = (IF Invalid(Count') THEN "clear" ELSE "alloc") /\ Pos = 1
    BY <1>3 DEF ReadLow, Pos
  <2>3. /\ frame \in RxFrames /\ Len(frame) \in Nat /\ b = Encode(frame)[1 + 1]
        /\ 1 + 1 # Len(frame) + 2 =>
             rx' # <<>> /\ Rest(rx'[1], frame, 1 + 1) /\ taken' = 0
    BY <1>1, <2>1, <2>2, ReadRest
  <2>4. /\ b = Len(frame) % ByteMod
        /\ Len(frame) = (Len(frame) \div ByteMod) * ByteMod + (Len(frame) % ByteMod)
    BY <2>3, EncodeFacts
  <2>5. first = Len(frame) \div ByteMod
    BY <1>1, <2>2 DEF PollInv
  <2>6. Count' = Len(frame)
    BY <2>1, <2>4, <2>5 DEF Length
  <2>7. Len(frame) # 0 /\ Len(frame) <= MaxFrame
    BY <2>3, FrameFacts
  <2>8. pc' = "alloc"
    BY <2>2, <2>3, <2>6, <2>7, EthAssumption DEF Invalid
  <2>9. rx' # <<>> /\ Rest(rx'[1], frame, 2) /\ taken' = 0
    BY <2>3, <2>7
  <2>10. Pos' = 2
    BY <1>1, <2>8 DEF Pos
  <2>11. Rest(rx'[1], frame', Pos')
    BY <1>1, <2>9, <2>10
  <2>12. QED
    BY <1>1, <2>3, <2>6, <2>8, <2>9, <2>11 DEF PollInv, Reading
<1>4. QED
  BY <1>2, <1>3

\* The bytes of the frame are read one by one, and the last is the last.
LEMMA ReadDataInv ==
    ASSUME RxInv, LocalInv, PollInv, DataByte \/ DropByte
    PROVE  PollInv'
<1> SUFFICES ASSUME ~lost' PROVE PollInv'
  BY DEF PollInv
<1>1. /\ ~lost /\ Reading /\ frame' = frame /\ Count' = Count
      /\ pc \in {"data", "drop"} /\ i \in Nat /\ Count \in Nat
  BY DEF DataByte, DropByte, Reading, LocalInv
<1>2. Count = Len(frame) /\ i < Count /\ Pos = i + 2
  BY <1>1 DEF PollInv, Pos
<1>3. PICK b : Read(b) /\ (pc = "data" => buf' = Append(buf, b))
  BY <1>1 DEF DataByte, DropByte
<1>4. /\ frame \in RxFrames /\ b = Encode(frame)[Pos + 1]
      /\ Pos + 1 = Len(frame) + 2 => ~cut' /\ taken' = 1
      /\ Pos + 1 # Len(frame) + 2 =>
           rx' # <<>> /\ Rest(rx'[1], frame, Pos + 1) /\ taken' = 0
  <2>1. Pos \in Nat
    BY <1>1, <1>2
  <2>2. QED
    BY <1>1, <1>3, <2>1, ReadRest
<1>5. b = frame[i + 1]
  <2>1. \A j \in 1 .. Len(frame) : Encode(frame)[j + 2] = frame[j]
    BY <1>4, EncodeFacts
  <2>2. i + 1 \in 1 .. Len(frame) /\ (i + 1) + 2 = Pos + 1
    BY <1>1, <1>2
  <2>3. QED
    BY <1>4, <2>1, <2>2
<1>6. ASSUME pc = "data"
      PROVE  Len(buf') = i + 1 /\ \A j \in 1 .. i + 1 : buf'[j] = frame[j]
  <2>1. Len(buf) = i /\ (\A j \in 1 .. i : buf[j] = frame[j]) /\ buf \in Seq(Nat)
    BY <1>1, <1>6 DEF PollInv, LocalInv
  <2>2. buf' = Append(buf, b)
    BY <1>3, <1>6
  <2>3. b \in Nat
    BY <1>1, <1>2, <1>4, <1>5, FrameFacts
  <2>4. QED
    BY <1>1, <1>5, <2>1, <2>2, <2>3
<1>7. CASE i + 1 < Count
  <2>1. i' = i + 1 /\ pc' = pc
    BY <1>7 DEF DataByte, DropByte, MoreData, MoreDrop
  <2>2. Pos' = Pos + 1 /\ Pos + 1 # Len(frame) + 2
    BY <1>1, <1>2, <1>7, <2>1 DEF Pos
  <2>3. Rest(rx'[1], frame', Pos')
    BY <1>1, <1>4, <2>2
  <2>4. QED
    BY <1>1, <1>2, <1>4, <1>6, <1>7, <2>1, <2>2, <2>3 DEF PollInv, Reading
<1>8. CASE ~(i + 1 < Count)
  <2>1. /\ pc = "data" => pc' = "input"
        /\ pc = "drop" => pc' = "stack"
    BY <1>8 DEF DataByte, DropByte, MoreData, MoreDrop
  <2>2. Pos + 1 = Len(frame) + 2 /\ i + 1 = Len(frame)
    BY <1>1, <1>2, <1>8
  <2>3. ~cut' /\ taken' = 1
    BY <1>4, <2>2
  <2>4. ASSUME pc = "data" PROVE buf' = frame
    <3>1. /\ frame \in Seq(Nat) /\ Len(buf') = Len(frame)
          /\ \A j \in 1 .. Len(buf') : buf'[j] = frame[j]
      BY <1>4, <1>6, <2>2, <2>4, FrameFacts
    <3>2. buf' \in Seq(Nat)
      <4>1. b \in Nat
        BY <1>1, <1>2, <1>4, <1>5, FrameFacts
      <4>2. QED
        BY <1>3, <2>4, <4>1 DEF LocalInv
    <3>3. QED
      BY <3>1, <3>2, SeqEqual
  <2>5. QED
    BY <1>1, <2>1, <2>3, <2>4 DEF PollInv, Reading
<1>9. QED
  BY <1>7, <1>8

LEMMA NextPollInv ==
    ASSUME RxInv, LocalInv, PollInv, [Next]_vars, HighFirst
    PROVE  PollInv'
<1> DEFINE Elsewhere == {"stack", "txhigh", "txlow", "txdata"}
<1> SUFFICES ASSUME ~lost' PROVE PollInv'
  BY DEF PollInv
<1>1. ASSUME UNCHANGED <<rx, cut, taken, first, Count, i, buf, frame, lost>>,
             pc' = pc \/ (pc \in Elsewhere /\ pc' \in Elsewhere)
      PROVE  PollInv'
  <2>1. CASE pc' = pc
    BY <1>1, <2>1 DEF PollInv, Reading, Pos, Rest, Encode
  <2>2. CASE pc \in Elsewhere /\ pc' \in Elsewhere
    BY <1>1, <2>2 DEF PollInv, Reading
  <2>3. QED
    BY <1>1, <2>1, <2>2
<1>2. CASE RxReset
  <2>1. /\ ~cut' /\ UNCHANGED <<pc, taken, first, Count, i, buf, frame>>
    BY <1>2 DEF RxReset
  <2>2. ~lost /\ ~Reading
    BY <1>2, Zenon DEF RxReset
  <2>3. QED
    BY <2>1, <2>2 DEF PollInv, Reading
<1>3. ASSUME NEW f \in RxFrames, Receive(f) PROVE PollInv'
  <2>1. rx' # <<>> /\ cut' = cut /\ (rx # <<>> => rx'[1] = rx[1])
    BY <1>3, ReceiveRxInv
  <2>2. UNCHANGED <<pc, taken, first, Count, i, buf, frame, lost>>
    BY <1>3 DEF Receive, pollVars
  <2>3. Pos' = Pos
    BY <2>2 DEF Pos
  <2>4. Reading => Rest(rx'[1], frame', Pos')
    BY <2>1, <2>2, <2>3 DEF PollInv
  <2>5. QED
    BY <2>1, <2>2, <2>4 DEF PollInv, Reading
<1>4. CASE ClearStep
  <2>1. pc \in {"boot", "clear"} /\ lost
    BY <1>4 DEF ClearStep, PollInv
  <2>2. Cleared /\ pc = "boot"
    BY <1>4, <2>1 DEF ClearStep
  <2>3. pc' = "idle" /\ rx = <<>> /\ cut' = cut
    BY <1>4, <2>2 DEF ClearStep, rxVars
  <2>4. QED
    BY <2>3 DEF PollInv, RxInv, Reading
<1>5. CASE PbufAlloc
  <2>1. /\ pc = "alloc" /\ pc' \in {"data", "drop", "stack"}
        /\ pc' = "stack" => Count = 0
        /\ UNCHANGED <<rx, cut, taken, Count, i, buf, frame, lost>>
    BY <1>5 DEF PbufAlloc, rxVars, pollVars
  <2>2. /\ frame \in RxFrames /\ taken = 0 /\ rx # <<>> /\ Count = Len(frame)
        /\ Rest(rx[1], frame, Pos) /\ i = 0 /\ buf = <<>>
    BY <2>1 DEF PollInv, LocalInv, Reading
  <2>3. Len(frame) \in Nat /\ Len(frame) # 0
    BY <2>2, FrameFacts
  <2>4. pc' \in {"data", "drop"} /\ Pos' = Pos
    BY <2>1, <2>2, <2>3 DEF Pos
  <2>5. Rest(rx'[1], frame', Pos')
    BY <2>1, <2>2, <2>4
  <2>6. i < Count /\ Len(buf) = i
    BY <2>2, <2>3
  <2>7. QED
    BY <2>1, <2>2, <2>4, <2>5, <2>6 DEF PollInv, Reading
<1>6. CASE NetifInput
  BY <1>6 DEF NetifInput, rxVars, PollInv, Reading
<1>7. CASE Return
  BY <1>7 DEF Return, PollInv, Reading
<1>8. CASE Send
  <2>1. /\ pc \in Elsewhere /\ pc' \in Elsewhere
        /\ UNCHANGED <<rx, cut, taken, first, Count, i, buf, frame, lost>>
    BY <1>8 DEF Send, WriteHigh, WriteLow, DataOut, rxVars, pollVars
  <2>2. QED
    BY <1>1, <2>1
<1>9. ASSUME NEW c, Output(c) PROVE PollInv'
  BY <1>1, <1>9 DEF Output, rxVars, pollVars
<1>10. CASE MacSend \/ TxReset \/ UNCHANGED vars
  BY <1>1, <1>10 DEF MacSend, TxReset, rxVars, pollVars, vars
<1>11. CASE DataOverrun
  BY <1>11 DEF DataOverrun
<1>12. QED
  BY <1>2, <1>3, <1>4, <1>5, <1>6, <1>7, <1>8, <1>9, <1>10, <1>11, PollBeginInv,
     ReadLengthInv, ReadDataInv DEF Next, Network, Poll

\* In a build that reads the high byte of the length first, every frame that
\* pano_netif_poll hands to lwIP is the one that was at the head of the FIFO,
\* whole, and the poll ends exactly at its end (main.c:457-505), whatever
\* arrives meanwhile, until the MAC resets the FIFO in the middle of a poll or
\* a frame longer than one pbuf is stored.
THEOREM FramesIntactHolds == HighFirst /\ Spec => []FramesIntact
<1>1. Init => PollInv
  BY DEF Init, PollInv
<1>2. HighFirst /\ RxInv /\ LocalInv /\ PollInv /\ [Next]_vars => PollInv'
  BY NextPollInv
<1>3. PollInv => FramesIntact
  <2> SUFFICES ASSUME PollInv, ~lost PROVE FramesIntact
    BY DEF FramesIntact
  <2>1. pc \in {"alloc", "data", "drop"} => ~Invalid(Count)
    <3> SUFFICES ASSUME pc \in {"alloc", "data", "drop"} PROVE ~Invalid(Count)
      OBVIOUS
    <3>1. frame \in RxFrames /\ Count = Len(frame)
      BY DEF PollInv, Reading
    <3>2. Len(frame) \in Nat /\ Len(frame) # 0 /\ Len(frame) <= MaxFrame
      BY <3>1, FrameFacts
    <3>3. QED
      BY <3>1, <3>2, EthAssumption DEF Invalid
  <2>2. QED
    BY <2>1 DEF PollInv, FramesIntact, Reading
<1>4. QED
  <2>1. CASE HighFirst
    BY <1>1, <1>2, <1>3, <2>1, RxInvHolds, LocalInvHolds, PTL DEF Spec
  <2>2. QED
    BY <2>1

-----------------------------------------------------------------------------
(* FlattenSeq, which pano_netif_output's frames are stated with.           *)

\* f holds the concatenations of the beginnings of s.
Partials(f, s) ==
    f = [k \in 1 .. Len(s) |-> IF k = 1 THEN s[k] ELSE f[k - 1] \o s[k]]

LEMMA PartialsUnique ==
    ASSUME NEW s, Len(s) \in Nat, NEW f, NEW g, Partials(f, s), Partials(g, s)
    PROVE  f = g
<1> DEFINE S == {n \in Nat : n \in 1 .. Len(s) => f[n] = g[n]}
<1>1. 0 \in S
  OBVIOUS
<1>2. ASSUME NEW n \in Nat, n \in S PROVE n + 1 \in S
  <2> SUFFICES ASSUME n + 1 \in 1 .. Len(s) PROVE f[n + 1] = g[n + 1]
    OBVIOUS
  <2> DEFINE k == n + 1
  <2>1. k \in 1 .. Len(s) /\ k - 1 = n
    OBVIOUS
  <2> HIDE DEF k
  <2>2. /\ f[k] = IF k = 1 THEN s[k] ELSE f[k - 1] \o s[k]
        /\ g[k] = IF k = 1 THEN s[k] ELSE g[k - 1] \o s[k]
    BY <2>1 DEF Partials
  <2>3. k # 1 => n \in 1 .. Len(s)
    BY <2>1
  <2>4. QED
    BY <1>2, <2>1, <2>2, <2>3 DEF k
<1> HIDE DEF S
<1>3. Nat \subseteq S
  BY <1>1, <1>2, SetInduction
<1>4. \A n \in 1 .. Len(s) : f[n] = g[n]
  BY <1>3 DEF S
<1>5. QED
  BY <1>4 DEF Partials

\* One more part: its concatenations are those of the rest and the whole.
PartialsOf(f, s, x) ==
    [k \in 1 .. Len(s) + 1 |->
        IF k <= Len(s) THEN f[k] ELSE IF Len(s) = 0 THEN x ELSE f[Len(s)] \o x]

LEMMA PartialsExtend ==
    ASSUME NEW T, NEW s \in Seq(Seq(T)), NEW x \in Seq(T),
           NEW f \in [1 .. Len(s) -> Seq(T)], Partials(f, s)
    PROVE  /\ PartialsOf(f, s, x) \in [1 .. Len(s) + 1 -> Seq(T)]
           /\ Partials(PartialsOf(f, s, x), Append(s, x))
<1> DEFINE n == Len(s)
           a == Append(s, x)
           g == PartialsOf(f, s, x)
<1>1. n \in Nat /\ Len(a) = n + 1 /\ a[n + 1] = x /\ \A k \in 1 .. n : a[k] = s[k]
  BY AppendProperties
<1>2. n # 0 => f[n] \in Seq(T) /\ f[n] \o x \in Seq(T)
  <2> SUFFICES ASSUME n # 0 PROVE f[n] \in Seq(T) /\ f[n] \o x \in Seq(T)
    OBVIOUS
  <2>1. n \in 1 .. Len(s)
    BY <1>1
  <2>2. f[n] \in Seq(T)
    BY <2>1
  <2>3. QED
    BY <2>2, ConcatProperties
<1>3. g \in [1 .. n + 1 -> Seq(T)]
  BY <1>1, <1>2 DEF PartialsOf
<1>4. \A k \in 1 .. n : f[k] = IF k = 1 THEN s[k] ELSE f[k - 1] \o s[k]
  BY DEF Partials
<1>5. (\A k \in 1 .. n : g[k] = f[k]) /\ g[n + 1] = IF n = 0 THEN x ELSE f[n] \o x
  BY <1>1 DEF PartialsOf
<1> HIDE DEF n, a, g
<1>6. ASSUME NEW k \in 1 .. n + 1
      PROVE  g[k] = IF k = 1 THEN a[k] ELSE g[k - 1] \o a[k]
  <2>1. CASE k <= n
    <3>1. k \in 1 .. n /\ (k # 1 => k - 1 \in 1 .. n)
      BY <1>1, <2>1
    <3>2. QED
      BY <1>1, <1>4, <1>5, <3>1
  <2>2. CASE k = n + 1
    <3>1. k - 1 = n /\ (k = 1 <=> n = 0) /\ (n # 0 => n \in 1 .. n)
      BY <1>1, <2>2
    <3>2. QED
      BY <1>1, <1>5, <2>2, <3>1
  <2>3. QED
    BY <1>1, <2>1, <2>2
<1>7. Partials(g, a)
  BY <1>1, <1>3, <1>6 DEF Partials
<1>8. QED
  BY <1>3, <1>7 DEF n, a, g

\* A sequence that is not empty ends with its last element.
LEMMA LastSplit ==
    ASSUME NEW S, NEW n \in Nat, NEW a \in Seq(S), Len(a) = n + 1
    PROVE  /\ SubSeq(a, 1, n) \in Seq(S) /\ Len(SubSeq(a, 1, n)) = n
           /\ a[n + 1] \in S
           /\ a = Append(SubSeq(a, 1, n), a[n + 1])
<1> DEFINE s == SubSeq(a, 1, n)
           x == a[n + 1]
<1>1. \A k \in 1 .. n : a[k] \in S
  OBVIOUS
<1>2. x \in S /\ s \in Seq(S) /\ Len(s) = n /\ \A k \in 1 .. n : s[k] = a[k]
  BY <1>1, SubSeqProperties
<1> HIDE DEF s
<1>3. /\ Append(s, x) \in Seq(S) /\ Len(Append(s, x)) = n + 1
      /\ \A k \in 1 .. n : Append(s, x)[k] = s[k]
      /\ Append(s, x)[n + 1] = x
  BY <1>2, AppendProperties
<1>4. \A k \in 1 .. Len(a) : a[k] = Append(s, x)[k]
  <2> TAKE k \in 1 .. Len(a)
  <2>1. k \in 1 .. n \/ k = n + 1
    OBVIOUS
  <2>2. QED
    BY <1>2, <1>3, <2>1
<1>5. a = Append(s, x)
  BY <1>3, <1>4, SeqEqual
<1>6. QED
  BY <1>2, <1>5 DEF s

LEMMA PartialsExist ==
    ASSUME NEW T
    PROVE  \A s \in Seq(Seq(T)) : \E f \in [1 .. Len(s) -> Seq(T)] : Partials(f, s)
<1> DEFINE P(s) == \E f \in [1 .. Len(s) -> Seq(T)] : Partials(f, s)
           S == {n \in Nat : \A s \in Seq(Seq(T)) : Len(s) = n => P(s)}
<1> HIDE DEF S
<1>1. 0 \in S
  <2> SUFFICES ASSUME NEW s \in Seq(Seq(T)), Len(s) = 0 PROVE P(s)
    BY DEF S
  <2> DEFINE f == [k \in 1 .. 0 |-> <<>>]
  <2>1. f \in [1 .. Len(s) -> Seq(T)] /\ Partials(f, s)
    BY DEF Partials
  <2>2. QED
    BY <2>1
<1>2. ASSUME NEW n \in Nat, n \in S PROVE n + 1 \in S
  <2> SUFFICES ASSUME NEW a \in Seq(Seq(T)), Len(a) = n + 1 PROVE P(a)
    BY DEF S
  <2>1. PICK s \in Seq(Seq(T)), x \in Seq(T) : Len(s) = n /\ a = Append(s, x)
    <3>1. /\ SubSeq(a, 1, n) \in Seq(Seq(T)) /\ Len(SubSeq(a, 1, n)) = n
          /\ a[n + 1] \in Seq(T)
          /\ a = Append(SubSeq(a, 1, n), a[n + 1])
      BY LastSplit
    <3>2. QED
      BY <3>1
  <2>3. PICK f \in [1 .. Len(s) -> Seq(T)] : Partials(f, s)
    BY <1>2, <2>1 DEF S
  <2>4. /\ PartialsOf(f, s, x) \in [1 .. Len(a) -> Seq(T)]
        /\ Partials(PartialsOf(f, s, x), a)
    BY <2>1, <2>3, PartialsExtend
  <2>5. QED
    BY <2>4
<1>3. Nat \subseteq S
  BY <1>1, <1>2, SetInduction
<1>4. ASSUME NEW s \in Seq(Seq(T)) PROVE P(s)
  <2>1. Len(s) \in S
    BY <1>3
  <2>2. QED
    BY <2>1 DEF S
<1>5. QED
  BY <1>4

LEMMA FlattenIs ==
    ASSUME NEW T, NEW s \in Seq(Seq(T)), NEW f, Partials(f, s)
    PROVE  FlattenSeq(s) = IF Len(s) = 0 THEN <<>> ELSE f[Len(s)]
<1>1. CASE Len(s) = 0
  BY <1>1 DEF FlattenSeq
<1>2. CASE Len(s) # 0
  <2> DEFINE g == CHOOSE h : h = [k \in 1 .. Len(s) |-> IF k = 1 THEN s[k] ELSE h[k - 1] \o s[k]]
  <2>1. FlattenSeq(s) = g[Len(s)]
    BY <1>2 DEF FlattenSeq
  <2>2. Partials(g, s)
    BY Zenon DEF Partials
  <2>3. g = f
    <3> HIDE DEF g
    <3>1. QED
      BY <2>2, PartialsUnique
  <2>4. QED
    BY <1>2, <2>1, <2>3
<1>3. QED
  BY <1>1, <1>2

LEMMA FlattenAppend ==
    ASSUME NEW T, NEW s \in Seq(Seq(T)), NEW x \in Seq(T)
    PROVE  /\ FlattenSeq(s) \in Seq(T)
           /\ FlattenSeq(Append(s, x)) = FlattenSeq(s) \o x
<1>1. PICK f \in [1 .. Len(s) -> Seq(T)] : Partials(f, s)
  BY PartialsExist
<1> DEFINE a == Append(s, x)
           g == PartialsOf(f, s, x)
<1>2. Partials(g, a) /\ a \in Seq(Seq(T)) /\ Len(a) = Len(s) + 1 /\ Len(s) \in Nat
  BY <1>1, PartialsExtend, AppendProperties
<1>3. FlattenSeq(s) = IF Len(s) = 0 THEN <<>> ELSE f[Len(s)]
  BY <1>1, FlattenIs
<1>4. FlattenSeq(s) \in Seq(T)
  <2>1. CASE Len(s) = 0
    BY <1>3, <2>1
  <2>2. CASE Len(s) # 0
    <3>1. Len(s) \in 1 .. Len(s)
      BY <1>2, <2>2
    <3>2. f[Len(s)] \in Seq(T)
      BY <1>1, <3>1
    <3>3. QED
      BY <1>3, <2>2, <3>2
  <2>3. QED
    BY <2>1, <2>2
<1>5. g[Len(s) + 1] = IF Len(s) = 0 THEN x ELSE f[Len(s)] \o x
  BY <1>2 DEF PartialsOf
<1> HIDE DEF a, g
<1>6. FlattenSeq(a) = g[Len(s) + 1]
  BY <1>2, FlattenIs
<1>7. <<>> \o x = x
  BY ConcatEmptySeq
<1>8. QED
  BY <1>3, <1>4, <1>5, <1>6, <1>7 DEF a

LEMMA FlattenFirst ==
    ASSUME NEW T, NEW x \in Seq(T)
    PROVE  \A s \in Seq(Seq(T)) : FlattenSeq(<<x>> \o s) = x \o FlattenSeq(s)
<1> DEFINE S == {n \in Nat : \A s \in Seq(Seq(T)) :
                   Len(s) = n => FlattenSeq(<<x>> \o s) = x \o FlattenSeq(s)}
<1> HIDE DEF S
<1>0. <<x>> \in Seq(Seq(T)) /\ <<>> \in Seq(Seq(T)) /\ FlattenSeq(<<>>) = <<>>
  BY DEF FlattenSeq
<1>1. 0 \in S
  <2> SUFFICES ASSUME NEW s \in Seq(Seq(T)), Len(s) = 0
               PROVE  FlattenSeq(<<x>> \o s) = x \o FlattenSeq(s)
    BY DEF S
  <2>1. s = <<>>
    OBVIOUS
  <2>2. <<x>> \o s = Append(<<>>, x)
    BY <2>1
  <2>3. FlattenSeq(Append(<<>>, x)) = FlattenSeq(<<>>) \o x
    BY <1>0, FlattenAppend
  <2>4. <<>> \o x = x /\ x \o <<>> = x
    BY ConcatEmptySeq
  <2>5. QED
    BY <1>0, <2>1, <2>2, <2>3, <2>4
<1>2. ASSUME NEW n \in Nat, n \in S PROVE n + 1 \in S
  <2>0. n + 1 \in Nat
    OBVIOUS
  <2> SUFFICES ASSUME NEW a \in Seq(Seq(T)), Len(a) = n + 1
               PROVE  FlattenSeq(<<x>> \o a) = x \o FlattenSeq(a)
    BY <2>0, Zenon DEF S
  <2>1. PICK s \in Seq(Seq(T)), y \in Seq(T) : Len(s) = n /\ a = Append(s, y)
    <3>1. /\ SubSeq(a, 1, n) \in Seq(Seq(T)) /\ Len(SubSeq(a, 1, n)) = n
          /\ a[n + 1] \in Seq(T)
          /\ a = Append(SubSeq(a, 1, n), a[n + 1])
      BY LastSplit
    <3>2. QED
      BY <3>1
  <2>3. FlattenSeq(<<x>> \o s) = x \o FlattenSeq(s)
    BY <1>2, <2>1 DEF S
  <2>4. <<x>> \o a = Append(<<x>> \o s, y) /\ <<x>> \o s \in Seq(Seq(T))
    <3>1. Append(s, y) = s \o <<y>> /\ <<y>> \in Seq(Seq(T))
      BY <2>1, AppendIsConcat
    <3>2. <<x>> \o s \in Seq(Seq(T))
      BY <1>0, <2>1, ConcatProperties
    <3>3. (<<x>> \o s) \o <<y>> = <<x>> \o (s \o <<y>>)
      BY <1>0, <2>1, <3>1, ConcatAssociative
    <3>4. Append(<<x>> \o s, y) = (<<x>> \o s) \o <<y>>
      BY <2>1, <3>2, AppendIsConcat
    <3>5. QED
      BY <2>1, <3>1, <3>2, <3>3, <3>4
  <2>5. /\ FlattenSeq(<<x>> \o a) = FlattenSeq(<<x>> \o s) \o y
        /\ FlattenSeq(a) = FlattenSeq(s) \o y /\ FlattenSeq(s) \in Seq(T)
    BY <2>1, <2>4, FlattenAppend
  <2>6. (x \o FlattenSeq(s)) \o y = x \o (FlattenSeq(s) \o y)
    BY <2>1, <2>5, ConcatAssociative
  <2>7. QED
    BY <2>3, <2>5, <2>6
<1>3. Nat \subseteq S
  BY <1>1, <1>2, SetInduction
<1>4. QED
  <2> SUFFICES ASSUME NEW s \in Seq(Seq(T))
               PROVE  FlattenSeq(<<x>> \o s) = x \o FlattenSeq(s)
    OBVIOUS
  <2>1. Len(s) \in S
    BY <1>3
  <2>2. QED
    BY <2>1 DEF S
-----------------------------------------------------------------------------
(* The frames due, as the transmit FIFO has them.                          *)

Enc(d) == [k \in 1 .. Len(d) |-> Encode(d[k])]

LEMMA EncType ==
    ASSUME NEW d \in Seq(Seq(Nat))
    PROVE  Enc(d) \in Seq(Seq(Nat)) /\ Len(Enc(d)) = Len(d)
<1>1. \A k \in 1 .. Len(d) : Encode(d[k]) \in Seq(Nat)
  BY EncodeSeq
<1>2. QED
  BY <1>1 DEF Enc

LEMMA EncAppend ==
    ASSUME NEW d \in Seq(Seq(Nat)), NEW f \in Seq(Nat)
    PROVE  FlattenSeq(Enc(Append(d, f))) = FlattenSeq(Enc(d)) \o Encode(f)
<1>1. /\ Append(d, f) \in Seq(Seq(Nat)) /\ Len(Append(d, f)) = Len(d) + 1
      /\ \A k \in 1 .. Len(d) : Append(d, f)[k] = d[k]
      /\ Append(d, f)[Len(d) + 1] = f
  BY AppendProperties
<1>2. Encode(f) \in Seq(Nat) /\ Enc(d) \in Seq(Seq(Nat)) /\ Len(Enc(d)) = Len(d)
  BY EncodeSeq, EncType
<1>3. Enc(Append(d, f)) = Append(Enc(d), Encode(f))
  <2> DEFINE a == Enc(Append(d, f))
             b == Append(Enc(d), Encode(f))
  <2>1. a \in Seq(Seq(Nat)) /\ Len(a) = Len(d) + 1
    BY <1>1, EncType
  <2>2. /\ b \in Seq(Seq(Nat)) /\ Len(b) = Len(d) + 1
        /\ \A k \in 1 .. Len(d) : b[k] = Enc(d)[k]
        /\ b[Len(d) + 1] = Encode(f)
    BY <1>2, AppendProperties
  <2>3. \A k \in 1 .. Len(d) : a[k] = Encode(d[k]) /\ Enc(d)[k] = Encode(d[k])
    BY <1>1 DEF Enc
  <2>4. a[Len(d) + 1] = Encode(f)
    BY <1>1 DEF Enc
  <2> HIDE DEF a, b
  <2>5. \A k \in 1 .. Len(a) : a[k] = b[k]
    <3> TAKE k \in 1 .. Len(a)
    <3>1. k \in 1 .. Len(d) \/ k = Len(d) + 1
      BY <2>1
    <3>2. QED
      BY <2>2, <2>3, <2>4, <3>1
  <2>6. a = b
    BY <2>1, <2>2, <2>5, SeqEqual
  <2>7. QED
    BY <2>6 DEF a, b
<1>4. QED
  BY <1>2, <1>3, FlattenAppend

\* A concatenation, element by element.
LEMMA ConcatIs ==
    ASSUME NEW S, NEW h \in Seq(S), NEW e \in Seq(S)
    PROVE  /\ h \o e \in Seq(S) /\ Len(h \o e) = Len(h) + Len(e)
           /\ \A k \in 1 .. Len(h) + Len(e) :
                 (h \o e)[k] = IF k <= Len(h) THEN h[k] ELSE e[k - Len(h)]
  BY ConcatProperties

LEMMA EncHead ==
    ASSUME NEW d \in Seq(Seq(Nat)), d # <<>>
    PROVE  /\ Head(d) \in Seq(Nat) /\ Tail(d) \in Seq(Seq(Nat))
           /\ FlattenSeq(Enc(d)) = Encode(Head(d)) \o FlattenSeq(Enc(Tail(d)))
<1>1. /\ Head(d) \in Seq(Nat) /\ Tail(d) \in Seq(Seq(Nat))
      /\ Len(Tail(d)) = Len(d) - 1 /\ Len(d) \in Nat /\ Len(d) >= 1
      /\ \A k \in 1 .. Len(Tail(d)) : Tail(d)[k] = d[k + 1]
  BY HeadTailProperties
<1>2. Encode(Head(d)) \in Seq(Nat)
  BY <1>1, EncodeSeq
<1>3. Enc(d) = <<Encode(Head(d))>> \o Enc(Tail(d))
  <2> DEFINE a == Enc(d)
             h == <<Encode(Head(d))>>
             e == Enc(Tail(d))
  <2>1. a \in Seq(Seq(Nat)) /\ Len(a) = Len(d) /\ e \in Seq(Seq(Nat)) /\ Len(e) = Len(d) - 1
    BY <1>1, EncType
  <2>2. h \in Seq(Seq(Nat)) /\ Len(h) = 1 /\ h[1] = Encode(Head(d))
    BY <1>2
  <2>3. /\ \A k \in 1 .. Len(d) : a[k] = Encode(d[k])
        /\ \A k \in 1 .. Len(d) - 1 : e[k] = Encode(d[k + 1])
    BY <1>1 DEF Enc
  <2>4. Head(d) = d[1]
    BY <1>1
  <2> HIDE DEF a, h, e
  <2>5. /\ h \o e \in Seq(Seq(Nat)) /\ Len(h \o e) = 1 + (Len(d) - 1)
        /\ \A k \in 1 .. 1 + (Len(d) - 1) :
              (h \o e)[k] = IF k <= 1 THEN h[k] ELSE e[k - 1]
    <3>1. /\ h \o e \in Seq(Seq(Nat)) /\ Len(h \o e) = Len(h) + Len(e)
          /\ \A k \in 1 .. Len(h) + Len(e) :
                (h \o e)[k] = IF k <= Len(h) THEN h[k] ELSE e[k - Len(h)]
      <4> DEFINE U == Seq(Nat)
      <4>1. h \in Seq(U) /\ e \in Seq(U)
        BY <2>1, <2>2
      <4> HIDE DEF U
      <4>2. /\ h \o e \in Seq(U) /\ Len(h \o e) = Len(h) + Len(e)
            /\ \A k \in 1 .. Len(h) + Len(e) :
                  (h \o e)[k] = IF k <= Len(h) THEN h[k] ELSE e[k - Len(h)]
        BY <4>1, ConcatIs
      <4>3. QED
        BY <4>2 DEF U
    <3>2. QED
      BY <2>1, <2>2, <3>1
  <2>6. ASSUME NEW k \in 1 .. Len(a) PROVE a[k] = (h \o e)[k]
    <3>1. CASE k = 1
      BY <1>1, <2>1, <2>2, <2>3, <2>4, <2>5, <3>1
    <3>2. CASE k # 1
      <4>1. k - 1 \in 1 .. Len(d) - 1 /\ (k - 1) + 1 = k /\ k \in 1 .. Len(d)
            /\ ~(k <= 1) /\ k \in 1 .. 1 + (Len(d) - 1)
        BY <1>1, <2>1, <3>2
      <4>2. e[k - 1] = Encode(d[k])
        BY <2>3, <4>1
      <4>3. QED
        BY <2>3, <2>5, <4>1, <4>2
    <3>3. QED
      BY <3>1, <3>2
  <2>7. Len(a) = Len(h \o e)
    BY <1>1, <2>1, <2>5
  <2>8. a = h \o e
    BY <2>1, <2>5, <2>6, <2>7, SeqEqual
  <2>9. QED
    BY <2>8 DEF a, h, e
<1>4. Enc(Tail(d)) \in Seq(Seq(Nat))
  BY <1>1, EncType
<1>5. QED
  BY <1>1, <1>2, <1>3, <1>4, FlattenFirst
-----------------------------------------------------------------------------
(* What pano_netif_output writes.                                          *)

\* The transmit FIFO and the rest of the chain are the frames due; a byte the
\* FIFO did not take leaves nothing to say of it until the MAC resets it.
TxInv ==
    /\ tx \in Seq(Nat) /\ chain \in Seq(Seq(Nat)) /\ due \in Seq(Seq(Nat))
    /\ TxLen \in Nat /\ txLost \in BOOLEAN
    /\ \A k \in 1 .. Len(chain) : k = 1 \/ chain[k] # <<>>
    /\ txLost => tx = <<>>
    /\ Writing => TxLen = Len(FlattenSeq(chain))
    /\ ~Writing => FlattenSeq(chain) = <<>>
    /\ pc = "txdata" => TxLen > 0
    /\ TxIntact

\* A sequence that is not empty begins with its first element.
LEMMA HeadSplit ==
    ASSUME NEW S, NEW s \in Seq(S), s # <<>>
    PROVE  /\ Head(s) \in S /\ Tail(s) \in Seq(S) /\ <<Head(s)>> \in Seq(S)
           /\ s = <<Head(s)>> \o Tail(s)
<1> DEFINE h == <<Head(s)>>
           e == Tail(s)
<1>1. /\ Head(s) \in S /\ e \in Seq(S) /\ Len(e) = Len(s) - 1
      /\ Len(s) \in Nat /\ Len(s) >= 1 /\ Head(s) = s[1]
      /\ \A k \in 1 .. Len(e) : e[k] = s[k + 1]
  BY HeadTailProperties
<1>2. h \in Seq(S) /\ Len(h) = 1 /\ h[1] = s[1]
  BY <1>1
<1>0. e \in Seq(S)
  BY <1>1
<1>t. h \in Seq(S)
  BY <1>2
<1> HIDE DEF h, e
<1>3. /\ h \o e \in Seq(S) /\ Len(h \o e) = Len(h) + Len(e)
      /\ \A k \in 1 .. Len(h) + Len(e) :
            (h \o e)[k] = IF k <= Len(h) THEN h[k] ELSE e[k - Len(h)]
  BY <1>0, <1>t, ConcatIs
<1>4. \A k \in 1 .. Len(s) : s[k] = (h \o e)[k]
  <2> TAKE k \in 1 .. Len(s)
  <2>1. CASE k = 1
    BY <1>1, <1>2, <1>3, <2>1
  <2>2. CASE k # 1
    <3>1. k - 1 \in 1 .. Len(e) /\ (k - 1) + 1 = k /\ ~(k <= 1)
          /\ k \in 1 .. Len(h) + Len(e)
      BY <1>1, <1>2, <2>2
    <3>2. e[k - 1] = s[k]
      BY <1>1, <3>1
    <3>3. QED
      BY <1>2, <1>3, <3>1, <3>2
  <2>3. QED
    BY <2>1, <2>2
<1>5. Len(s) = Len(h \o e)
  BY <1>1, <1>2, <1>3
<1>6. s = h \o e
  BY <1>3, <1>4, <1>5, SeqEqual
<1>7. QED
  BY <1>1, <1>2, <1>6 DEF h, e

\* A byte moves from what is to be written to what has been.
LEMMA PushOne ==
    ASSUME NEW t \in Seq(Nat), NEW w \in Seq(Nat), NEW b \in Nat
    PROVE  Append(t, b) \in Seq(Nat) /\ Append(t, b) \o w = t \o (<<b>> \o w)
<1>1. <<b>> \in Seq(Nat)
  OBVIOUS
<1>2. Append(t, b) = t \o <<b>>
  BY AppendIsConcat
<1>3. (t \o <<b>>) \o w = t \o (<<b>> \o w)
  BY <1>1, ConcatAssociative
<1>4. QED
  BY <1>2, <1>3

\* Two ways to cut the same sequence: the longer front begins with the other.
LEMMA CutFront ==
    ASSUME NEW t \in Seq(Nat), NEW w \in Seq(Nat), NEW e \in Seq(Nat), NEW r \in Seq(Nat),
           t \o w = e \o r, Len(t) >= Len(e)
    PROVE  /\ SubSeq(t, Len(e) + 1, Len(t)) \in Seq(Nat)
           /\ SubSeq(t, Len(e) + 1, Len(t)) \o w = r
<1> DEFINE m == Len(e)
           n == Len(t)
           s == SubSeq(t, m + 1, n)
<1>1. m \in Nat /\ n \in Nat /\ Len(w) \in Nat /\ Len(r) \in Nat /\ m <= n
  OBVIOUS
<1>2. s \in Seq(Nat) /\ Len(s) = n - m /\ \A k \in 1 .. n - m : s[k] = t[m + k]
  <2>1. \A k \in (m + 1) .. n : t[k] \in Nat
    BY <1>1
  <2>2. /\ s \in Seq(Nat)
        /\ Len(s) = IF m + 1 <= n THEN n - (m + 1) + 1 ELSE 0
        /\ \A k \in 1 .. n - (m + 1) + 1 : s[k] = t[m + 1 + k - 1]
    BY <1>1, <2>1, SubSeqProperties
  <2>3. QED
    BY <1>1, <2>2
<1>3. /\ t \o w \in Seq(Nat) /\ Len(t \o w) = n + Len(w)
      /\ \A k \in 1 .. n + Len(w) : (t \o w)[k] = IF k <= n THEN t[k] ELSE w[k - n]
  BY ConcatIs
<1>4. /\ e \o r \in Seq(Nat) /\ Len(e \o r) = m + Len(r)
      /\ \A k \in 1 .. m + Len(r) : (e \o r)[k] = IF k <= m THEN e[k] ELSE r[k - m]
  BY ConcatIs
<1>5. n + Len(w) = m + Len(r)
  BY <1>3, <1>4
<1> HIDE DEF s
<1>6. /\ s \o w \in Seq(Nat) /\ Len(s \o w) = Len(s) + Len(w)
      /\ \A k \in 1 .. Len(s) + Len(w) :
            (s \o w)[k] = IF k <= Len(s) THEN s[k] ELSE w[k - Len(s)]
  BY <1>2, ConcatIs
<1> HIDE DEF m, n
<1>7. Len(s \o w) = Len(r)
  BY <1>1, <1>2, <1>5, <1>6
<1>8. ASSUME NEW k \in 1 .. Len(r) PROVE (s \o w)[k] = r[k]
  <2>1. k + m \in 1 .. m + Len(r) /\ ~(k + m <= m) /\ (k + m) - m = k
        /\ k \in 1 .. Len(s) + Len(w) /\ k + m \in 1 .. n + Len(w)
    BY <1>1, <1>2, <1>5
  <2>2. r[k] = (t \o w)[k + m]
    BY <1>4, <2>1 DEF m
  <2>3. CASE k <= n - m
    <3>1. k \in 1 .. n - m /\ k + m <= n /\ m + k = k + m
      BY <1>1, <2>3
    <3>2. (s \o w)[k] = t[k + m]
      BY <1>2, <1>6, <2>1, <3>1
    <3>3. QED
      BY <1>3, <2>1, <2>2, <3>1, <3>2
  <2>4. CASE k > n - m
    <3>1. ~(k <= Len(s)) /\ ~(k + m <= n) /\ k - Len(s) = (k + m) - n
      BY <1>1, <1>2, <2>4
    <3>2. (s \o w)[k] = w[(k + m) - n]
      BY <1>6, <2>1, <3>1
    <3>3. QED
      BY <1>3, <2>1, <2>2, <3>1, <3>2
  <2>5. k <= n - m \/ k > n - m
    BY <1>1
  <2>6. QED
    BY <2>3, <2>4, <2>5, Zenon
<1>9. s \o w = r
  BY <1>6, <1>7, <1>8, SeqEqual
<1>10. QED
  BY <1>2, <1>9 DEF s, m, n

\* The next byte of a chain that has one: the pbuf it is in, and what is left.
LEMMA ChainNext ==
    ASSUME NEW c \in Seq(Seq(Nat)), FlattenSeq(c) # <<>>,
           \A k \in 1 .. Len(c) : k = 1 \/ c[k] # <<>>
    PROVE  LET d == Current(c)
               r == <<Tail(Head(d))>> \o Tail(d)
           IN  /\ d # <<>> /\ Head(d) # <<>> /\ Head(Head(d)) \in Nat
               /\ r \in Seq(Seq(Nat)) /\ FlattenSeq(r) \in Seq(Nat)
               /\ \A k \in 1 .. Len(r) : k = 1 \/ r[k] # <<>>
               /\ FlattenSeq(c) = <<Head(Head(d))>> \o FlattenSeq(r)
<1> DEFINE d == Current(c)
           x == Head(d)
           z == Tail(d)
           r == <<Tail(x)>> \o z
<1>1. FlattenSeq(<<>>) = <<>>
  BY DEF FlattenSeq
<1>2. \A s \in Seq(Seq(Nat)) : FlattenSeq(s) \in Seq(Nat)
  <2> TAKE s \in Seq(Seq(Nat))
  <2>1. <<>> \in Seq(Nat)
    OBVIOUS
  <2>2. QED
    BY <2>1, FlattenAppend
<1>3. \A s \in Seq(Seq(Nat)) : s # <<>> =>
         /\ Head(s) \in Seq(Nat) /\ Tail(s) \in Seq(Seq(Nat))
         /\ FlattenSeq(s) = Head(s) \o FlattenSeq(Tail(s))
  <2> SUFFICES ASSUME NEW s \in Seq(Seq(Nat)), s # <<>>
               PROVE  /\ Head(s) \in Seq(Nat) /\ Tail(s) \in Seq(Seq(Nat))
                      /\ FlattenSeq(s) = Head(s) \o FlattenSeq(Tail(s))
    OBVIOUS
  <2>1. /\ Head(s) \in Seq(Nat) /\ Tail(s) \in Seq(Seq(Nat))
        /\ s = <<Head(s)>> \o Tail(s)
    BY HeadSplit
  <2>2. FlattenSeq(<<Head(s)>> \o Tail(s)) = Head(s) \o FlattenSeq(Tail(s))
    BY <2>1, FlattenFirst
  <2>3. QED
    BY <2>1, <2>2
<1>4. c # <<>>
  BY <1>1
<1>5. /\ d \in Seq(Seq(Nat)) /\ d # <<>> /\ x # <<>>
      /\ FlattenSeq(d) = FlattenSeq(c)
      /\ \A k \in 2 .. Len(d) : d[k] # <<>>
  <2>1. CASE Head(c) = <<>>
    <3>1. d = Tail(c)
      BY <2>1 DEF Current
    <3>2. Tail(c) \in Seq(Seq(Nat)) /\ FlattenSeq(c) = <<>> \o FlattenSeq(Tail(c))
      BY <1>3, <1>4, <2>1
    <3>3. FlattenSeq(Tail(c)) \in Seq(Nat)
      BY <1>2, <3>2
    <3>4. FlattenSeq(c) = FlattenSeq(Tail(c))
      BY <3>2, <3>3, ConcatEmptySeq
    <3>5. Tail(c) # <<>>
      BY <1>1, <3>4
    <3>6. /\ Len(Tail(c)) = Len(c) - 1 /\ Len(c) \in Nat
          /\ \A k \in 1 .. Len(Tail(c)) : Tail(c)[k] = c[k + 1]
      BY <1>4, HeadTailProperties
    <3>7. \A k \in 1 .. Len(Tail(c)) : Tail(c)[k] # <<>>
      <4> TAKE k \in 1 .. Len(Tail(c))
      <4>1. k + 1 \in 1 .. Len(c) /\ k + 1 # 1
        BY <3>6
      <4>2. QED
        BY <3>6, <4>1
    <3>8. 1 \in 1 .. Len(Tail(c)) /\ Head(Tail(c)) = Tail(c)[1]
      BY <3>2, <3>5
    <3>9. QED
      BY <3>1, <3>2, <3>4, <3>5, <3>7, <3>8
  <2>2. CASE Head(c) # <<>>
    <3>1. d = c
      BY <2>2 DEF Current
    <3>2. \A k \in 2 .. Len(c) : c[k] # <<>>
      OBVIOUS
    <3>3. QED
      BY <1>4, <2>2, <3>1, <3>2
  <2>3. QED
    BY <2>1, <2>2
<1>6. x \in Seq(Nat) /\ z \in Seq(Seq(Nat)) /\ FlattenSeq(d) = x \o FlattenSeq(z)
  BY <1>3, <1>5
<1>7. /\ Head(x) \in Nat /\ Tail(x) \in Seq(Nat) /\ <<Head(x)>> \in Seq(Nat)
      /\ x = <<Head(x)>> \o Tail(x)
  BY <1>5, <1>6, HeadSplit
<1>8. /\ Len(z) = Len(d) - 1 /\ Len(d) \in Nat
      /\ \A k \in 1 .. Len(z) : z[k] = d[k + 1]
  BY <1>5, HeadTailProperties
<1> HIDE DEF d, x, z
<1>9. r \in Seq(Seq(Nat)) /\ \A k \in 1 .. Len(r) : k = 1 \/ r[k] # <<>>
  <2> DEFINE U == Seq(Nat)
             h == <<Tail(x)>>
  <2>1. h \in Seq(U) /\ z \in Seq(U) /\ Len(h) = 1
    BY <1>6, <1>7
  <2> HIDE DEF U, h
  <2>2. /\ h \o z \in Seq(U) /\ Len(h \o z) = Len(h) + Len(z)
        /\ \A k \in 1 .. Len(h) + Len(z) :
              (h \o z)[k] = IF k <= Len(h) THEN h[k] ELSE z[k - Len(h)]
    BY <2>1, ConcatIs
  <2>3. ASSUME NEW k \in 1 .. Len(h \o z), k # 1 PROVE (h \o z)[k] # <<>>
    <3>1. /\ k \in 1 .. Len(h) + Len(z) /\ ~(k <= Len(h)) /\ k - Len(h) \in 1 .. Len(z)
          /\ (k - Len(h)) + 1 \in 2 .. Len(d)
      BY <1>8, <2>1, <2>2, <2>3
    <3>2. (h \o z)[k] = d[(k - Len(h)) + 1]
      BY <1>8, <2>2, <3>1
    <3>3. QED
      BY <1>5, <3>1, <3>2
  <2>4. QED
    BY <2>2, <2>3 DEF U, h
<1>10. FlattenSeq(r) = Tail(x) \o FlattenSeq(z) /\ FlattenSeq(z) \in Seq(Nat)
  BY <1>2, <1>6, <1>7, FlattenFirst
<1>11. (<<Head(x)>> \o Tail(x)) \o FlattenSeq(z) = <<Head(x)>> \o (Tail(x) \o FlattenSeq(z))
  BY <1>7, <1>10, ConcatAssociative
<1>12. FlattenSeq(c) = <<Head(x)>> \o FlattenSeq(r)
  BY <1>5, <1>6, <1>7, <1>10, <1>11
<1>13. FlattenSeq(r) \in Seq(Nat)
  BY <1>2, <1>9
<1>14. QED
  BY <1>5, <1>7, <1>9, <1>12, <1>13 DEF d, x, z

\* A write of the next byte keeps the FIFO and the bytes to come the frames due.
LEMMA WriteKeeps ==
    ASSUME NEW b \in Nat, NEW w \in Seq(Nat), Write(b),
           tx \in Seq(Nat), due \in Seq(Seq(Nat)), txLost \in BOOLEAN,
           TxIntact, ToWrite = <<b>> \o w
    PROVE  /\ tx' \in Seq(Nat) /\ due' \in Seq(Seq(Nat)) /\ txLost' \in BOOLEAN
           /\ txLost' => tx' = <<>>
           /\ ~txLost' => tx' \o w = FlattenSeq(Enc(due'))
<1>1. CASE ~txLost /\ Len(tx) < TxDepth
  <2>1. tx' = Append(tx, b) /\ due' = due /\ txLost' = txLost
    BY <1>1 DEF Write
  <2>2. tx \o (<<b>> \o w) = FlattenSeq(Enc(due))
    BY <1>1 DEF TxIntact, Enc
  <2>3. Append(tx, b) \in Seq(Nat) /\ Append(tx, b) \o w = tx \o (<<b>> \o w)
    BY PushOne
  <2>4. QED
    BY <1>1, <2>1, <2>2, <2>3
<1>2. CASE ~(~txLost /\ Len(tx) < TxDepth)
  <2>1. txLost' = TRUE /\ due' = <<>> /\ tx' = <<>>
    BY <1>2 DEF Write
  <2>2. QED
    BY <2>1
<1>3. QED
  BY <1>1, <1>2

LEMMA OutputTxInv ==
    ASSUME TxInv, NEW c \in TxChains, Output(c)
    PROVE  TxInv'
<1> DEFINE fl == FlattenSeq(c)
<1>1. /\ pc = "stack" /\ pc' = "txhigh" /\ chain' = c /\ TxLen' = Len(fl)
      /\ due' = IF txLost THEN due ELSE Append(due, fl)
      /\ tx' = tx /\ txLost' = txLost
  BY DEF Output, tot_len
<1>2. c \in Seq(Seq(Nat)) /\ \A k \in 1 .. Len(c) : k = 1 \/ c[k] # <<>>
  <2>1. c \in Seq(Seq(Bytes)) /\ \A k \in 1 .. Len(c) : k = 1 \/ c[k] # <<>>
    BY EthAssumption
  <2>2. \A s \in Seq(Bytes) : s \in Seq(Nat)
    <3> TAKE s \in Seq(Bytes)
    <3>1. \A k \in 1 .. Len(s) : s[k] \in Nat
      BY EthAssumption DEF Bytes
    <3>2. QED
      BY <3>1
  <2>3. \A k \in 1 .. Len(c) : c[k] \in Seq(Nat)
    BY <2>1, <2>2
  <2>4. QED
    BY <2>1, <2>3
<1>3. fl \in Seq(Nat)
  <2>1. <<>> \in Seq(Nat)
    OBVIOUS
  <2>2. QED
    BY <1>2, <2>1, FlattenAppend
<1>4. /\ tx \in Seq(Nat) /\ due \in Seq(Seq(Nat)) /\ txLost \in BOOLEAN
      /\ txLost => tx = <<>>
      /\ FlattenSeq(chain) = <<>> /\ TxIntact
  BY <1>1 DEF TxInv, Writing
<1> HIDE DEF fl
<1>5. due' \in Seq(Seq(Nat))
  BY <1>1, <1>3, <1>4, AppendProperties
<1>6. ASSUME ~txLost
      PROVE  tx \o (<<Len(fl) \div ByteMod, Len(fl) % ByteMod>> \o fl) = FlattenSeq(Enc(due'))
  <2>1. due' = Append(due, fl)
    BY <1>1, <1>6
  <2>2. ToWrite = <<>>
    BY <1>1, <1>4 DEF ToWrite
  <2>3. tx \o <<>> = tx
    BY <1>4, ConcatEmptySeq
  <2>4. tx = FlattenSeq(Enc(due))
    BY <1>4, <1>6, <2>2, <2>3 DEF TxIntact, Enc
  <2>5. FlattenSeq(Enc(Append(due, fl))) = FlattenSeq(Enc(due)) \o Encode(fl)
    BY <1>3, <1>4, EncAppend
  <2>6. QED
    BY <2>1, <2>4, <2>5 DEF Encode
<1>7. TxIntact'
  <2>1. ToWrite' = <<Len(fl) \div ByteMod, Len(fl) % ByteMod>> \o fl
    BY <1>1 DEF ToWrite, fl
  <2>2. QED
    BY <1>1, <1>6, <2>1 DEF TxIntact, Enc
<1>8. Len(fl) \in Nat
  BY <1>3
<1>9. QED
  BY <1>1, <1>2, <1>4, <1>5, <1>7, <1>8 DEF TxInv, Writing, fl

LEMMA WriteLengthTxInv ==
    ASSUME TxInv, WriteHigh \/ WriteLow
    PROVE  TxInv'
<1> DEFINE fl == FlattenSeq(chain)
           q == TxLen \div ByteMod
           r == TxLen % ByteMod
<1>1. /\ tx \in Seq(Nat) /\ chain \in Seq(Seq(Nat)) /\ due \in Seq(Seq(Nat))
      /\ TxLen \in Nat /\ txLost \in BOOLEAN
      /\ \A k \in 1 .. Len(chain) : k = 1 \/ chain[k] # <<>>
      /\ TxIntact
  BY DEF TxInv
<1>2. TxLen = Len(fl) /\ chain' = chain /\ TxLen' = TxLen
  BY DEF TxInv, Writing, WriteHigh, WriteLow
<1>3. fl \in Seq(Nat)
  <2>1. <<>> \in Seq(Nat)
    OBVIOUS
  <2>2. QED
    BY <1>1, <2>1, FlattenAppend
<1>4. q \in Nat /\ r \in Nat
  BY <1>2, <1>3, EncodeSeq
<1> HIDE DEF fl, q, r
<1>5. CASE WriteHigh
  <2>1. pc = "txhigh" /\ pc' = "txlow" /\ Write(q)
    BY <1>5 DEF WriteHigh, q
  <2> DEFINE w == <<r>> \o fl
  <2>2. <<q>> \in Seq(Nat) /\ <<r>> \in Seq(Nat) /\ <<q>> \o <<r>> = <<q, r>>
    <3>1. <<q>> \in Seq(Nat) /\ <<r>> \in Seq(Nat)
      BY <1>4
    <3>2. Append(<<q>>, r) = <<q>> \o <<r>>
      BY <1>4, <3>1, AppendIsConcat
    <3>3. Append(<<q>>, r) = <<q, r>>
      <4> DEFINE a == <<q>>
                 o == <<q, r>>
      <4>1. /\ a \in Seq(Nat) /\ Len(a) = 1 /\ a[1] = q
            /\ o \in Seq(Nat) /\ Len(o) = 2 /\ o[1] = q /\ o[2] = r
        BY <1>4
      <4> HIDE DEF a, o
      <4>2. /\ Append(a, r) \in Seq(Nat) /\ Len(Append(a, r)) = Len(a) + 1
            /\ \A k \in 1 .. Len(a) : Append(a, r)[k] = a[k]
            /\ Append(a, r)[Len(a) + 1] = r
        <5>1. a \in Seq(Nat) /\ r \in Nat
          BY <1>4, <4>1
        <5>2. QED
          BY <5>1, AppendProperties
      <4>3. Len(Append(a, r)) = Len(o) /\ \A k \in 1 .. Len(o) : Append(a, r)[k] = o[k]
        BY <4>1, <4>2
      <4>4. Append(a, r) = o
        BY <4>1, <4>2, <4>3, SeqEqual
      <4>5. QED
        BY <4>4 DEF a, o
    <3>4. QED
      BY <3>1, <3>2, <3>3
  <2>3. ToWrite = <<q>> \o w
    <3>1. ToWrite = <<q, r>> \o fl
      BY <2>1 DEF ToWrite, q, r, fl
    <3>2. (<<q>> \o <<r>>) \o fl = <<q>> \o (<<r>> \o fl)
      BY <1>3, <2>2, ConcatAssociative
    <3>3. QED
      BY <2>2, <3>1, <3>2
  <2>4. w \in Seq(Nat)
    BY <1>3, <2>2, ConcatProperties
  <2>5. ToWrite' = w
    BY <1>2, <2>1 DEF ToWrite, r, fl
  <2> HIDE DEF w
  <2>6. /\ tx' \in Seq(Nat) /\ due' \in Seq(Seq(Nat)) /\ txLost' \in BOOLEAN
        /\ txLost' => tx' = <<>>
        /\ ~txLost' => tx' \o w = FlattenSeq(Enc(due'))
    BY <1>1, <1>4, <2>1, <2>3, <2>4, WriteKeeps
  <2>7. TxIntact'
    BY <2>5, <2>6 DEF TxIntact, Enc
  <2>8. QED
    BY <1>1, <1>2, <2>1, <2>6, <2>7 DEF TxInv, Writing, fl
<1>6. CASE WriteLow
  <2>1. /\ pc = "txlow" /\ pc' = IF TxLen = 0 THEN "stack" ELSE "txdata"
        /\ Write(r)
    BY <1>6 DEF WriteLow, r
  <2>2. ToWrite = <<r>> \o fl
    BY <2>1 DEF ToWrite, r, fl
  <2>3. ToWrite' = fl
    BY <1>2, <2>1 DEF ToWrite, fl
  <2>4. /\ tx' \in Seq(Nat) /\ due' \in Seq(Seq(Nat)) /\ txLost' \in BOOLEAN
        /\ txLost' => tx' = <<>>
        /\ ~txLost' => tx' \o fl = FlattenSeq(Enc(due'))
    BY <1>1, <1>3, <1>4, <2>1, <2>2, WriteKeeps
  <2>5. TxIntact'
    BY <2>3, <2>4 DEF TxIntact, Enc
  <2>6. TxLen = 0 => fl = <<>>
    <3>1. Len(fl) = 0 => fl = <<>>
      BY <1>3, EmptySeq
    <3>2. QED
      BY <1>2, <3>1
  <2>7. QED
    BY <1>1, <1>2, <2>1, <2>4, <2>5, <2>6 DEF TxInv, Writing, fl
<1>7. QED
  BY <1>5, <1>6

LEMMA DataOutTxInv ==
    ASSUME TxInv, DataOut
    PROVE  TxInv'
<1> DEFINE c == Current(chain)
           b == Head(Head(c))
           r == <<Tail(Head(c))>> \o Tail(c)
           w == FlattenSeq(r)
<1>1. /\ tx \in Seq(Nat) /\ chain \in Seq(Seq(Nat)) /\ due \in Seq(Seq(Nat))
      /\ TxLen \in Nat /\ txLost \in BOOLEAN
      /\ \A k \in 1 .. Len(chain) : k = 1 \/ chain[k] # <<>>
      /\ TxIntact
  BY DEF TxInv
<1>2. /\ pc = "txdata" /\ TxLen = Len(FlattenSeq(chain)) /\ TxLen > 0
  BY DEF TxInv, Writing, DataOut
<1>3. FlattenSeq(chain) # <<>>
  BY <1>2
<1>4. /\ c # <<>> /\ b \in Nat /\ r \in Seq(Seq(Nat)) /\ w \in Seq(Nat)
      /\ \A k \in 1 .. Len(r) : k = 1 \/ r[k] # <<>>
      /\ FlattenSeq(chain) = <<b>> \o w
  BY <1>1, <1>3, ChainNext
<1>5. /\ Write(b) /\ TxLen' = TxLen - 1
      /\ chain' = IF TxLen = 1 THEN <<>> ELSE r
      /\ pc' = IF TxLen = 1 THEN "stack" ELSE pc
  BY <1>4 DEF DataOut
<1>6. FlattenSeq(<<>>) = <<>>
  BY DEF FlattenSeq
<1> HIDE DEF c, b, r
<1>7. ToWrite = <<b>> \o w
  BY <1>2, <1>4 DEF ToWrite
<1>8. Len(w) = TxLen - 1
  <2> HIDE DEF w
  <2>1. <<b>> \in Seq(Nat) /\ Len(<<b>>) = 1
    BY <1>4
  <2>2. Len(<<b>> \o w) = Len(<<b>>) + Len(w) /\ Len(w) \in Nat
    BY <1>4, <2>1, ConcatProperties
  <2>3. QED
    BY <1>1, <1>2, <1>4, <2>1, <2>2
<1>9. FlattenSeq(chain') = w
  <2>1. CASE TxLen = 1
    <3>1. w = <<>>
      BY <1>4, <1>8, <2>1
    <3>2. QED
      BY <1>5, <1>6, <2>1, <3>1
  <2>2. CASE TxLen # 1
    BY <1>5, <2>2
  <2>3. QED
    BY <2>1, <2>2
<1> HIDE DEF w
<1>10. /\ tx' \in Seq(Nat) /\ due' \in Seq(Seq(Nat)) /\ txLost' \in BOOLEAN
       /\ txLost' => tx' = <<>>
       /\ ~txLost' => tx' \o w = FlattenSeq(Enc(due'))
  BY <1>1, <1>4, <1>5, <1>7, WriteKeeps
<1>11. ToWrite' = w
  BY <1>2, <1>5, <1>9 DEF ToWrite
<1>12. TxIntact'
  BY <1>10, <1>11 DEF TxIntact, Enc
<1>13. chain' \in Seq(Seq(Nat)) /\ \A k \in 1 .. Len(chain') : k = 1 \/ chain'[k] # <<>>
  BY <1>4, <1>5
<1>14. CASE TxLen = 1
  <2>1. w = <<>> /\ pc' = "stack" /\ TxLen' \in Nat
    BY <1>4, <1>5, <1>8, <1>14
  <2>2. QED
    BY <1>9, <1>10, <1>12, <1>13, <2>1 DEF TxInv, Writing
<1>15. CASE TxLen # 1
  <2>1. pc' = "txdata" /\ TxLen' \in Nat /\ TxLen' > 0 /\ TxLen' = Len(w)
    BY <1>1, <1>2, <1>5, <1>8, <1>15
  <2>2. QED
    BY <1>9, <1>10, <1>12, <1>13, <2>1 DEF TxInv, Writing
<1>16. QED
  BY <1>14, <1>15

\* The MAC finds a length where the driver wrote one, so it takes off the FIFO
\* the frame that is due, and no more.
LEMMA MacSendTxInv ==
    ASSUME TxInv, MacSend
    PROVE  TxInv' /\ due # <<>>
<1> DEFINE n == tx[1] * ByteMod + tx[2]
           w == ToWrite
           f == Head(due)
           e == Encode(f)
           r == FlattenSeq(Enc(Tail(due)))
<1>1. /\ tx \in Seq(Nat) /\ chain \in Seq(Seq(Nat)) /\ due \in Seq(Seq(Nat))
      /\ TxLen \in Nat /\ txLost \in BOOLEAN
      /\ txLost => tx = <<>>
      /\ TxIntact
  BY DEF TxInv
<1>2. /\ Len(tx) >= 2 /\ Len(tx) >= n + 2 /\ tx' = SubSeq(tx, n + 3, Len(tx))
      /\ due' = Tail(due)
      /\ pc' = pc /\ chain' = chain /\ TxLen' = TxLen /\ txLost' = txLost
  BY DEF MacSend
<1>3. w \in Seq(Nat)
  <2>1. FlattenSeq(chain) \in Seq(Nat)
    <3>1. <<>> \in Seq(Nat)
      OBVIOUS
    <3>2. QED
      BY <1>1, <3>1, FlattenAppend
  <2>2. Writing => TxLen \div ByteMod \in Nat /\ TxLen % ByteMod \in Nat
    BY <2>1, EncodeSeq DEF TxInv
  <2>3. \A h \in Seq(Nat) : h \o FlattenSeq(chain) \in Seq(Nat)
    BY <2>1, ConcatProperties
  <2>4. CASE pc = "txhigh"
    <3>1. <<TxLen \div ByteMod, TxLen % ByteMod>> \in Seq(Nat)
      BY <2>2, <2>4 DEF Writing
    <3>2. QED
      BY <2>3, <2>4, <3>1 DEF ToWrite
  <2>5. CASE pc = "txlow"
    <3>1. <<TxLen % ByteMod>> \in Seq(Nat)
      BY <2>2, <2>5 DEF Writing
    <3>2. QED
      BY <2>3, <2>5, <3>1 DEF ToWrite
  <2>6. CASE pc \notin {"txhigh", "txlow"}
    BY <2>1, <2>6 DEF ToWrite
  <2>7. QED
    BY <2>4, <2>5, <2>6
<1>4. ~txLost /\ tx \o w = FlattenSeq(Enc(due))
  <2>1. ~txLost
    BY <1>1, <1>2
  <2>2. QED
    BY <1>1, <2>1 DEF TxIntact, Enc
<1>5. w' = w
  BY <1>2 DEF ToWrite
<1> HIDE DEF w
<1>6. /\ tx \o w \in Seq(Nat) /\ Len(tx \o w) = Len(tx) + Len(w)
      /\ \A k \in 1 .. Len(tx) + Len(w) :
            (tx \o w)[k] = IF k <= Len(tx) THEN tx[k] ELSE w[k - Len(tx)]
  BY <1>1, <1>3, ConcatIs
<1>7. due # <<>>
  <2>1. SUFFICES ASSUME due = <<>> PROVE FALSE
    OBVIOUS
  <2>2. FlattenSeq(Enc(due)) = <<>>
    <3>1. Enc(due) = <<>>
      BY <2>1 DEF Enc
    <3>2. QED
      BY <3>1 DEF FlattenSeq
  <2>3. Len(tx \o w) = 0
    BY <1>4, <2>2
  <2>4. QED
    BY <1>1, <1>2, <1>3, <1>6, <2>3
<1>8. /\ f \in Seq(Nat) /\ Tail(due) \in Seq(Seq(Nat))
      /\ FlattenSeq(Enc(due)) = e \o r
  BY <1>1, <1>7, EncHead
<1>9. r \in Seq(Nat)
  <2>1. <<>> \in Seq(Nat)
    OBVIOUS
  <2>2. Tail(due) \in Seq(Seq(Nat))
    BY <1>8
  <2>3. Enc(Tail(due)) \in Seq(Seq(Nat))
    BY <2>2, EncType
  <2>4. QED
    BY <2>1, <2>3, FlattenAppend
<1>10. /\ e \in Seq(Nat) /\ Len(e) = Len(f) + 2
       /\ e[1] = Len(f) \div ByteMod /\ e[2] = Len(f) % ByteMod
       /\ Len(f) = (Len(f) \div ByteMod) * ByteMod + (Len(f) % ByteMod)
  BY <1>8, EncodeSeq
<1> HIDE DEF f, e, r
<1>11. /\ e \o r \in Seq(Nat) /\ Len(e \o r) = Len(e) + Len(r)
       /\ \A k \in 1 .. Len(e) + Len(r) :
             (e \o r)[k] = IF k <= Len(e) THEN e[k] ELSE r[k - Len(e)]
  BY <1>9, <1>10, ConcatIs
<1>12. tx[1] = e[1] /\ tx[2] = e[2]
  <2>1. /\ 1 \in 1 .. Len(tx) + Len(w) /\ 2 \in 1 .. Len(tx) + Len(w)
        /\ 1 <= Len(tx) /\ 2 <= Len(tx)
    BY <1>1, <1>2, <1>3
  <2>2. /\ 1 \in 1 .. Len(e) + Len(r) /\ 2 \in 1 .. Len(e) + Len(r)
        /\ 1 <= Len(e) /\ 2 <= Len(e)
    BY <1>8, <1>9, <1>10
  <2>3. (tx \o w)[1] = tx[1] /\ (tx \o w)[2] = tx[2]
    BY <1>6, <2>1
  <2>4. (e \o r)[1] = e[1] /\ (e \o r)[2] = e[2]
    BY <1>11, <2>2
  <2>5. QED
    BY <1>4, <1>8, <2>3, <2>4
<1>13. n = Len(f)
  BY <1>10, <1>12
<1>14. n + 3 = Len(e) + 1 /\ Len(tx) >= Len(e)
  <2>1. Len(f) \in Nat
    BY <1>8
  <2>2. QED
    BY <1>2, <1>10, <1>13, <2>1
<1>15. tx' = SubSeq(tx, Len(e) + 1, Len(tx))
  BY <1>2, <1>14
<1>16. tx \o w = e \o r
  BY <1>4, <1>8
<1> HIDE DEF n
<1>17. tx' \in Seq(Nat) /\ tx' \o w = r
  <2>1. tx \in Seq(Nat) /\ w \in Seq(Nat) /\ e \in Seq(Nat) /\ r \in Seq(Nat)
    BY <1>1, <1>3, <1>9, <1>10
  <2>2. tx \o w = e \o r /\ Len(tx) >= Len(e)
    BY <1>14, <1>16
  <2>3. /\ SubSeq(tx, Len(e) + 1, Len(tx)) \in Seq(Nat)
        /\ SubSeq(tx, Len(e) + 1, Len(tx)) \o w = r
    BY <2>1, <2>2, CutFront
  <2>4. QED
    BY <1>15, <2>3
<1>18. TxIntact'
  BY <1>2, <1>5, <1>17 DEF TxIntact, Enc, w, r
<1>19. txLost' => tx' = <<>>
  BY <1>2, <1>4
<1>20. QED
  BY <1>2, <1>7, <1>8, <1>17, <1>18, <1>19 DEF TxInv, Writing

LEMMA TxResetTxInv ==
    ASSUME TxInv, TxReset
    PROVE  TxInv'
<1>1. /\ tx' = <<>> /\ due' = <<>> /\ txLost' = Writing
      /\ pc' = pc /\ chain' = chain /\ TxLen' = TxLen
  BY DEF TxReset
<1>2. txLost' \in BOOLEAN
  <2>1. Writing \in BOOLEAN
    BY DEF Writing
  <2>2. QED
    BY <1>1, <2>1
<1>3. ASSUME ~txLost' PROVE tx' \o ToWrite' = FlattenSeq(Enc(due'))
  <2>1. ~Writing
    BY <1>1, <1>3
  <2>2. ToWrite' = <<>>
    BY <1>1, <2>1 DEF TxInv, ToWrite, Writing
  <2>3. Enc(due') = <<>>
    BY <1>1 DEF Enc
  <2>4. FlattenSeq(<<>>) = <<>>
    BY DEF FlattenSeq
  <2>5. QED
    BY <1>1, <2>2, <2>3, <2>4
<1>4. TxIntact'
  BY <1>3 DEF TxIntact, Enc
<1>5. QED
  BY <1>1, <1>2, <1>4 DEF TxInv, Writing

\* Nothing else touches the transmit side, and it is not in the middle of a frame.
LEMMA QuietTxInv ==
    ASSUME TxInv, ~Writing, ~Writing', UNCHANGED txVars
    PROVE  TxInv'
<1>1. /\ tx' = tx /\ chain' = chain /\ TxLen' = TxLen /\ due' = due /\ txLost' = txLost
  BY DEF txVars
<1>2. ToWrite = FlattenSeq(chain) /\ ToWrite' = FlattenSeq(chain')
  BY DEF ToWrite, Writing
<1>3. TxIntact'
  BY <1>1, <1>2 DEF TxInv, TxIntact
<1>4. pc' # "txdata"
  BY DEF Writing
<1>5. QED
  BY <1>1, <1>3, <1>4 DEF TxInv

LEMMA NextTxInv ==
    ASSUME TxInv, [Next]_vars
    PROVE  TxInv'
<1>1. CASE Network
  <2>1. pc' = pc /\ UNCHANGED txVars
    BY <1>1 DEF Network, RxReset, Receive
  <2>2. QED
    BY <2>1 DEF TxInv, TxIntact, ToWrite, Writing, txVars
<1>2. CASE MacSend
  BY <1>2, MacSendTxInv
<1>3. CASE TxReset
  BY <1>3, TxResetTxInv
<1>4. CASE Poll
  <2>1. ~Writing /\ UNCHANGED txVars
    BY <1>4 DEF Poll, ClearStep, PollBegin, ReadHigh, ReadLow, PbufAlloc, DataByte,
                DataOverrun, DropByte, NetifInput, Return, Writing
  <2>2. ~Writing'
    BY <1>4 DEF Poll, ClearStep, PollBegin, ReadHigh, ReadLow, PbufAlloc, DataByte,
                DataOverrun, DropByte, NetifInput, Return, Writing
  <2>3. QED
    BY <2>1, <2>2, QuietTxInv
<1>5. CASE Send
  BY <1>5, WriteLengthTxInv, DataOutTxInv DEF Send
<1>6. CASE \E c \in TxChains : Output(c)
  BY <1>6, OutputTxInv
<1>7. CASE UNCHANGED vars
  BY <1>7 DEF TxInv, TxIntact, ToWrite, Writing, vars, txVars
<1>8. QED
  BY <1>1, <1>2, <1>3, <1>4, <1>5, <1>6, <1>7 DEF Next

LEMMA TxInvHolds == Spec => []TxInv
<1>1. Init => TxInv
  <2> SUFFICES ASSUME Init PROVE TxInv
    OBVIOUS
  <2>1. /\ pc = "boot" /\ tx = <<>> /\ chain = <<>> /\ TxLen = 0
        /\ due = <<>> /\ txLost = FALSE
    BY DEF Init
  <2>2. FlattenSeq(<<>>) = <<>>
    BY DEF FlattenSeq
  <2>3. Enc(due) = <<>> /\ ToWrite = <<>>
    BY <2>1, <2>2 DEF Enc, ToWrite
  <2>4. TxIntact
    BY <2>1, <2>2, <2>3 DEF TxIntact, Enc
  <2>5. /\ <<>> \in Seq(Nat) /\ <<>> \in Seq(Seq(Nat)) /\ Len(<<>>) = 0 /\ 0 \in Nat
        /\ \A k \in 1 .. 0 : k = 1
    OBVIOUS
  <2>6. ~Writing /\ pc # "txdata" /\ txLost \in BOOLEAN
    BY <2>1 DEF Writing
  <2>7. QED
    BY <2>1, <2>2, <2>4, <2>5, <2>6 DEF TxInv
<1>2. TxInv /\ [Next]_vars => TxInv'
  BY NextTxInv
<1>3. QED
  BY <1>1, <1>2, PTL DEF Spec

(* What is in the transmit FIFO, with what pano_netif_output has still to    *)
(* write, is the frames lwIP sent and the MAC has not taken: each with its   *)
(* own length, the chain's, and all of its bytes in order (main.c:437-454),  *)
(* for chains of any number of pbufs of any size, until a full FIFO or a     *)
(* reset swallows a byte.                                                    *)
THEOREM TxIntactHolds == Spec => []TxIntact
<1>1. TxInv => TxIntact
  BY DEF TxInv
<1>2. QED
  BY <1>1, TxInvHolds, PTL

-----------------------------------------------------------------------------
(* Type correctness: what the FIFOs carry are bytes.                        *)

\* The type invariant, one part for each side of the driver; the length of
\* the frame that is being sent fits two bytes.
RxType == rx \in Seq(Seq(Bytes)) /\ Len(rx) <= RxDepth /\ cut \in BOOLEAN

PollType ==
    /\ pc \in {"boot", "clear", "idle", "high", "low", "alloc", "data", "drop",
               "wild", "input", "stack", "txhigh", "txlow", "txdata"}
    /\ first \in Bytes /\ Count \in 0 .. ByteMod * ByteMod - 1
    /\ i \in 0 .. IF pc \in {"boot", "clear"} THEN ClearReads ELSE ByteMod * ByteMod - 1
    /\ buf \in Seq(Bytes)
    /\ frame \in Seq(Bytes) /\ taken \in Nat /\ lost \in BOOLEAN

TxType ==
    /\ tx \in Seq(Bytes) /\ Len(tx) <= TxDepth
    /\ chain \in Seq(Seq(Bytes)) /\ due \in Seq(Seq(Bytes))
    /\ TxLen \in Nat /\ TxLen < ByteMod * ByteMod /\ txLost \in BOOLEAN

\* A number that fits two bytes, as two bytes, and back.
LEMMA TwoBytes ==
    ASSUME NEW n \in Nat, n < ByteMod * ByteMod
    PROVE  n \div ByteMod \in Bytes /\ n % ByteMod \in Bytes
<1> DEFINE q == n \div ByteMod
           r == n % ByteMod
<1>1. ByteMod \in Nat \ {0}
  BY EthAssumption
<1>2. q \in Int /\ r \in 0 .. ByteMod - 1 /\ n = ByteMod * q + r
  BY <1>1, DivMod
<1> HIDE DEF q, r
<1>3. q >= 0
  BY <1>1, <1>2, Z3
<1>4. q < ByteMod
  BY <1>1, <1>2, Z3
<1>5. QED
  BY <1>1, <1>2, <1>3, <1>4 DEF Bytes, q, r

LEMMA LengthFits ==
    ASSUME NEW a \in Bytes, NEW b \in Bytes
    PROVE  Length(a, b) \in 0 .. ByteMod * ByteMod - 1
<1>1. ByteMod \in Nat \ {0} /\ a \in 0 .. ByteMod - 1 /\ b \in 0 .. ByteMod - 1
  BY EthAssumption DEF Bytes
<1>2. \A x, y \in 0 .. ByteMod - 1 : x * ByteMod + y \in 0 .. ByteMod * ByteMod - 1
  <2> TAKE x, y \in 0 .. ByteMod - 1
  <2>1. x \in Nat /\ y \in Nat /\ x <= ByteMod - 1 /\ y <= ByteMod - 1
    BY <1>1
  <2>2. x * ByteMod <= (ByteMod - 1) * ByteMod
    BY <1>1, <2>1, Z3
  <2>3. (ByteMod - 1) * ByteMod = ByteMod * ByteMod - ByteMod
    BY <1>1, Z3
  <2>4. x * ByteMod \in Nat /\ ByteMod * ByteMod \in Nat
    BY <1>1, <2>1, Z3
  <2>5. QED
    BY <1>1, <2>1, <2>2, <2>3, <2>4
<1>3. QED
  BY <1>1, <1>2 DEF Length

\* The bytes of a frame with its length are bytes.
LEMMA EncodeBytes ==
    ASSUME NEW f \in Seq(Bytes), Len(f) < ByteMod * ByteMod
    PROVE  Encode(f) \in Seq(Bytes)
<1> DEFINE h == <<Len(f) \div ByteMod, Len(f) % ByteMod>>
<1>1. Len(f) \in Nat
  OBVIOUS
<1>2. Len(f) \div ByteMod \in Bytes /\ Len(f) % ByteMod \in Bytes
  BY <1>1, TwoBytes
<1>3. h \in Seq(Bytes)
  BY <1>2
<1> HIDE DEF h
<1>4. h \o f \in Seq(Bytes)
  BY <1>3, ConcatProperties
<1>5. QED
  BY <1>4 DEF Encode, h

LEMMA ReadType ==
    ASSUME RxType, RxInv, NEW b \in Bytes, Read(b)
    PROVE  RxType'
<1>1. CASE rx = <<>>
  <2>1. rx' = rx /\ cut' = cut
    BY <1>1 DEF Read, rxVars
  <2>2. QED
    BY <2>1 DEF RxType
<1>2. CASE rx # <<>>
  <2>1. /\ rx \in Seq(Seq(Bytes)) /\ Len(rx) \in Nat /\ Len(rx) <= RxDepth
        /\ Head(rx) \in Seq(Bytes) /\ Head(rx) = rx[1] /\ RxDepth \in Nat
    BY <1>2, EthAssumption DEF RxType
  <2>2. rx[1] # <<>>
    BY <1>2, <2>1 DEF RxInv
  <2>3. Tail(rx[1]) \in Seq(Bytes)
    BY <2>1, <2>2, HeadTailProperties
  <2>4. /\ Tail(rx) \in Seq(Seq(Bytes)) /\ Len(Tail(rx)) = Len(rx) - 1
    BY <1>2, <2>1, HeadTailProperties
  <2>5. CASE Len(Head(rx)) = 1
    <3>1. rx' = Tail(rx) /\ cut' \in BOOLEAN
      BY <1>2, <2>5 DEF Read
    <3>2. QED
      BY <2>1, <2>4, <3>1 DEF RxType
  <2>6. CASE Len(Head(rx)) # 1
    <3>1. rx' = [rx EXCEPT ![1] = Tail(rx[1])] /\ cut' \in BOOLEAN
      BY <1>2, <2>6 DEF Read
    <3> DEFINE t == Tail(rx[1])
    <3>2. t \in Seq(Bytes) /\ rx' = [rx EXCEPT ![1] = t]
      BY <2>3, <3>1
    <3> HIDE DEF t
    <3>3. rx' \in Seq(Seq(Bytes)) /\ Len(rx') = Len(rx)
      <4> DEFINE U == Seq(Bytes)
      <4>1. rx \in Seq(U) /\ t \in U /\ 1 \in 1 .. Len(rx)
        BY <1>2, <2>1, <3>2
      <4> HIDE DEF U
      <4>2. [rx EXCEPT ![1] = t] \in Seq(U) /\ Len([rx EXCEPT ![1] = t]) = Len(rx)
        BY <4>1, ExceptSeq
      <4>3. QED
        BY <3>2, <4>2 DEF U
    <3>4. QED
      BY <2>1, <3>1, <3>3 DEF RxType
  <2>7. QED
    BY <2>5, <2>6
<1>3. QED
  BY <1>1, <1>2

LEMMA NextRxType ==
    ASSUME RxType, RxInv, [Next]_vars
    PROVE  RxType'
<1>1. ASSUME UNCHANGED <<rx, cut>> PROVE RxType'
  BY <1>1 DEF RxType
<1>2. CASE RxReset
  <2>1. rx' = <<>> /\ cut' \in BOOLEAN
    BY <1>2 DEF RxReset
  <2>2. QED
    BY <2>1, EthAssumption DEF RxType
<1>3. ASSUME NEW f \in RxFrames, Receive(f) PROVE RxType'
  <2>1. f \in Seq(Bytes) /\ Len(f) < ByteMod * ByteMod
    <3>1. f \in Seq(Bytes) /\ Len(f) \in 1 .. MaxFrame /\ MaxFrame \in Nat
      BY EthAssumption
    <3>2. ByteMod * ByteMod \in Nat
      BY EthAssumption, Z3
    <3>3. QED
      BY <3>1, <3>2, SizeAssumption
  <2> DEFINE e == Encode(f)
  <2>2. e \in Seq(Bytes)
    BY <2>1, EncodeBytes
  <2>3. rx' = Append(rx, e) /\ cut' = cut /\ Len(rx) < RxDepth
    BY <1>3 DEF Receive
  <2> HIDE DEF e
  <2>4. rx \in Seq(Seq(Bytes)) /\ cut \in BOOLEAN /\ Len(rx) \in Nat /\ RxDepth \in Nat
    BY EthAssumption DEF RxType
  <2>5. Append(rx, e) \in Seq(Seq(Bytes)) /\ Len(Append(rx, e)) = Len(rx) + 1
    BY <2>2, <2>4, AppendProperties
  <2>6. QED
    BY <2>3, <2>4, <2>5 DEF RxType
<1>4. CASE Poll
  BY <1>1, <1>4, ReadType
     DEF Poll, ClearStep, PollBegin, ReadHigh, ReadLow, PbufAlloc, DataByte,
         DataOverrun, DropByte, NetifInput, Return, rxVars
<1>5. QED
  BY <1>1, <1>2, <1>3, <1>4
     DEF Next, Network, MacSend, TxReset, Send, WriteHigh, WriteLow, DataOut, Output,
         rxVars, vars

LEMMA NextPollType ==
    ASSUME PollType, RxType, LocalInv, [Next]_vars
    PROVE  PollType'
<1> DEFINE B == ByteMod * ByteMod
<1>1. B \in Nat /\ B >= 1 /\ ByteMod \in Nat \ {0} /\ ClearReads \in Nat /\ PoolBuf \in Nat
  <2>1. ByteMod \in Nat \ {0} /\ ClearReads \in Nat /\ PoolBuf \in Nat
    BY EthAssumption
  <2>2. ByteMod * ByteMod >= 1 /\ ByteMod * ByteMod \in Nat
    BY <2>1, Z3
  <2>3. QED
    BY <2>1, <2>2
<1>2. /\ first \in Bytes /\ Count \in 0 .. B - 1 /\ i \in Nat
      /\ pc \in {"boot", "clear"} => i <= ClearReads
      /\ pc \notin {"boot", "clear"} => i <= B - 1
      /\ buf \in Seq(Bytes)
      /\ frame \in Seq(Bytes) /\ taken \in Nat /\ lost \in BOOLEAN
  BY <1>1 DEF PollType
<1>3. /\ pc \notin {"data", "drop", "boot", "clear"} => i = 0
      /\ pc \notin {"data", "input"} => buf = <<>>
  BY DEF LocalInv
<1> DEFINE Pcs == {"boot", "clear", "idle", "high", "low", "alloc", "data", "drop",
                   "wild", "input", "stack", "txhigh", "txlow", "txdata"}
           Good == /\ first' \in Bytes /\ Count' \in 0 .. B - 1
                   /\ buf' \in Seq(Bytes)
                   /\ frame' \in Seq(Bytes) /\ taken' \in Nat /\ lost' \in BOOLEAN
           InRange == i' \in 0 .. IF pc' \in {"boot", "clear"} THEN ClearReads ELSE B - 1
<1>4. SUFFICES pc' \in Pcs /\ Good /\ InRange
  BY DEF PollType
<1>5. pc \in Pcs
  BY DEF PollType
<1>6. ASSUME NEW b, Read(b) PROVE taken' \in Nat
  BY <1>2, <1>6 DEF Read, rxVars
<1> HIDE DEF B
<1>7. <<>> \in Seq(Bytes) /\ Len(<<>>) = 0 /\ 0 \in Bytes
  BY <1>1 DEF Bytes
<1>8. InRange <=> /\ i' \in Nat
                  /\ pc' \in {"boot", "clear"} => i' <= ClearReads
                  /\ pc' \notin {"boot", "clear"} => i' <= B - 1
  BY <1>1
<1> HIDE DEF InRange
<1>9. CASE /\ UNCHANGED <<pc, first, Count, i, buf, frame>>
           /\ taken' = taken /\ lost' \in BOOLEAN
  BY <1>2, <1>5, <1>8, <1>9
<1>10. CASE Network
  <2>1. /\ UNCHANGED <<pc, first, Count, i, buf, frame>>
        /\ taken' = taken
    BY <1>10 DEF Network, RxReset, Receive, pollVars
  <2>2. lost' \in BOOLEAN
    <3>1. CASE RxReset
      BY <3>1, Zenon DEF RxReset
    <3>2. CASE \E f \in RxFrames : Receive(f)
      BY <1>2, <3>2 DEF Receive, pollVars
    <3>3. QED
      BY <1>10, <3>1, <3>2 DEF Network
  <2>3. QED
    BY <1>9, <2>1, <2>2
<1>11. CASE ClearStep
  <2>1. /\ pc \in {"boot", "clear"} /\ UNCHANGED <<first, Count, buf, frame>>
    BY <1>11 DEF ClearStep
  <2>2. CASE Cleared
    <3>1. /\ pc' = (IF pc = "boot" THEN "idle" ELSE "alloc") /\ i' = 0 /\ taken' = taken
      BY <1>11, <2>2 DEF ClearStep, rxVars
    <3>2. lost' \in BOOLEAN
      <4>1. lost' = IF pc = "boot" THEN rx # <<>> ELSE lost
        BY <1>11, <2>2 DEF ClearStep
      <4>2. QED
        BY <1>2, <4>1, Zenon
    <3>3. QED
      BY <1>1, <1>2, <1>8, <2>1, <3>1, <3>2
  <2>3. CASE ~Cleared
    <3>1. pc' = pc /\ i' = i + 1 /\ lost' = lost /\ i # ClearReads
      BY <1>11, <2>3 DEF ClearStep, Cleared
    <3>2. taken' \in Nat
      BY <1>6, <1>11, <2>3 DEF ClearStep
    <3>3. QED
      BY <1>1, <1>2, <1>8, <2>1, <3>1, <3>2
  <2>4. QED
    BY <2>2, <2>3
<1>12. CASE PollBegin
  <2>1. /\ pc = "idle" /\ pc' \in {"high", "stack"} /\ taken' = 0
        /\ UNCHANGED <<first, Count, i, buf>>
    BY <1>12 DEF PollBegin
  <2>2. frame' \in Seq(Bytes)
    <3>1. CASE rx = <<>> \/ lost
      BY <1>7, <1>12, <3>1 DEF PollBegin
    <3>2. CASE ~(rx = <<>> \/ lost)
      <4> DEFINE h == Head(rx)
      <4>1. frame' = SubSeq(h, 3, Len(h))
        BY <1>12, <3>2 DEF PollBegin
      <4>2. h \in Seq(Bytes)
        BY <3>2, HeadTailProperties DEF RxType
      <4> HIDE DEF h
      <4>3. Len(h) \in Int /\ \A j \in 3 .. Len(h) : h[j] \in Bytes
        BY <4>2
      <4>4. SubSeq(h, 3, Len(h)) \in Seq(Bytes)
        BY <4>3, SubSeqProperties
      <4>5. QED
        BY <4>1, <4>4
    <3>3. QED
      BY <3>1, <3>2
  <2>3. lost' \in BOOLEAN
    BY <1>12, Zenon DEF PollBegin
  <2>4. QED
    BY <1>1, <1>2, <1>3, <1>8, <2>1, <2>2, <2>3
<1>13. CASE ReadHigh
  <2>1. /\ pc = "high" /\ pc' = "low" /\ first' \in Bytes /\ taken' \in Nat
        /\ UNCHANGED <<Count, i, buf, frame, lost>>
    BY <1>6, <1>13 DEF ReadHigh
  <2>2. QED
    BY <1>1, <1>2, <1>8, <2>1
<1>14. CASE ReadLow
  <2>1. /\ pc = "low" /\ pc' \in {"clear", "alloc"} /\ first' = 0 /\ taken' \in Nat
        /\ UNCHANGED <<i, buf, frame, lost>>
    BY <1>6, <1>14 DEF ReadLow
  <2>2. Count' \in 0 .. B - 1
    BY <1>2, <1>14, LengthFits DEF ReadLow, B
  <2>3. QED
    BY <1>1, <1>2, <1>3, <1>7, <1>8, <2>1, <2>2
<1>15. CASE PbufAlloc
  <2>1. /\ pc = "alloc" /\ pc' \in {"data", "stack", "drop"} /\ taken' = taken
        /\ UNCHANGED <<first, Count, i, buf, frame, lost>>
    BY <1>15 DEF PbufAlloc, rxVars, pollVars
  <2>2. QED
    BY <1>1, <1>2, <1>8, <2>1
<1>16. CASE DataByte
  <2>1. /\ pc = "data" /\ taken' \in Nat /\ UNCHANGED <<first, Count, frame, lost>>
        /\ \/ i + 1 < Count /\ i' = i + 1 /\ pc' = pc
           \/ i' = 0 /\ pc' = "input"
    BY <1>6, <1>16 DEF DataByte, MoreData
  <2>2. buf' \in Seq(Bytes)
    <3>1. PICK b \in Bytes : buf' = Append(buf, b)
      BY <1>16 DEF DataByte
    <3>2. QED
      BY <1>2, <3>1, AppendProperties
  <2>3. QED
    BY <1>1, <1>2, <1>8, <2>1, <2>2
<1>17. CASE DropByte
  <2>1. /\ pc = "drop" /\ taken' \in Nat /\ UNCHANGED <<first, Count, buf, frame, lost>>
        /\ \/ i + 1 < Count /\ i' = i + 1 /\ pc' = pc
           \/ i' = 0 /\ pc' = "stack"
    BY <1>6, <1>17 DEF DropByte, MoreDrop
  <2>2. QED
    BY <1>1, <1>2, <1>8, <2>1
<1>18. CASE NetifInput
  <2>1. /\ pc = "input" /\ pc' = "stack" /\ buf' = <<>> /\ taken' = taken
        /\ UNCHANGED <<first, Count, i, frame, lost>>
    BY <1>18 DEF NetifInput, rxVars
  <2>2. QED
    BY <1>1, <1>2, <1>7, <1>8, <2>1
<1>19. CASE Return
  <2>1. /\ pc = "stack" /\ pc' = "idle" /\ Count' = 0 /\ frame' = <<>> /\ taken' = 0
        /\ UNCHANGED <<first, i, buf, lost>>
    BY <1>19 DEF Return
  <2>2. QED
    BY <1>1, <1>2, <1>7, <1>8, <2>1
<1>20. ASSUME Send \/ \E c \in TxChains : Output(c) PROVE Good /\ InRange /\ pc' \in Pcs
  <2>1. /\ pc \in {"stack", "txhigh", "txlow", "txdata"}
        /\ pc' \in {"stack", "txhigh", "txlow", "txdata"}
        /\ taken' = taken /\ UNCHANGED <<first, Count, i, buf, frame, lost>>
    BY <1>20 DEF Send, WriteHigh, WriteLow, DataOut, Output, rxVars, pollVars
  <2>2. QED
    BY <1>1, <1>2, <1>8, <2>1
<1>21. CASE MacSend \/ TxReset \/ UNCHANGED vars
  BY <1>2, <1>9, <1>21 DEF MacSend, TxReset, vars, rxVars, pollVars
<1>22. CASE DataOverrun
  <2>1. /\ taken' \in Nat /\ UNCHANGED <<first, Count, frame>>
        /\ pc' = "wild" /\ lost' \in BOOLEAN /\ i' = 0 /\ buf' = <<>>
    BY <1>6, <1>22 DEF DataOverrun
  <2>2. QED
    BY <1>1, <1>2, <1>7, <1>8, <2>1
<1>23. QED
  BY <1>10, <1>11, <1>12, <1>13, <1>14, <1>15, <1>16, <1>17, <1>18, <1>19, <1>20, <1>21,
     <1>22 DEF Next, Poll

LEMMA WriteType ==
    ASSUME NEW b \in Bytes, Write(b), tx \in Seq(Bytes), Len(tx) <= TxDepth,
           due \in Seq(Seq(Bytes)), txLost \in BOOLEAN
    PROVE  /\ tx' \in Seq(Bytes) /\ Len(tx') <= TxDepth
           /\ due' \in Seq(Seq(Bytes)) /\ txLost' \in BOOLEAN
<1>1. CASE ~txLost /\ Len(tx) < TxDepth
  <2>1. tx' = Append(tx, b) /\ due' = due /\ txLost' = txLost
    BY <1>1 DEF Write
  <2>2. Append(tx, b) \in Seq(Bytes) /\ Len(Append(tx, b)) = Len(tx) + 1
    BY AppendProperties
  <2>3. QED
    BY <1>1, <2>1, <2>2, EthAssumption
<1>2. CASE ~(~txLost /\ Len(tx) < TxDepth)
  <2>1. txLost' \in BOOLEAN /\ due' = <<>> /\ tx' = <<>>
    BY <1>2 DEF Write
  <2>2. QED
    BY <2>1, EthAssumption
<1>3. QED
  BY <1>1, <1>2

LEMMA NextTxType ==
    ASSUME TxType, TxInv, [Next]_vars
    PROVE  TxType'
<1> DEFINE B == ByteMod * ByteMod
<1>1. B \in Nat /\ B >= 1
  BY EthAssumption, Z3
<1>2. /\ tx \in Seq(Bytes) /\ Len(tx) <= TxDepth
      /\ chain \in Seq(Seq(Bytes)) /\ due \in Seq(Seq(Bytes))
      /\ TxLen \in Nat /\ TxLen < B /\ txLost \in BOOLEAN /\ TxDepth \in Nat
  BY EthAssumption DEF TxType
<1>3. ASSUME UNCHANGED txVars PROVE TxType'
  BY <1>3 DEF TxType, txVars
<1>4. CASE MacSend
  <2> DEFINE m == tx[1] * ByteMod + tx[2] + 3
             s == SubSeq(tx, m, Len(tx))
  <2>1. /\ tx' = SubSeq(tx, tx[1] * ByteMod + tx[2] + 3, Len(tx)) /\ due' = Tail(due)
        /\ chain' = chain /\ TxLen' = TxLen /\ txLost' = txLost /\ Len(tx) >= 2
    BY <1>4 DEF MacSend
  <2>2. Len(tx) \in Nat /\ tx[1] \in Nat /\ tx[2] \in Nat /\ ByteMod \in Nat \ {0}
    <3>1. Len(tx) \in Nat /\ tx[1] \in Bytes /\ tx[2] \in Bytes
      BY <1>2, <2>1
    <3>2. QED
      BY <3>1, EthAssumption DEF Bytes
  <2>3. m \in Nat /\ m >= 1
    <3>1. tx[1] * ByteMod \in Nat
      BY <2>2, Z3
    <3>2. QED
      BY <2>2, <3>1
  <2>4. tx' = s
    BY <2>1
  <2> HIDE DEF m
  <2>5. \A k \in m .. Len(tx) : tx[k] \in Bytes
    BY <1>2, <2>2, <2>3
  <2>6. s \in Seq(Bytes) /\ Len(s) = IF m <= Len(tx) THEN Len(tx) - m + 1 ELSE 0
    BY <2>2, <2>3, <2>5, SubSeqProperties
  <2>7. Len(s) <= TxDepth
    <3> HIDE DEF s
    <3>1. QED
      BY <1>2, <2>2, <2>3, <2>6
  <2>8. Tail(due) \in Seq(Seq(Bytes))
    <3>1. due # <<>>
      BY <1>4, MacSendTxInv
    <3>2. QED
      BY <1>2, <3>1, HeadTailProperties
  <2>9. QED
    BY <1>2, <2>1, <2>4, <2>6, <2>7, <2>8 DEF TxType
<1>5. CASE TxReset
  <2>1. /\ tx' = <<>> /\ due' = <<>> /\ txLost' = Writing
        /\ chain' = chain /\ TxLen' = TxLen
    BY <1>5 DEF TxReset
  <2>2. txLost' \in BOOLEAN
    <3>1. Writing \in BOOLEAN
      BY DEF Writing
    <3>2. QED
      BY <2>1, <3>1
  <2>3. QED
    BY <1>2, <2>1, <2>2 DEF TxType
<1>6. ASSUME NEW c \in TxChains, Output(c) PROVE TxType'
  <2> DEFINE fl == FlattenSeq(c)
  <2>1. /\ chain' = c /\ TxLen' = Len(fl) /\ tx' = tx /\ txLost' = txLost
        /\ due' = IF txLost THEN due ELSE Append(due, fl)
    BY <1>6 DEF Output, tot_len
  <2>2. c \in Seq(Seq(Bytes)) /\ Len(fl) < B
    BY EthAssumption, SizeAssumption
  <2>3. fl \in Seq(Bytes)
    <3>1. <<>> \in Seq(Bytes)
      OBVIOUS
    <3>2. QED
      BY <2>2, <3>1, FlattenAppend
  <2> HIDE DEF fl
  <2>4. due' \in Seq(Seq(Bytes))
    BY <1>2, <2>1, <2>3, AppendProperties
  <2>5. Len(fl) \in Nat
    BY <2>3
  <2>6. QED
    BY <1>2, <2>1, <2>2, <2>4, <2>5 DEF TxType
<1>7. CASE WriteHigh \/ WriteLow
  <2>1. TxLen \div ByteMod \in Bytes /\ TxLen % ByteMod \in Bytes
    BY <1>2, TwoBytes
  <2>2. chain' = chain /\ TxLen' = TxLen
        /\ (Write(TxLen \div ByteMod) \/ Write(TxLen % ByteMod))
    BY <1>7 DEF WriteHigh, WriteLow
  <2>3. /\ tx' \in Seq(Bytes) /\ Len(tx') <= TxDepth
        /\ due' \in Seq(Seq(Bytes)) /\ txLost' \in BOOLEAN
    BY <1>2, <2>1, <2>2, WriteType
  <2>4. QED
    BY <1>2, <2>2, <2>3 DEF TxType
<1>8. CASE DataOut
  <2> DEFINE c == Current(chain)
             x == Head(c)
             r == <<Tail(x)>> \o Tail(c)
  <2>1. /\ pc = "txdata" /\ TxLen = Len(FlattenSeq(chain)) /\ TxLen > 0
        /\ chain \in Seq(Seq(Nat))
        /\ \A k \in 1 .. Len(chain) : k = 1 \/ chain[k] # <<>>
    BY <1>8 DEF TxInv, Writing, DataOut
  <2>2. FlattenSeq(chain) # <<>>
    BY <2>1
  <2>3. c # <<>> /\ x # <<>> /\ chain # <<>>
    <3>1. FlattenSeq(<<>>) = <<>>
      BY DEF FlattenSeq
    <3>2. chain # <<>>
      BY <2>2, <3>1
    <3>3. QED
      BY <2>1, <2>2, <3>2, ChainNext
  <2>4. c \in Seq(Seq(Bytes))
    BY <1>2, <2>3, HeadTailProperties DEF Current
  <2>5. /\ Write(Head(x)) /\ TxLen' = TxLen - 1
        /\ chain' = IF TxLen = 1 THEN <<>> ELSE r
    BY <1>8, <2>3 DEF DataOut
  <2> HIDE DEF c
  <2>6. x \in Seq(Bytes) /\ Tail(c) \in Seq(Seq(Bytes))
    BY <2>3, <2>4, HeadTailProperties
  <2> HIDE DEF x
  <2>7. Head(x) \in Bytes /\ Tail(x) \in Seq(Bytes)
    BY <2>3, <2>6, HeadTailProperties
  <2>8. r \in Seq(Seq(Bytes))
    <3>1. <<Tail(x)>> \in Seq(Seq(Bytes))
      BY <2>7
    <3>2. QED
      BY <2>6, <3>1, ConcatProperties
  <2> HIDE DEF r
  <2>9. chain' \in Seq(Seq(Bytes))
    BY <2>5, <2>8
  <2>10. /\ tx' \in Seq(Bytes) /\ Len(tx') <= TxDepth
         /\ due' \in Seq(Seq(Bytes)) /\ txLost' \in BOOLEAN
    BY <1>2, <2>5, <2>7, WriteType
  <2>11. TxLen' \in Nat /\ TxLen' < B
    BY <1>1, <1>2, <2>1, <2>5
  <2>12. QED
    BY <2>9, <2>10, <2>11 DEF TxType
<1>9. CASE Network \/ Poll \/ UNCHANGED vars
  BY <1>3, <1>9
     DEF Network, RxReset, Receive, Poll, ClearStep, PollBegin, ReadHigh, ReadLow,
         PbufAlloc, DataByte, DataOverrun, DropByte, NetifInput, Return, vars
<1>10. QED
  BY <1>4, <1>5, <1>6, <1>7, <1>8, <1>9 DEF Next, Send

(* Every value the driver and the FIFOs hold stays in range: what is written *)
(* to ETH_TX and read from ETH_RX are bytes, neither FIFO ever holds more     *)
(* than fits, the length read is one of 16 bits, and the two loops' counters  *)
(* stay below their limits.                                                  *)
THEOREM TypeCorrect == Spec => []TypeOK
<1> DEFINE Typed == RxType /\ PollType /\ TxType
<1>1. Init => Typed
  <2> SUFFICES ASSUME Init PROVE Typed
    OBVIOUS
  <2>1. RxType
    <3>1. cut \in BOOLEAN /\ RxDepth \in Nat /\ RxDepth >= 1
      <4>1. cut \in BOOLEAN
        BY DEF Init
      <4>2. RxDepth \in Nat /\ RxDepth # 0
        BY EthAssumption, SizeAssumption
      <4>3. QED
        BY <4>1, <4>2
    <3>2. CASE rx = <<>>
      BY <3>1, <3>2 DEF RxType
    <3>3. ASSUME NEW f \in RxFrames, rx = <<Encode(f)>> PROVE RxType
      <4>1. f \in Seq(Bytes) /\ Len(f) < ByteMod * ByteMod
        <5>1. f \in Seq(Bytes) /\ Len(f) \in 1 .. MaxFrame /\ MaxFrame \in Nat
          BY EthAssumption
        <5>2. ByteMod * ByteMod \in Nat
          BY EthAssumption, Z3
        <5>3. QED
          BY <5>1, <5>2, SizeAssumption
      <4> DEFINE e == Encode(f)
      <4>2. e \in Seq(Bytes) /\ rx = <<e>>
        BY <3>3, <4>1, EncodeBytes
      <4> HIDE DEF e
      <4>3. QED
        BY <3>1, <4>2 DEF RxType
    <3>4. QED
      BY <3>2, <3>3 DEF Init
  <2>2. ByteMod * ByteMod \in Nat /\ ByteMod * ByteMod >= 1
    BY EthAssumption, Z3
  <2>3. ByteMod \in Nat \ {0} /\ ClearReads \in Nat /\ PoolBuf \in Nat /\ TxDepth \in Nat
    BY EthAssumption
  <2>4. PollType
    <3>1. /\ pc = "boot" /\ first = 0 /\ Count = 0 /\ i = 0 /\ buf = <<>> /\ frame = <<>>
          /\ taken = 0 /\ lost \in BOOLEAN
      BY DEF Init
    <3>2. QED
      BY <2>2, <2>3, <3>1 DEF PollType, Bytes
  <2>5. TxType
    <3>1. /\ tx = <<>> /\ chain = <<>> /\ TxLen = 0 /\ due = <<>> /\ txLost \in BOOLEAN
      BY DEF Init
    <3>2. QED
      BY <2>2, <2>3, <3>1 DEF TxType
  <2>6. QED
    BY <2>1, <2>4, <2>5
<1>2. Typed /\ RxInv /\ LocalInv /\ TxInv /\ [Next]_vars => Typed'
  BY NextRxType, NextPollType, NextTxType
<1>3. Typed => TypeOK
  BY DEF RxType, PollType, TxType, TypeOK
<1> HIDE DEF Typed
<1>4. QED
  BY <1>1, <1>2, <1>3, RxInvHolds, LocalInvHolds, TxInvHolds, PTL DEF Spec

=============================================================================
