------------------------------ MODULE EthDriver ------------------------------
(***************************************************************************)
(* The Ethernet driver of fw/pano_ldr/main.c: pano_netif_poll, which reads  *)
(* one received frame from the MAC's FIFO, ClearRxFifo, and                 *)
(* pano_netif_output, which writes a frame to the transmit FIFO.  A frame   *)
(* in a FIFO is two bytes of length and the data; neither FIFO marks where  *)
(* a frame begins, so one byte too many or too few shifts all that follows. *)
(* Every access to ETH_RX or ETH_TX is a step: the MAC may receive, send    *)
(* or reset a FIFO between any two.  The MAC is outside the repository.     *)
(* A frame that does not fit one pbuf is stored past its end, over the pool *)
(* of lwIP: from there on the loader may do anything, and is not followed.  *)
(***************************************************************************)
EXTENDS Naturals, Sequences, SequencesExt

CONSTANTS
    ByteMod,      \* values of a byte (256)
    MaxFrame,     \* MAX_ETH_FRAME_LEN
    PoolBuf,      \* bytes in one pbuf of the pool
    ClearReads,   \* reads ClearRxFifo makes at most (2048)
    HighFirst,    \* the build reads the high byte of the length first: C
                  \* leaves the order of the reads in "ETH_RX() << 8 + ETH_RX()" open
    RxFrames,     \* the frames that may be received
    TxChains,     \* the pbuf chains lwIP may send
    RxDepth,      \* bound on the frames in the receive FIFO
    TxDepth       \* bytes in the transmit FIFO

Bytes == 0 .. ByteMod - 1

ASSUME EthAssumption ==
    /\ ByteMod \in Nat \ {0} /\ MaxFrame \in Nat \ {0}
    /\ PoolBuf \in Nat /\ ClearReads \in Nat /\ HighFirst \in BOOLEAN
    /\ RxFrames \subseteq {f \in Seq(Bytes) : Len(f) \in 1 .. MaxFrame}
    /\ TxChains \subseteq {c \in Seq(Seq(Bytes)) :
                             \A k \in 1 .. Len(c) : k = 1 \/ c[k] # <<>>}
    /\ RxDepth \in Nat /\ TxDepth \in Nat

\* A length fits the two bytes it is sent in (tot_len is a u16_t), and the
\* receive FIFO holds a frame.
ASSUME SizeAssumption ==
    /\ MaxFrame < ByteMod * ByteMod /\ RxDepth # 0
    /\ \A c \in TxChains : Len(FlattenSeq(c)) < ByteMod * ByteMod

VARIABLES
    pc,                 \* where the driver is
    rx,                 \* receive FIFO: what is left of each of its frames
    first, Count, i,    \* locals of pano_netif_poll
    buf,                \* what was stored in the pbuf
    tx,                 \* transmit FIFO
    chain, TxLen,       \* rest of the pbuf chain, bytes still to be written
    cut,                \* history: part of the frame at rx's head was read
    frame,              \* history: the frame this poll should deliver
    taken,              \* history: frames this poll has read to their end
    lost,               \* history: the driver does not know where frames begin
    due,                \* history: frames given to output and not yet sent
    txLost              \* history: a written byte never reached the MAC

rxVars == <<rx, cut, taken>>
pollVars == <<first, Count, i, buf, frame, lost>>
txVars == <<tx, chain, TxLen, due, txLost>>
vars == <<pc, rxVars, pollVars, txVars>>

\* A frame of n bytes as the MAC and the driver exchange it.
Encode(f) == <<Len(f) \div ByteMod, Len(f) % ByteMod>> \o f

Init ==
    /\ pc = "boot"
    /\ rx \in {<<>>} \cup {<<Encode(f)>> : f \in RxFrames}
    /\ first = 0 /\ Count = 0 /\ i = 0 /\ buf = <<>>
    /\ tx = <<>> /\ chain = <<>> /\ TxLen = 0
    /\ cut = FALSE /\ frame = <<>> /\ taken = 0 /\ lost = TRUE
    /\ due = <<>> /\ txLost = FALSE

-----------------------------------------------------------------------------
\* The MAC.

\* One read of ETH_RX: an empty FIFO gives any byte and loses nothing.
Read(b) ==
    \/ /\ rx # <<>>
       /\ b = Head(Head(rx))
       /\ IF Len(Head(rx)) = 1
            THEN rx' = Tail(rx) /\ cut' = FALSE /\ taken' = taken + 1
            ELSE rx' = [rx EXCEPT ![1] = Tail(@)] /\ cut' = TRUE /\ UNCHANGED taken
    \/ rx = <<>> /\ UNCHANGED rxVars

\* One write of ETH_TX: a full FIFO does not take the byte.  What the MAC makes
\* of its FIFO from then on, until it is reset, is not followed.
Write(b) ==
    IF ~txLost /\ Len(tx) < TxDepth
      THEN tx' = Append(tx, b) /\ UNCHANGED <<due, txLost>>
      ELSE txLost' = TRUE /\ due' = <<>> /\ tx' = <<>>

\* The MAC puts a received frame into its FIFO when it has all of it.
Receive(f) ==
    /\ Len(rx) < RxDepth
    /\ rx' = Append(rx, Encode(f))
    /\ UNCHANGED <<pc, cut, taken, pollVars, txVars>>

Reading == pc \in {"high", "low", "alloc", "data", "drop"}
Writing == pc \in {"txhigh", "txlow", "txdata"}

\* rx_reset_o: the content is lost, and the next byte is again a length's.
RxReset ==
    /\ rx # <<>> \/ Reading
    /\ rx' = <<>> /\ cut' = FALSE
    /\ lost' = (lost \/ Reading)
    /\ UNCHANGED <<pc, taken, first, Count, i, buf, frame, txVars>>

\* The MAC sends the frame at the head of its FIFO once it has all of it.
MacSend ==
    /\ Len(tx) >= 2
    /\ LET n == tx[1] * ByteMod + tx[2]
       IN  /\ Len(tx) >= n + 2
           /\ tx' = SubSeq(tx, n + 3, Len(tx))
    /\ due' = Tail(due)
    /\ UNCHANGED <<pc, rxVars, pollVars, chain, TxLen, txLost>>

\* tx_reset_o: the content is lost, and the next byte written is a length's.
TxReset ==
    /\ tx # <<>> \/ txLost \/ Writing
    /\ tx' = <<>> /\ due' = <<>>
    /\ txLost' = Writing
    /\ UNCHANGED <<pc, rxVars, pollVars, chain, TxLen>>

-----------------------------------------------------------------------------
\* ClearRxFifo, at boot and after a length that cannot be.

\* Mutant: one read too many.
Cleared_Late == rx = <<>> \/ i > ClearReads

\* The loop of ClearRxFifo ends.
Cleared == rx = <<>> \/ i = ClearReads

ClearStep ==
    /\ pc \in {"boot", "clear"}
    /\ IF Cleared
         THEN /\ pc' = IF pc = "boot" THEN "idle" ELSE "alloc"
              /\ i' = 0
              /\ lost' = IF pc = "boot" THEN rx # <<>> ELSE lost
              /\ UNCHANGED rxVars
         ELSE /\ \E b \in Bytes : Read(b)
              /\ i' = i + 1
              /\ UNCHANGED <<pc, lost>>
    /\ UNCHANGED <<first, Count, buf, frame, txVars>>

-----------------------------------------------------------------------------
\* pano_netif_poll.

\* Mutant: the last frame waits for the one behind it.
HaveFrame_AtLeastTwo == Len(rx) > 1

\* ETH_STATUS_RXEMPTY is clear.
HaveFrame == rx # <<>>

\* The flag is looked at once per poll, and one frame is read.
PollBegin ==
    /\ pc = "idle"
    /\ pc' = IF HaveFrame THEN "high" ELSE "stack"
    /\ frame' = IF rx = <<>> \/ lost THEN <<>> ELSE SubSeq(Head(rx), 3, Len(Head(rx)))
    /\ lost' = (lost /\ rx # <<>>)
    /\ taken' = 0
    /\ UNCHANGED <<rx, cut, first, Count, i, buf, txVars>>

ReadHigh ==
    /\ pc = "high"
    /\ \E b \in Bytes : Read(b) /\ first' = b
    /\ pc' = "low"
    /\ UNCHANGED <<Count, i, buf, frame, lost, txVars>>

Length(b1, b2) == IF HighFirst THEN b1 * ByteMod + b2 ELSE b2 * ByteMod + b1

Invalid(n) == n = 0 \/ n > MaxFrame

\* An invalid length clears the FIFO; the poll goes on with it all the same.
ReadLow ==
    /\ pc = "low"
    /\ \E b \in Bytes : Read(b) /\ Count' = Length(first, b)
    /\ pc' = IF Invalid(Count') THEN "clear" ELSE "alloc"
    /\ first' = 0
    /\ UNCHANGED <<i, buf, frame, lost, txVars>>

\* pbuf_alloc gives a chain of Count bytes, or NULL.
PbufAlloc ==
    /\ pc = "alloc"
    /\ \/ pc' = "data"
       \/ pc' = IF Count = 0 THEN "stack" ELSE "drop"
    /\ UNCHANGED <<rxVars, pollVars, txVars>>

\* Mutant: the loop that drops a frame starts at 1, like the other one.
MoreDrop_Short(n) == n + 1 < Count

\* Is another byte of the frame read when n have been?
MoreData(n) == n < Count
MoreDrop(n) == n < Count

\* The first byte is read whatever Count is.  The bytes are stored one after
\* the other, from the start of the first pbuf on.
DataByte ==
    /\ pc = "data" /\ i < PoolBuf
    /\ \E b \in Bytes : Read(b) /\ buf' = Append(buf, b)
    /\ IF MoreData(i + 1)
         THEN i' = i + 1 /\ UNCHANGED pc
         ELSE i' = 0 /\ pc' = "input"
    /\ UNCHANGED <<first, Count, frame, lost, txVars>>

\* The loop does not go on to the next pbuf of the chain: this byte is stored
\* behind the first one's buffer, over whatever the pool has there.
DataOverrun ==
    /\ pc = "data" /\ i >= PoolBuf
    /\ \E b \in Bytes : Read(b)
    /\ pc' = "wild" /\ lost' = TRUE
    /\ i' = 0 /\ buf' = <<>>
    /\ UNCHANGED <<first, Count, frame, txVars>>

\* No pbuf: the frame is read and thrown away.
DropByte ==
    /\ pc = "drop"
    /\ \E b \in Bytes : Read(b)
    /\ IF MoreDrop(i + 1)
         THEN i' = i + 1 /\ UNCHANGED pc
         ELSE i' = 0 /\ pc' = "stack"
    /\ UNCHANGED <<first, Count, buf, frame, lost, txVars>>

\* gNetif.input takes the pbuf.
NetifInput ==
    /\ pc = "input"
    /\ pc' = "stack"
    /\ buf' = <<>>
    /\ UNCHANGED <<rxVars, first, Count, i, frame, lost, txVars>>

\* lwIP and the rest of the main loop are done: the loop polls again.
Return ==
    /\ pc = "stack"
    /\ pc' = "idle"
    /\ Count' = 0 /\ frame' = <<>> /\ taken' = 0
    /\ UNCHANGED <<rx, cut, first, i, buf, lost, txVars>>

-----------------------------------------------------------------------------
\* pano_netif_output, which lwIP calls from input, from its timers and for
\* what the console prints.

\* Mutant: the length sent is the first pbuf's, not the chain's.
tot_len_First(c) == Len(Head(c))

tot_len(c) == Len(FlattenSeq(c))

Output(c) ==
    /\ pc = "stack"
    /\ pc' = "txhigh"
    /\ chain' = c
    /\ TxLen' = tot_len(c)
    /\ due' = IF txLost THEN due ELSE Append(due, FlattenSeq(c))
    /\ UNCHANGED <<rxVars, pollVars, tx, txLost>>

WriteHigh ==
    /\ pc = "txhigh"
    /\ Write(TxLen \div ByteMod)
    /\ pc' = "txlow"
    /\ UNCHANGED <<rxVars, pollVars, chain, TxLen>>

WriteLow ==
    /\ pc = "txlow"
    /\ Write(TxLen % ByteMod)
    /\ pc' = IF TxLen = 0 THEN "stack" ELSE "txdata"
    /\ UNCHANGED <<rxVars, pollVars, chain, TxLen>>

\* An exhausted pbuf gives way to the next of the chain.
Current(c) == IF Head(c) = <<>> THEN Tail(c) ELSE c

\* Once round the loop: out of buffers ends it, else a byte is written.
DataOut ==
    /\ pc = "txdata"
    /\ LET c == Current(chain)
       IN  IF c = <<>>
             THEN /\ pc' = "stack" /\ chain' = <<>> /\ TxLen' = 0
                  /\ UNCHANGED <<tx, due, txLost>>
             ELSE /\ Write(Head(Head(c)))
                  /\ TxLen' = TxLen - 1
                  /\ chain' = IF TxLen = 1 THEN <<>> ELSE <<Tail(Head(c))>> \o Tail(c)
                  /\ pc' = IF TxLen = 1 THEN "stack" ELSE pc
    /\ UNCHANGED <<rxVars, pollVars>>

-----------------------------------------------------------------------------
Poll ==
    \/ ClearStep \/ PollBegin \/ ReadHigh \/ ReadLow \/ PbufAlloc
    \/ DataByte \/ DataOverrun \/ DropByte \/ NetifInput \/ Return

Send == WriteHigh \/ WriteLow \/ DataOut

\* What the network and the MAC do to the receive FIFO.
Network == RxReset \/ \E f \in RxFrames : Receive(f)

Next ==
    \/ Network \/ MacSend \/ TxReset
    \/ Poll \/ Send
    \/ \E c \in TxChains : Output(c)

\* The one thread of the loader runs, and lwIP returns from every call.
Fairness == WF_vars(Poll \/ Send) /\ SF_vars(Return)

Spec == Init /\ [][Next]_vars
FairSpec == Spec /\ Fairness

-----------------------------------------------------------------------------
\* Properties.

TypeOK ==
    /\ pc \in {"boot", "clear", "idle", "high", "low", "alloc", "data", "drop",
               "wild", "input", "stack", "txhigh", "txlow", "txdata"}
    /\ rx \in Seq(Seq(Bytes)) /\ Len(rx) <= RxDepth /\ first \in Bytes
    /\ Count \in 0 .. ByteMod * ByteMod - 1
    /\ i \in 0 .. IF pc \in {"boot", "clear"} THEN ClearReads ELSE ByteMod * ByteMod - 1
    /\ buf \in Seq(Bytes)
    /\ tx \in Seq(Bytes) /\ Len(tx) <= TxDepth
    /\ chain \in Seq(Seq(Bytes)) /\ TxLen \in Nat
    /\ frame \in Seq(Bytes) /\ taken \in Nat /\ due \in Seq(Seq(Bytes))
    /\ cut \in BOOLEAN /\ lost \in BOOLEAN /\ txLost \in BOOLEAN

(* What pano_netif_poll hands to lwIP is the frame that was at the head of   *)
(* the FIFO when the poll began, byte for byte, whatever arrives during the  *)
(* poll; and with or without a pbuf (main.c:479-505) the poll reads that     *)
(* frame to its last byte and no further.  Once the driver has seen the FIFO *)
(* empty this holds until the MAC resets the FIFO in the middle of a poll, or *)
(* a frame too long for a pbuf is stored.                                    *)
FramesIntact ==
    \/ lost
    \/ /\ pc \in {"idle", "stack", "input"} => ~cut
       /\ pc = "input" => taken = 1 /\ buf = frame
       /\ pc \in {"clear", "alloc", "data", "drop"} => ~Invalid(Count)

\* The bytes pano_netif_output has still to write.
ToWrite ==
    CASE pc = "txhigh" -> <<TxLen \div ByteMod, TxLen % ByteMod>> \o FlattenSeq(chain)
      [] pc = "txlow" -> <<TxLen % ByteMod>> \o FlattenSeq(chain)
      [] OTHER -> FlattenSeq(chain)

(* What is in the transmit FIFO, and what pano_netif_output has still to put *)
(* there, are the frames lwIP sent, each with its own length and all of its  *)
(* chain (main.c:437-454), as long as no byte met a full FIFO or a reset:    *)
(* the driver looks at neither ETH_STATUS_TXFULL nor ETH_STATUS_TXRESET.     *)
TxIntact ==
    ~txLost => tx \o ToWrite = FlattenSeq([k \in 1 .. Len(due) |-> Encode(due[k])])

(* However the driver lost its place (a reset during a poll, or frames that  *)
(* were there before main cleared 2048 bytes), once nothing new arrives it   *)
(* drains the FIFO and knows again where frames begin (main.c:468-473), if   *)
(* none of the lengths it reads on the way has it store past a pbuf's end.   *)
Resyncs ==
    <>[][~Network]_vars /\ [](pc # "wild") => <>[](rx = <<>> /\ ~lost)

(* What a comment says, and the code does not do.                            *)

\* pano_netif_poll: "We allocate a pbuf chain of pbufs from the pool."  So a
\* frame that lwIP has room for is stored in the chain.
ChainFilled == pc # "wild"

=============================================================================
