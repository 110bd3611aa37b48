---------------------------- MODULE AxiBusProofs ----------------------------
(***************************************************************************)
(* Proofs about AxiBus: the converter and the registers of the Ethernet     *)
(* block, for counters and addresses of every width and every set of        *)
(* bursts, with a master that raises and drops its signals as it likes.     *)
(***************************************************************************)
EXTENDS AxiBus, TLAPS

(* Integer division by a divisor that is not a literal.                   *)

\* Division with remainder.
LEMMA DivMod ==
    ASSUME NEW a \in Int, NEW d \in Nat \ {0}
    PROVE  /\ a \div d \in Int
           /\ a % d \in 0 .. d - 1
           /\ a = d * (a \div d) + (a % d)
  BY Z3

\* A remainder is unique.
LEMMA ModUnique ==
    ASSUME NEW a \in Int, NEW d \in Nat \ {0}, NEW q \in Int, NEW r \in Nat,
           r < d, a = d * q + r
    PROVE  a % d = r
  BY Z3

\* A number below the divisor is its own remainder.
LEMMA ModSmall ==
    ASSUME NEW d \in Nat \ {0}, NEW r \in 0 .. d - 1
    PROVE  r % d = r
<1>1. r \in Int /\ r \in Nat /\ r < d /\ r = d * 0 + r
  OBVIOUS
<1>2. QED
  BY <1>1, ModUnique

\* Counting one further, before or after taking the remainder.
LEMMA ModSucc ==
    ASSUME NEW a \in Int, NEW d \in Nat \ {0}
    PROVE  ((a % d) + 1) % d = (a + 1) % d
<1> DEFINE q == a \div d
           r == a % d
           b == a + 1
           s == r + 1
<1>1. q \in Int /\ r \in 0 .. d - 1 /\ a = d * q + r
  BY DivMod
<1> HIDE DEF q, r
<1>2. b \in Int /\ s \in Nat /\ s <= d
  BY <1>1
<1>3. CASE s < d
  <2>1. b = d * q + s /\ s \in 0 .. d - 1
    BY <1>1, <1>2, <1>3
  <2> HIDE DEF b, s
  <2>2. b % d = s /\ s % d = s
    BY <1>1, <1>2, <1>3, <2>1, ModUnique, ModSmall
  <2>3. QED
    BY <2>2 DEF b, s, r
<1>4. CASE s = d
  <2>1. b = d * (q + 1) + 0 /\ s = d * 1 + 0 /\ q + 1 \in Int
    BY <1>1, <1>2, <1>4, Z3
  <2> HIDE DEF b, s
  <2>2. b % d = 0 /\ s % d = 0
    BY <1>1, <1>2, <2>1, ModUnique
  <2>3. QED
    BY <2>2 DEF b, s, r
<1>5. QED
  BY <1>2, <1>3, <1>4

\* Counting one further and one back.
LEMMA ModBack ==
    ASSUME NEW d \in Nat \ {0}, NEW r \in 0 .. d - 1
    PROVE  /\ (r + 1) % d \in 0 .. d - 1
           /\ (((r + 1) % d) - 1) % d = r
<1> DEFINE s == r + 1
<1>1. s \in Nat /\ s <= d /\ r \in Nat
  OBVIOUS
<1>2. CASE s < d
  <2>1. s % d = s
    <3>1. s \in 0 .. d - 1
      BY <1>1, <1>2
    <3> HIDE DEF s
    <3>2. QED
      BY <3>1, ModSmall
  <2>2. s - 1 = r /\ r % d = r
    BY ModSmall
  <2>3. QED
    BY <1>1, <1>2, <2>1, <2>2
<1>3. CASE s = d
  <2>1. s % d = 0
    <3>1. s = d * 1 + 0
      BY <1>3
    <3> HIDE DEF s
    <3>2. QED
      BY <1>1, <3>1, ModUnique
  <2>2. (0 - 1) % d = d - 1
    <3> DEFINE m == 0 - 1
               e == d - 1
    <3>1. m \in Int /\ e \in Nat /\ e < d /\ m = d * (0 - 1) + e /\ 0 - 1 \in Int
      BY Z3
    <3> HIDE DEF m, e
    <3>2. m % d = e
      BY <3>1, ModUnique
    <3>3. QED
      BY <3>2 DEF m, e
  <2>3. d - 1 = r
    BY <1>3
  <2>4. QED
    BY <1>1, <2>1, <2>2, <2>3
<1>4. QED
  BY <1>1, <1>2, <1>3

-----------------------------------------------------------------------------

\* The beat counter that stands for n beats to come.
Left(n) == IF n = CntMod THEN 0 ELSE n

\* The next data the master sends is the first of the burst it presents.
Waiting == m_wtx = m_aw /\ m_sent = 0

\* A write burst in its three phases: none under way; some of its beats still
\* to come, of which the converter holds the address; all of them written, and
\* the response to the last held for the master.
WriteInv ==
    /\ ~s_awvalid_q /\ ~s_wvalid_q
    /\ m_w => m_wtx # NoTx
    /\ awvalid_mask_q <=> wr # NoTx
    /\ wr = NoTx => ~awvalid_q /\ ~blast_q /\ ~bvalid_q /\ wdone = 0 /\ Waiting
    /\ wr # NoTx /\ wdone <= wr.len =>
         /\ awvalid_q /\ ~blast_q
         /\ m_wtx = wr /\ m_sent = wdone
         /\ awcnt_q = Left(wr.len + 1 - wdone)
         /\ awaddr_q = BeatAddr(wr, wdone)
         /\ awlen_q = wr.len /\ awburst_q = wr.burst
    /\ wr # NoTx /\ ~(wdone <= wr.len) =>
         /\ wdone = wr.len + 1
         /\ ~awvalid_q /\ blast_q /\ bvalid_q /\ Waiting

\* A read burst: at most one read of the registers is outstanding, the counter
\* holds the beats still to be read, and the converter their next address.
ReadInv ==
    /\ arvalid_mask_q <=> rd # NoTx
    /\ rd = NoTx => ~arvalid_q /\ ~rvalid_q /\ rdone = 0
    /\ rd # NoTx =>
         /\ rdone <= rd.len
         /\ rissued = IF rvalid_q THEN rdone + 1 ELSE rdone
         /\ 1 <= rissued /\ rissued <= rd.len + 1
         /\ arcnt_q = rd.len + 1 - rissued
         /\ arvalid_q <=> rissued <= rd.len
         /\ arlen_q = rd.len /\ arburst_q = rd.burst
         /\ rissued <= rd.len => araddr_q = BeatAddr(rd, rissued)

\* The pop strobe is up for the cycle after a read, while its byte is returned,
\* and the FIFO is that much behind the reads.
FifoInv ==
    /\ rx_rd_en => rvalid_q
    /\ rxreads = IF rx_rd_en THEN (rx_head + 1) % ByteMod ELSE rx_head

-----------------------------------------------------------------------------
(* The counters and the addresses of a burst.                              *)

LEMMA LeftFacts ==
    ASSUME NEW n \in 1 .. CntMod
    PROVE  /\ n % CntMod = Left(n)
           /\ Left(n) \in 0 .. CntMod - 1
           /\ Left(n) = 1 <=> n = 1
           /\ (Left(n) - 1) % CntMod = Left(n - 1)
<1>1. CntMod \in Nat \ {0} /\ CntMod >= 2
  BY WidthAssumption
<1>2. CASE n < CntMod
  <2>1. n \in 0 .. CntMod - 1 /\ n - 1 \in 0 .. CntMod - 1
    BY <1>1, <1>2
  <2>2. n % CntMod = n
    BY <1>1, <2>1, ModSmall
  <2>3. (n - 1) % CntMod = n - 1
    <3> DEFINE k == n - 1
    <3>1. k \in 0 .. CntMod - 1
      BY <2>1
    <3> HIDE DEF k
    <3>2. k % CntMod = k
      BY <1>1, <3>1, ModSmall
    <3>3. QED
      BY <3>2 DEF k
  <2>4. Left(n) = n /\ Left(n - 1) = n - 1
    BY <1>1, <1>2 DEF Left
  <2>5. QED
    BY <2>1, <2>2, <2>3, <2>4
<1>3. CASE n = CntMod
  <2> DEFINE k == CntMod - 1
  <2>1. k \in 0 .. CntMod - 1 /\ k + 1 = CntMod /\ k # CntMod
    BY <1>1
  <2>2. CntMod % CntMod = 0
    BY <1>1, ModUnique
  <2>3. (((k + 1) % CntMod) - 1) % CntMod = k
    <3> HIDE DEF k
    <3>1. QED
      BY <1>1, <2>1, ModBack
  <2>4. (0 - 1) % CntMod = k
    BY <2>1, <2>2, <2>3
  <2>5. Left(n) = 0 /\ Left(n - 1) = k
    BY <1>3, <2>1 DEF Left
  <2>6. QED
    BY <1>1, <1>3, <2>2, <2>4, <2>5
<1>4. QED
  BY <1>1, <1>2, <1>3

\* A burst's parts.
LEMMA TxnFacts ==
    ASSUME NEW t \in WTxns \cup RTxns
    PROVE  /\ t.addr \in 0 .. AddrMod - 1 /\ t.len \in 0 .. CntMod - 1
           /\ t.burst \in Bursts /\ t # NoTx
           /\ t.len \in Nat /\ t.len + 1 \in 1 .. CntMod
<1>1. t \in Txns /\ NoTx \notin Txns
  BY TxnAssumption
<1>2. /\ t.addr \in 0 .. AddrMod - 1 /\ t.len \in 0 .. CntMod - 1
      /\ t.burst \in Bursts /\ t # NoTx
  BY <1>1 DEF Txns
<1>3. QED
  BY <1>2, WidthAssumption

\* calculate_addr_next goes from the address of a beat to that of the next, by
\* AXI's definition, and stays in the address space.
LEMMA BeatFacts ==
    ASSUME NEW t \in WTxns \cup RTxns
    PROVE  /\ BeatAddr(t, 0) = t.addr
           /\ \A k \in Nat :
                /\ BeatAddr(t, k) \in 0 .. AddrMod - 1
                /\ calculate_addr_next(BeatAddr(t, k), t.burst, t.len)
                     = BeatAddr(t, k + 1)
<1>1. /\ t.addr \in 0 .. AddrMod - 1 /\ t.len \in Nat /\ t.addr \in Nat
      /\ AddrMod \in Nat \ {0} /\ t.burst \in Bursts
  BY TxnFacts, WidthAssumption
<1>2. CASE t.burst = "FIXED"
  BY <1>1, <1>2 DEF BeatAddr, calculate_addr_next
<1>3. CASE t.burst = "INCR"
  <2>1. \A k \in Nat : BeatAddr(t, k) = (t.addr + k) % AddrMod
    BY <1>3 DEF BeatAddr
  <2>2. \A a : calculate_addr_next(a, t.burst, t.len) = (a + 1) % AddrMod
    BY <1>3 DEF calculate_addr_next
  <2>3. BeatAddr(t, 0) = t.addr
    <3>1. t.addr % AddrMod = t.addr
      BY <1>1, ModSmall
    <3>2. QED
      BY <1>1, <2>1, <3>1
  <2>4. ASSUME NEW k \in Nat
        PROVE  /\ BeatAddr(t, k) \in 0 .. AddrMod - 1
               /\ calculate_addr_next(BeatAddr(t, k), t.burst, t.len)
                    = BeatAddr(t, k + 1)
    <3> DEFINE a == t.addr + k
    <3>1. a \in Int /\ t.addr + (k + 1) = a + 1 /\ k + 1 \in Nat
      BY <1>1
    <3>2. BeatAddr(t, k) = a % AddrMod /\ BeatAddr(t, k + 1) = (a + 1) % AddrMod
      BY <2>1, <3>1
    <3> HIDE DEF a
    <3>3. a % AddrMod \in 0 .. AddrMod - 1 /\ ((a % AddrMod) + 1) % AddrMod = (a + 1) % AddrMod
      BY <1>1, <3>1, DivMod, ModSucc
    <3>4. QED
      BY <2>2, <3>2, <3>3
  <2>5. QED
    BY <2>3, <2>4
<1>4. CASE t.burst = "WRAP"
  <2> DEFINE n == t.len + 1
             q == t.addr \div n
             off == t.addr % n
             base == t.addr - off
  <2>1. n \in Nat \ {0} /\ WrapWords(t.len) = n /\ AddrMod % n = 0
    BY <1>1, <1>4, WrapAssumption DEF WrapWords
  <2>2. \A k \in Nat : BeatAddr(t, k) = base + ((t.addr - base + k) % n)
    BY <1>4 DEF BeatAddr
  <2>3. \A a : calculate_addr_next(a, t.burst, t.len) = (a - (a % n)) + ((a + 1) % n)
    BY <1>4, <2>1 DEF calculate_addr_next
  <2> HIDE DEF n
  <2>4. q \in Int /\ off \in 0 .. n - 1 /\ t.addr = n * q + off
    <3>1. t.addr \in Int
      BY <1>1
    <3>2. QED
      BY <2>1, <3>1, DivMod
  <2>5. base = n * q /\ base \in Int /\ t.addr - base = off
    <3>1. n * q \in Int /\ off \in Int /\ t.addr \in Int
      BY <1>1, <2>1, <2>4
    <3> HIDE DEF q, off
    <3>2. QED
      BY <2>4, <3>1 DEF base
  <2>6. base >= 0 /\ base + n <= AddrMod
    <3> DEFINE m == AddrMod \div n
    <3>1. m \in Int /\ AddrMod = n * m
      BY <1>1, <2>1, DivMod
    <3> HIDE DEF m, q, off, base
    <3>2. n * q + off >= 0 /\ n * q + off < n * m
      BY <1>1, <2>1, <2>4, <3>1
    <3>3. q >= 0 /\ q < m
      BY <2>1, <2>4, <3>1, <3>2, Z3
    <3>4. n * q >= 0 /\ n * q + n <= n * m
      BY <2>1, <2>4, <3>1, <3>3, Z3
    <3>5. QED
      BY <2>5, <3>1, <3>4
  <2> HIDE DEF q, off, base
  <2>7. BeatAddr(t, 0) = t.addr
    <3>1. off % n = off
      BY <2>1, <2>4, ModSmall
    <3>2. t.addr - base + 0 = off /\ base + off = t.addr
      BY <1>1, <2>1, <2>4, <2>5
    <3>3. BeatAddr(t, 0) = base + (off % n)
      BY <2>2, <3>2
    <3>4. QED
      BY <3>1, <3>2, <3>3
  <2>8. ASSUME NEW k \in Nat
        PROVE  /\ BeatAddr(t, k) \in 0 .. AddrMod - 1
               /\ calculate_addr_next(BeatAddr(t, k), t.burst, t.len)
                    = BeatAddr(t, k + 1)
    <3> DEFINE d == off + k
               r == d % n
               a == base + r
    <3>1. d \in Int /\ t.addr - base + k = d /\ t.addr - base + (k + 1) = d + 1
          /\ k + 1 \in Nat
      BY <2>1, <2>4, <2>5
    <3>2. BeatAddr(t, k) = a /\ BeatAddr(t, k + 1) = base + ((d + 1) % n)
      BY <2>2, <3>1
    <3> HIDE DEF d
    <3>3. r \in 0 .. n - 1 /\ (r + 1) % n = (d + 1) % n
      BY <2>1, <3>1, DivMod, ModSucc
    <3> HIDE DEF r
    <3>4. a \in Int /\ r \in Nat /\ r < n /\ a = n * q + r
      BY <2>1, <2>4, <2>5, <3>3
    <3>5. a \in 0 .. AddrMod - 1 /\ a - r = base
      BY <1>1, <2>1, <2>5, <2>6, <3>3
    <3> HIDE DEF a
    <3>6. a % n = r
      BY <2>1, <2>4, <3>4, ModUnique
    <3>7. (a + 1) % n = (r + 1) % n
      BY <2>1, <3>4, <3>6, ModSucc
    <3>8. QED
      BY <2>3, <3>2, <3>3, <3>5, <3>6, <3>7
  <2>9. QED
    BY <2>7, <2>8
<1>5. QED
  BY <1>1, <1>2, <1>3, <1>4 DEF Bursts
-----------------------------------------------------------------------------
(* The signals of a cycle, in terms of the registers behind them.          *)

\* The registers accept writes: no response is held and no read presented.
WReady == ~bvalid_q /\ ~C.arvalid

\* What the master drives, and what the converter passes on.
LEMMA Wires ==
    /\ I.awvalid <=> m_aw # NoTx
    /\ m_aw # NoTx => /\ I.awaddr = m_aw.addr /\ I.awlen = m_aw.len
                      /\ I.awburst = m_aw.burst
    /\ I.wvalid = m_w /\ I.wdata = m_sent /\ I.bready = m_bready
    /\ I.wlast <=> m_wtx # NoTx /\ m_sent = m_wtx.len
    /\ I.arvalid <=> m_ar # NoTx
    /\ m_ar # NoTx => /\ I.araddr = m_ar.addr /\ I.arlen = m_ar.len
                      /\ I.arburst = m_ar.burst
    /\ I.rready = m_rready
    /\ C.awvalid <=> (m_aw # NoTx /\ m_w /\ ~awvalid_mask_q) \/ (awvalid_q /\ m_w)
    /\ C.wvalid = m_w /\ C.wdata = m_sent
    /\ C.bready <=> ~blast_q \/ m_bready
    /\ C.arvalid <=> (m_ar # NoTx /\ ~arvalid_mask_q) \/ arvalid_q
    /\ C.rready = m_rready
    /\ C.awaddr = IF awvalid_q THEN awaddr_q ELSE I.awaddr
    /\ C.araddr = IF arvalid_q THEN araddr_q ELSE I.araddr
    /\ O.awready <=> WReady /\ ~s_awvalid_q
    /\ O.wready <=> WReady /\ ~s_wvalid_q
    /\ O.bvalid = bvalid_q /\ O.arready = ~rvalid_q /\ O.rvalid = rvalid_q
<1>1. /\ I.awvalid <=> m_aw # NoTx
      /\ m_aw # NoTx => /\ I.awaddr = m_aw.addr /\ I.awlen = m_aw.len
                        /\ I.awburst = m_aw.burst
      /\ I.wvalid = m_w /\ I.wdata = m_sent /\ I.bready = m_bready
      /\ I.wlast <=> m_wtx # NoTx /\ m_sent = m_wtx.len
      /\ I.arvalid <=> m_ar # NoTx
      /\ m_ar # NoTx => /\ I.araddr = m_ar.addr /\ I.arlen = m_ar.len
                        /\ I.arburst = m_ar.burst
      /\ I.rready = m_rready
  BY DEF I, In
<1>2. /\ C.awvalid = outport_awvalid_o(I) /\ C.awaddr = outport_awaddr_o(I)
      /\ C.wvalid = outport_wvalid_o(I) /\ C.wdata = I.wdata
      /\ C.bready = outport_bready_o(I) /\ C.arvalid = outport_arvalid_o(I)
      /\ C.araddr = outport_araddr_o(I) /\ C.rready = outport_rready_o(I)
  BY DEF C, Cfg
<1>3. /\ O.awready = cfg_awready_o(C) /\ O.wready = cfg_wready_o(C)
      /\ O.bvalid = bvalid_q /\ O.arready = cfg_arready_o /\ O.rvalid = rvalid_q
  BY DEF O, Out
<1>4. /\ C.awvalid <=> (m_aw # NoTx /\ m_w /\ ~awvalid_mask_q) \/ (awvalid_q /\ m_w)
      /\ C.wvalid = m_w /\ C.wdata = m_sent
  BY <1>1, <1>2, Zenon DEF outport_awvalid_o, outport_wvalid_o
<1>5. /\ C.bready <=> ~blast_q \/ m_bready
      /\ C.arvalid <=> (m_ar # NoTx /\ ~arvalid_mask_q) \/ arvalid_q
      /\ C.rready = m_rready
  BY <1>1, <1>2, Zenon DEF outport_bready_o, outport_arvalid_o, outport_rready_o
<1>6. /\ C.awaddr = IF awvalid_q THEN awaddr_q ELSE I.awaddr
      /\ C.araddr = IF arvalid_q THEN araddr_q ELSE I.araddr
  BY <1>2 DEF outport_awaddr_o, outport_araddr_o
<1>7. /\ O.awready <=> WReady /\ ~s_awvalid_q
      /\ O.wready <=> WReady /\ ~s_wvalid_q
      /\ O.bvalid = bvalid_q /\ O.arready = ~rvalid_q /\ O.rvalid = rvalid_q
  BY <1>3, Zenon DEF cfg_awready_o, cfg_wready_o, cfg_arready_o, WReady
<1>8. QED
  BY <1>1, <1>4, <1>5, <1>6, <1>7, Zenon

\* Data that the master presents always has its address, so the registers take
\* both or neither.
LEMMA WriteSignals ==
    ASSUME WriteInv
    PROVE  /\ TakesAW(I, O) <=> m_aw # NoTx /\ wr = NoTx /\ WReady
           /\ TakesW(I, O) <=> m_w /\ WReady
           /\ write_en_w(C) <=> m_w /\ WReady
           /\ C.awvalid /\ cfg_awready_o(C) <=> m_w /\ WReady
           /\ wr_data_accepted_w(C) <=> m_w /\ WReady
           /\ wr_cmd_accepted_w(C) <=> m_w /\ WReady
           /\ cfg_awready_o(C) <=> WReady
           /\ cfg_wready_o(C) <=> WReady
           /\ GivesB(I, O) <=> bvalid_q /\ blast_q /\ m_bready
           /\ Continues(I, O) <=> awvalid_q /\ m_w /\ WReady
<1>1. WReady /\ m_w => (m_aw # NoTx /\ ~awvalid_mask_q) \/ awvalid_q
  BY DEF WriteInv, WReady, Waiting
<1>2. ~s_awvalid_q /\ ~s_wvalid_q /\ (awvalid_mask_q <=> wr # NoTx)
  BY DEF WriteInv
<1>3. /\ cfg_awready_o(C) <=> WReady
      /\ cfg_wready_o(C) <=> WReady
  BY <1>2, Zenon DEF cfg_awready_o, cfg_wready_o, WReady
<1>4. C.awvalid /\ WReady <=> m_w /\ WReady
  BY <1>1, Wires, Zenon
<1>5. /\ C.awvalid /\ cfg_awready_o(C) <=> m_w /\ WReady
      /\ wr_data_accepted_w(C) <=> m_w /\ WReady
      /\ wr_cmd_accepted_w(C) <=> m_w /\ WReady
  BY <1>2, <1>3, <1>4, Wires, Zenon DEF wr_data_accepted_w, wr_cmd_accepted_w
<1>6. write_en_w(C) <=> m_w /\ WReady
  BY <1>5, Zenon DEF write_en_w
<1>7. /\ TakesAW(I, O) <=> m_aw # NoTx /\ wr = NoTx /\ WReady
      /\ TakesW(I, O) <=> m_w /\ WReady
  BY <1>2, Wires, Zenon
     DEF TakesAW, TakesW, inport_awready_o, inport_wready_o
<1>8. GivesB(I, O) <=> bvalid_q /\ blast_q /\ m_bready
  BY Wires, Zenon DEF GivesB, inport_bvalid_o
<1>9. Continues(I, O) <=> awvalid_q /\ m_w /\ WReady
  <2>1. C.awvalid <=> outport_awvalid_o(I)
    BY Zenon, Wires DEF outport_awvalid_o
  <2>2. QED
    BY <1>2, <1>4, <2>1, Wires, Zenon DEF Continues
<1>10. QED
  BY <1>3, <1>5, <1>6, <1>7, <1>8, <1>9, Zenon
-----------------------------------------------------------------------------
(* The write side of a cycle.                                              *)

\* A write of the registers happens in this cycle.
Writes == m_w /\ WReady

\* What the clock edge does to the registers of the write side.
LEMMA WriteEdge ==
    ASSUME WriteInv, Tick
    PROVE  /\ ~s_awvalid_q' /\ ~s_wvalid_q'
           /\ awvalid_mask_q' <=> \/ TakesAW(I, O)
                                  \/ awvalid_mask_q /\ ~GivesB(I, O)
           /\ bvalid_q' <=> Writes \/ (bvalid_q /\ blast_q /\ ~m_bready)
           /\ WriteTick(I, O)
           /\ wr' = IF TakesAW(I, O) THEN m_aw
                    ELSE IF GivesB(I, O) THEN NoTx ELSE wr
           /\ wdone' = (IF TakesAW(I, O) \/ GivesB(I, O) THEN 0 ELSE wdone)
                         + (IF Writes THEN 1 ELSE 0)
           /\ \/ m_aw' = IF TakesAW(I, O) THEN NoTx ELSE m_aw
              \/ (m_aw = NoTx \/ TakesAW(I, O)) /\ m_aw' \in WTxns
           /\ m_wtx' = IF m_wtx = NoTx \/ (Writes /\ I.wlast) THEN m_aw' ELSE m_wtx
           /\ m_sent' = IF Writes /\ I.wlast THEN 0
                        ELSE IF Writes THEN m_sent + 1 ELSE m_sent
           /\ m_w' => m_wtx' # NoTx
<1>1. ConvTick(I, O) /\ RegsTick(C) /\ MasterTick(I, O) /\ HistoryTick(I, C, O)
  BY DEF Tick, I, C, O
<1>2. MaskTick(I, O) /\ WriteTick(I, O)
  BY <1>1 DEF ConvTick
<1>3. SplitTick(C) /\ ResponseTick(C)
  BY <1>1 DEF RegsTick, LiteTick
<1>4. ~s_awvalid_q' /\ ~s_wvalid_q'
  <2>1. ~s_awvalid_q /\ ~s_wvalid_q
    BY DEF WriteInv
  <2>2. ~(C.awvalid /\ cfg_awready_o(C) /\ ~wr_data_accepted_w(C))
    BY WriteSignals, Zenon
  <2>3. ~(C.wvalid /\ cfg_wready_o(C) /\ ~wr_cmd_accepted_w(C))
    BY WriteSignals, Wires, Zenon
  <2>4. s_awvalid_q' = (s_awvalid_q /\ ~wr_data_accepted_w(C))
    BY <1>3, <2>2, Zenon DEF SplitTick
  <2>5. s_wvalid_q' = (s_wvalid_q /\ ~wr_cmd_accepted_w(C))
    BY <1>3, <2>3, Zenon DEF SplitTick
  <2>6. QED
    BY <2>1, <2>4, <2>5, Zenon
<1>5. awvalid_mask_q' <=> TakesAW(I, O) \/ (awvalid_mask_q /\ ~GivesB(I, O))
  BY <1>2, Zenon DEF MaskTick
<1>6. bvalid_q' <=> Writes \/ (bvalid_q /\ blast_q /\ ~m_bready)
  BY <1>3, WriteSignals, Wires, Zenon DEF ResponseTick, Writes
<1>7. /\ wr' = IF TakesAW(I, O) THEN m_aw
               ELSE IF GivesB(I, O) THEN NoTx ELSE wr
      /\ wdone' = (IF TakesAW(I, O) \/ GivesB(I, O) THEN 0 ELSE wdone)
                    + (IF Writes THEN 1 ELSE 0)
  <2>1. write_en_w(C) <=> Writes
    BY WriteSignals, Zenon DEF Writes
  <2>2. QED
    BY <1>1, <2>1 DEF HistoryTick
<1>8. /\ \/ m_aw' = IF TakesAW(I, O) THEN NoTx ELSE m_aw
         \/ (m_aw = NoTx \/ TakesAW(I, O)) /\ m_aw' \in WTxns
      /\ m_wtx' = IF m_wtx = NoTx \/ (Writes /\ I.wlast) THEN m_aw' ELSE m_wtx
      /\ m_sent' = IF Writes /\ I.wlast THEN 0
                   ELSE IF Writes THEN m_sent + 1 ELSE m_sent
      /\ m_w' => m_wtx' # NoTx
  <2>1. TakesW(I, O) <=> Writes
    BY WriteSignals, Zenon DEF Writes
  <2>2. QED
    BY <1>1, <2>1 DEF MasterTick
<1>9. QED
  BY <1>2, <1>4, <1>5, <1>6, <1>7, <1>8, Zenon
\* A cycle between bursts: nothing happens, or the next burst is accepted,
\* alone or with its first beat, which may be its last.
LEMMA WriteStepIdle ==
    ASSUME TypeOK, WriteInv, Tick, wr = NoTx
    PROVE  WriteInv' /\ wdone' \in 0 .. CntMod
<1>1. /\ ~awvalid_mask_q /\ ~awvalid_q /\ ~blast_q /\ ~bvalid_q /\ wdone = 0
      /\ m_wtx = m_aw /\ m_sent = 0 /\ (m_w => m_wtx # NoTx)
  BY DEF WriteInv, Waiting
<1>2. ~GivesB(I, O) /\ ~Continues(I, O)
  BY <1>1, WriteSignals, Zenon
<1>3. 0 \in 0 .. CntMod /\ 1 \in 0 .. CntMod
  BY WidthAssumption
<1>4. CASE ~TakesAW(I, O)
  <2>1. ~Writes
    BY <1>1, <1>4, WriteSignals, Zenon DEF Writes
  <2>2. /\ ~s_awvalid_q' /\ ~s_wvalid_q' /\ (m_w' => m_wtx' # NoTx)
        /\ ~awvalid_mask_q' /\ ~bvalid_q'
    BY <1>1, <1>4, <2>1, WriteEdge, Zenon
  <2>3. wr' = NoTx /\ wdone' = 0
    <3>1. /\ wr' = wr
          /\ wdone' = wdone + 0
      BY <1>2, <1>4, <2>1, WriteEdge
    <3>2. QED
      BY <1>1, <3>1
  <2>4. ~awvalid_q' /\ ~blast_q'
    <3>1. awvalid_q' = awvalid_q
      BY <1>2, <1>4, WriteEdge DEF WriteTick
    <3>2. blast_q' = (blast_q /\ ~GivesB(I, O))
      BY <1>2, <1>4, WriteEdge, Zenon DEF WriteTick
    <3>3. QED
      BY <1>1, <3>1, <3>2, Zenon
  <2>5. m_wtx' = m_aw' /\ m_sent' = 0
    BY <1>1, <1>4, <2>1, WriteEdge
  <2>6. QED
    BY <1>3, <2>2, <2>3, <2>4, <2>5 DEF WriteInv, Waiting
<1>5. CASE TakesAW(I, O)
  <2> DEFINE t == m_aw
  <2>1. t \in WTxns /\ t # NoTx /\ WReady
    BY <1>5, WriteSignals DEF TypeOK
  <2>2. /\ t.len \in Nat /\ t.len + 1 \in 1 .. CntMod
        /\ t.len \in 0 .. CntMod - 1 /\ CntMod \in Nat
    BY <2>1, TxnFacts, WidthAssumption
  <2>3. wr' = t
    BY <1>5, WriteEdge
  <2>4. /\ ~s_awvalid_q' /\ ~s_wvalid_q' /\ (m_w' => m_wtx' # NoTx)
        /\ awvalid_mask_q'
    BY <1>5, WriteEdge, Zenon
  <2>5. awlen_q' = t.len /\ awburst_q' = t.burst
    BY <1>2, <1>5, <2>1, WriteEdge, Wires DEF WriteTick
  <2>6. CASE ~Writes
    <3>1. ~TakesW(I, O)
      BY <2>6, WriteSignals, Zenon DEF Writes
    <3>2. awvalid_q' /\ ~blast_q'
      BY <1>2, <1>5, <3>1, WriteEdge, Zenon DEF WriteTick
    <3>3. awcnt_q' = Left(t.len + 1) /\ awaddr_q' = BeatAddr(t, 0)
      <4>1. awcnt_q' = (t.len + 1) % CntMod /\ awaddr_q' = t.addr
        BY <1>2, <1>5, <2>1, <3>1, WriteEdge, Wires DEF WriteTick, BeatsToCome
      <4>2. QED
        BY <2>1, <2>2, <4>1, LeftFacts, BeatFacts
    <3>4. wdone' = 0
      BY <1>5, <2>6, WriteEdge
    <3>5. m_wtx' = t /\ m_sent' = 0
      BY <1>1, <2>1, <2>6, WriteEdge
    <3>6. t.len + 1 - 0 = t.len + 1 /\ 0 <= t.len
      BY <2>2
    <3>7. QED
      BY <1>3, <2>1, <2>3, <2>4, <2>5, <3>2, <3>3, <3>4, <3>5, <3>6 DEF WriteInv
  <2>7. CASE Writes
    <3>1. TakesW(I, O)
      BY <2>7, WriteSignals, Zenon DEF Writes
    <3>2. wdone' = 1 /\ bvalid_q'
      <4>1. wdone' = 0 + 1
        BY <1>5, <2>7, WriteEdge
      <4>2. bvalid_q'
        BY <2>7, WriteEdge, Zenon
      <4>3. QED
        BY <4>1, <4>2
    <3>3. I.wlast <=> t.len = 0
      BY <1>1, <2>1, Wires
    <3>4. (awvalid_q' <=> ~I.wlast) /\ (blast_q' <=> I.wlast)
      BY <1>2, <1>5, <3>1, WriteEdge, Zenon DEF WriteTick
    <3>5. CASE t.len = 0
      <4>1. ~awvalid_q' /\ blast_q'
        BY <3>3, <3>4, <3>5, Zenon
      <4>2. m_wtx' = m_aw' /\ m_sent' = 0
        BY <2>7, <3>3, <3>5, WriteEdge
      <4>3. 1 = t.len + 1 /\ ~(1 <= t.len)
        BY <3>5
      <4>4. QED
        BY <1>3, <2>1, <2>3, <2>4, <3>2, <4>1, <4>2, <4>3 DEF WriteInv, Waiting
    <3>6. CASE t.len # 0
      <4>1. awvalid_q' /\ ~blast_q'
        BY <3>3, <3>4, <3>6, Zenon
      <4>2. m_wtx' = t /\ m_sent' = 1
        <5>1. m_wtx' = m_wtx /\ m_sent' = m_sent + 1
          BY <1>1, <2>1, <2>7, <3>3, <3>6, WriteEdge
        <5>2. QED
          BY <1>1, <5>1
      <4>3. awcnt_q' = Left(t.len + 1 - 1) /\ awaddr_q' = BeatAddr(t, 1)
        <5>1. /\ awcnt_q' = t.len
              /\ awaddr_q' = calculate_addr_next(t.addr, t.burst, t.len)
          BY <1>2, <1>5, <2>1, <3>1, WriteEdge, Wires DEF WriteTick
        <5>2. t.len + 1 - 1 = t.len /\ t.len # CntMod /\ 0 + 1 = 1
          BY <2>2
        <5>3. /\ BeatAddr(t, 0) = t.addr
              /\ calculate_addr_next(BeatAddr(t, 0), t.burst, t.len) = BeatAddr(t, 0 + 1)
          BY <2>1, BeatFacts
        <5>4. QED
          BY <5>1, <5>2, <5>3 DEF Left
      <4>4. 1 <= t.len
        BY <2>2, <3>6
      <4>5. QED
        BY <1>3, <2>1, <2>3, <2>4, <2>5, <3>2, <4>1, <4>2, <4>3, <4>4 DEF WriteInv
    <3>7. QED
      BY <3>5, <3>6
  <2>8. QED
    BY <2>6, <2>7
<1>6. QED
  BY <1>4, <1>5

\* A cycle of a burst with beats to come: a beat is written, perhaps the last,
\* or nothing is.
LEMMA WriteStepBurst ==
    ASSUME TypeOK, WriteInv, Tick, wr # NoTx, wdone <= wr.len
    PROVE  WriteInv' /\ wdone' \in 0 .. CntMod
<1> DEFINE t == wr
<1>1. /\ awvalid_mask_q /\ awvalid_q /\ ~blast_q /\ m_wtx = t /\ m_sent = wdone
      /\ awcnt_q = Left(t.len + 1 - wdone) /\ awaddr_q = BeatAddr(t, wdone)
      /\ awlen_q = t.len /\ awburst_q = t.burst
  BY DEF WriteInv
<1>2. t \in WTxns /\ t # NoTx /\ wdone \in Nat
  BY DEF TypeOK
<1>3. /\ t.len \in Nat /\ t.len + 1 \in 1 .. CntMod /\ CntMod \in Nat
      /\ wdone <= t.len
  BY <1>2, TxnFacts, WidthAssumption
<1>4. ~TakesAW(I, O) /\ ~GivesB(I, O)
  BY <1>1, <1>2, WriteSignals, Zenon
<1>5. /\ ~s_awvalid_q' /\ ~s_wvalid_q' /\ (m_w' => m_wtx' # NoTx)
      /\ awvalid_mask_q'
  BY <1>1, <1>4, WriteEdge, Zenon
<1>6. wr' = t
  BY <1>4, WriteEdge
<1>7. Continues(I, O) <=> Writes
  BY <1>1, WriteSignals, Zenon DEF Writes
<1>8. CASE ~Writes
  <2>1. awvalid_q' /\ ~blast_q'
    BY <1>1, <1>4, <1>7, <1>8, WriteEdge, Zenon DEF WriteTick
  <2>2. UNCHANGED <<awaddr_q, awcnt_q, awlen_q, awburst_q>>
    BY <1>4, <1>7, <1>8, WriteEdge DEF WriteTick
  <2>3. m_wtx' = m_wtx /\ m_sent' = m_sent
    BY <1>1, <1>2, <1>8, WriteEdge
  <2>4. wdone' = wdone
    <3>1. wdone' = wdone + 0
      BY <1>4, <1>8, WriteEdge
    <3>2. QED
      BY <1>2, <3>1
  <2>5. wdone \in 0 .. CntMod
    BY DEF TypeOK
  <2>6. QED
    BY <1>1, <1>2, <1>3, <1>5, <1>6, <2>1, <2>2, <2>3, <2>4, <2>5 DEF WriteInv
<1>9. CASE Writes
  <2> DEFINE n == t.len + 1 - wdone
  <2>1. n \in 1 .. CntMod /\ (n = 1 <=> wdone = t.len) /\ t.len + 1 - (wdone + 1) = n - 1
    BY <1>2, <1>3
  <2>2. wdone' = wdone + 1 /\ bvalid_q'
    <3>1. wdone' = wdone + 1
      BY <1>4, <1>9, WriteEdge
    <3>2. bvalid_q'
      BY <1>9, WriteEdge, Zenon
    <3>3. QED
      BY <3>1, <3>2
  <2>3. wdone' \in 0 .. CntMod
    BY <1>2, <1>3, <2>2
  <2>4. I.wlast <=> wdone = t.len
    BY <1>1, <1>2, Wires
  <2> HIDE DEF n
  <2>5. awcnt_q = Left(n)
    BY <1>1 DEF n
  <2>6. awcnt_q = 1 <=> wdone = t.len
    BY <2>1, <2>5, LeftFacts
  <2>7. /\ awvalid_q' <=> awcnt_q # 1
        /\ blast_q' <=> awcnt_q = 1
    BY <1>1, <1>7, <1>9, WriteEdge, Zenon DEF WriteTick
  <2>8. CASE wdone = t.len
    <3>1. ~awvalid_q' /\ blast_q'
      BY <2>6, <2>7, <2>8, Zenon
    <3>2. m_wtx' = m_aw' /\ m_sent' = 0
      BY <1>9, <2>4, <2>8, WriteEdge
    <3>3. wdone' = t.len + 1 /\ ~(wdone' <= t.len)
      BY <1>3, <2>2, <2>8
    <3>4. QED
      BY <1>2, <1>5, <1>6, <2>2, <2>3, <3>1, <3>2, <3>3 DEF WriteInv, Waiting
  <2>9. CASE wdone # t.len
    <3>1. awvalid_q' /\ ~blast_q'
      BY <2>6, <2>7, <2>9, Zenon
    <3>2. m_wtx' = t /\ m_sent' = wdone + 1
      BY <1>1, <1>2, <1>9, <2>4, <2>9, WriteEdge
    <3>3. wdone' <= t.len
      BY <1>2, <1>3, <2>2, <2>9
    <3>4. /\ awaddr_q' = calculate_addr_next(awaddr_q, awburst_q, awlen_q)
          /\ awcnt_q' = (awcnt_q - 1) % CntMod
          /\ awlen_q' = awlen_q /\ awburst_q' = awburst_q
      BY <1>7, <1>9, WriteEdge DEF WriteTick
    <3>5. awaddr_q' = BeatAddr(t, wdone + 1)
      BY <1>1, <1>2, <3>4, BeatFacts
    <3>6. awcnt_q' = Left(t.len + 1 - (wdone + 1))
      BY <2>1, <2>5, <3>4, LeftFacts
    <3>7. QED
      BY <1>1, <1>2, <1>5, <1>6, <2>2, <2>3, <3>1, <3>2, <3>3, <3>4, <3>5, <3>6
         DEF WriteInv
  <2>10. QED
    BY <2>8, <2>9
<1>10. QED
  BY <1>8, <1>9

\* A cycle of a burst that is written: its response is held, or taken.
LEMMA WriteStepDone ==
    ASSUME TypeOK, WriteInv, Tick, wr # NoTx, ~(wdone <= wr.len)
    PROVE  WriteInv' /\ wdone' \in 0 .. CntMod
<1>1. /\ awvalid_mask_q /\ ~awvalid_q /\ blast_q /\ bvalid_q /\ wdone = wr.len + 1
      /\ m_wtx = m_aw /\ m_sent = 0
  BY DEF WriteInv, Waiting
<1>2. ~TakesAW(I, O) /\ ~Writes /\ ~Continues(I, O) /\ (GivesB(I, O) <=> m_bready)
  BY <1>1, WriteSignals, Zenon DEF WReady, Writes
<1>3. wdone \in 0 .. CntMod /\ wdone \in Nat /\ 0 \in 0 .. CntMod
  BY WidthAssumption DEF TypeOK
<1>4. /\ ~s_awvalid_q' /\ ~s_wvalid_q' /\ (m_w' => m_wtx' # NoTx)
      /\ awvalid_mask_q' <=> ~GivesB(I, O)
      /\ bvalid_q' <=> ~GivesB(I, O)
  BY <1>1, <1>2, WriteEdge, Zenon
<1>5. ~awvalid_q' /\ (blast_q' <=> ~GivesB(I, O))
  <2>1. awvalid_q' = awvalid_q
    BY <1>2, WriteEdge DEF WriteTick
  <2>2. blast_q' = (blast_q /\ ~GivesB(I, O))
    BY <1>2, WriteEdge, Zenon DEF WriteTick
  <2>3. QED
    BY <1>1, <2>1, <2>2, Zenon
<1>6. m_wtx' = m_aw' /\ m_sent' = 0
  BY <1>1, <1>2, WriteEdge
<1>7. CASE GivesB(I, O)
  <2>1. wr' = NoTx /\ wdone' = 0 + 0
    BY <1>2, <1>7, WriteEdge
  <2>2. QED
    BY <1>3, <1>4, <1>5, <1>6, <1>7, <2>1 DEF WriteInv, Waiting
<1>8. CASE ~GivesB(I, O)
  <2>1. wr' = wr /\ wdone' = wdone + 0
    BY <1>2, <1>8, WriteEdge
  <2>2. wdone' = wdone
    BY <1>3, <2>1
  <2>3. QED
    BY <1>1, <1>3, <1>4, <1>5, <1>6, <1>8, <2>1, <2>2 DEF WriteInv, Waiting
<1>9. QED
  BY <1>7, <1>8

LEMMA WriteStep ==
    ASSUME TypeOK, WriteInv, Tick
    PROVE  WriteInv' /\ wdone' \in 0 .. CntMod
  BY WriteStepIdle, WriteStepBurst, WriteStepDone
-----------------------------------------------------------------------------
(* The read side of a cycle.                                               *)

LEMMA ReadSignals ==
    ASSUME ReadInv
    PROVE  /\ TakesAR(I, O) <=> m_ar # NoTx /\ rd = NoTx
           /\ GivesR(I, O) <=> rvalid_q /\ m_rready
           /\ read_en_w(C) <=> ((m_ar # NoTx /\ rd = NoTx) \/ arvalid_q) /\ ~rvalid_q
           /\ outport_arvalid_o(I) /\ O.arready <=> read_en_w(C)
           /\ arvalid_q => rd # NoTx
<1>1. /\ arvalid_mask_q <=> rd # NoTx
      /\ rd = NoTx => ~arvalid_q /\ ~rvalid_q
  BY DEF ReadInv
<1>2. TakesAR(I, O) <=> m_ar # NoTx /\ rd = NoTx
  BY <1>1, Wires, Zenon DEF TakesAR, inport_arready_o
<1>3. GivesR(I, O) <=> rvalid_q /\ m_rready
  BY Wires, Zenon DEF GivesR, inport_rvalid_o
<1>4. read_en_w(C) <=> ((m_ar # NoTx /\ rd = NoTx) \/ arvalid_q) /\ ~rvalid_q
  BY <1>1, Wires, Zenon DEF read_en_w, cfg_arready_o
<1>5. outport_arvalid_o(I) /\ O.arready <=> read_en_w(C)
  BY <1>1, <1>4, Wires, Zenon DEF outport_arvalid_o
<1>6. QED
  BY <1>1, <1>2, <1>3, <1>4, <1>5, Zenon

LEMMA ReadEdge ==
    ASSUME Tick
    PROVE  /\ arvalid_mask_q' <=>
                \/ TakesAR(I, O)
                \/ arvalid_mask_q /\ ~(GivesR(I, O) /\ arcnt_q = 0)
           /\ rvalid_q' <=> read_en_w(C) \/ (rvalid_q /\ ~m_rready)
           /\ ReadTick(I, O)
           /\ rd' = IF TakesAR(I, O) THEN m_ar
                    ELSE IF GivesR(I, O) /\ arcnt_q = 0 THEN NoTx ELSE rd
           /\ rdone' = IF TakesAR(I, O) THEN 0
                       ELSE IF ~GivesR(I, O) THEN rdone
                       ELSE IF arcnt_q = 0 THEN 0 ELSE rdone + 1
           /\ rissued' = (IF TakesAR(I, O) THEN 0 ELSE rissued)
                           + (IF read_en_w(C) THEN 1 ELSE 0)
<1>1. ConvTick(I, O) /\ RegsTick(C) /\ HistoryTick(I, C, O)
  BY DEF Tick, I, C, O
<1>2. MaskTick(I, O) /\ ReadTick(I, O)
  BY <1>1 DEF ConvTick
<1>3. arvalid_mask_q' <=> \/ TakesAR(I, O)
                          \/ arvalid_mask_q /\ ~(GivesR(I, O) /\ arcnt_q = 0)
  BY <1>2, Zenon DEF MaskTick, inport_rlast_o
<1>4. rvalid_q' <=> read_en_w(C) \/ (rvalid_q /\ ~m_rready)
  BY <1>1, Wires, Zenon DEF RegsTick, LiteTick, ResponseTick
<1>5. /\ rd' = IF TakesAR(I, O) THEN m_ar
               ELSE IF GivesR(I, O) /\ arcnt_q = 0 THEN NoTx ELSE rd
      /\ rdone' = IF TakesAR(I, O) THEN 0
                  ELSE IF ~GivesR(I, O) THEN rdone
                  ELSE IF arcnt_q = 0 THEN 0 ELSE rdone + 1
      /\ rissued' = (IF TakesAR(I, O) THEN 0 ELSE rissued)
                      + (IF read_en_w(C) THEN 1 ELSE 0)
  BY <1>1 DEF HistoryTick, inport_rlast_o
<1>6. QED
  BY <1>2, <1>3, <1>4, <1>5, Zenon

\* A cycle between bursts: nothing happens, or the next burst is accepted and
\* its first beat read.
LEMMA ReadStepIdle ==
    ASSUME TypeOK, ReadInv, Tick, rd = NoTx
    PROVE  ReadInv' /\ rdone' \in 0 .. CntMod /\ rissued' \in 0 .. CntMod
<1>1. ~arvalid_mask_q /\ ~arvalid_q /\ ~rvalid_q /\ rdone = 0
  BY DEF ReadInv
<1>2. /\ ~GivesR(I, O)
      /\ read_en_w(C) <=> TakesAR(I, O)
      /\ ~(arvalid_q /\ outport_arvalid_o(I) /\ O.arready)
  BY <1>1, ReadSignals, Zenon
<1>3. CntMod \in Nat /\ 1 \in 0 .. CntMod /\ 0 \in 0 .. CntMod
  BY WidthAssumption
<1>4. CASE ~TakesAR(I, O)
  <2>1. ~arvalid_mask_q' /\ ~rvalid_q'
    BY <1>1, <1>2, <1>4, ReadEdge, Zenon
  <2>2. arvalid_q' = arvalid_q
    BY <1>2, <1>4, ReadEdge DEF ReadTick
  <2>3. rd' = NoTx /\ rdone' = 0 /\ rissued' = rissued + 0
    BY <1>1, <1>2, <1>4, ReadEdge
  <2>4. rissued' \in 0 .. CntMod
    BY <1>3, <2>3 DEF TypeOK
  <2>5. QED
    BY <1>1, <1>3, <2>1, <2>2, <2>3, <2>4 DEF ReadInv
<1>5. CASE TakesAR(I, O)
  <2> DEFINE t == m_ar
  <2>1. t \in RTxns /\ t # NoTx
    BY <1>5, ReadSignals DEF TypeOK
  <2>2. t.len \in Nat /\ t.len \in 0 .. CntMod - 1
    BY <2>1, TxnFacts
  <2>3. arvalid_mask_q' /\ rvalid_q'
    BY <1>2, <1>5, ReadEdge, Zenon
  <2>4. rd' = t /\ rdone' = 0 /\ rissued' = 1
    <3>1. rd' = t /\ rdone' = 0 /\ rissued' = 0 + 1
      BY <1>2, <1>5, ReadEdge
    <3>2. QED
      BY <3>1
  <2>5. arvalid_q' <=> t.len # 0
    <3>1. I.arlen = t.len
      BY <2>1, Wires
    <3>2. arvalid_q' = (I.arlen # 0)
      BY <1>2, <1>5, ReadEdge, Zenon DEF ReadTick
    <3>3. QED
      BY <3>1, <3>2, Zenon
  <2>6. /\ arcnt_q' = t.len /\ arlen_q' = t.len /\ arburst_q' = t.burst
        /\ araddr_q' = calculate_addr_next(t.addr, t.burst, t.len)
    BY <1>2, <1>5, <2>1, ReadEdge, Wires DEF ReadTick
  <2>7. araddr_q' = BeatAddr(t, 1)
    <3>1. /\ BeatAddr(t, 0) = t.addr /\ 0 + 1 = 1
          /\ calculate_addr_next(BeatAddr(t, 0), t.burst, t.len) = BeatAddr(t, 0 + 1)
      BY <2>1, BeatFacts
    <3>2. QED
      BY <2>6, <3>1
  <2>8. /\ 0 <= t.len /\ 1 = 0 + 1 /\ 1 <= t.len + 1 /\ t.len = t.len + 1 - 1
        /\ t.len # 0 <=> 1 <= t.len
    BY <2>2
  <2>9. QED
    BY <1>3, <2>1, <2>3, <2>4, <2>5, <2>6, <2>7, <2>8 DEF ReadInv
<1>6. QED
  BY <1>4, <1>5

\* A cycle in which a beat is returned: the master takes it, perhaps the last,
\* or it waits.
LEMMA ReadStepReturn ==
    ASSUME TypeOK, ReadInv, Tick, rd # NoTx, rvalid_q
    PROVE  ReadInv' /\ rdone' \in 0 .. CntMod /\ rissued' \in 0 .. CntMod
<1> DEFINE t == rd
<1>1. /\ arvalid_mask_q /\ rdone <= t.len
      /\ rissued = rdone + 1 /\ 1 <= rissued /\ rissued <= t.len + 1
      /\ arcnt_q = t.len + 1 - rissued
      /\ arlen_q = t.len /\ arburst_q = t.burst
      /\ rissued <= t.len => araddr_q = BeatAddr(t, rissued)
  BY DEF ReadInv
<1>2. arvalid_q <=> rissued <= t.len
  BY DEF ReadInv
<1>3. t \in RTxns /\ t # NoTx /\ rdone \in Nat /\ rissued \in Nat
  BY DEF TypeOK
<1>4. t.len \in Nat /\ t.len + 1 \in 1 .. CntMod /\ CntMod \in Nat
  BY <1>3, TxnFacts, WidthAssumption
<1>5. ~TakesAR(I, O) /\ ~read_en_w(C) /\ (GivesR(I, O) <=> m_rready)
  BY <1>3, ReadSignals, Zenon
<1>6. /\ arvalid_q' = arvalid_q /\ araddr_q' = araddr_q /\ arcnt_q' = arcnt_q
      /\ arlen_q' = arlen_q /\ arburst_q' = arburst_q
  BY <1>5, ReadEdge, ReadSignals DEF ReadTick
<1>7. rissued' = rissued
  <2>1. rissued' = rissued + 0
    BY <1>5, ReadEdge
  <2>2. QED
    BY <1>3, <2>1
<1>8. rissued' \in 0 .. CntMod /\ (arcnt_q = 0 <=> rissued = t.len + 1)
  BY <1>1, <1>3, <1>4, <1>7
<1>9. CASE m_rready /\ arcnt_q = 0
  <2>1. rd' = NoTx /\ rdone' = 0
    BY <1>5, <1>9, ReadEdge
  <2>2. ~arvalid_mask_q' /\ ~rvalid_q'
    BY <1>5, <1>9, ReadEdge, Zenon
  <2>3. ~(rissued <= t.len)
    BY <1>3, <1>4, <1>8, <1>9
  <2>4. ~arvalid_q'
    BY <1>2, <1>6, <2>3, Zenon
  <2>5. QED
    BY <1>4, <1>8, <2>1, <2>2, <2>4 DEF ReadInv
<1>10. CASE m_rready /\ arcnt_q # 0
  <2>1. rd' = t /\ rdone' = rdone + 1
    BY <1>5, <1>10, ReadEdge
  <2>2. arvalid_mask_q' /\ ~rvalid_q'
    BY <1>1, <1>5, <1>10, ReadEdge, Zenon
  <2>3. rdone' <= t.len /\ rissued' = rdone' /\ rdone' \in 0 .. CntMod
    BY <1>1, <1>3, <1>4, <1>7, <1>8, <1>10, <2>1
  <2>4. QED
    BY <1>1, <1>2, <1>3, <1>6, <1>7, <1>8, <2>1, <2>2, <2>3 DEF ReadInv
<1>11. CASE ~m_rready
  <2>1. rd' = t /\ rdone' = rdone
    BY <1>5, <1>11, ReadEdge
  <2>2. arvalid_mask_q' /\ rvalid_q'
    BY <1>1, <1>5, <1>11, ReadEdge, Zenon
  <2>3. rdone \in 0 .. CntMod
    BY DEF TypeOK
  <2>4. QED
    BY <1>1, <1>2, <1>3, <1>6, <1>7, <1>8, <2>1, <2>2, <2>3 DEF ReadInv
<1>12. QED
  BY <1>9, <1>10, <1>11

\* A cycle in which the next beat of a burst is read.
LEMMA ReadStepIssue ==
    ASSUME TypeOK, ReadInv, Tick, rd # NoTx, ~rvalid_q
    PROVE  ReadInv' /\ rdone' \in 0 .. CntMod /\ rissued' \in 0 .. CntMod
<1> DEFINE t == rd
<1>1. /\ arvalid_mask_q /\ rdone <= t.len /\ rissued = rdone
      /\ arcnt_q = t.len + 1 - rissued /\ 1 <= rissued
      /\ arlen_q = t.len /\ arburst_q = t.burst
      /\ araddr_q = BeatAddr(t, rissued)
  BY DEF ReadInv
<1>2. arvalid_q
  BY DEF ReadInv
<1>3. t \in RTxns /\ t # NoTx /\ rdone \in Nat /\ rissued \in Nat
  BY DEF TypeOK
<1>4. t.len \in Nat /\ t.len \in 0 .. CntMod - 1 /\ CntMod \in Nat \ {0}
  BY <1>3, TxnFacts, WidthAssumption
<1>5. ~TakesAR(I, O) /\ read_en_w(C) /\ ~GivesR(I, O)
  BY <1>2, <1>3, ReadSignals, Zenon
<1>6. rd' = t /\ rdone' = rdone /\ rissued' = rissued + 1
  BY <1>5, ReadEdge
<1>7. arvalid_mask_q' /\ rvalid_q'
  BY <1>1, <1>5, ReadEdge, Zenon
<1>8. arvalid_q /\ outport_arvalid_o(I) /\ O.arready
  BY <1>2, <1>5, ReadSignals, Zenon
<1>9. /\ araddr_q' = calculate_addr_next(araddr_q, arburst_q, arlen_q)
      /\ arcnt_q' = (arcnt_q - 1) % CntMod
      /\ arlen_q' = arlen_q /\ arburst_q' = arburst_q
  BY <1>8, ReadEdge DEF ReadTick
<1>10. arvalid_q' <=> arcnt_q # 1
  BY <1>8, ReadEdge, Zenon DEF ReadTick
<1>11. araddr_q' = BeatAddr(t, rissued + 1)
  BY <1>1, <1>3, <1>9, BeatFacts
<1>12. arcnt_q' = t.len + 1 - rissued'
  <2> DEFINE k == t.len - rissued
  <2>1. k \in 0 .. CntMod - 1 /\ arcnt_q - 1 = k /\ t.len + 1 - rissued' = k
    BY <1>1, <1>3, <1>4, <1>6
  <2> HIDE DEF k
  <2>2. k % CntMod = k
    BY <1>4, <2>1, ModSmall
  <2>3. QED
    BY <1>9, <2>1, <2>2
<1>13. /\ rissued' = rdone' + 1 /\ 1 <= rissued' /\ rissued' <= t.len + 1
       /\ rissued' \in 0 .. CntMod /\ rdone' \in 0 .. CntMod
       /\ arcnt_q # 1 <=> rissued' <= t.len
  BY <1>1, <1>3, <1>4, <1>6
<1>14. QED
  BY <1>1, <1>3, <1>6, <1>7, <1>9, <1>10, <1>11, <1>12, <1>13 DEF ReadInv

LEMMA ReadStep ==
    ASSUME TypeOK, ReadInv, Tick
    PROVE  ReadInv' /\ rdone' \in 0 .. CntMod /\ rissued' \in 0 .. CntMod
  BY ReadStepIdle, ReadStepReturn, ReadStepIssue
-----------------------------------------------------------------------------
(* The FIFOs.                                                              *)

\* A read of the registers is of the beat that is returned next.
LEMMA ReadIsNext ==
    ASSUME TypeOK, ReadInv, read_en_w(C)
    PROVE  /\ ReadTx # NoTx /\ ReadTx \in RTxns
           /\ ReadNo <= ReadTx.len /\ ReadNo \in Nat
           /\ C.araddr = BeatAddr(ReadTx, ReadNo)
           /\ ReadNo = IF TakesAR(I, O) THEN 0 ELSE rdone
           /\ ~rvalid_q
<1>1. CASE rd = NoTx
  <2>1. ~arvalid_q /\ ~rvalid_q
    BY <1>1 DEF ReadInv
  <2>2. m_ar # NoTx /\ TakesAR(I, O)
    BY <1>1, <2>1, ReadSignals, Zenon
  <2>3. ReadTx = m_ar /\ ReadNo = 0 /\ m_ar \in RTxns
    BY <2>2 DEF ReadTx, ReadNo, TypeOK
  <2>4. C.araddr = m_ar.addr
    BY <2>1, <2>2, Wires
  <2>5. m_ar.addr = BeatAddr(m_ar, 0) /\ 0 <= m_ar.len
    BY <2>3, BeatFacts, TxnFacts
  <2>6. QED
    BY <2>1, <2>2, <2>3, <2>4, <2>5
<1>2. CASE rd # NoTx
  <2>1. ~TakesAR(I, O) /\ arvalid_q /\ ~rvalid_q
    BY <1>2, ReadSignals, Zenon
  <2>2. /\ rissued = rdone /\ rissued <= rd.len
        /\ araddr_q = BeatAddr(rd, rissued)
    BY <1>2, <2>1 DEF ReadInv
  <2>3. ReadTx = rd /\ ReadNo = rissued /\ rd \in RTxns /\ rissued \in Nat
    BY <1>2, <2>1 DEF ReadTx, ReadNo, TypeOK
  <2>4. C.araddr = araddr_q
    BY <2>1, Wires
  <2>5. QED
    BY <1>2, <2>1, <2>2, <2>3, <2>4
<1>3. QED
  BY <1>1, <1>2

\* What the clock edge does to the receive FIFO.
LEMMA RxEdge ==
    ASSUME Tick
    PROVE  /\ rx_rd_en' <=> read_en_w(C) /\ (Reg(C.araddr) = ETH_RX \/ rx_rd_en)
           /\ rx_head' = IF rx_rd_en THEN (rx_head + 1) % ByteMod ELSE rx_head
           /\ rd_data_q' = IF ~rvalid_q \/ m_rready THEN data_r(C) ELSE rd_data_q
           /\ rxreads' = IF read_en_w(C) /\ Reg(C.araddr) = ETH_RX
                           THEN (rxreads + 1) % ByteMod ELSE rxreads
<1>1. RegsTick(C) /\ HistoryTick(I, C, O)
  BY DEF Tick, I, C, O
<1>2. rx_rd_en' <=> read_en_w(C) /\ (Reg(C.araddr) = ETH_RX \/ rx_rd_en)
  <2>1. rx_rd_en' = rx_rd_en_next(C)
    BY <1>1 DEF RegsTick, StrobeTick
  <2>2. QED
    BY <2>1, Zenon DEF rx_rd_en_next
<1>3. rx_head' = IF rx_rd_en THEN (rx_head + 1) % ByteMod ELSE rx_head
  BY <1>1 DEF RegsTick, StrobeTick
<1>4. rd_data_q' = IF ~rvalid_q \/ m_rready THEN data_r(C) ELSE rd_data_q
  BY <1>1, Wires DEF RegsTick, DataTick
<1>5. rxreads' = IF read_en_w(C) /\ Reg(C.araddr) = ETH_RX
                   THEN (rxreads + 1) % ByteMod ELSE rxreads
  BY <1>1 DEF HistoryTick
<1>6. QED
  BY <1>2, <1>3, <1>4, <1>5, Zenon

LEMMA FifoStep ==
    ASSUME TypeOK, ReadInv, FifoInv, Tick
    PROVE  FifoInv' /\ rxreads' \in Bytes /\ rx_head' \in Bytes
<1>1. rx_head' = rxreads
  BY RxEdge DEF FifoInv
<1>2. rx_rd_en' <=> read_en_w(C) /\ Reg(C.araddr) = ETH_RX
  <2>1. read_en_w(C) => ~rx_rd_en
    BY ReadSignals, Zenon DEF FifoInv
  <2>2. QED
    BY <2>1, RxEdge, Zenon
<1>3. rx_rd_en' => rvalid_q'
  BY <1>2, ReadEdge, Zenon
<1>4. rxreads' = IF rx_rd_en' THEN (rx_head' + 1) % ByteMod ELSE rx_head'
  BY <1>1, <1>2, RxEdge
<1>5. rxreads \in 0 .. ByteMod - 1 /\ ByteMod \in Nat \ {0}
  BY RegsAssumption DEF TypeOK, Bytes
<1>6. (rxreads + 1) % ByteMod \in 0 .. ByteMod - 1
  BY <1>5, ModBack
<1>7. QED
  BY <1>1, <1>3, <1>4, <1>5, <1>6 DEF FifoInv, Bytes

\* The byte a read returns is the head of the FIFO when it was read.
LEMMA RxStep ==
    ASSUME TypeOK, ReadInv, FifoInv, RxInOrder, Tick
    PROVE  RxInOrder'
<1>1. SUFFICES ASSUME rvalid_q', Reg(BeatAddr(rd', rdone')) = ETH_RX
               PROVE  rd_data_q' = (rxreads' - 1) % ByteMod
  BY DEF RxInOrder, Reg, BeatAddr
<1>2. CASE read_en_w(C)
  <2>1. rd' = ReadTx /\ rdone' = ReadNo
    <3>1. ~GivesR(I, O)
      BY <1>2, ReadSignals, Zenon
    <3>2. rd' = ReadTx
      BY <3>1, ReadEdge DEF ReadTx
    <3>3. rdone' = ReadNo
      BY <1>2, <3>1, ReadEdge, ReadIsNext
    <3>4. QED
      BY <3>2, <3>3
  <2>2. Reg(C.araddr) = ETH_RX /\ ~rvalid_q
    BY <1>1, <1>2, <2>1, ReadIsNext
  <2>3. rd_data_q' = rx_head
    BY <2>2, RxEdge DEF data_r
  <2>4. rxreads = rx_head /\ rxreads' = (rxreads + 1) % ByteMod
    BY <1>2, <2>2, RxEdge DEF FifoInv
  <2>5. rx_head \in 0 .. ByteMod - 1 /\ ByteMod \in Nat \ {0}
    BY RegsAssumption DEF TypeOK, Bytes
  <2>6. (((rx_head + 1) % ByteMod) - 1) % ByteMod = rx_head
    BY <2>5, ModBack
  <2>7. QED
    BY <2>3, <2>4, <2>6
<1>3. CASE ~read_en_w(C)
  <2>1. rvalid_q /\ ~m_rready
    BY <1>1, <1>3, ReadEdge, Zenon
  <2>2. ~GivesR(I, O) /\ ~TakesAR(I, O)
    BY <2>1, ReadSignals, Zenon DEF ReadInv
  <2>3. rd' = rd /\ rdone' = rdone
    BY <2>2, ReadEdge
  <2>4. rd_data_q' = rd_data_q /\ rxreads' = rxreads
    BY <1>3, <2>1, RxEdge
  <2>5. QED
    BY <1>1, <2>1, <2>3, <2>4 DEF RxInOrder
<1>4. QED
  BY <1>2, <1>3

\* The strobe, its data and the debt move together.
LEMMA TxStep ==
    ASSUME TypeOK, WriteInv, TxPushed, Tick
    PROVE  TxPushed' /\ txowed' \in 0 .. 1 /\ txdata' \in 0 .. CntMod - 1
           /\ wr_data_q' \in 0 .. CntMod - 1
<1> DEFINE W == write_en_w(C) /\ wr_addr_w(C) = ETH_TX
<1>1. RegsTick(C) /\ HistoryTick(I, C, O)
  BY DEF Tick, I, C, O
<1>2. tx_wr_en' <=> W
  BY <1>1, Zenon DEF RegsTick, StrobeTick
<1>3. /\ txdata' = IF W THEN m_sent ELSE txdata
      /\ txowed' = txowed + (IF W THEN 1 ELSE 0) - (IF tx_wr_en THEN 1 ELSE 0)
  BY <1>1, Wires DEF HistoryTick
<1>4. wr_data_q' = IF Writes THEN m_sent ELSE wr_data_q
  <2>1. C.wvalid /\ cfg_wready_o(C) <=> Writes
    BY WriteSignals, Wires, Zenon DEF Writes
  <2>2. QED
    BY <1>1, <2>1, Wires DEF RegsTick, DataTick, wr_data_q_next
<1>5. W => Writes
  BY WriteSignals, Zenon DEF Writes
<1> HIDE DEF W
<1>6. txowed \in {0, 1} /\ (txowed = 1 <=> tx_wr_en)
  BY DEF TypeOK, TxPushed
<1>7. txowed' = IF W THEN 1 ELSE 0
  <2>1. txowed = IF tx_wr_en THEN 1 ELSE 0
    BY <1>6
  <2>2. QED
    BY <1>3, <2>1
<1>8. tx_wr_en' => wr_data_q' = txdata'
  BY <1>2, <1>3, <1>4, <1>5
<1>9. m_sent \in 0 .. CntMod - 1 /\ txdata \in 0 .. CntMod - 1
      /\ wr_data_q \in 0 .. CntMod - 1
  BY DEF TypeOK
<1>10. txowed' = 1 <=> tx_wr_en'
  BY <1>2, <1>7
<1>11. QED
  BY <1>3, <1>4, <1>7, <1>8, <1>9, <1>10 DEF TxPushed
-----------------------------------------------------------------------------
(* Types.                                                                  *)

\* The converter's write registers keep their widths: a burst's addresses stay
\* in the address space.
LEMMA ConvWriteTypes ==
    ASSUME TypeOK, WriteInv, Tick
    PROVE  /\ awvalid_mask_q' \in BOOLEAN /\ awvalid_q' \in BOOLEAN
           /\ blast_q' \in BOOLEAN
           /\ awaddr_q' \in 0 .. AddrMod - 1
           /\ awcnt_q' \in 0 .. CntMod - 1 /\ awlen_q' \in 0 .. CntMod - 1
           /\ awburst_q' \in Bursts
<1>1. WriteTick(I, O)
  BY WriteEdge
<1>2. awvalid_mask_q' \in BOOLEAN
  <2>1. ConvTick(I, O)
    BY DEF Tick, I, C, O
  <2>2. awvalid_mask_q' = (TakesAW(I, O) \/ (awvalid_mask_q /\ ~GivesB(I, O)))
    BY <2>1, Zenon DEF ConvTick, MaskTick
  <2>3. QED
    BY <2>2
<1>3. CntMod \in Nat \ {0}
  BY WidthAssumption
<1>4. CASE Continues(I, O)
  <2>1. wr # NoTx /\ wdone <= wr.len
    BY <1>4, WriteSignals DEF WriteInv
  <2>2. /\ awaddr_q = BeatAddr(wr, wdone) /\ awlen_q = wr.len
        /\ awburst_q = wr.burst /\ wr \in WTxns /\ wdone \in Nat
        /\ awcnt_q \in Int
    BY <2>1 DEF WriteInv, TypeOK, ConvTypeOK
  <2>3. /\ awaddr_q' = calculate_addr_next(awaddr_q, awburst_q, awlen_q)
        /\ awcnt_q' = (awcnt_q - 1) % CntMod
        /\ awlen_q' = awlen_q /\ awburst_q' = awburst_q
    BY <1>1, <1>4 DEF WriteTick
  <2>4. awvalid_q' \in BOOLEAN /\ blast_q' \in BOOLEAN
    BY <1>1, <1>4 DEF WriteTick
  <2>5. awaddr_q' \in 0 .. AddrMod - 1
    <3>1. awaddr_q' = BeatAddr(wr, wdone + 1) /\ wdone + 1 \in Nat
      BY <2>2, <2>3, BeatFacts
    <3>2. QED
      BY <2>2, <3>1, BeatFacts
  <2>6. awcnt_q' \in 0 .. CntMod - 1
    <3>1. awcnt_q - 1 \in Int
      BY <2>2
    <3>2. QED
      BY <1>3, <2>3, <3>1, DivMod
  <2>7. QED
    BY <1>2, <2>3, <2>4, <2>5, <2>6 DEF TypeOK, ConvTypeOK
<1>5. CASE ~Continues(I, O) /\ TakesAW(I, O)
  <2>1. m_aw # NoTx /\ m_aw \in WTxns
    BY <1>5, WriteSignals DEF TypeOK
  <2>2. /\ m_aw.addr \in 0 .. AddrMod - 1 /\ m_aw.len \in 0 .. CntMod - 1
        /\ m_aw.burst \in Bursts
    BY <2>1, TxnFacts
  <2>3. /\ I.awlen = m_aw.len /\ I.awburst = m_aw.burst /\ I.awaddr = m_aw.addr
    BY <2>1, Wires
  <2>4. calculate_addr_next(m_aw.addr, m_aw.burst, m_aw.len) \in 0 .. AddrMod - 1
    <3>1. /\ BeatAddr(m_aw, 0) = m_aw.addr
          /\ calculate_addr_next(BeatAddr(m_aw, 0), m_aw.burst, m_aw.len)
               = BeatAddr(m_aw, 0 + 1)
          /\ BeatAddr(m_aw, 0 + 1) \in 0 .. AddrMod - 1
      BY <2>1, BeatFacts
    <3>2. QED
      BY <3>1
  <2>5. (m_aw.len + 1) % CntMod \in 0 .. CntMod - 1
    <3>1. m_aw.len + 1 \in Int
      BY <2>2
    <3>2. QED
      BY <1>3, <3>1, DivMod
  <2>6. /\ awlen_q' = I.awlen /\ awburst_q' = I.awburst
        /\ awaddr_q' \in {I.awaddr, calculate_addr_next(I.awaddr, I.awburst, I.awlen)}
        /\ awcnt_q' \in {I.awlen, (I.awlen + 1) % CntMod}
    BY <1>1, <1>5 DEF WriteTick, BeatsToCome
  <2>7. awvalid_q' \in BOOLEAN /\ blast_q' \in BOOLEAN
    <3>1. I.wlast \in BOOLEAN
      BY DEF I, In
    <3>2. QED
      BY <1>1, <1>5, <3>1 DEF WriteTick
  <2>8. QED
    BY <1>2, <2>2, <2>3, <2>4, <2>5, <2>6, <2>7
<1>6. CASE ~Continues(I, O) /\ ~TakesAW(I, O)
  <2>1. /\ awvalid_q' = awvalid_q /\ awaddr_q' = awaddr_q /\ awcnt_q' = awcnt_q
        /\ awlen_q' = awlen_q /\ awburst_q' = awburst_q
    BY <1>1, <1>6 DEF WriteTick
  <2>2. blast_q' \in BOOLEAN
    BY <1>1, <1>6 DEF WriteTick
  <2>3. QED
    BY <1>2, <2>1, <2>2 DEF TypeOK, ConvTypeOK
<1>7. QED
  BY <1>4, <1>5, <1>6

\* And its read registers.
LEMMA ConvReadTypes ==
    ASSUME TypeOK, ReadInv, Tick
    PROVE  /\ arvalid_mask_q' \in BOOLEAN /\ arvalid_q' \in BOOLEAN
           /\ araddr_q' \in 0 .. AddrMod - 1
           /\ arcnt_q' \in 0 .. CntMod - 1 /\ arlen_q' \in 0 .. CntMod - 1
           /\ arburst_q' \in Bursts
<1> DEFINE A == arvalid_q /\ outport_arvalid_o(I) /\ O.arready
<1>1. ReadTick(I, O)
  BY ReadEdge
<1>2. arvalid_mask_q' \in BOOLEAN
  <2>1. ConvTick(I, O)
    BY DEF Tick, I, C, O
  <2>2. arvalid_mask_q' = \/ TakesAR(I, O)
                          \/ arvalid_mask_q /\ ~(GivesR(I, O) /\ inport_rlast_o)
    BY <2>1, Zenon DEF ConvTick, MaskTick
  <2>3. QED
    BY <2>2
<1>3. CntMod \in Nat \ {0}
  BY WidthAssumption
<1>4. CASE A
  <2>1. /\ rd # NoTx /\ rissued <= rd.len
        /\ araddr_q = BeatAddr(rd, rissued) /\ arlen_q = rd.len
        /\ arburst_q = rd.burst /\ rd \in RTxns /\ rissued \in Nat
        /\ arcnt_q \in Int
    BY <1>4 DEF ReadInv, TypeOK, ConvTypeOK
  <2>2. /\ araddr_q' = calculate_addr_next(araddr_q, arburst_q, arlen_q)
        /\ arcnt_q' = (arcnt_q - 1) % CntMod
        /\ arlen_q' = arlen_q /\ arburst_q' = arburst_q
    BY <1>1, <1>4 DEF ReadTick
  <2>3. arvalid_q' \in BOOLEAN
    BY <1>1, <1>4 DEF ReadTick
  <2>4. araddr_q' \in 0 .. AddrMod - 1
    <3>1. araddr_q' = BeatAddr(rd, rissued + 1) /\ rissued + 1 \in Nat
      BY <2>1, <2>2, BeatFacts
    <3>2. QED
      BY <2>1, <3>1, BeatFacts
  <2>5. arcnt_q' \in 0 .. CntMod - 1
    <3>1. arcnt_q - 1 \in Int
      BY <2>1
    <3>2. QED
      BY <1>3, <2>2, <3>1, DivMod
  <2>6. QED
    BY <1>2, <2>2, <2>3, <2>4, <2>5 DEF TypeOK, ConvTypeOK
<1>5. CASE ~A /\ TakesAR(I, O)
  <2>1. m_ar # NoTx /\ m_ar \in RTxns
    BY <1>5, ReadSignals DEF TypeOK
  <2>2. /\ m_ar.addr \in 0 .. AddrMod - 1 /\ m_ar.len \in 0 .. CntMod - 1
        /\ m_ar.burst \in Bursts
    BY <2>1, TxnFacts
  <2>3. I.arlen = m_ar.len /\ I.arburst = m_ar.burst /\ I.araddr = m_ar.addr
    BY <2>1, Wires
  <2>4. calculate_addr_next(m_ar.addr, m_ar.burst, m_ar.len) \in 0 .. AddrMod - 1
    <3>1. /\ BeatAddr(m_ar, 0) = m_ar.addr
          /\ calculate_addr_next(BeatAddr(m_ar, 0), m_ar.burst, m_ar.len)
               = BeatAddr(m_ar, 0 + 1)
          /\ BeatAddr(m_ar, 0 + 1) \in 0 .. AddrMod - 1
      BY <2>1, BeatFacts
    <3>2. QED
      BY <3>1
  <2>5. /\ arcnt_q' = I.arlen /\ arlen_q' = I.arlen /\ arburst_q' = I.arburst
        /\ araddr_q' = calculate_addr_next(I.araddr, I.arburst, I.arlen)
        /\ arvalid_q' \in BOOLEAN
    BY <1>1, <1>5 DEF ReadTick
  <2>6. QED
    BY <1>2, <2>2, <2>3, <2>4, <2>5
<1>6. CASE ~A /\ ~TakesAR(I, O)
  <2>1. /\ arvalid_q' = arvalid_q /\ araddr_q' = araddr_q /\ arcnt_q' = arcnt_q
        /\ arlen_q' = arlen_q /\ arburst_q' = arburst_q
    BY <1>1, <1>6 DEF ReadTick
  <2>2. QED
    BY <1>2, <2>1 DEF TypeOK, ConvTypeOK
<1>7. QED
  BY <1>4, <1>5, <1>6

\* The handshake's registers.
LEMMA LiteTypes ==
    ASSUME TypeOK, WriteInv, Tick
    PROVE  LiteTypeOK' /\ tx_wr_en' \in BOOLEAN /\ rx_rd_en' \in BOOLEAN
<1>1. RegsTick(C)
  BY DEF Tick, I, C, O
<1>2. s_awvalid_q' \in BOOLEAN /\ s_wvalid_q' \in BOOLEAN
  BY <1>1 DEF RegsTick, LiteTick, SplitTick, TypeOK, LiteTypeOK
<1>3. rvalid_q' \in BOOLEAN /\ bvalid_q' \in BOOLEAN
  BY <1>1 DEF RegsTick, LiteTick, ResponseTick
<1>4. wr_addr_q' \in 0 .. RegMod - 1
  <2>1. CASE Writes
    <3>1. awvalid_q \/ m_aw # NoTx
      BY <2>1 DEF WriteInv, Writes, WReady, Waiting
    <3>2. C.awaddr \in Int
      <4>1. CASE awvalid_q
        <5>1. C.awaddr = awaddr_q
          BY <4>1, Wires
        <5>2. QED
          BY <5>1 DEF TypeOK, ConvTypeOK
      <4>2. CASE ~awvalid_q
        <5>1. C.awaddr = m_aw.addr /\ m_aw \in WTxns
          BY <3>1, <4>2, Wires DEF TypeOK
        <5>2. m_aw.addr \in 0 .. AddrMod - 1
          BY <5>1, TxnFacts
        <5>3. QED
          BY <5>1, <5>2
      <4>3. QED
        BY <4>1, <4>2
    <3>3. C.awaddr % RegMod \in 0 .. RegMod - 1
      BY <3>2, RegModAssumption, DivMod
    <3>4. wr_addr_q' = C.awaddr % RegMod \/ wr_addr_q' = wr_addr_q
      BY <1>1 DEF RegsTick, LiteTick, SplitTick, Reg
    <3>5. QED
      BY <3>3, <3>4 DEF TypeOK, LiteTypeOK
  <2>2. CASE ~Writes
    <3>1. ~(C.awvalid /\ cfg_awready_o(C))
      BY <2>2, WriteSignals, Zenon DEF Writes
    <3>2. wr_addr_q' = wr_addr_q
      BY <1>1, <3>1 DEF RegsTick, LiteTick, SplitTick
    <3>3. QED
      BY <3>2 DEF TypeOK, LiteTypeOK
  <2>3. QED
    BY <2>1, <2>2
<1>5. tx_wr_en' \in BOOLEAN
  BY <1>1 DEF RegsTick, StrobeTick
<1>6. rx_rd_en' \in BOOLEAN
  <2>1. rx_rd_en' = rx_rd_en_next(C)
    BY <1>1 DEF RegsTick, StrobeTick
  <2>2. rx_rd_en \in BOOLEAN
    BY DEF TypeOK
  <2>3. QED
    BY <2>1, <2>2 DEF rx_rd_en_next
<1>7. QED
  BY <1>2, <1>3, <1>4, <1>5, <1>6 DEF LiteTypeOK
\* The master's side and the account of the bursts.
LEMMA MasterTypes ==
    ASSUME TypeOK, WriteInv, Tick
    PROVE  /\ m_aw' \in WTxns \cup {NoTx} /\ m_wtx' \in WTxns \cup {NoTx}
           /\ m_w' \in BOOLEAN /\ m_sent' \in 0 .. CntMod - 1
           /\ m_ar' \in RTxns \cup {NoTx}
           /\ m_bready' \in BOOLEAN /\ m_rready' \in BOOLEAN
           /\ wr' \in WTxns \cup {NoTx} /\ rd' \in RTxns \cup {NoTx}
<1>1. MasterTick(I, O)
  BY DEF Tick, I, C, O
<1>2. m_w' \in BOOLEAN /\ m_bready' \in BOOLEAN /\ m_rready' \in BOOLEAN
  BY <1>1 DEF MasterTick
<1>3. m_aw' \in WTxns \cup {NoTx}
  BY WriteEdge DEF TypeOK
<1>4. m_wtx' \in WTxns \cup {NoTx}
  BY <1>3, WriteEdge DEF TypeOK
<1>5. m_ar' \in RTxns \cup {NoTx}
  BY <1>1 DEF MasterTick, TypeOK
<1>6. wr' \in WTxns \cup {NoTx}
  BY WriteEdge DEF TypeOK
<1>7. rd' \in RTxns \cup {NoTx}
  BY ReadEdge DEF TypeOK
<1>8. m_sent' \in 0 .. CntMod - 1
  <2>1. WriteInv' /\ wdone' \in Nat
    BY WriteStep
  <2>2. CASE wr' = NoTx
    BY <2>1, <2>2, WidthAssumption DEF WriteInv, Waiting
  <2>3. CASE wr' # NoTx /\ wdone' <= wr'.len
    <3>1. wr'.len \in 0 .. CntMod - 1
      BY <1>6, <2>3, TxnFacts
    <3>2. m_sent' = wdone'
      BY <2>1, <2>3 DEF WriteInv
    <3>3. QED
      BY <2>1, <2>3, <3>1, <3>2, WidthAssumption
  <2>4. CASE wr' # NoTx /\ ~(wdone' <= wr'.len)
    BY <2>1, <2>4, WidthAssumption DEF WriteInv, Waiting
  <2>5. QED
    BY <2>2, <2>3, <2>4
<1>9. QED
  BY <1>2, <1>3, <1>4, <1>5, <1>6, <1>7, <1>8

-----------------------------------------------------------------------------
(* The inductive invariant.                                                *)

Inv ==
    /\ TypeOK
    /\ WriteInv
    /\ ReadInv
    /\ FifoInv
    /\ RxInOrder
    /\ TxPushed

LEMMA InitInv == Init => Inv
<1> SUFFICES ASSUME Init PROVE Inv
  OBVIOUS
<1>1. /\ CntMod \in Nat /\ CntMod >= 2 /\ AddrMod \in Nat /\ AddrMod >= 2
      /\ RegMod \in Nat /\ RegMod >= 1 /\ ByteMod \in Nat /\ ByteMod >= 1
  <2>1. RegMod \in Nat \ {0} /\ ByteMod \in Nat \ {0}
    BY RegModAssumption, RegsAssumption
  <2>2. QED
    BY <2>1, WidthAssumption
<1> USE DEF Init, ConvInit, RegsInit, LiteInit
<1>2. ConvTypeOK /\ LiteTypeOK
  <2>1. /\ 0 \in 0 .. AddrMod - 1 /\ 0 \in 0 .. CntMod - 1
        /\ 0 \in 0 .. RegMod - 1 /\ "FIXED" \in Bursts
    BY <1>1 DEF Bursts
  <2>2. ConvTypeOK
    BY <2>1 DEF ConvTypeOK
  <2>3. LiteTypeOK
    BY <2>1 DEF LiteTypeOK
  <2>4. QED
    BY <2>2, <2>3
<1>3. TypeOK
  <2>1. /\ 0 \in 0 .. CntMod - 1 /\ 0 \in 0 .. CntMod /\ 0 \in 0 .. 1
        /\ 0 \in Bytes
    BY <1>1 DEF Bytes
  <2>2. QED
    BY <1>2, <2>1 DEF TypeOK
<1>4. WriteInv
  BY DEF WriteInv, Waiting
<1>5. ReadInv
  BY DEF ReadInv
<1>6. FifoInv /\ RxInOrder /\ TxPushed
  BY DEF FifoInv, RxInOrder, TxPushed
<1>7. QED
  BY <1>3, <1>4, <1>5, <1>6 DEF Inv

LEMMA TickInv ==
    ASSUME Inv, Tick
    PROVE  Inv'
<1> USE DEF Inv
<1>1. WriteInv' /\ wdone' \in 0 .. CntMod
  BY WriteStep
<1>2. ReadInv' /\ rdone' \in 0 .. CntMod /\ rissued' \in 0 .. CntMod
  BY ReadStep
<1>3. FifoInv' /\ rxreads' \in Bytes /\ rx_head' \in Bytes
  BY FifoStep
<1>4. RxInOrder'
  BY RxStep
<1>5. /\ TxPushed' /\ txowed' \in 0 .. 1 /\ txdata' \in 0 .. CntMod - 1
      /\ wr_data_q' \in 0 .. CntMod - 1
  BY TxStep
<1>6. ConvTypeOK'
  BY ConvWriteTypes, ConvReadTypes DEF ConvTypeOK
<1>7. rd_data_q' \in Bytes
  <2>1. 0 \in Bytes
    BY RegsAssumption DEF Bytes
  <2>2. data_r(C) \in Bytes
    BY <2>1 DEF data_r, TypeOK
  <2>3. QED
    BY <2>2, RxEdge DEF TypeOK
<1>8. clk' \in BOOLEAN
  BY DEF Tick
<1>9. TypeOK'
  BY <1>1, <1>2, <1>3, <1>5, <1>6, <1>7, <1>8, LiteTypes, MasterTypes DEF TypeOK
<1>10. QED
  BY <1>1, <1>2, <1>3, <1>4, <1>5, <1>9

LEMMA StutterInv ==
    ASSUME Inv, UNCHANGED vars
    PROVE  Inv'
<1> USE DEF vars, convWrite, convRead, regs, lite, master, history
<1>1. TypeOK'
  BY DEF Inv, TypeOK, ConvTypeOK, LiteTypeOK
<1>2. WriteInv'
  BY DEF Inv, WriteInv, Waiting, Left, BeatAddr
<1>3. ReadInv'
  BY DEF Inv, ReadInv, BeatAddr
<1>4. FifoInv' /\ RxInOrder' /\ TxPushed'
  BY DEF Inv, FifoInv, RxInOrder, TxPushed, Reg, BeatAddr
<1>5. QED
  BY <1>1, <1>2, <1>3, <1>4 DEF Inv

\* In every behaviour the invariant holds.
THEOREM Invariance == Spec => []Inv
<1>1. Init => Inv
  BY InitInv
<1>2. Inv /\ [Next]_vars => Inv'
  BY TickInv, StutterInv DEF Next
<1>3. QED
  BY <1>1, <1>2, PTL DEF Spec

-----------------------------------------------------------------------------
(* What the runs check, for every instance.                                *)

\* The converter's and the block's registers keep their widths and the
\* counters their ranges.
THEOREM TypeCorrect == Spec => []TypeOK
<1>1. Inv => TypeOK
  BY DEF Inv
<1>2. QED
  BY <1>1, Invariance, PTL

\* The assertion in axi4_axi4lite_conv.v never fires: address and data are
\* accepted together.
THEOREM FlowControlHolds == Spec => []FlowControl
<1>1. Inv => FlowControl
  <2> SUFFICES ASSUME Inv PROVE FlowControl
    OBVIOUS
  <2>1. WriteInv /\ ~s_awvalid_q /\ ~s_wvalid_q
    BY DEF Inv, WriteInv
  <2>2. O.awready = cfg_awready_o(C) /\ O.wready = cfg_wready_o(C)
    BY DEF O, Out
  <2>3. cfg_awready_o(C) = cfg_wready_o(C)
    BY <2>1, Zenon DEF cfg_awready_o, cfg_wready_o
  <2>4. C.wvalid /\ O.awready => C.awvalid
    BY <2>1, <2>2, WriteSignals, Wires, Zenon
  <2>5. C.awvalid => C.wvalid
    BY Wires, Zenon
  <2>6. QED
    BY <2>2, <2>3, <2>4, <2>5, Zenon DEF FlowControl
<1>2. QED
  BY <1>1, Invariance, PTL

\* Every write of the registers is the next beat of the burst under way, at its
\* address and with its data, and the response comes when all are written.
THEOREM WriteBeatsHolds == Spec => []WriteBeats
<1>1. Inv => WriteBeats
  <2> SUFFICES ASSUME Inv PROVE WriteBeats
    OBVIOUS
  <2>1. TypeOK /\ WriteInv
    BY DEF Inv
  <2>2. ASSUME write_en_w(C)
        PROVE  /\ WriteTx # NoTx
               /\ WriteNo <= WriteTx.len
               /\ wr_addr_w(C) = Reg(BeatAddr(WriteTx, WriteNo))
               /\ C.wdata = WriteNo
    <3>1. m_w /\ WReady /\ ~bvalid_q /\ ~s_awvalid_q
      BY <2>1, <2>2, WriteSignals, Zenon DEF WriteInv, WReady
    <3>2. wr_addr_w(C) = Reg(C.awaddr) /\ C.wdata = m_sent
      BY <3>1, Wires DEF wr_addr_w
    <3>3. CASE wr = NoTx
      <4>1. m_aw # NoTx /\ m_sent = 0 /\ ~awvalid_q
        BY <2>1, <3>1, <3>3 DEF WriteInv, Waiting
      <4>2. TakesAW(I, O)
        BY <2>1, <3>1, <3>3, <4>1, WriteSignals, Zenon
      <4>3. WriteTx = m_aw /\ WriteNo = 0 /\ m_aw \in WTxns
        BY <2>1, <4>1, <4>2 DEF WriteTx, WriteNo, TypeOK
      <4>4. C.awaddr = m_aw.addr
        BY <4>1, Wires
      <4>5. BeatAddr(m_aw, 0) = m_aw.addr /\ 0 <= m_aw.len
        BY <4>3, BeatFacts, TxnFacts
      <4>6. QED
        BY <3>2, <4>1, <4>3, <4>4, <4>5
    <3>4. CASE wr # NoTx
      <4>1. /\ wdone <= wr.len /\ awvalid_q /\ m_sent = wdone
            /\ awaddr_q = BeatAddr(wr, wdone)
        BY <2>1, <3>1, <3>4 DEF WriteInv
      <4>2. ~TakesAW(I, O)
        BY <2>1, <3>4, WriteSignals, Zenon
      <4>3. WriteTx = wr /\ WriteNo = wdone
        BY <4>2 DEF WriteTx, WriteNo
      <4>4. C.awaddr = awaddr_q
        BY <4>1, Wires
      <4>5. QED
        BY <3>2, <3>4, <4>1, <4>3, <4>4
    <3>5. QED
      BY <3>3, <3>4
  <2>3. ASSUME inport_bvalid_o(O)
        PROVE  wr # NoTx /\ wdone = wr.len + 1
    <3>1. blast_q
      BY <2>3 DEF inport_bvalid_o
    <3>2. QED
      BY <2>1, <3>1 DEF WriteInv
  <2>4. QED
    BY <2>2, <2>3, Zenon DEF WriteBeats
<1>2. QED
  BY <1>1, Invariance, PTL

\* Every read of the registers is the next beat of the burst under way, and
\* rlast comes with the last beat returned and with no other.
THEOREM ReadBeatsHolds == Spec => []ReadBeats
<1>1. Inv => ReadBeats
  <2> SUFFICES ASSUME Inv PROVE ReadBeats
    OBVIOUS
  <2>1. TypeOK /\ ReadInv
    BY DEF Inv
  <2>2. ASSUME rvalid_q
        PROVE  rd # NoTx /\ (inport_rlast_o <=> rdone = rd.len)
    <3>1. /\ rd # NoTx /\ rd \in RTxns /\ rdone \in Nat
          /\ arcnt_q = rd.len + 1 - (rdone + 1)
      BY <2>1, <2>2 DEF ReadInv, TypeOK
    <3>2. rd.len \in Nat
      BY <3>1, TxnFacts
    <3>3. QED
      BY <3>1, <3>2 DEF inport_rlast_o
  <2>3. QED
    BY <2>1, <2>2, ReadIsNext, Zenon DEF ReadBeats
<1>2. QED
  BY <1>1, Invariance, PTL

\* Every read of ETH_RX gives the master the next byte of the receive FIFO.
THEOREM RxInOrderHolds == Spec => []RxInOrder
<1>1. Inv => RxInOrder
  BY DEF Inv
<1>2. QED
  BY <1>1, Invariance, PTL

\* Every write of ETH_TX pushes its own data into the transmit FIFO, once.
THEOREM TxPushedHolds == Spec => []TxPushed
<1>1. Inv => TxPushed
  BY DEF Inv
<1>2. QED
  BY <1>1, Invariance, PTL


=============================================================================
