--------------------------- MODULE ConsoleInProofs ---------------------------
(***************************************************************************)
(* Proofs that ParseCmd gets the line the user typed, for buffers, segments *)
(* and lines of every length, and what typing ahead does.                   *)
(***************************************************************************)
EXTENDS ConsoleIn, SequenceTheorems, WellFoundedInduction, TLAPS

(* Induction for a set.                                                   *)

\* Induction over the natural numbers, for a set instead of a predicate: the
\* least number outside the set would have its predecessor inside.
LEMMA SetInduction ==
    ASSUME NEW S, 0 \in S, \A n \in Nat : n \in S => n + 1 \in S
    PROVE  Nat \subseteq S
<1> DEFINE T == Nat \ S
           R == OpToRel(<, Nat)
<1>1. SUFFICES ASSUME T # {} PROVE FALSE
  OBVIOUS
<1>2. IsWellFoundedOn(R, Nat)
  BY NatLessThanWellFounded
<1>3. T \subseteq Nat
  OBVIOUS
<1> HIDE DEF T, R
<1>4. PICK x \in T : \A y \in T : ~(<<y, x>> \in R)
  BY <1>1, <1>2, <1>3, WFMin
<1> USE DEF T, R
<1>5. x \in Nat /\ x # 0
  OBVIOUS
<1>6. x - 1 \in Nat /\ (x - 1) + 1 = x
  BY <1>5
<1>7. x - 1 \notin S
  BY <1>6, <1>4
<1>8. <<x - 1, x>> \in R
  BY <1>6, <1>5 DEF OpToRel
<1>9. QED
  BY <1>4, <1>6, <1>7, <1>8

-----------------------------------------------------------------------------

\* How much of a line the buffer holds beside its terminator.
Cut(t) == IF Len(t) < RxBufLen - 1 THEN Len(t) ELSE RxBufLen - 1

\* The first n characters of t are in the buffer.
Holds(buf, n, t) == \A j \in 0 .. n - 1 : buf[j] = t[j + 1]

\* A terminator lies below the place of the next character, or both are the
\* buffer's last byte.
EndsLine(buf, count) ==
    \E n \in 0 .. count : buf[n] = NUL /\ (n = count => n = RxBufLen - 1)

\* The next character goes behind the line p, which is in the buffer, whole or
\* cut: behind its terminator, or on it if that is the buffer's last byte.
Shielded(buf, count, p) ==
    /\ Len(p) \in 0 .. count
    /\ Len(p) = count => count = RxBufLen - 1
    /\ Len(p) # count => buf[Len(p)] = NUL
    /\ \A j \in 0 .. Len(p) - 1 : buf[j] \in {p[j + 1], NUL}

\* The buffer's line is p, whole or cut.
Shows(buf, p) ==
    /\ \E m \in 0 .. Len(p) : m \in RxIdx /\ buf[m] = NUL
    /\ \A j \in 0 .. Len(p) - 1 : j \in RxIdx /\ buf[j] \in {p[j + 1], NUL}

\* Where the next character goes, once the echo that waits has returned.
Place == IF echoes = <<>> THEN gRxCount ELSE Bump(gRxCount)

LineInv ==
    /\ gInputReady => Terminated
    /\ running /\ timely => ~gInputReady
    /\ ~running /\ ~timely => gInputReady
    /\ echoes # <<>> => ~alone /\ (running \/ timely)
    /\ fresh => Len(echoes) <= 1
    /\ ~running /\ timely /\ plain /\ alone /\ ~gInputReady => gRxCount = Cut(typed)
    /\ ~running /\ timely /\ plain /\ alone => Holds(gRxBuf, Cut(typed), typed)
    /\ ~running /\ timely /\ plain /\ alone /\ gInputReady => gRxBuf[Cut(typed)] = NUL
    /\ gInputReady /\ (timely \/ running) => EndsLine(gRxBuf, gRxCount)
    /\ running /\ fresh => Shielded(gRxBuf, Place, prev)
    /\ gInputReady /\ ~timely /\ fresh => Shows(gRxBuf, prev)

-----------------------------------------------------------------------------
(* The two recursive functions are what their definitions say.             *)

\* The loop starts at index n.
Start(n) == [buf |-> gRxBuf, count |-> n, ready |-> gInputReady, cp |-> 1, skip |-> 0]

LEMMA TurnsAre ==
    ASSUME NEW seg \in Seq(Byte), NEW s
    PROVE  /\ Turns(seg, s)[0] = s
           /\ \A k \in 1 .. Len(seg) : Turns(seg, s)[k] = RecvByte(seg, Turns(seg, s)[k - 1])
<1> DEFINE F(n, f) == [k \in 0 .. n |-> IF k = 0 THEN s ELSE RecvByte(seg, f[k - 1])]
           S == {n \in Nat : \E f : f = F(n, f)}
           t == CHOOSE f : f = F(Len(seg), f)
<1> HIDE DEF S
<1>1. 0 \in S
  <2> DEFINE f == [k \in 0 .. 0 |-> s]
  <2>1. f = F(0, f)
    OBVIOUS
  <2>2. QED
    BY <2>1 DEF S
<1>2. ASSUME NEW n \in Nat, n \in S PROVE n + 1 \in S
  <2>1. PICK f : f = F(n, f)
    BY <1>2 DEF S
  <2> DEFINE g == [k \in 0 .. n + 1 |-> IF k <= n THEN f[k] ELSE RecvByte(seg, f[n])]
  <2>2. \A k \in 0 .. n : f[k] = IF k = 0 THEN s ELSE RecvByte(seg, f[k - 1])
    BY <2>1
  <2>3. (\A k \in 0 .. n : g[k] = f[k]) /\ g[n + 1] = RecvByte(seg, f[n])
    OBVIOUS
  <2>4. ASSUME NEW k \in 0 .. n + 1
        PROVE  g[k] = IF k = 0 THEN s ELSE RecvByte(seg, g[k - 1])
    <3>1. CASE k <= n
      <4>1. k \in 0 .. n /\ (k # 0 => k - 1 \in 0 .. n)
        BY <3>1
      <4> HIDE DEF g
      <4>2. QED
        BY <2>2, <2>3, <4>1
    <3>2. CASE k = n + 1
      <4>1. k # 0 /\ k - 1 = n /\ n \in 0 .. n
        BY <3>2
      <4> HIDE DEF g
      <4>2. QED
        BY <2>3, <3>2, <4>1
    <3>3. QED
      BY <3>1, <3>2
  <2>5. g = F(n + 1, g)
    <3> DEFINE h == F(n + 1, g)
    <3>1. /\ g = [k \in 0 .. n + 1 |-> g[k]] /\ h = [k \in 0 .. n + 1 |-> h[k]]
      OBVIOUS
    <3>2. \A k \in 0 .. n + 1 : h[k] = IF k = 0 THEN s ELSE RecvByte(seg, g[k - 1])
      OBVIOUS
    <3> HIDE DEF g, h
    <3>3. \A k \in 0 .. n + 1 : g[k] = h[k]
      BY <2>4, <3>2
    <3>4. g = h
      BY <3>1, <3>3
    <3>5. QED
      BY <3>4 DEF h
  <2>6. QED
    <3> HIDE DEF F, g
    <3>1. \E f2 : f2 = F(n + 1, f2)
      BY <2>5
    <3>2. n + 1 \in Nat
      OBVIOUS
    <3>3. QED
      BY <3>1, <3>2 DEF S
<1>3. Nat \subseteq S
  BY <1>1, <1>2, SetInduction
<1>4. t = F(Len(seg), t)
  <2>1. \E f : f = F(Len(seg), f)
    BY <1>3 DEF S
  <2>2. QED
    BY <2>1
<1>5. Turns(seg, s) = t
  BY DEF Turns
<1> HIDE DEF t
<1>6. \A k \in 0 .. Len(seg) : t[k] = IF k = 0 THEN s ELSE RecvByte(seg, t[k - 1])
  BY <1>4
<1>7. QED
  BY <1>5, <1>6

Blank == [line |-> typed, command |-> 0, ended |-> FALSE, plain |-> plain]

LEMMA EditsAre ==
    ASSUME NEW seg \in Seq(Byte)
    PROVE  /\ Edits(seg)[0] = Blank
           /\ \A k \in 1 .. Len(seg) : Edits(seg)[k] = EditByte(seg[k], Edits(seg)[k - 1])
<1> DEFINE F(n, f) == [k \in 0 .. n |-> IF k = 0 THEN Blank ELSE EditByte(seg[k], f[k - 1])]
           S == {n \in Nat : \E f : f = F(n, f)}
           t == CHOOSE f : f = F(Len(seg), f)
<1> HIDE DEF S
<1>1. 0 \in S
  <2> DEFINE f == [k \in 0 .. 0 |-> Blank]
  <2>1. f = F(0, f)
    OBVIOUS
  <2>2. QED
    BY <2>1 DEF S
<1>2. ASSUME NEW n \in Nat, n \in S PROVE n + 1 \in S
  <2>1. PICK f : f = F(n, f)
    BY <1>2 DEF S
  <2> DEFINE g == [k \in 0 .. n + 1 |-> IF k <= n THEN f[k] ELSE EditByte(seg[n + 1], f[n])]
  <2>2. \A k \in 0 .. n : f[k] = IF k = 0 THEN Blank ELSE EditByte(seg[k], f[k - 1])
    BY <2>1
  <2>3. (\A k \in 0 .. n : g[k] = f[k]) /\ g[n + 1] = EditByte(seg[n + 1], f[n])
    OBVIOUS
  <2>4. ASSUME NEW k \in 0 .. n + 1
        PROVE  g[k] = IF k = 0 THEN Blank ELSE EditByte(seg[k], g[k - 1])
    <3>1. CASE k <= n
      <4>1. k \in 0 .. n /\ (k # 0 => k - 1 \in 0 .. n)
        BY <3>1
      <4> HIDE DEF g
      <4>2. QED
        BY <2>2, <2>3, <4>1
    <3>2. CASE k = n + 1
      <4>1. k # 0 /\ k - 1 = n /\ n \in 0 .. n
        BY <3>2
      <4> HIDE DEF g
      <4>2. QED
        BY <2>3, <3>2, <4>1
    <3>3. QED
      BY <3>1, <3>2
  <2>5. g = F(n + 1, g)
    <3> DEFINE h == F(n + 1, g)
    <3>1. /\ g = [k \in 0 .. n + 1 |-> g[k]] /\ h = [k \in 0 .. n + 1 |-> h[k]]
      OBVIOUS
    <3>2. \A k \in 0 .. n + 1 : h[k] = IF k = 0 THEN Blank ELSE EditByte(seg[k], g[k - 1])
      OBVIOUS
    <3> HIDE DEF g, h
    <3>3. \A k \in 0 .. n + 1 : g[k] = h[k]
      BY <2>4, <3>2
    <3>4. g = h
      BY <3>1, <3>3
    <3>5. QED
      BY <3>4 DEF h
  <2>6. QED
    <3> HIDE DEF F, g
    <3>1. \E f2 : f2 = F(n + 1, f2)
      BY <2>5
    <3>2. n + 1 \in Nat
      OBVIOUS
    <3>3. QED
      BY <3>1, <3>2 DEF S
<1>3. Nat \subseteq S
  BY <1>1, <1>2, SetInduction
<1>4. t = F(Len(seg), t)
  <2>1. \E f : f = F(Len(seg), f)
    BY <1>3 DEF S
  <2>2. QED
    BY <2>1
<1>5. Edits(seg) = t
  BY DEF Edits, Blank
<1> HIDE DEF t
<1>6. \A k \in 0 .. Len(seg) : t[k] = IF k = 0 THEN Blank ELSE EditByte(seg[k], t[k - 1])
  BY <1>4
<1>7. QED
  BY <1>5, <1>6
-----------------------------------------------------------------------------
(* TcpRecv's loop.                                                         *)

LoopState ==
    [buf : [RxIdx -> Chars \cup {NUL}], count : RxIdx, ready : BOOLEAN,
     cp : Nat \ {0}, skip : 0 .. 2]

LEMMA BumpFacts ==
    ASSUME NEW n \in RxIdx
    PROVE  /\ Bump(n) \in RxIdx /\ n <= Bump(n)
           /\ Bump(n) = n <=> n = RxBufLen - 1
           /\ n # RxBufLen - 1 => Bump(n) = n + 1
           /\ n > 0 => n - 1 \in RxIdx /\ Bump(n - 1) = n
  BY InputAssumption DEF Bump, RxIdx

\* What a turn that takes the loop from s to r may do.
TurnCase(seg, s, r) ==
    \/ /\ s.skip > 0 /\ r.buf = s.buf /\ r.count = s.count /\ r.ready = s.ready
       /\ r.cp = s.cp /\ r.skip = s.skip - 1
    \/ s.skip = 0 /\ s.ready /\ r = s
    \/ /\ s.skip = 0 /\ ~s.ready /\ seg[s.cp] = IAC
       /\ r.buf = s.buf /\ r.count = s.count /\ ~r.ready /\ r.cp = s.cp + 3 /\ r.skip = 2
    \/ /\ s.skip = 0 /\ ~s.ready /\ seg[s.cp] = BS
       /\ r.buf = s.buf /\ ~r.ready /\ r.cp = s.cp /\ r.skip = 0
       /\ r.count = IF s.count > 0 THEN s.count ELSE Bump(s.count)
    \/ /\ s.skip = 0 /\ ~s.ready /\ seg[s.cp] = CR
       /\ r.buf = [s.buf EXCEPT ![s.count] = NUL] /\ r.count = Bump(s.count)
       /\ r.ready /\ r.cp = s.cp /\ r.skip = 0
    \/ /\ s.skip = 0 /\ ~s.ready /\ seg[s.cp] \in Chars
       /\ r.buf = [s.buf EXCEPT ![s.count] = seg[s.cp]] /\ r.count = Bump(s.count)
       /\ ~r.ready /\ r.cp = s.cp + 1 /\ r.skip = 0

LEMMA RecvCases ==
    ASSUME NEW seg \in Seq(Byte), NEW s \in LoopState, s.skip = 0 => s.cp <= Len(seg)
    PROVE  RecvByte(seg, s) \in LoopState /\ TurnCase(seg, s, RecvByte(seg, s))
<1> USE DEF TurnCase
<1> DEFINE r == RecvByte(seg, s)
           b == seg[s.cp]
<1>1. /\ s.buf \in [RxIdx -> Chars \cup {NUL}] /\ s.count \in RxIdx /\ s.ready \in BOOLEAN
      /\ s.cp \in Nat \ {0} /\ s.skip \in 0 .. 2
  BY DEF LoopState
<1>2. /\ Bump(s.count) \in RxIdx
      /\ (IF s.count > 0 THEN s.count ELSE Bump(s.count)) \in RxIdx
      /\ Bump(Erased(s.count)) = IF s.count > 0 THEN s.count ELSE Bump(s.count)
  BY <1>1, BumpFacts DEF Erased
<1>3. CASE s.skip > 0
  <2>1. r = [s EXCEPT !.skip = s.skip - 1]
    BY <1>3 DEF RecvByte
  <2>2. s.skip - 1 \in 0 .. 2
    BY <1>1, <1>3
  <2> HIDE DEF r
  <2>3. QED
    BY <1>3, <2>1, <2>2 DEF LoopState, r
<1>4. CASE s.skip = 0 /\ s.ready
  BY <1>4 DEF RecvByte, Accepts
<1>5. CASE s.skip = 0 /\ ~s.ready
  <2>1. b \in Byte
    <3>1. s.cp \in 1 .. Len(seg)
      BY <1>1, <1>5
    <3>2. QED
      BY <3>1
  <2>2. r = CASE b = IAC -> [s EXCEPT !.cp = @ + 3, !.skip = 2]
              [] b = BS -> [s EXCEPT !.count = Bump(Erased(@))]
              [] b = CR -> CarriageReturn(s)
              [] OTHER -> [s EXCEPT !.buf[s.count] = b, !.cp = @ + 1, !.count = Bump(@)]
    BY <1>1, <1>5 DEF RecvByte, Accepts
  <2> HIDE DEF r
  <2>3. CASE b = IAC
    <3>1. r = [s EXCEPT !.cp = s.cp + 3, !.skip = 2]
      BY <2>2, <2>3, InputAssumption
    <3>2. QED
      <4>1. s.cp + 3 \in Nat \ {0} /\ 2 \in 0 .. 2
        BY <1>1
      <4>2. r \in LoopState
        BY <1>1, <3>1, <4>1 DEF LoopState
      <4>3. /\ r.buf = s.buf /\ r.count = s.count /\ r.ready = s.ready
            /\ r.cp = s.cp + 3 /\ r.skip = 2
        BY <3>1 DEF LoopState
      <4>4. QED
        BY <1>5, <2>3, <4>2, <4>3 DEF r
  <2>4. CASE b = BS
    <3>1. r = [s EXCEPT !.count = Bump(Erased(s.count))]
      BY <2>2, <2>4, InputAssumption
    <3>2. QED
      BY <1>1, <1>2, <1>5, <2>4, <3>1 DEF LoopState, r
  <2>5. CASE b = CR
    <3>1. r = [s EXCEPT !.ready = TRUE, !.buf = [s.buf EXCEPT ![s.count] = NUL],
                        !.count = Bump(s.count)]
      BY <2>2, <2>5, InputAssumption DEF CarriageReturn
    <3>2. QED
      BY <1>1, <1>2, <1>5, <2>5, <3>1 DEF LoopState, r
  <2>6. CASE b \notin {IAC, BS, CR}
    <3>1. r = [s EXCEPT !.buf = [s.buf EXCEPT ![s.count] = b], !.cp = s.cp + 1,
                        !.count = Bump(s.count)]
      BY <2>2, <2>6
    <3>2. b \in Chars
      BY <2>1, <2>6 DEF Byte
    <3>3. QED
      <4>1. s.cp + 1 \in Nat \ {0}
        BY <1>1
      <4>2. r \in LoopState
        BY <1>1, <1>2, <3>1, <3>2, <4>1 DEF LoopState
      <4>3. /\ r.buf = [s.buf EXCEPT ![s.count] = b] /\ r.count = Bump(s.count)
            /\ r.ready = s.ready /\ r.cp = s.cp + 1 /\ r.skip = s.skip
        BY <3>1 DEF LoopState
      <4>4. QED
        BY <1>5, <3>2, <4>2, <4>3 DEF r
  <2>7. QED
    BY <2>3, <2>4, <2>5, <2>6
<1>6. QED
  BY <1>1, <1>3, <1>4, <1>5

\* The cursor is never ahead of the turn that reads through it.
LEMMA TurnStates ==
    ASSUME TypeOK, NEW seg \in Seq(Byte), NEW n \in RxIdx
    PROVE  /\ \A k \in 0 .. Len(seg) :
                 /\ Turns(seg, Start(n))[k] \in LoopState
                 /\ Turns(seg, Start(n))[k].cp <= k + 1 + Turns(seg, Start(n))[k].skip
           /\ \A k \in 1 .. Len(seg) :
                 TurnCase(seg, Turns(seg, Start(n))[k - 1], Turns(seg, Start(n))[k])
<1> DEFINE s0 == Start(n)
<1>0. s0 \in LoopState /\ s0.cp = 1 /\ s0.skip = 0
  BY DEF TypeOK, Start, LoopState
<1> HIDE DEF s0
<1> DEFINE t == Turns(seg, s0)
           P(k) == t[k] \in LoopState /\ t[k].cp <= k + 1 + t[k].skip
           S == {k \in Nat : k <= Len(seg) => P(k)}
<1>1. /\ t[0] = s0 /\ Len(seg) \in Nat
      /\ \A k \in 1 .. Len(seg) : t[k] = RecvByte(seg, t[k - 1])
  BY TurnsAre
<1> HIDE DEF t
<1>2. 0 \in S
  BY <1>0, <1>1
<1>3. ASSUME NEW k \in Nat, k < Len(seg), P(k)
      PROVE  P(k + 1) /\ TurnCase(seg, t[k], t[k + 1])
  <2> DEFINE s == t[k]
             r == t[k + 1]
  <2>1. s \in LoopState /\ s.cp <= k + 1 + s.skip
    BY <1>3
  <2>2. s.cp \in Nat /\ s.skip \in Nat
    BY <2>1 DEF LoopState
  <2>3. k + 1 \in 1 .. Len(seg) /\ (k + 1) - 1 = k
    BY <1>1, <1>3
  <2>4. r = RecvByte(seg, s)
    BY <1>1, <2>3
  <2>5. s.skip = 0 => s.cp <= Len(seg)
    BY <1>1, <1>3, <2>1, <2>2
  <2> HIDE DEF s, r
  <2>6. r \in LoopState /\ TurnCase(seg, s, r)
    BY <2>1, <2>4, <2>5, RecvCases
  <2>7. r.cp <= (k + 1) + 1 + r.skip
    <3>1. \/ r.cp = s.cp /\ r.skip = s.skip - 1
          \/ r.cp = s.cp /\ r.skip = s.skip
          \/ s.skip = 0 /\ r.cp = s.cp + 3 /\ r.skip = 2
          \/ s.skip = 0 /\ r.cp = s.cp + 1 /\ r.skip = 0
      BY <2>6 DEF TurnCase
    <3>2. QED
      BY <2>1, <2>2, <3>1
  <2>8. QED
    BY <2>6, <2>7 DEF s, r
<1>4. ASSUME NEW k \in Nat, k \in S PROVE k + 1 \in S
  BY <1>1, <1>3, <1>4
<1> HIDE DEF S
<1>5. Nat \subseteq S
  BY <1>2, <1>4, SetInduction
<1>6. \A k \in 0 .. Len(seg) : P(k)
  BY <1>1, <1>5 DEF S
<1>7. \A k \in 1 .. Len(seg) : TurnCase(seg, t[k - 1], t[k])
  <2> TAKE k \in 1 .. Len(seg)
  <2>1. k - 1 \in Nat /\ k - 1 < Len(seg) /\ k - 1 \in 0 .. Len(seg) /\ (k - 1) + 1 = k
    BY <1>1
  <2>2. TurnCase(seg, t[k - 1], t[(k - 1) + 1])
    BY <1>3, <1>6, <2>1
  <2>3. QED
    BY <2>1, <2>2
<1>8. QED
  BY <1>6, <1>7 DEF t, s0

\* What a turn preserves.
Kept(seg, G) == \A s, r \in LoopState : s \in G /\ TurnCase(seg, s, r) => r \in G

\* What holds before the first turn, and every turn preserves, holds after all.
LEMMA TurnInduction ==
    ASSUME TypeOK, NEW seg \in Seq(Byte), NEW n \in RxIdx, NEW G, Start(n) \in G,
           Kept(seg, G)
    PROVE  \A k \in 0 .. Len(seg) : Turns(seg, Start(n))[k] \in G
<1> DEFINE t == Turns(seg, Start(n))
           S == {k \in Nat : k <= Len(seg) => t[k] \in G}
<1>1. /\ \A k \in 0 .. Len(seg) : t[k] \in LoopState
      /\ \A k \in 1 .. Len(seg) : TurnCase(seg, t[k - 1], t[k])
      /\ t[0] = Start(n) /\ Len(seg) \in Nat
  BY TurnStates, TurnsAre
<1> HIDE DEF t
<1>2. 0 \in S
  BY <1>1
<1>3. ASSUME NEW k \in Nat, k \in S PROVE k + 1 \in S
  <2> SUFFICES ASSUME k + 1 <= Len(seg) PROVE t[k + 1] \in G
    OBVIOUS
  <2>1. k + 1 \in 1 .. Len(seg) /\ (k + 1) - 1 = k /\ k \in 0 .. Len(seg)
        /\ k + 1 \in 0 .. Len(seg) /\ k <= Len(seg)
    BY <1>1
  <2>2. TurnCase(seg, t[k], t[k + 1])
    BY <1>1, <2>1
  <2>3. QED
    BY <1>1, <1>3, <2>1, <2>2 DEF Kept
<1> HIDE DEF S
<1>4. Nat \subseteq S
  BY <1>2, <1>3, SetInduction
<1>5. \A k \in 0 .. Len(seg) : t[k] \in G
  BY <1>1, <1>4 DEF S
<1>6. QED
  BY <1>5 DEF t

\* The loop's last state.
Received(seg, n) == Turns(seg, Start(n))[Len(seg)]

\* The loop leaves the line buffer in a state t that its turns reach.  Either
\* that is its last state, or an echo waits, and Bump will complete t's turn.
LoopResult(seg, n, callers, t) ==
    /\ gRxBuf' = t.buf /\ gInputReady' = t.ready
    /\ \/ t = Received(seg, n) /\ gRxCount' = t.count /\ echoes' = callers
       \/ /\ ~t.ready /\ gRxCount' \in RxIdx /\ Bump(gRxCount') = t.count
          /\ \E rest \in Seq(Byte) : echoes' = Append(callers, rest)

LEMMA LoopEnds ==
    ASSUME TypeOK, NEW seg \in Seq(Byte), NEW n \in RxIdx, NEW callers,
           Loop(seg, n, callers), NEW G, Start(n) \in G, Kept(seg, G)
    PROVE  \E t \in LoopState : t \in G /\ LoopResult(seg, n, callers, t)
<1> DEFINE turn == Turns(seg, Start(n))
<1>1. /\ \A k \in 0 .. Len(seg) : turn[k] \in LoopState /\ turn[k].cp <= k + 1 + turn[k].skip
      /\ \A k \in 1 .. Len(seg) : TurnCase(seg, turn[k - 1], turn[k])
      /\ Len(seg) \in Nat
  BY TurnStates
<1>2. \A k \in 0 .. Len(seg) : turn[k] \in G
  BY TurnInduction
<1>3. \/ /\ gRxBuf' = turn[Len(seg)].buf /\ gRxCount' = turn[Len(seg)].count
         /\ gInputReady' = turn[Len(seg)].ready /\ echoes' = callers
      \/ \E k \in 1 .. Len(seg) :
           /\ Echoes(seg, turn[k - 1])
           /\ gRxBuf' = turn[k - 1].buf /\ gRxCount' = Erased(turn[k - 1].count)
           /\ gInputReady' = turn[k - 1].ready
           /\ echoes' = Append(callers, SubSeq(seg, turn[k - 1].cp,
                                               turn[k - 1].cp + Len(seg) - k - 1))
  BY DEF Loop, Start
<1>4. Received(seg, n) = turn[Len(seg)]
  BY DEF Received
<1> HIDE DEF turn
<1>5. CASE /\ gRxBuf' = turn[Len(seg)].buf /\ gRxCount' = turn[Len(seg)].count
           /\ gInputReady' = turn[Len(seg)].ready /\ echoes' = callers
  <2>1. Len(seg) \in 0 .. Len(seg)
    BY <1>1
  <2>2. LoopResult(seg, n, callers, turn[Len(seg)])
    BY <1>4, <1>5 DEF LoopResult
  <2>3. QED
    BY <1>1, <1>2, <2>1, <2>2
<1>6. ASSUME NEW k \in 1 .. Len(seg), Echoes(seg, turn[k - 1]),
             gRxBuf' = turn[k - 1].buf, gRxCount' = Erased(turn[k - 1].count),
             gInputReady' = turn[k - 1].ready,
             echoes' = Append(callers, SubSeq(seg, turn[k - 1].cp,
                                              turn[k - 1].cp + Len(seg) - k - 1))
      PROVE  \E t \in LoopState : t \in G /\ LoopResult(seg, n, callers, t)
  <2> DEFINE s == turn[k - 1]
             r == turn[k]
             rest == SubSeq(seg, s.cp, s.cp + Len(seg) - k - 1)
  <2>1. k - 1 \in 0 .. Len(seg) /\ k \in 0 .. Len(seg)
    BY <1>1
  <2>2. /\ s \in LoopState /\ r \in LoopState /\ r \in G
        /\ s.cp <= (k - 1) + 1 + s.skip /\ TurnCase(seg, s, r)
    BY <1>1, <1>2, <2>1
  <2>3. s.skip = 0 /\ ~s.ready /\ seg[s.cp] = BS
    BY <1>6 DEF Echoes, Accepts
  <2>4. gRxBuf' = s.buf /\ gRxCount' = Erased(s.count) /\ gInputReady' = s.ready
        /\ echoes' = Append(callers, rest)
    BY <1>6
  <2> HIDE DEF s, r
  <2>5. /\ s.count \in RxIdx /\ s.ready \in BOOLEAN /\ r.ready \in BOOLEAN
        /\ s.cp \in Nat \ {0} /\ s.cp <= k
    BY <2>2, <2>3 DEF LoopState
  <2>6. /\ r.buf = s.buf /\ ~r.ready
        /\ r.count = IF s.count > 0 THEN s.count ELSE Bump(s.count)
    BY <2>2, <2>3, InputAssumption DEF TurnCase
  <2>7. Erased(s.count) \in RxIdx /\ Bump(Erased(s.count)) = r.count
    BY <2>5, <2>6, BumpFacts DEF Erased
  <2>8. rest \in Seq(Byte)
    <3>1. s.cp \in Int /\ s.cp + Len(seg) - k - 1 \in Int
      BY <1>1, <2>5
    <3>2. \A i \in s.cp .. s.cp + Len(seg) - k - 1 : i \in 1 .. Len(seg)
      BY <1>1, <2>5
    <3>3. \A i \in s.cp .. s.cp + Len(seg) - k - 1 : seg[i] \in Byte
      BY <3>2
    <3>4. QED
      BY <3>1, <3>3, SubSeqProperties
  <2> HIDE DEF rest
  <2>9. LoopResult(seg, n, callers, r)
    BY <2>3, <2>4, <2>5, <2>6, <2>7, <2>8 DEF LoopResult
  <2>10. QED
    BY <2>2, <2>9
<1>7. QED
  BY <1>3, <1>5, <1>6

\* So the line buffer, and the calls that wait, keep their types.
LEMMA LoopTypes ==
    ASSUME NEW seg, NEW n, NEW callers \in Seq(Seq(Byte)), NEW t \in LoopState,
           LoopResult(seg, n, callers, t)
    PROVE  /\ gRxBuf' \in [RxIdx -> Chars \cup {NUL}] /\ gRxCount' \in RxIdx
           /\ gInputReady' \in BOOLEAN /\ echoes' \in Seq(Seq(Byte))
           /\ echoes' # callers => ~t.ready
           /\ callers # <<>> => echoes' # <<>>
           /\ Len(echoes') <= Len(callers) + 1
           /\ echoes' = <<>> => t = Received(seg, n) /\ gRxCount' = t.count
           /\ callers = <<>> => Place' = t.count
           /\ t.ready => gRxCount' = t.count
<1>1. /\ t.buf \in [RxIdx -> Chars \cup {NUL}] /\ t.count \in RxIdx /\ t.ready \in BOOLEAN
      /\ gRxBuf' = t.buf /\ gInputReady' = t.ready
  BY DEF LoopState, LoopResult
<1>2. CASE t = Received(seg, n) /\ gRxCount' = t.count /\ echoes' = callers
  <2>1. Len(echoes') = Len(callers) /\ Len(callers) \in Nat
    BY <1>2
  <2>2. callers = <<>> => Place' = t.count
    BY <1>2 DEF Place
  <2>3. QED
    BY <1>1, <1>2, <2>1, <2>2
<1>3. ASSUME ~t.ready, gRxCount' \in RxIdx, Bump(gRxCount') = t.count,
             NEW rest \in Seq(Byte), echoes' = Append(callers, rest)
      PROVE  /\ gRxCount' \in RxIdx /\ echoes' \in Seq(Seq(Byte)) /\ echoes' # <<>>
             /\ Len(echoes') = Len(callers) + 1 /\ Place' = t.count
  <2>1. /\ echoes' \in Seq(Seq(Byte)) /\ echoes' # <<>>
        /\ Len(echoes') = Len(callers) + 1
    BY <1>3, AppendProperties
  <2>2. QED
    BY <1>3, <2>1 DEF Place
<1>4. QED
  <2>1. Len(callers) \in Nat
    OBVIOUS
  <2>2. QED
    BY <1>1, <1>2, <1>3, <2>1 DEF LoopResult

\* A line that waits to be processed keeps the loop from touching anything.
LEMMA RecvFrozen ==
    ASSUME TypeOK, NEW seg \in Seq(Byte), NEW callers, gInputReady,
           Loop(seg, gRxCount, callers)
    PROVE  /\ gRxBuf' = gRxBuf /\ gRxCount' = gRxCount /\ gInputReady' = gInputReady
           /\ echoes' = callers
<1> DEFINE s0 == Start(gRxCount)
           G == {s0}
<1>1. /\ s0.skip = 0 /\ s0.ready /\ s0.buf = gRxBuf /\ s0.count = gRxCount
      /\ s0.ready = gInputReady
  BY DEF Start
<1>2. Start(gRxCount) \in G
  OBVIOUS
<1> HIDE DEF s0
<1>3. Kept(seg, G)
  <2> SUFFICES ASSUME NEW s \in LoopState, NEW r \in LoopState, s \in G, TurnCase(seg, s, r)
               PROVE  r \in G
    BY DEF Kept
  <2>1. s.skip = 0 /\ s.ready
    BY <1>1
  <2>2. r = s
    BY <2>1 DEF TurnCase
  <2>3. QED
    BY <2>2
<1>4. gRxCount \in RxIdx
  BY DEF TypeOK
<1> HIDE DEF G
<1>5. PICK t \in LoopState : t \in G /\ LoopResult(seg, gRxCount, callers, t)
  BY <1>2, <1>3, <1>4, LoopEnds
<1>6. t = s0
  BY <1>5 DEF G
<1>7. QED
  BY <1>1, <1>5, <1>6 DEF LoopResult

Ending == {s \in LoopState : s.ready => EndsLine(s.buf, s.count)}

\* The line that a carriage return ends is ended.
LEMMA EndingKept == ASSUME NEW seg PROVE Kept(seg, Ending)
<1> SUFFICES ASSUME NEW s \in LoopState, NEW r \in LoopState, s \in Ending,
                    TurnCase(seg, s, r), r.ready
             PROVE  EndsLine(r.buf, r.count)
  BY DEF Kept, Ending
<1>0. s.ready => EndsLine(s.buf, s.count)
  BY DEF Ending
<1>1. CASE r.buf = s.buf /\ r.count = s.count /\ r.ready = s.ready
  BY <1>0, <1>1
<1>2. CASE r.buf = [s.buf EXCEPT ![s.count] = NUL] /\ r.count = Bump(s.count)
  <2> DEFINE n == s.count
  <2>1. n \in RxIdx /\ s.buf \in [RxIdx -> Chars \cup {NUL}]
    BY DEF LoopState
  <2>2. Bump(n) \in RxIdx /\ n <= Bump(n) /\ (Bump(n) = n <=> n = RxBufLen - 1)
    BY <2>1, BumpFacts
  <2>3. r.buf[n] = NUL
    BY <1>2, <2>1
  <2>4. n \in 0 .. Bump(n) /\ (n = Bump(n) => n = RxBufLen - 1)
    BY <2>1, <2>2, InputAssumption DEF RxIdx
  <2>5. QED
    BY <1>2, <2>3, <2>4 DEF EndsLine
<1>3. QED
  BY <1>1, <1>2 DEF TurnCase

Shielding(p) == {s \in LoopState : Shielded(s.buf, s.count, p)}

\* Typing ahead leaves the line that is being executed alone.
LEMMA ShieldingKept == ASSUME NEW seg, NEW p \in Seq(Chars) PROVE Kept(seg, Shielding(p))
<1> DEFINE G == Shielding(p)
           n == Len(p)
<1>0. n \in Nat
  OBVIOUS
<1> SUFFICES ASSUME NEW s \in LoopState, NEW r \in LoopState, s \in G, TurnCase(seg, s, r)
             PROVE  r \in G
  BY DEF Kept
<1>1. Shielded(s.buf, s.count, p)
  BY DEF Shielding
<1> USE DEF Shielding
<1> DEFINE c == s.count
<1>2. /\ c \in RxIdx /\ s.buf \in [RxIdx -> Chars \cup {NUL}]
      /\ r.count \in RxIdx /\ c \in Nat /\ c <= RxBufLen - 1 /\ RxBufLen \in Nat \ {0}
  BY InputAssumption DEF LoopState, RxIdx
<1>3. /\ n \in 0 .. c /\ (n = c => c = RxBufLen - 1) /\ (n # c => s.buf[n] = NUL)
      /\ \A j \in 0 .. n - 1 : s.buf[j] \in {p[j + 1], NUL}
  BY <1>1 DEF Shielded
<1> HIDE DEF n, c
<1>4. /\ Bump(c) \in RxIdx /\ c <= Bump(c)
      /\ Bump(c) = c <=> c = RxBufLen - 1
      /\ c # RxBufLen - 1 => Bump(c) = c + 1
  BY <1>2, BumpFacts
<1>5. CASE r.buf = s.buf /\ r.count = c
  BY <1>1, <1>5 DEF c
<1>6. CASE r.buf = s.buf /\ r.count = (IF c > 0 THEN c ELSE Bump(c))
  <2>1. r.count = c
    BY <1>0, <1>2, <1>3, <1>4, <1>6
  <2>2. QED
    BY <1>5, <1>6, <2>1
<1>7. ASSUME NEW b, r.buf = [s.buf EXCEPT ![c] = b], r.count = Bump(c) PROVE r \in G
  <2>1. n \in 0 .. Bump(c) /\ (n = Bump(c) => Bump(c) = RxBufLen - 1)
    BY <1>0, <1>2, <1>3, <1>4 DEF RxIdx
  <2>2. \A j \in 0 .. n - 1 : r.buf[j] = s.buf[j]
    <3> TAKE j \in 0 .. n - 1
    <3>1. j \in RxIdx /\ j # c
      BY <1>0, <1>2, <1>3 DEF RxIdx
    <3>2. QED
      BY <1>2, <1>7, <3>1
  <2>3. n # Bump(c) => r.buf[n] = NUL
    <3> SUFFICES ASSUME n # Bump(c) PROVE r.buf[n] = NUL
      OBVIOUS
    <3>1. n # c /\ n \in RxIdx
      BY <1>0, <1>2, <1>3, <1>4 DEF RxIdx
    <3>2. QED
      BY <1>2, <1>3, <1>7, <3>1
  <2>4. Shielded(r.buf, r.count, p)
    BY <1>3, <1>7, <2>1, <2>2, <2>3 DEF Shielded, n
  <2>5. QED
    BY <2>4
<1>8. QED
  BY <1>5, <1>6, <1>7 DEF TurnCase, c
-----------------------------------------------------------------------------
(* The loop and the user's line.                                           *)

EditState == [line : Seq(Chars), command : 0 .. 2, ended : BOOLEAN, plain : BOOLEAN]

\* What the byte b does to the user's line.
EditCase(b, s, r) ==
    \/ s.ended /\ r = s
    \/ /\ ~s.ended /\ s.command > 0 /\ r.command = s.command - 1
       /\ r.line = s.line /\ ~r.ended /\ r.plain = s.plain
    \/ /\ ~s.ended /\ s.command = 0 /\ b = IAC /\ r.command = 2
       /\ r.line = s.line /\ ~r.ended /\ r.plain = s.plain
    \/ ~s.ended /\ s.command = 0 /\ b = BS /\ ~r.plain
    \/ /\ ~s.ended /\ s.command = 0 /\ b = CR /\ r.ended
       /\ r.line = s.line /\ r.command = 0 /\ r.plain = s.plain
    \/ /\ ~s.ended /\ s.command = 0 /\ b \in Chars /\ r.line = Append(s.line, b)
       /\ r.command = 0 /\ ~r.ended /\ r.plain = s.plain

LEMMA EditCases ==
    ASSUME NEW b \in Byte, NEW s \in EditState
    PROVE  EditByte(b, s) \in EditState /\ EditCase(b, s, EditByte(b, s))
<1> DEFINE r == EditByte(b, s)
<1>1. /\ s.line \in Seq(Chars) /\ s.command \in 0 .. 2
      /\ s.ended \in BOOLEAN /\ s.plain \in BOOLEAN
  BY DEF EditState
<1> USE DEF EditCase
<1>2. CASE s.ended
  BY <1>2 DEF EditByte
<1>3. CASE ~s.ended /\ s.command > 0
  <2>1. r = [s EXCEPT !.command = s.command - 1]
    BY <1>3 DEF EditByte
  <2>2. s.command - 1 \in 0 .. 2
    BY <1>1, <1>3
  <2> HIDE DEF r
  <2>3. QED
    BY <1>3, <2>1, <2>2 DEF EditState, r
<1>4. CASE ~s.ended /\ s.command = 0
  <2>1. r = CASE b = IAC -> [s EXCEPT !.command = 2]
              [] b = BS -> [s EXCEPT !.line = IF @ = <<>> THEN @ ELSE Front(@),
                                     !.plain = FALSE]
              [] b = CR -> [s EXCEPT !.ended = TRUE]
              [] OTHER -> [s EXCEPT !.line = Append(@, b)]
    BY <1>1, <1>4 DEF EditByte
  <2> HIDE DEF r
  <2>2. CASE b = IAC
    <3>1. r = [s EXCEPT !.command = 2]
      BY <2>1, <2>2, InputAssumption
    <3>2. QED
      BY <1>4, <2>2, <3>1 DEF EditState, r
  <2>3. CASE b = BS
    <3> DEFINE l == IF s.line = <<>> THEN s.line ELSE Front(s.line)
    <3>1. r = [s EXCEPT !.line = l, !.plain = FALSE]
      BY <2>1, <2>3, InputAssumption
    <3>2. l \in Seq(Chars)
      <4> DEFINE q == s.line
      <4>1. q \in Seq(Chars) /\ Len(q) \in Nat
        BY <1>1
      <4> HIDE DEF q
      <4>2. CASE q = <<>>
        BY <1>1, <4>2 DEF q
      <4>3. CASE q # <<>>
        <5>1. Len(q) # 0
          BY <4>1, <4>3
        <5>2. \A j \in 1 .. Len(q) - 1 : q[j] \in Chars
          BY <4>1
        <5>3. SubSeq(q, 1, Len(q) - 1) \in Seq(Chars)
          BY <4>1, <5>1, <5>2, SubSeqProperties
        <5>4. QED
          BY <4>3, <5>3 DEF Front, q
      <4>4. QED
        BY <4>2, <4>3
    <3> HIDE DEF l
    <3>3. QED
      BY <1>4, <2>3, <3>1, <3>2 DEF EditState, r
  <2>4. CASE b = CR
    <3>1. r = [s EXCEPT !.ended = TRUE]
      BY <2>1, <2>4, InputAssumption
    <3>2. QED
      BY <1>4, <2>4, <3>1 DEF EditState, r
  <2>5. CASE b \notin {IAC, BS, CR}
    <3>1. r = [s EXCEPT !.line = Append(s.line, b)]
      BY <2>1, <2>5
    <3>2. b \in Chars
      BY <2>5 DEF Byte
    <3>3. Append(s.line, b) \in Seq(Chars)
      BY <1>1, <3>2, AppendProperties
    <3>4. QED
      BY <1>4, <3>1, <3>2, <3>3 DEF EditState, r
  <2>6. QED
    BY <2>2, <2>3, <2>4, <2>5
<1>5. QED
  BY <1>1, <1>2, <1>3, <1>4

LEMMA EditStates ==
    ASSUME TypeOK, NEW seg \in Seq(Byte)
    PROVE  /\ \A k \in 0 .. Len(seg) : Edits(seg)[k] \in EditState
           /\ \A k \in 1 .. Len(seg) : EditCase(seg[k], Edits(seg)[k - 1], Edits(seg)[k])
<1> DEFINE e == Edits(seg)
           S == {k \in Nat : k <= Len(seg) => e[k] \in EditState}
<1>1. /\ e[0] = Blank /\ Len(seg) \in Nat
      /\ \A k \in 1 .. Len(seg) : e[k] = EditByte(seg[k], e[k - 1])
  BY EditsAre
<1> HIDE DEF e
<1>2. 0 \in S
  <2>1. Blank \in EditState
    BY DEF TypeOK, Blank, EditState
  <2>2. QED
    BY <1>1, <2>1
<1>3. ASSUME NEW k \in 1 .. Len(seg), e[k - 1] \in EditState
      PROVE  e[k] \in EditState /\ EditCase(seg[k], e[k - 1], e[k])
  <2>1. seg[k] \in Byte
    OBVIOUS
  <2>2. e[k] = EditByte(seg[k], e[k - 1])
    BY <1>1
  <2>3. QED
    BY <1>3, <2>1, <2>2, EditCases
<1>4. ASSUME NEW k \in Nat, k \in S PROVE k + 1 \in S
  <2> SUFFICES ASSUME k + 1 <= Len(seg) PROVE e[k + 1] \in EditState
    OBVIOUS
  <2>1. k + 1 \in 1 .. Len(seg) /\ (k + 1) - 1 = k /\ k <= Len(seg)
    BY <1>1
  <2>2. e[(k + 1) - 1] \in EditState
    BY <1>4, <2>1
  <2>3. QED
    BY <1>3, <2>1, <2>2
<1> HIDE DEF S
<1>5. Nat \subseteq S
  BY <1>2, <1>4, SetInduction
<1>6. \A k \in 0 .. Len(seg) : e[k] \in EditState
  BY <1>1, <1>5 DEF S
<1>7. \A k \in 1 .. Len(seg) : EditCase(seg[k], e[k - 1], e[k])
  <2> TAKE k \in 1 .. Len(seg)
  <2>1. k - 1 \in 0 .. Len(seg)
    BY <1>1
  <2>2. QED
    BY <1>3, <1>6, <2>1
<1>8. QED
  BY <1>6, <1>7 DEF e

LEMMA CutFacts ==
    ASSUME NEW t \in Seq(Chars)
    PROVE  Cut(t) \in RxIdx /\ Cut(t) \in Nat /\ Cut(t) <= Len(t) /\ Cut(t) <= RxBufLen - 1
  BY InputAssumption DEF Cut, RxIdx

\* One more character, in the buffer as in the line.
LEMMA PutChar ==
    ASSUME NEW buf \in [RxIdx -> Chars \cup {NUL}], NEW t \in Seq(Chars), NEW b \in Chars,
           Holds(buf, Cut(t), t)
    PROVE  /\ Bump(Cut(t)) = Cut(Append(t, b))
           /\ Holds([buf EXCEPT ![Cut(t)] = b], Cut(Append(t, b)), Append(t, b))
<1> DEFINE a == Append(t, b)
           n == Cut(t)
           m == Len(t)
           new == [buf EXCEPT ![n] = b]
<1>1. /\ a \in Seq(Chars) /\ Len(a) = m + 1 /\ m \in Nat
      /\ \A k \in 1 .. m : a[k] = t[k]
      /\ a[m + 1] = b
  BY AppendProperties
<1>2. n \in RxIdx /\ n = IF m < RxBufLen - 1 THEN m ELSE RxBufLen - 1
  BY CutFacts DEF Cut
<1>3. RxBufLen \in Nat \ {0}
  BY InputAssumption
<1>4. /\ new[n] = b
      /\ \A j \in RxIdx : j # n => new[j] = buf[j]
  BY <1>2
<1>5. \A j \in 0 .. n - 1 : buf[j] = t[j + 1]
  BY DEF Holds
<1>6. Cut(a) = IF m + 1 < RxBufLen - 1 THEN m + 1 ELSE RxBufLen - 1
  BY <1>1 DEF Cut
<1> HIDE DEF a, n, m, new
<1>7. Bump(n) = Cut(a)
  BY <1>1, <1>2, <1>3, <1>6 DEF Bump
<1>8. ASSUME NEW j \in 0 .. Cut(a) - 1 PROVE new[j] = a[j + 1]
  <2>1. CASE j = n
    <3>1. j = m
      BY <1>1, <1>2, <1>3, <1>6, <2>1
    <3>2. QED
      BY <1>1, <1>4, <2>1, <3>1
  <2>2. CASE j # n
    <3>1. j \in 0 .. n - 1 /\ j \in RxIdx /\ j + 1 \in 1 .. m
      BY <1>1, <1>2, <1>3, <1>6, <2>2 DEF RxIdx
    <3>2. QED
      BY <1>1, <1>4, <1>5, <2>2, <3>1
  <2>3. QED
    BY <2>1, <2>2
<1>9. QED
  BY <1>7, <1>8 DEF Holds, a, n, new
\* After k turns, the loop at s and the user's line at e agree, as long as no
\* back space came.
Coupled(k, s, e) ==
    e.plain =>
        /\ s.ready = e.ended
        /\ IF e.ended THEN s.skip = 0 /\ s.buf[Cut(e.line)] = NUL
                      ELSE /\ s.skip = e.command /\ s.cp = k + 1 + s.skip
                           /\ s.count = Cut(e.line)
        /\ Holds(s.buf, Cut(e.line), e.line)

LEMMA CoupledStep ==
    ASSUME NEW seg \in Seq(Byte), NEW k \in Nat, k < Len(seg),
           NEW s \in LoopState, NEW r \in LoopState, TurnCase(seg, s, r),
           NEW d \in EditState, NEW e \in EditState, EditCase(seg[k + 1], d, e),
           Coupled(k, s, d)
    PROVE  Coupled(k + 1, r, e)
<1> SUFFICES ASSUME e.plain
             PROVE  /\ r.ready = e.ended
                    /\ IF e.ended THEN r.skip = 0 /\ r.buf[Cut(e.line)] = NUL
                                  ELSE /\ r.skip = e.command /\ r.cp = k + 2 + r.skip
                                       /\ r.count = Cut(e.line)
                    /\ Holds(r.buf, Cut(e.line), e.line)
  BY DEF Coupled
<1>1. /\ s.buf \in [RxIdx -> Chars \cup {NUL}] /\ s.count \in RxIdx /\ s.ready \in BOOLEAN
      /\ s.cp \in Nat \ {0} /\ s.skip \in 0 .. 2 /\ r.ready \in BOOLEAN
  BY DEF LoopState
<1>2. /\ d.line \in Seq(Chars) /\ d.command \in 0 .. 2
      /\ d.ended \in BOOLEAN /\ e.ended \in BOOLEAN /\ e.plain \in BOOLEAN
      /\ d.plain \in BOOLEAN
  BY DEF EditState
<1>3. d.plain
  BY DEF EditCase
<1>4. /\ s.ready = d.ended
      /\ IF d.ended THEN s.skip = 0 /\ s.buf[Cut(d.line)] = NUL
                    ELSE /\ s.skip = d.command /\ s.cp = k + 1 + s.skip
                         /\ s.count = Cut(d.line)
      /\ Holds(s.buf, Cut(d.line), d.line)
  BY <1>3 DEF Coupled
<1>5. Cut(d.line) \in RxIdx /\ Cut(d.line) \in Nat
  BY <1>2, CutFacts
<1>6. CASE d.ended
  <2>1. e = d
    BY <1>6 DEF EditCase
  <2>2. s.ready /\ s.skip = 0
    BY <1>4, <1>6
  <2>3. r = s
    BY <2>2 DEF TurnCase
  <2>4. QED
    BY <1>4, <1>6, <2>1, <2>3
<1>7. CASE ~d.ended /\ d.command > 0
  <2>1. e.command = d.command - 1 /\ e.line = d.line /\ ~e.ended
    <3>1. d.command # 0
      BY <1>2, <1>7
    <3>2. QED
      BY <1>7, <3>1, Zenon DEF EditCase
  <2>2. s.skip > 0 /\ s.skip = d.command /\ s.cp = k + 1 + s.skip /\ ~s.ready
    BY <1>4, <1>7
  <2>3. r.buf = s.buf /\ r.count = s.count /\ ~r.ready /\ r.cp = s.cp /\ r.skip = s.skip - 1
    BY <1>1, <2>2 DEF TurnCase
  <2>4. r.skip = e.command /\ r.cp = k + 2 + r.skip
    BY <1>1, <1>2, <2>1, <2>2, <2>3
  <2>5. QED
    BY <1>1, <1>2, <1>4, <1>7, <2>1, <2>3, <2>4
<1>8. CASE ~d.ended /\ d.command = 0
  <2> DEFINE b == seg[k + 1]
  <2>1. s.skip = 0 /\ ~s.ready /\ s.cp = k + 1 /\ s.count = Cut(d.line)
    BY <1>4, <1>8
  <2>2. /\ ~(s.skip > 0) /\ seg[s.cp] = b
    BY <2>1
  <2>3. b \in Byte
    <3>1. k + 1 \in 1 .. Len(seg)
      OBVIOUS
    <3>2. QED
      BY <3>1
  <2>4. b # BS
    <3>1. SUFFICES ASSUME b = BS PROVE FALSE
      OBVIOUS
    <3>2. b # IAC /\ b # CR /\ b \notin Chars /\ ~(d.command > 0)
      BY <1>2, <1>8, <3>1, InputAssumption
    <3>3. QED
      BY <1>8, <3>2, Zenon DEF EditCase
  <2> HIDE DEF b
  <2>9. ~(d.command > 0)
    BY <1>2, <1>8
  <2>5. CASE b = IAC
    <3>0. b # CR /\ b \notin Chars
      BY <2>5, InputAssumption
    <3>1. e.command = 2 /\ e.line = d.line /\ ~e.ended
      BY <1>8, <2>4, <2>9, <3>0, Zenon DEF EditCase, b
    <3>2. r.buf = s.buf /\ r.count = s.count /\ ~r.ready /\ r.cp = s.cp + 3 /\ r.skip = 2
      BY <1>1, <2>1, <2>2, <2>5, InputAssumption DEF TurnCase
    <3>3. r.cp = k + 2 + r.skip
      BY <2>1, <3>2
    <3>4. QED
      BY <1>1, <1>2, <1>4, <2>1, <3>1, <3>2, <3>3
  <2>6. CASE b = CR
    <3>0. b # IAC /\ b \notin Chars
      BY <2>6, InputAssumption
    <3>1. e.line = d.line /\ e.ended
      BY <1>8, <2>4, <2>9, <3>0, Zenon DEF EditCase, b
    <3>2. r.buf = [s.buf EXCEPT ![s.count] = NUL] /\ r.ready /\ r.skip = 0
      BY <1>1, <2>1, <2>2, <2>6, InputAssumption DEF TurnCase
    <3>3. r.buf[Cut(d.line)] = NUL
      BY <1>1, <1>5, <2>1, <3>2
    <3>4. Holds(r.buf, Cut(d.line), d.line)
      <4> SUFFICES ASSUME NEW j \in 0 .. Cut(d.line) - 1 PROVE r.buf[j] = d.line[j + 1]
        BY DEF Holds
      <4>1. s.buf[j] = d.line[j + 1]
        BY <1>4 DEF Holds
      <4>2. j \in RxIdx /\ j # Cut(d.line)
        BY <1>5, InputAssumption DEF RxIdx
      <4>3. QED
        BY <1>1, <2>1, <3>2, <4>1, <4>2
    <3>5. QED
      BY <1>1, <1>2, <3>1, <3>2, <3>3, <3>4
  <2>7. CASE b \in Chars
    <3>0. b # IAC /\ b # CR
      BY <2>7, InputAssumption
    <3>1. e.line = Append(d.line, b) /\ e.command = 0 /\ ~e.ended
      BY <1>8, <2>4, <2>9, <3>0, Zenon DEF EditCase, b
    <3>2. /\ r.buf = [s.buf EXCEPT ![s.count] = b] /\ r.count = Bump(s.count)
          /\ ~r.ready /\ r.cp = s.cp + 1 /\ r.skip = 0
      BY <1>1, <2>1, <2>2, <2>7, InputAssumption DEF TurnCase
    <3>3. /\ Bump(Cut(d.line)) = Cut(e.line)
          /\ Holds([s.buf EXCEPT ![Cut(d.line)] = b], Cut(e.line), e.line)
      <4> DEFINE l == d.line
                 u == s.buf
      <4>1. l \in Seq(Chars) /\ u \in [RxIdx -> Chars \cup {NUL}] /\ Holds(u, Cut(l), l)
        BY <1>1, <1>2, <1>4
      <4> HIDE DEF l, u
      <4>2. /\ Bump(Cut(l)) = Cut(Append(l, b))
            /\ Holds([u EXCEPT ![Cut(l)] = b], Cut(Append(l, b)), Append(l, b))
        BY <2>7, <4>1, PutChar
      <4>3. QED
        BY <3>1, <4>2 DEF l, u
    <3>4. r.cp = k + 2 + r.skip
      BY <2>1, <3>2
    <3>5. QED
      BY <1>1, <1>2, <2>1, <3>1, <3>2, <3>3, <3>4
  <2>8. QED
    BY <2>3, <2>4, <2>5, <2>6, <2>7 DEF Byte
<1>9. QED
  BY <1>2, <1>6, <1>7, <1>8

\* A segment that comes while no line waits puts into the buffer what the user
\* typed.
LEMMA RecvCoupled ==
    ASSUME TypeOK, NEW seg \in Seq(Byte), ~gInputReady,
           plain => gRxCount = Cut(typed) /\ Holds(gRxBuf, Cut(typed), typed)
    PROVE  /\ Received(seg, gRxCount) \in LoopState /\ Edited(seg) \in EditState
           /\ Coupled(Len(seg), Received(seg, gRxCount), Edited(seg))
<1> DEFINE s0 == Start(gRxCount)
           t == Turns(seg, s0)
           e == Edits(seg)
           S == {k \in Nat : k <= Len(seg) => Coupled(k, t[k], e[k])}
<1>1. /\ \A k \in 0 .. Len(seg) : t[k] \in LoopState
      /\ \A k \in 1 .. Len(seg) : TurnCase(seg, t[k - 1], t[k])
      /\ t[0] = s0 /\ Len(seg) \in Nat
  <2>1. gRxCount \in RxIdx
    BY DEF TypeOK
  <2>2. QED
    BY <2>1, TurnStates, TurnsAre
<1>2. /\ \A k \in 0 .. Len(seg) : e[k] \in EditState
      /\ \A k \in 1 .. Len(seg) : EditCase(seg[k], e[k - 1], e[k])
      /\ e[0] = Blank
  BY EditStates, EditsAre
<1> HIDE DEF t, e, s0
<1>3. 0 \in S
  <2>1. gInputReady = FALSE
    BY DEF TypeOK
  <2>2. /\ s0.ready = FALSE /\ s0.skip = 0 /\ s0.cp = 1
        /\ s0.count = gRxCount /\ s0.buf = gRxBuf
    BY <2>1 DEF Start, s0
  <2>3. Blank.line = typed /\ Blank.command = 0 /\ Blank.ended = FALSE /\ Blank.plain = plain
    BY DEF Blank
  <2>4. Coupled(0, s0, Blank)
    <3>1. s0.cp = 0 + 1 + s0.skip
      BY <2>2
    <3>2. QED
      BY <2>2, <2>3, <3>1, Zenon DEF Coupled
  <2>5. QED
    BY <1>1, <1>2, <2>4
<1>4. ASSUME NEW k \in Nat, k \in S PROVE k + 1 \in S
  <2> SUFFICES ASSUME k + 1 <= Len(seg) PROVE Coupled(k + 1, t[k + 1], e[k + 1])
    OBVIOUS
  <2>1. /\ k + 1 \in 1 .. Len(seg) /\ (k + 1) - 1 = k /\ k \in 0 .. Len(seg)
        /\ k + 1 \in 0 .. Len(seg) /\ k <= Len(seg) /\ k < Len(seg)
    BY <1>1
  <2>2. TurnCase(seg, t[k], t[k + 1]) /\ EditCase(seg[k + 1], e[k], e[k + 1])
    BY <1>1, <1>2, <2>1
  <2>3. Coupled(k, t[k], e[k])
    BY <1>4, <2>1
  <2>4. QED
    BY <1>1, <1>2, <2>1, <2>2, <2>3, CoupledStep
<1> HIDE DEF S
<1>5. Nat \subseteq S
  BY <1>3, <1>4, SetInduction
<1>6. Len(seg) \in 0 .. Len(seg) /\ Coupled(Len(seg), t[Len(seg)], e[Len(seg)])
  BY <1>1, <1>5 DEF S
<1>7. QED
  BY <1>1, <1>2, <1>6 DEF t, e, s0, Received, Edited
-----------------------------------------------------------------------------
(* The string in the buffer.                                               *)

\* The line ends at the first NUL.
LEMMA LineFacts ==
    ASSUME TypeOK, Terminated
    PROVE  \E n \in RxIdx :
             /\ gRxBuf[n] = NUL /\ \A j \in 0 .. n - 1 : gRxBuf[j] # NUL
             /\ Line \in Seq(Chars) /\ Len(Line) = n
             /\ \A j \in 0 .. n - 1 : Line[j + 1] = gRxBuf[j]
<1> DEFINE First(n) == gRxBuf[n] = NUL /\ \A j \in 0 .. n - 1 : gRxBuf[j] # NUL
           S == {n \in Nat : \A j \in RxIdx : j < n => gRxBuf[j] # NUL}
           n == CHOOSE i \in RxIdx : First(i)
           view == [i \in 1 .. RxBufLen |-> gRxBuf[i - 1]]
<1>0. RxBufLen \in Nat \ {0}
  BY InputAssumption
<1>1. \E i \in RxIdx : First(i)
  <2>1. SUFFICES ASSUME \A i \in RxIdx : ~First(i) PROVE FALSE
    OBVIOUS
  <2>2. 0 \in S
    BY DEF RxIdx
  <2>3. ASSUME NEW i \in Nat, i \in S PROVE i + 1 \in S
    <3> SUFFICES ASSUME NEW j \in RxIdx, j < i + 1, gRxBuf[j] = NUL PROVE FALSE
      OBVIOUS
    <3>1. j \in Nat /\ j = i
      BY <2>3 DEF RxIdx
    <3>2. \A m \in 0 .. j - 1 : m \in RxIdx /\ m < i
      BY <3>1, <1>0 DEF RxIdx
    <3>3. \A m \in 0 .. j - 1 : gRxBuf[m] # NUL
      BY <2>3, <3>2
    <3>4. First(j)
      BY <3>3
    <3>5. QED
      BY <2>1, <3>4
  <2> HIDE DEF S
  <2>4. Nat \subseteq S
    BY <2>2, <2>3, SetInduction
  <2>5. PICK j \in RxIdx : gRxBuf[j] = NUL
    BY DEF Terminated
  <2>6. j + 1 \in S /\ j < j + 1
    BY <2>4, <1>0 DEF RxIdx
  <2>7. QED
    BY <2>5, <2>6 DEF S
<1>2. n \in RxIdx /\ First(n)
  BY <1>1
<1>3. Line = SubSeq(view, 1, n)
  BY DEF Line
<1> HIDE DEF n
<1>4. n \in Nat /\ n <= RxBufLen - 1
  BY <1>0, <1>2 DEF RxIdx
<1>5. ASSUME NEW i \in 1 .. n PROVE view[i] = gRxBuf[i - 1] /\ view[i] \in Chars
  <2>1. i \in 1 .. RxBufLen /\ i - 1 \in 0 .. n - 1 /\ i - 1 \in RxIdx
    BY <1>0, <1>4 DEF RxIdx
  <2>2. gRxBuf[i - 1] # NUL /\ gRxBuf[i - 1] \in Chars \cup {NUL}
    BY <1>2, <2>1 DEF TypeOK
  <2>3. QED
    BY <2>1, <2>2
<1> HIDE DEF view
<1>6. /\ SubSeq(view, 1, n) \in Seq(Chars)
      /\ Len(SubSeq(view, 1, n)) = IF 1 <= n THEN n - 1 + 1 ELSE 0
      /\ \A i \in 1 .. n - 1 + 1 : SubSeq(view, 1, n)[i] = view[1 + i - 1]
  BY <1>4, <1>5, SubSeqProperties
<1>7. Len(Line) = n
  BY <1>3, <1>4, <1>6
<1>8. ASSUME NEW j \in 0 .. n - 1 PROVE Line[j + 1] = gRxBuf[j]
  <2>1. /\ j + 1 \in 1 .. n - 1 + 1 /\ j + 1 \in 1 .. n
        /\ (j + 1) - 1 = j /\ 1 + (j + 1) - 1 = j + 1
    BY <1>4
  <2>2. SubSeq(view, 1, n)[j + 1] = view[1 + (j + 1) - 1]
    BY <1>6, <2>1
  <2>3. view[j + 1] = gRxBuf[(j + 1) - 1]
    BY <1>5, <2>1
  <2>4. QED
    BY <1>3, <2>1, <2>2, <2>3
<1>9. QED
  BY <1>2, <1>3, <1>6, <1>7, <1>8

\* The command gets what lies below the place where the next character goes.
LEMMA LineShielded ==
    ASSUME TypeOK, EndsLine(gRxBuf, gRxCount)
    PROVE  Line \in Seq(Chars) /\ Shielded(gRxBuf, gRxCount, Line)
<1>0. RxBufLen \in Nat \ {0} /\ gRxCount \in RxIdx
  BY InputAssumption DEF TypeOK
<1>1. PICK m \in 0 .. gRxCount : gRxBuf[m] = NUL /\ (m = gRxCount => m = RxBufLen - 1)
  BY DEF EndsLine
<1>2. m \in RxIdx
  BY <1>0, <1>1 DEF RxIdx
<1>3. Terminated
  BY <1>1, <1>2 DEF Terminated
<1>4. PICK n \in RxIdx :
        /\ gRxBuf[n] = NUL /\ \A j \in 0 .. n - 1 : gRxBuf[j] # NUL
        /\ Line \in Seq(Chars) /\ Len(Line) = n
        /\ \A j \in 0 .. n - 1 : Line[j + 1] = gRxBuf[j]
  BY <1>3, LineFacts
<1>5. n <= m
  <2>1. ~(m \in 0 .. n - 1)
    BY <1>1, <1>4
  <2>2. QED
    BY <1>0, <1>1, <1>2, <2>1 DEF RxIdx
<1>6. n \in 0 .. gRxCount /\ (n = gRxCount => gRxCount = RxBufLen - 1)
  BY <1>0, <1>1, <1>2, <1>5 DEF RxIdx
<1>7. QED
  BY <1>4, <1>6 DEF Shielded

\* A carriage return typed ahead: the line is still there.
LEMMA ShieldedShows ==
    ASSUME NEW buf, NEW count \in RxIdx, NEW p \in Seq(Chars),
           Shielded(buf, count, p), EndsLine(buf, count)
    PROVE  Shows(buf, p)
<1> DEFINE n == Len(p)
<1>0. RxBufLen \in Nat \ {0} /\ n \in Nat
  BY InputAssumption
<1>1. /\ n \in 0 .. count /\ (n # count => buf[n] = NUL)
      /\ \A j \in 0 .. n - 1 : buf[j] \in {p[j + 1], NUL}
  BY DEF Shielded
<1>2. PICK i \in 0 .. count : buf[i] = NUL
  BY DEF EndsLine
<1> HIDE DEF n
<1>3. \E m \in 0 .. n : m \in RxIdx /\ buf[m] = NUL
  <2>1. CASE n = count
    <3>1. i \in 0 .. n /\ i \in RxIdx
      BY <1>0, <2>1 DEF RxIdx
    <3>2. QED
      BY <1>2, <3>1
  <2>2. CASE n # count
    <3>1. n \in 0 .. n /\ n \in RxIdx
      BY <1>0, <1>1 DEF RxIdx
    <3>2. QED
      BY <1>1, <2>2, <3>1
  <2>3. QED
    BY <2>1, <2>2
<1>4. \A j \in 0 .. n - 1 : j \in RxIdx
  BY <1>0, <1>1 DEF RxIdx
<1>5. QED
  BY <1>1, <1>3, <1>4 DEF Shows, n
-----------------------------------------------------------------------------
(* The invariant is inductive.                                             *)

Inv == TypeOK /\ LineInv

LEMMA CutEmpty == Cut(<<>>) = 0 /\ \A buf : Holds(buf, Cut(<<>>), <<>>)
<1>1. Cut(<<>>) = 0
  BY InputAssumption DEF Cut
<1>2. 0 .. 0 - 1 = {}
  OBVIOUS
<1>3. QED
  BY <1>1, <1>2 DEF Holds

LEMMA InitInv == Init => Inv
<1> SUFFICES ASSUME Init PROVE Inv
  OBVIOUS
<1>1. TypeOK
  <2>1. 0 \in RxIdx /\ <<>> \in Seq(Chars)
    BY InputAssumption DEF RxIdx
  <2>2. [i \in RxIdx |-> NUL] \in [RxIdx -> Chars \cup {NUL}]
    OBVIOUS
  <2>3. QED
    BY <2>1, <2>2 DEF Init, TypeOK
<1>2. LineInv
  BY CutEmpty DEF Init, LineInv
<1>3. QED
  BY <1>1, <1>2 DEF Inv

LEMMA EndsTerminated ==
    ASSUME NEW buf \in [RxIdx -> Chars \cup {NUL}], NEW count \in RxIdx, EndsLine(buf, count)
    PROVE  \E i \in RxIdx : buf[i] = NUL
<1>1. PICK n \in 0 .. count : buf[n] = NUL
  BY DEF EndsLine
<1>2. n \in RxIdx
  BY InputAssumption DEF RxIdx
<1>3. QED
  BY <1>1, <1>2

\* A segment that finds a complete line waiting changes nothing.
LEMMA RecvWaits ==
    ASSUME Inv, NEW seg \in Segments, TcpRecv(seg), gInputReady
    PROVE  Inv'
<1>1. seg \in Seq(Byte) /\ TypeOK
  BY InputAssumption DEF Inv
<1>2. Loop(seg, gRxCount, echoes)
  BY DEF TcpRecv
<1>3. /\ gRxBuf' = gRxBuf /\ gRxCount' = gRxCount /\ gInputReady' = gInputReady
      /\ echoes' = echoes
  BY <1>1, <1>2, RecvFrozen
<1>4. /\ typed' = typed /\ timely' = timely /\ plain' = plain
      /\ alone' = (alone /\ echoes' = <<>>) /\ fresh' = (fresh /\ echoes = <<>>)
      /\ gSendWelcome' = gSendWelcome /\ running' = running /\ prev' = prev
  BY DEF TcpRecv
<1>5. TypeOK'
  <2>1. alone' \in BOOLEAN /\ fresh' \in BOOLEAN
    BY <1>4, Zenon
  <2>2. QED
    BY <1>1, <1>3, <1>4, <2>1 DEF TypeOK
<1>6. (alone' => alone) /\ (fresh' => fresh) /\ (echoes' # <<>> => ~alone')
      /\ Place' = Place /\ Terminated' = Terminated
  BY <1>3, <1>4 DEF Place, Terminated
<1>7. LineInv'
  BY <1>3, <1>4, <1>6 DEF Inv, LineInv
<1>8. QED
  BY <1>5, <1>7 DEF Inv

LEMMA RecvInv ==
    ASSUME Inv, NEW seg \in Segments, TcpRecv(seg), ~gInputReady
    PROVE  Inv'
<1>1. seg \in Seq(Byte) /\ TypeOK /\ LineInv /\ gRxCount \in RxIdx /\ echoes \in Seq(Seq(Byte))
  BY InputAssumption DEF Inv, TypeOK
<1> DEFINE e == Edited(seg)
           G == {s \in Ending : running /\ fresh' => Shielded(s.buf, s.count, prev)}
<1>2. Loop(seg, gRxCount, echoes)
  BY DEF TcpRecv
<1>3. /\ typed' = e.line /\ timely' = (timely /\ ~running)
      /\ plain' = (e.plain /\ e.command = 0)
      /\ alone' = (alone /\ echoes' = <<>>) /\ fresh' = (fresh /\ echoes = <<>>)
      /\ gSendWelcome' = gSendWelcome /\ running' = running /\ prev' = prev
  BY DEF TcpRecv
<1>4. prev \in Seq(Chars) /\ gRxBuf \in [RxIdx -> Chars \cup {NUL}] /\ gInputReady \in BOOLEAN
  BY <1>1 DEF TypeOK
<1>5. Start(gRxCount) \in G
  <2>1. Start(gRxCount) \in Ending
    BY <1>1, <1>4 DEF Start, LoopState, Ending
  <2>2. ASSUME running, fresh' PROVE Shielded(gRxBuf, gRxCount, prev)
    <3>1. fresh /\ Place = gRxCount
      BY <1>3, <2>2 DEF Place
    <3>2. QED
      BY <1>1, <2>2, <3>1 DEF LineInv
  <2>3. Start(gRxCount).buf = gRxBuf /\ Start(gRxCount).count = gRxCount
    BY DEF Start
  <2>4. QED
    BY <2>1, <2>2, <2>3
<1>6. Kept(seg, G)
  <2>1. Kept(seg, Ending) /\ Kept(seg, Shielding(prev))
    BY <1>4, EndingKept, ShieldingKept
  <2>2. QED
    BY <2>1 DEF Kept, Shielding
<1> HIDE DEF G, e
<1>7. PICK t \in LoopState : t \in G /\ LoopResult(seg, gRxCount, echoes, t)
  BY <1>1, <1>2, <1>5, <1>6, LoopEnds
<1>8. /\ gRxBuf' \in [RxIdx -> Chars \cup {NUL}] /\ gRxCount' \in RxIdx
      /\ gInputReady' \in BOOLEAN /\ echoes' \in Seq(Seq(Byte))
      /\ echoes # <<>> => echoes' # <<>>
      /\ Len(echoes') <= Len(echoes) + 1
      /\ echoes' = <<>> => t = Received(seg, gRxCount) /\ gRxCount' = t.count
      /\ echoes = <<>> => Place' = t.count
      /\ t.ready => gRxCount' = t.count
  BY <1>1, <1>7, LoopTypes
<1>9. gRxBuf' = t.buf /\ gInputReady' = t.ready
  BY <1>7 DEF LoopResult
<1>10. e \in EditState
  BY <1>1, EditStates DEF Edited, e
<1>11. TypeOK'
  <2>1. e.line \in Seq(Chars)
    BY <1>10 DEF EditState
  <2>2. timely' \in BOOLEAN /\ plain' \in BOOLEAN /\ alone' \in BOOLEAN /\ fresh' \in BOOLEAN
    BY <1>3, Zenon
  <2>3. QED
    BY <1>1, <1>3, <1>8, <2>1, <2>2 DEF TypeOK
<1>12. ASSUME gInputReady' PROVE EndsLine(gRxBuf', gRxCount') /\ Terminated'
  <2>1. EndsLine(t.buf, t.count) /\ gRxCount' = t.count
    BY <1>7, <1>8, <1>9, <1>12 DEF G, Ending
  <2>2. EndsLine(gRxBuf', gRxCount')
    BY <1>9, <2>1
  <2>3. QED
    BY <1>8, <2>2, EndsTerminated DEF Terminated
<1>13. echoes' # <<>> => ~alone' /\ (running' \/ timely')
  BY <1>1, <1>3 DEF LineInv
<1>14. fresh' => Len(echoes') <= 1
  <2>1. echoes = <<>> => Len(echoes) = 0
    OBVIOUS
  <2>2. QED
    <3>1. Len(echoes) \in Nat /\ Len(echoes') \in Nat
      BY <1>1, <1>8
    <3>2. fresh' => Len(echoes) = 0
      BY <1>3, <2>1
    <3>3. QED
      BY <1>8, <3>1, <3>2
<1>15. ASSUME running', fresh' PROVE Shielded(gRxBuf', Place', prev')
  <2>1. echoes = <<>> /\ running
    BY <1>3, <1>15
  <2>2. Shielded(t.buf, t.count, prev)
    BY <1>7, <1>15, <2>1 DEF G
  <2>3. QED
    BY <1>3, <1>8, <1>9, <2>1, <2>2
<1>16. ASSUME gInputReady', ~timely', fresh' PROVE Shows(gRxBuf', prev')
  <2>1. running
    BY <1>1, <1>3, <1>16 DEF LineInv
  <2>2. echoes = <<>> /\ running'
    BY <1>3, <1>16, <2>1
  <2>3. Shielded(gRxBuf', gRxCount', prev')
    <3>1. gRxCount' = t.count
      BY <1>8, <1>9, <1>16
    <3>2. QED
      BY <1>8, <1>15, <1>16, <2>2, <3>1
  <2>4. EndsLine(gRxBuf', gRxCount') /\ gRxCount' \in RxIdx /\ prev' \in Seq(Chars)
    BY <1>3, <1>4, <1>8, <1>12, <1>16
  <2>5. QED
    BY <2>3, <2>4, ShieldedShows
<1>17. ASSUME ~running', timely', plain', alone'
       PROVE  /\ ~gInputReady' => gRxCount' = Cut(typed')
              /\ gInputReady' => gRxBuf'[Cut(typed')] = NUL
              /\ Holds(gRxBuf', Cut(typed'), typed')
  <2>1. ~running /\ timely /\ alone /\ echoes' = <<>>
    BY <1>3, <1>17
  <2>2. plain => gRxCount = Cut(typed) /\ Holds(gRxBuf, Cut(typed), typed)
    BY <1>1, <2>1 DEF LineInv
  <2>3. t = Received(seg, gRxCount) /\ gRxCount' = t.count
    BY <1>8, <2>1
  <2>4. Coupled(Len(seg), t, e)
    BY <1>1, <2>2, <2>3, RecvCoupled DEF e
  <2>5. e.plain
    BY <1>3, <1>17
  <2>6. e.ended \in BOOLEAN /\ t.ready \in BOOLEAN
    BY <1>10 DEF LoopState, EditState
  <2>7. /\ t.ready = e.ended
        /\ IF e.ended THEN t.buf[Cut(e.line)] = NUL ELSE t.count = Cut(e.line)
        /\ Holds(t.buf, Cut(e.line), e.line)
    BY <2>4, <2>5 DEF Coupled
  <2>8. QED
    BY <1>3, <1>9, <2>3, <2>6, <2>7
<1>18. running' /\ timely' => ~gInputReady'
  BY <1>3
<1>19. ~running' /\ ~timely' => gInputReady'
  BY <1>1, <1>3 DEF LineInv
<1>20. LineInv'
  BY <1>12, <1>13, <1>14, <1>15, <1>16, <1>17, <1>18, <1>19 DEF LineInv
<1>21. QED
  BY <1>11, <1>20 DEF Inv

\* What is left of the innermost call, and the calls around it.
LEMMA Innermost ==
    ASSUME echoes \in Seq(Seq(Byte)), echoes # <<>>
    PROVE  /\ Last(echoes) \in Seq(Byte) /\ Front(echoes) \in Seq(Seq(Byte))
           /\ Len(Front(echoes)) = Len(echoes) - 1
           /\ Len(echoes) <= 1 => Front(echoes) = <<>>
<1> DEFINE n == Len(echoes)
           f == SubSeq(echoes, 1, n - 1)
<1>1. n \in Nat /\ n # 0 /\ n \in 1 .. n
  OBVIOUS
<1>2. Last(echoes) \in Seq(Byte)
  BY <1>1 DEF Last
<1>3. \A i \in 1 .. n - 1 : echoes[i] \in Seq(Byte)
  BY <1>1
<1>4. f \in Seq(Seq(Byte)) /\ Len(f) = IF 1 <= n - 1 THEN n - 1 - 1 + 1 ELSE 0
  <2>1. n - 1 \in Int
    BY <1>1
  <2> HIDE DEF n
  <2>2. QED
    BY <1>3, <2>1, SubSeqProperties
<1>5. Front(echoes) = f
  BY DEF Front
<1> HIDE DEF f, n
<1>6. Len(f) = n - 1
  BY <1>1, <1>4
<1>7. n <= 1 => f = <<>>
  <2>1. n <= 1 => Len(f) = 0
    BY <1>1, <1>6
  <2>2. QED
    BY <1>4, <2>1
<1>8. QED
  BY <1>2, <1>4, <1>5, <1>6, <1>7 DEF n

LEMMA EchoInv ==
    ASSUME Inv, EchoReturns
    PROVE  Inv'
<1> DEFINE rest == Last(echoes)
           calls == Front(echoes)
           n == Bump(gRxCount)
           G == {s \in Ending : running /\ fresh => Shielded(s.buf, s.count, prev)}
<1>1. TypeOK /\ LineInv /\ gRxCount \in RxIdx /\ echoes \in Seq(Seq(Byte)) /\ echoes # <<>>
  BY DEF Inv, TypeOK, EchoReturns
<1>2. /\ rest \in Seq(Byte) /\ calls \in Seq(Seq(Byte))
      /\ Len(calls) = Len(echoes) - 1 /\ (Len(echoes) <= 1 => calls = <<>>)
  BY <1>1, Innermost
<1>3. n \in RxIdx /\ Place = n
  BY <1>1, BumpFacts DEF Place
<1>4. /\ Loop(rest, n, calls) /\ timely' = (timely /\ ~running)
      /\ gSendWelcome' = gSendWelcome /\ running' = running /\ typed' = typed
      /\ plain' = plain /\ alone' = alone /\ prev' = prev /\ fresh' = fresh
  BY DEF EchoReturns
<1>5. ~alone /\ (running \/ timely)
  BY <1>1 DEF LineInv
<1>6. prev \in Seq(Chars) /\ gRxBuf \in [RxIdx -> Chars \cup {NUL}] /\ gInputReady \in BOOLEAN
  BY <1>1 DEF TypeOK
<1>7. gInputReady => EndsLine(gRxBuf, n)
  <2> SUFFICES ASSUME gInputReady PROVE EndsLine(gRxBuf, n)
    OBVIOUS
  <2>1. EndsLine(gRxBuf, gRxCount)
    BY <1>1, <1>5 DEF LineInv
  <2>2. PICK i \in 0 .. gRxCount : gRxBuf[i] = NUL /\ (i = gRxCount => i = RxBufLen - 1)
    BY <2>1 DEF EndsLine
  <2>3. gRxCount <= n /\ (n = gRxCount <=> gRxCount = RxBufLen - 1)
    BY <1>1, BumpFacts
  <2>4. RxBufLen \in Nat \ {0} /\ n \in Nat /\ gRxCount \in Nat
    BY <1>1, <1>3, InputAssumption DEF RxIdx
  <2> HIDE DEF n
  <2>5. i \in 0 .. n /\ (i = n => i = RxBufLen - 1)
    BY <2>2, <2>3, <2>4
  <2>6. QED
    BY <2>2, <2>5 DEF EndsLine
<1> HIDE DEF n, rest, calls
<1>8. Start(n) \in G
  <2>1. Start(n) \in Ending
    BY <1>3, <1>6, <1>7 DEF Start, LoopState, Ending
  <2>2. running /\ fresh => Shielded(gRxBuf, n, prev)
    BY <1>1, <1>3 DEF LineInv
  <2>3. Start(n).buf = gRxBuf /\ Start(n).count = n
    BY DEF Start
  <2>4. QED
    BY <2>1, <2>2, <2>3
<1>9. Kept(rest, G)
  <2>1. Kept(rest, Ending) /\ Kept(rest, Shielding(prev))
    BY <1>6, EndingKept, ShieldingKept
  <2>2. QED
    BY <2>1 DEF Kept, Shielding
<1> HIDE DEF G
<1>10. PICK t \in LoopState : t \in G /\ LoopResult(rest, n, calls, t)
  BY <1>1, <1>2, <1>3, <1>4, <1>8, <1>9, LoopEnds
<1>11. /\ gRxBuf' \in [RxIdx -> Chars \cup {NUL}] /\ gRxCount' \in RxIdx
       /\ gInputReady' \in BOOLEAN /\ echoes' \in Seq(Seq(Byte))
       /\ Len(echoes') <= Len(calls) + 1
       /\ calls = <<>> => Place' = t.count
       /\ t.ready => gRxCount' = t.count
  BY <1>2, <1>10, LoopTypes
<1>12. gRxBuf' = t.buf /\ gInputReady' = t.ready
  BY <1>10 DEF LoopResult
<1>13. TypeOK'
  <2>1. timely' \in BOOLEAN
    BY <1>4, Zenon
  <2>2. QED
    BY <1>1, <1>4, <1>11, <2>1 DEF TypeOK
<1>14. ASSUME gInputReady' PROVE EndsLine(gRxBuf', gRxCount') /\ Terminated'
  <2>1. EndsLine(t.buf, t.count) /\ gRxCount' = t.count
    BY <1>10, <1>11, <1>12, <1>14 DEF G, Ending
  <2>2. EndsLine(gRxBuf', gRxCount')
    BY <1>12, <2>1
  <2>3. QED
    BY <1>11, <2>2, EndsTerminated DEF Terminated
<1>15. ~alone' /\ (running' \/ timely')
  BY <1>4, <1>5
<1>16. fresh' => Len(echoes') <= 1
  <2>1. Len(echoes) \in Nat /\ Len(calls) \in Nat /\ Len(echoes') \in Nat
    BY <1>1, <1>2, <1>11
  <2>2. fresh => Len(echoes) <= 1
    BY <1>1 DEF LineInv
  <2>3. QED
    BY <1>2, <1>4, <1>11, <2>1, <2>2
<1>17. ASSUME running', fresh'
       PROVE  Shielded(gRxBuf', Place', prev') /\ Shielded(t.buf, t.count, prev)
  <2>1. running /\ fresh
    BY <1>4, <1>17
  <2>2. calls = <<>>
    BY <1>1, <1>2, <2>1 DEF LineInv
  <2>3. Shielded(t.buf, t.count, prev)
    BY <1>10, <2>1 DEF G
  <2>4. QED
    BY <1>4, <1>11, <1>12, <2>2, <2>3
<1>18. ASSUME gInputReady', ~timely', fresh' PROVE Shows(gRxBuf', prev')
  <2>1. running'
    BY <1>4, <1>5, <1>18
  <2>2. Shielded(gRxBuf', gRxCount', prev')
    BY <1>4, <1>11, <1>12, <1>17, <1>18, <2>1
  <2>3. EndsLine(gRxBuf', gRxCount') /\ gRxCount' \in RxIdx /\ prev' \in Seq(Chars)
    BY <1>4, <1>6, <1>11, <1>14, <1>18
  <2>4. QED
    BY <2>2, <2>3, ShieldedShows
<1>19. (running' /\ timely' => ~gInputReady') /\ (~running' /\ ~timely' => gInputReady')
  BY <1>4, <1>5
<1>20. LineInv'
  BY <1>14, <1>15, <1>16, <1>17, <1>18, <1>19 DEF LineInv
<1>21. QED
  BY <1>13, <1>20 DEF Inv

LEMMA AcceptInv == Inv /\ TcpAccept => Inv'
<1> SUFFICES ASSUME Inv, TcpAccept PROVE Inv'
  OBVIOUS
<1>1. /\ gInputReady' = FALSE /\ gSendWelcome' = TRUE /\ gRxCount' = 0
      /\ typed' = <<>> /\ timely' = TRUE /\ plain' = TRUE
      /\ alone' = (echoes = <<>>) /\ fresh' = FALSE
      /\ gRxBuf' = gRxBuf /\ running' = running /\ echoes' = echoes /\ prev' = prev
  BY DEF TcpAccept
<1>2. TypeOK'
  <2>1. alone' \in BOOLEAN
    BY <1>1, Zenon
  <2>2. 0 \in RxIdx /\ <<>> \in Seq(Chars)
    BY InputAssumption DEF RxIdx
  <2>3. QED
    BY <1>1, <2>1, <2>2 DEF Inv, TypeOK
<1>3. LineInv'
  BY <1>1, CutEmpty DEF LineInv
<1>4. QED
  BY <1>2, <1>3 DEF Inv

LEMMA WelcomeInv == Inv /\ SendWelcome => Inv'
<1> SUFFICES ASSUME Inv, SendWelcome PROVE Inv'
  OBVIOUS
<1>1. TypeOK'
  BY DEF Inv, TypeOK, SendWelcome
<1>2. LineInv'
  BY DEF Inv, LineInv, SendWelcome, Terminated, Place
<1>3. QED
  BY <1>1, <1>2 DEF Inv

LEMMA ParseInv == Inv /\ ParseCmd => Inv'
<1> SUFFICES ASSUME Inv, ParseCmd PROVE Inv'
  OBVIOUS
<1>1. /\ TypeOK /\ Terminated /\ echoes = <<>>
      /\ timely => EndsLine(gRxBuf, gRxCount)
  BY DEF Inv, LineInv, ParseCmd
<1>2. Line \in Seq(Chars)
  BY <1>1, LineFacts
<1>3. timely => Shielded(gRxBuf, gRxCount, Line)
  BY <1>1, LineShielded
<1>4. /\ gInputReady' = FALSE /\ running' = TRUE /\ typed' = <<>> /\ timely' = TRUE
      /\ plain' = TRUE /\ alone' = TRUE /\ prev' = Line /\ fresh' = timely
      /\ gRxBuf' = gRxBuf /\ gRxCount' = gRxCount /\ gSendWelcome' = gSendWelcome
      /\ echoes' = echoes
  BY DEF ParseCmd
<1> HIDE DEF Line
<1>5. TypeOK'
  <2>1. <<>> \in Seq(Chars) /\ timely \in BOOLEAN
    BY <1>1 DEF TypeOK
  <2>2. QED
    BY <1>1, <1>2, <1>4, <2>1 DEF TypeOK
<1>6. /\ Place' = gRxCount /\ echoes' = <<>> /\ Len(echoes') <= 1
  BY <1>1, <1>4 DEF Place
<1>7. fresh' => Shielded(gRxBuf', Place', prev')
  BY <1>3, <1>4, <1>6
<1>8. ~gInputReady' /\ running' /\ timely'
  BY <1>4
<1>9. LineInv'
  BY <1>6, <1>7, <1>8 DEF LineInv
<1>10. QED
  BY <1>5, <1>9 DEF Inv

LEMMA ReturnsInv == Inv /\ ParseCmdReturns => Inv'
<1> SUFFICES ASSUME Inv, ParseCmdReturns PROVE Inv'
  OBVIOUS
<1>1. /\ echoes = <<>> /\ running
      /\ running' = FALSE /\ gRxCount' = 0 /\ typed' = <<>> /\ timely' = ~gInputReady
      /\ plain' = TRUE /\ alone' = TRUE
      /\ gRxBuf' = gRxBuf /\ gInputReady' = gInputReady /\ gSendWelcome' = gSendWelcome
      /\ echoes' = echoes /\ prev' = prev /\ fresh' = fresh
  BY DEF ParseCmdReturns
<1>2. TypeOK'
  <2>1. timely' \in BOOLEAN
    BY <1>1, Zenon
  <2>2. 0 \in RxIdx /\ <<>> \in Seq(Chars)
    BY InputAssumption DEF RxIdx
  <2>3. QED
    BY <1>1, <2>1, <2>2 DEF Inv, TypeOK
<1>3. gInputReady => ~timely
  BY <1>1 DEF Inv, LineInv
<1>4. gInputReady' => Terminated'
  BY <1>1 DEF Inv, LineInv, Terminated
<1>5. gInputReady' /\ fresh' => Shows(gRxBuf', prev')
  BY <1>1, <1>3 DEF Inv, LineInv
<1>6. echoes' = <<>> /\ Len(echoes') <= 1
  BY <1>1
<1>7. LineInv'
  BY <1>1, <1>4, <1>5, <1>6, CutEmpty DEF LineInv
<1>8. QED
  BY <1>2, <1>7 DEF Inv

LEMMA CutInv == ASSUME NEW i \in RxIdx, Inv, CutArgument(i) PROVE Inv'
<1>0. /\ gRxBuf \in [RxIdx -> Chars \cup {NUL}] /\ gRxCount \in RxIdx /\ prev \in Seq(Chars)
      /\ RxBufLen \in Nat \ {0}
  BY InputAssumption DEF Inv, TypeOK
<1>1. /\ running /\ \A j \in 0 .. i : gRxBuf[j] # NUL
      /\ gRxBuf' = [gRxBuf EXCEPT ![i] = NUL]
      /\ UNCHANGED <<gRxCount, gInputReady, gSendWelcome, running, echoes, typed, timely,
                     plain, alone, prev, fresh>>
      /\ echoes = <<>> /\ Place = gRxCount /\ Place' = gRxCount
  BY DEF CutArgument, Place
<1>2. /\ gRxBuf' \in [RxIdx -> Chars \cup {NUL}]
      /\ gRxBuf'[i] = NUL
      /\ \A j \in RxIdx : gRxBuf'[j] \in {gRxBuf[j], NUL}
      /\ \A j \in RxIdx : j # i => gRxBuf'[j] = gRxBuf[j]
  BY <1>0, <1>1
<1>3. TypeOK'
  BY <1>1, <1>2 DEF Inv, TypeOK
<1>4. Terminated'
  BY <1>2 DEF Terminated
<1>5. ASSUME fresh PROVE Shielded(gRxBuf', gRxCount', prev')
  <2> DEFINE n == Len(prev)
  <2>1. n \in Nat
    BY <1>0
  <2>2. /\ n \in 0 .. gRxCount /\ (n = gRxCount => gRxCount = RxBufLen - 1)
        /\ (n # gRxCount => gRxBuf[n] = NUL)
        /\ \A j \in 0 .. n - 1 : gRxBuf[j] \in {prev[j + 1], NUL}
    BY <1>1, <1>5 DEF Inv, LineInv, Shielded
  <2> HIDE DEF n
  <2>3. n \in RxIdx /\ \A j \in 0 .. n - 1 : j \in RxIdx
    BY <1>0, <2>1, <2>2 DEF RxIdx
  <2>4. n # gRxCount => gRxBuf'[n] = NUL
    BY <1>2, <2>2, <2>3
  <2>5. \A j \in 0 .. n - 1 : gRxBuf'[j] \in {prev[j + 1], NUL}
    BY <1>2, <2>2, <2>3
  <2>6. QED
    BY <1>1, <2>2, <2>4, <2>5 DEF Shielded, n
<1>6. ASSUME fresh, gInputReady, ~timely PROVE Shows(gRxBuf', prev')
  <2>1. Shows(gRxBuf, prev)
    BY <1>6 DEF Inv, LineInv
  <2>2. PICK m \in 0 .. Len(prev) : m \in RxIdx /\ gRxBuf[m] = NUL
    BY <2>1 DEF Shows
  <2>3. gRxBuf'[m] = NUL
    BY <1>2, <2>2
  <2>4. \A j \in 0 .. Len(prev) - 1 : j \in RxIdx /\ gRxBuf'[j] \in {prev[j + 1], NUL}
    BY <1>2, <2>1 DEF Shows
  <2>5. QED
    BY <1>1, <2>2, <2>3, <2>4 DEF Shows
<1>7. timely => ~gInputReady
  BY <1>1 DEF Inv, LineInv
<1>8. ASSUME gInputReady PROVE EndsLine(gRxBuf', gRxCount')
  <2>1. EndsLine(gRxBuf, gRxCount)
    BY <1>1, <1>8 DEF Inv, LineInv
  <2>2. PICK n \in 0 .. gRxCount : gRxBuf[n] = NUL /\ (n = gRxCount => n = RxBufLen - 1)
    BY <2>1 DEF EndsLine
  <2>3. n \in RxIdx
    BY <1>0 DEF RxIdx
  <2>4. gRxBuf'[n] = NUL
    BY <1>2, <2>2, <2>3
  <2>5. QED
    BY <1>1, <2>2, <2>4 DEF EndsLine
<1>9. Len(echoes') <= 1
  BY <1>1
<1>10. LineInv'
  BY <1>1, <1>4, <1>5, <1>6, <1>7, <1>8, <1>9 DEF LineInv
<1>11. QED
  BY <1>3, <1>10 DEF Inv

LEMMA NextInv == Inv /\ [Next]_vars => Inv'
<1> SUFFICES ASSUME Inv, [Next]_vars PROVE Inv'
  OBVIOUS
<1>1. ASSUME UNCHANGED vars PROVE Inv'
  BY <1>1 DEF vars, Inv, TypeOK, LineInv, Terminated, Place
<1>2. ASSUME NEW seg \in Segments, TcpRecv(seg) PROVE Inv'
  <2>1. CASE gInputReady
    BY <1>2, <2>1, RecvWaits
  <2>2. CASE ~gInputReady
    BY <1>2, <2>2, RecvInv
  <2>3. QED
    BY <2>1, <2>2
<1>3. CASE TcpAccept
  BY <1>3, AcceptInv
<1>4. CASE SendWelcome
  BY <1>4, WelcomeInv
<1>5. CASE ParseCmd
  BY <1>5, ParseInv
<1>6. CASE ParseCmdReturns
  BY <1>6, ReturnsInv
<1>7. ASSUME NEW i \in RxIdx, CutArgument(i) PROVE Inv'
  BY <1>7, CutInv
<1>8. CASE EchoReturns
  BY <1>8, EchoInv
<1>9. QED
  BY <1>1, <1>2, <1>3, <1>4, <1>5, <1>6, <1>7, <1>8 DEF Next

LEMMA InvHolds == Spec => []Inv
  BY InitInv, NextInv, PTL DEF Spec
-----------------------------------------------------------------------------
(* The properties.                                                         *)

\* The line buffer, its index and the histories have their types: TcpRecv's
\* loop stays inside gRxBuf for segments of every length.
THEOREM TypeCorrect == Spec => []TypeOK
<1>1. Inv => TypeOK
  BY DEF Inv
<1>2. QED
  BY InvHolds, <1>1, PTL

\* ParseCmd is only handed a terminated line, however long the input was and
\* whatever was typed ahead.
THEOREM LineTerminatedHolds == Spec => []LineTerminated
<1>1. Inv => LineTerminated
  BY DEF Inv, LineInv, LineTerminated
<1>2. QED
  BY InvHolds, <1>1, PTL

LEMMA TypedLine == Inv => ExecutesTyped
<1> SUFFICES ASSUME Inv, gInputReady, timely, plain, alone
             PROVE  Line = SubSeq(typed, 1, Cut(typed))
  BY DEF ExecutesTyped, Cut
<1>1. TypeOK /\ Terminated /\ ~running
  BY DEF Inv, LineInv, TypeOK
<1>2. gRxBuf[Cut(typed)] = NUL /\ Holds(gRxBuf, Cut(typed), typed)
  BY <1>1 DEF Inv, LineInv
<1>3. PICK n \in RxIdx :
        /\ gRxBuf[n] = NUL /\ \A j \in 0 .. n - 1 : gRxBuf[j] # NUL
        /\ Line \in Seq(Chars) /\ Len(Line) = n
        /\ \A j \in 0 .. n - 1 : Line[j + 1] = gRxBuf[j]
  BY <1>1, LineFacts
<1> DEFINE c == Cut(typed)
<1>4. typed \in Seq(Chars) /\ c \in RxIdx /\ c \in Nat /\ c <= Len(typed)
  BY <1>1, CutFacts DEF TypeOK
<1>5. n \in Nat
  BY InputAssumption DEF RxIdx
<1> HIDE DEF c
<1>6. ASSUME NEW j \in 0 .. c - 1
      PROVE  gRxBuf[j] = typed[j + 1] /\ typed[j + 1] \in Chars /\ gRxBuf[j] # NUL
  <2>1. gRxBuf[j] = typed[j + 1]
    BY <1>2 DEF Holds, c
  <2>2. j + 1 \in 1 .. Len(typed)
    BY <1>4
  <2>3. typed[j + 1] \in Chars
    BY <1>4, <2>2
  <2>4. QED
    BY <2>1, <2>3, InputAssumption
<1>7. n = c
  <2>1. ~(n < c)
    BY <1>3, <1>4, <1>5, <1>6
  <2>2. ~(c < n)
    <3>1. gRxBuf[c] = NUL
      BY <1>2 DEF c
    <3>2. QED
      BY <1>3, <1>4, <3>1
  <2>3. QED
    BY <1>4, <1>5, <2>1, <2>2
<1> DEFINE q == SubSeq(typed, 1, c)
<1>8. \A i \in 1 .. c : typed[i] \in Chars
  BY <1>4
<1>9. /\ q \in Seq(Chars) /\ Len(q) = (IF 1 <= c THEN c - 1 + 1 ELSE 0)
      /\ \A i \in 1 .. c - 1 + 1 : q[i] = typed[1 + i - 1]
  BY <1>4, <1>8, SubSeqProperties
<1> HIDE DEF q
<1>10. Len(Line) = Len(q) /\ Len(Line) = c
  BY <1>3, <1>4, <1>7, <1>9
<1>11. ASSUME NEW i \in 1 .. Len(Line) PROVE Line[i] = q[i]
  <2>1. /\ i - 1 \in 0 .. c - 1 /\ i - 1 \in 0 .. n - 1 /\ (i - 1) + 1 = i
        /\ i \in 1 .. c - 1 + 1 /\ 1 + i - 1 = i
    BY <1>4, <1>7, <1>10
  <2>2. Line[(i - 1) + 1] = gRxBuf[i - 1] /\ gRxBuf[i - 1] = typed[(i - 1) + 1]
    BY <1>3, <1>6, <2>1
  <2>3. q[i] = typed[1 + i - 1]
    BY <1>9, <2>1
  <2>4. QED
    BY <2>1, <2>2, <2>3
<1>12. Line = q
  BY <1>3, <1>9, <1>10, <1>11, SeqEqual
<1>13. QED
  BY <1>12 DEF q, c

\* A line typed while no command was running, without back spaces, is executed
\* as typed, cut to what the buffer holds, however it was cut into segments and
\* whatever telnet commands were among it, if no echo of TcpRecv waited in the
\* line or at the start of its session.
THEOREM ExecutesTypedHolds == Spec => []ExecutesTyped
  BY InvHolds, TypedLine, PTL

LEMMA RerunLine == Inv => TypeAheadReruns
<1> SUFFICES ASSUME Inv, gInputReady, ~timely, fresh PROVE IsPrefix(Line, prev)
  BY DEF TypeAheadReruns
<1>1. TypeOK /\ Terminated /\ Shows(gRxBuf, prev)
  BY DEF Inv, LineInv
<1>2. PICK n \in RxIdx :
        /\ gRxBuf[n] = NUL /\ \A j \in 0 .. n - 1 : gRxBuf[j] # NUL
        /\ Line \in Seq(Chars) /\ Len(Line) = n
        /\ \A j \in 0 .. n - 1 : Line[j + 1] = gRxBuf[j]
  BY <1>1, LineFacts
<1>3. prev \in Seq(Chars) /\ Len(prev) \in Nat /\ n \in Nat
  BY <1>1, InputAssumption DEF TypeOK, RxIdx
<1>4. n <= Len(prev)
  <2>1. PICK m \in 0 .. Len(prev) : gRxBuf[m] = NUL
    BY <1>1 DEF Shows
  <2>2. ~(m \in 0 .. n - 1)
    BY <1>2, <2>1
  <2>3. QED
    BY <1>3, <2>1, <2>2
<1>5. ASSUME NEW i \in 1 .. n PROVE Line[i] = prev[i] /\ prev[i] \in Chars
  <2>1. /\ i - 1 \in 0 .. n - 1 /\ i - 1 \in 0 .. Len(prev) - 1 /\ (i - 1) + 1 = i
        /\ i \in 1 .. Len(prev)
    BY <1>3, <1>4
  <2>2. gRxBuf[i - 1] \in {prev[(i - 1) + 1], NUL} /\ gRxBuf[i - 1] # NUL
    BY <1>1, <1>2, <2>1 DEF Shows
  <2>3. Line[(i - 1) + 1] = gRxBuf[i - 1]
    BY <1>2, <2>1
  <2>4. QED
    BY <1>3, <2>1, <2>2, <2>3
<1> DEFINE l == Line
           q == SubSeq(prev, 1, n)
<1>6. l \in Seq(Chars) /\ Len(l) = n
  BY <1>2
<1>7. /\ q \in Seq(Chars) /\ Len(q) = (IF 1 <= n THEN n - 1 + 1 ELSE 0)
      /\ \A i \in 1 .. n - 1 + 1 : q[i] = prev[1 + i - 1]
  BY <1>3, <1>5, SubSeqProperties
<1>8. \A i \in 1 .. n : l[i] = prev[i]
  BY <1>5
<1> HIDE DEF l, q
<1>9. l = q
  <2>1. Len(l) = Len(q)
    BY <1>3, <1>6, <1>7
  <2>2. \A i \in 1 .. Len(l) : l[i] = q[i]
    <3> TAKE i \in 1 .. Len(l)
    <3>1. i \in 1 .. n /\ i \in 1 .. n - 1 + 1 /\ 1 + i - 1 = i
      BY <1>3, <1>6
    <3>2. QED
      BY <1>7, <1>8, <3>1
  <2>3. QED
    BY <1>6, <1>7, <2>1, <2>2, SeqEqual
<1>10. SubSeq(l, 1, Len(l)) = l
  BY <1>6, SubSeqFull
<1>11. IsPrefix(l, prev)
  BY <1>4, <1>6, <1>9, <1>10 DEF IsPrefix, q
<1>12. QED
  BY <1>11 DEF l

\* Text typed ahead of a running command never becomes part of a command: a
\* carriage return among it makes the main loop execute that command's line
\* once more, whole or cut after its first argument, unless a segment came
\* while an echo waited, or a new connection.
THEOREM TypeAheadRerunsHolds == Spec => []TypeAheadReruns
  BY InvHolds, RerunLine, PTL

=============================================================================
