--------------------------- MODULE DataBlockProofs ---------------------------
(***************************************************************************)
(* Proofs about the settings log, for a window, a block, words, values and  *)
(* memory after gTemp of any size and contents.                             *)
(*                                                                         *)
(* Until it is spoilt, every reachable block is of one of two shapes.  Either  *)
(* it holds a log, and every append goes to its end (LogState), or it is      *)
(* somebody else's data, whose parse leaves the window before it meets a free *)
(* word, so that nothing is appended (ClosedState).                           *)
(***************************************************************************)
EXTENDS DataBlock, TLAPS

-----------------------------------------------------------------------------
(* The inductive invariant.                                                *)

\* The log has every setting that was saved, and no later entry for it.
SavedIn(S, e) ==
    \A t \in saved \ torn : \E s \in S \ {e} :
        /\ blk[s] = t /\ blk[s + 2] = want[t]
        /\ EntryEnd(blk, s) = s + 3 /\ s + 3 < Window
        /\ \A x \in S \ {e} : x > s => blk[x] # t

\* RAM has the value of the last entry of each tag before word c.
ReadTo(S, c) ==
    \A s \in S :
        /\ s < c /\ blk[s] \in Tags
        /\ \A x \in S : s < x /\ x < c => blk[x] # blk[s]
        => ram[blk[s]] = blk[s + 2]

\* Each append begun took three words at most.
Room(e) == e <= 3 * count

\* The block is a log, RAM follows the parse of it, an append goes to its end.
LogState(S, e) ==
    /\ LogOf(blk, S, e) /\ SavedIn(S, e) /\ Room(e)
    /\ pc = "parse" => cur \div 4 \in S /\ ReadTo(S, cur \div 4)
    /\ pc = "write" => e = off \div 4 /\ (e + 4 <= Window \/ Window <= e + 2)
    /\ pc = "idle" => Loaded

\* The parse stays off free words, so that no append is begun.
ClosedState(S) ==
    /\ Closed(blk, S) /\ ~Alike(blk)
    /\ saved = {} /\ Capacity < count
    /\ pc = "parse" => cur \div 4 \in S
    /\ pc # "write"

\* One of the two, for some entries.
HoldsLog == \E e \in 0 .. Window : \E S \in SUBSET (0 .. e) : LogState(S, e)
HoldsClosed == \E S \in SUBSET (0 .. Window - 1) : ClosedState(S)

\* The inductive invariant; TypeOK is proved before it.
BlockInv == spoilt \/ HoldsLog \/ HoldsClosed

-----------------------------------------------------------------------------
(* Words, lengths and cursors.                                             *)

\* A sum of a word and a little is reduced at most once.
LEMMA ModOnce ==
    ASSUME NEW d \in Nat \ {0}, NEW a \in 0 .. 2 * d - 1
    PROVE  a % d = IF a < d THEN a ELSE a - d
  BY Z3

\* The layout, in the terms of the proofs.
LEMMA Layout ==
    /\ WordMod \in Nat \ {0} /\ WordMod % 4 = 0
    /\ Window \in Nat /\ BlockWords \in Nat /\ PageWords \in Nat \ {0}
    /\ 2 <= Window /\ Window + 2 + PageWords <= BlockWords
    /\ 4 * BlockWords + 16 < WordMod /\ 4 * Window + 28 < WordMod
    /\ Ones \in Word /\ 4 \in Word /\ 4 # Ones /\ 0 \in Word
  BY LayoutAssumption DEF Word, Ones

\* Capacity entries leave between one and three words of the window.
LEMMA CapacityWords ==
    Capacity \in Nat /\ 3 * Capacity <= Window - 1 /\ Window - 3 <= 3 * Capacity
<1>1. Window \in Nat /\ 2 <= Window
  BY Layout
<1>2. QED
  BY ONLY <1>1, Z3 DEF Capacity

\* Lengths are rounded up to whole words; that of free space becomes 0.
LEMMA RoundUpWord ==
    ASSUME NEW len \in Word
    PROVE  /\ RoundUp(len) \in Word /\ RoundUp(len) % 4 = 0
           /\ len = 4 => RoundUp(len) = 4
           /\ len = Ones => RoundUp(len) = 0
<1> USE Layout DEF Word, Ones
<1>1. CASE len % 4 = 0
  BY <1>1 DEF RoundUp
<1>2. CASE len % 4 # 0
  <2> DEFINE up == len + (4 - (len % 4))
  <2>1. up \in Nat /\ up <= WordMod /\ up % 4 = 0 /\ len # 4
    BY <1>2
  <2>2. up \in 0 .. 2 * WordMod - 1
    BY <2>1
  <2>3. up % WordMod = IF up < WordMod THEN up ELSE up - WordMod
    BY ONLY <2>2, Layout, ModOnce
  <2>4. RoundUp(len) = up % WordMod
    BY <1>2 DEF RoundUp
  <2> HIDE DEF up
  <2>5. RoundUp(len) = IF up = WordMod THEN 0 ELSE up
    BY <2>1, <2>3, <2>4
  <2>6. len = Ones => up = WordMod
    BY DEF up
  <2>7. QED
    BY <2>1, <2>5, <2>6
<1>3. QED
  BY <1>1, <1>2

\* The cursor stays on whole words; unless it wraps, it is after the entry.
LEMMA AfterWord ==
    ASSUME NEW at \in 0 .. 4 * Window - 4, at % 4 = 0, NEW len \in Word
    PROVE  /\ After(at, len) \in Nat /\ After(at, len) % 4 = 0
           /\ at + 8 + RoundUp(len) < WordMod => After(at, len) = at + 8 + RoundUp(len)
<1> DEFINE up == RoundUp(len)
           sum == at + 8 + up
<1>1. up \in 0 .. WordMod - 1 /\ up % 4 = 0
  BY RoundUpWord DEF Word
<1>2. After(at, len) = sum % WordMod
  BY DEF After
<1> HIDE DEF up
<1>3. sum \in 0 .. 2 * WordMod - 1 /\ sum % 4 = 0
  BY <1>1, Layout
<1>4. sum % WordMod = IF sum < WordMod THEN sum ELSE sum - WordMod
  BY ONLY <1>3, Layout, ModOnce
<1> HIDE DEF sum
<1>5. QED
  <2>1. After(at, len) = IF sum < WordMod THEN sum ELSE sum - WordMod
    BY <1>2, <1>4
  <2>2. After(at, len) \in Nat /\ After(at, len) % 4 = 0
    BY <2>1, <1>3, Layout
  <2>3. sum = at + 8 + RoundUp(len)
    BY DEF sum, up
  <2>4. QED
    BY <2>1, <2>2, <2>3

\* The cursor is that of a word.
LEMMA Cursor ==
    ASSUME NEW c \in 0 .. 4 * Window - 4, c % 4 = 0
    PROVE  /\ c \div 4 \in 0 .. Window - 1 /\ 4 * (c \div 4) = c
           /\ c \div 4 \in BlockIdx
  BY Layout DEF BlockIdx
-----------------------------------------------------------------------------
(* Type correctness.                                                       *)

\* What the length word of an entry may be.
LEMMA TempWord ==
    ASSUME NEW b \in [BlockIdx -> Word], NEW i \in Nat, NEW w \in Temp(b, i)
    PROVE  w \in Word
<1>1. CASE i < Window
  <2>1. i \in BlockIdx
    BY <1>1, Layout DEF BlockIdx
  <2>2. QED
    BY <1>1, <2>1 DEF Temp
<1>2. CASE ~(i < Window)
  BY <1>2, WordAssumption DEF Temp
<1>3. QED
  BY <1>1, <1>2

\* The parser's return keeps the types.
LEMMA ReturnsType ==
    ASSUME TypeOK, NEW free, free = NoSpace \/ (free \in 0 .. 4 * Window - 4 /\ free % 4 = 0),
           ParseReturns(free)
    PROVE  /\ pc' \in {"write", "idle"} /\ why' \in {"boot", "add", "reload"}
           /\ cur' = 0 /\ ent' \in Tags \X {4} \X Word
           /\ off' \in 0 .. 4 * Window - 4 /\ off' % 4 = 0
           /\ UNCHANGED <<blk, history>>
<1>1. NoEntry \in Tags \X {4} \X Word
  BY Layout DEF NoEntry, Tags
<1>2. 0 \in 0 .. 4 * Window - 4 /\ 0 % 4 = 0
  BY Layout
<1>3. CASE pc' = "write" /\ off' = free /\ UNCHANGED <<why, ent>> /\ free # NoSpace
  BY <1>3 DEF ParseReturns, TypeOK
<1>4. CASE pc' = "idle" /\ off' = 0 /\ why' = "boot" /\ ent' = NoEntry
  BY <1>1, <1>2, <1>4 DEF ParseReturns
<1>5. QED
  BY <1>3, <1>4 DEF ParseReturns

\* Three words are programmed over the block's.
LEMMA ProgrammedWords ==
    ASSUME TypeOK, NEW w, w[1] \in Word, w[2] \in Word, w[3] \in Word,
           NEW o, o = off \div 4
    PROVE  /\ o \in 0 .. Window - 1
           /\ o \in BlockIdx /\ o + 1 \in BlockIdx /\ o + 2 \in BlockIdx
           /\ Programmed(w) \in [BlockIdx -> Word]
           /\ Programmed(w)[o] = w[1] /\ Programmed(w)[o + 1] = w[2]
           /\ Programmed(w)[o + 2] = w[3]
           /\ \A i \in BlockIdx : i < o \/ o + 2 < i => Programmed(w)[i] = blk[i]
<1>1. o \in 0 .. Window - 1
  BY Cursor DEF TypeOK
<1>2. o \in BlockIdx /\ o + 1 \in BlockIdx /\ o + 2 \in BlockIdx
  BY <1>1, Layout DEF BlockIdx
<1>3. \A i \in BlockIdx : i \in Int
  BY Layout DEF BlockIdx
<1>4. ASSUME NEW i \in BlockIdx
      PROVE  /\ i - o \in 0 .. 2 => w[i - o + 1] \in Word
             /\ i < o \/ o + 2 < i => ~(i - o \in 0 .. 2)
  <2>1. i - o \in 0 .. 2 => i - o + 1 = 1 \/ i - o + 1 = 2 \/ i - o + 1 = 3
    BY <1>1, <1>3
  <2>2. i < o \/ o + 2 < i => ~(i - o \in 0 .. 2)
    BY <1>1, <1>3
  <2>3. QED
    BY <2>1, <2>2
<1>5. Programmed(w) = [i \in BlockIdx |-> IF i - o \in 0 .. 2 THEN w[i - o + 1] ELSE blk[i]]
  BY DEF Programmed
<1>6. Programmed(w) \in [BlockIdx -> Word]
  BY <1>4, <1>5 DEF TypeOK
<1>7. o - o = 0 /\ (o + 1) - o = 1 /\ (o + 2) - o = 2
  BY <1>1
<1>8. Programmed(w)[o] = w[1] /\ Programmed(w)[o + 1] = w[2] /\ Programmed(w)[o + 2] = w[3]
  BY <1>2, <1>5, <1>7
<1>9. QED
  BY <1>1, <1>2, <1>4, <1>5, <1>6, <1>8

\* The words of the entry that is appended, where the block is free.
Whole(o) == [i \in 1 .. 3 |-> BitAnd(blk[o + i - 1], ent[i])]

\* The entry's words, programmed over any others, are words.
LEMMA EntryWords ==
    ASSUME TypeOK, NEW o, o = off \div 4
    PROVE  /\ ent[1] \in Tags /\ ent[1] \in Word /\ ent[1] # Ones
           /\ ent[2] = 4 /\ ent[3] \in Word
           /\ blk[o] \in Word /\ blk[o + 1] \in Word /\ blk[o + 2] \in Word
           /\ Whole(o)[1] = BitAnd(blk[o], ent[1]) /\ Whole(o)[1] \in Word
           /\ Whole(o)[2] = BitAnd(blk[o + 1], ent[2]) /\ Whole(o)[2] \in Word
           /\ Whole(o)[3] = BitAnd(blk[o + 2], ent[3]) /\ Whole(o)[3] \in Word
<1>1. ent[1] \in Tags /\ ent[2] = 4 /\ ent[3] \in Word
  BY DEF TypeOK
<1>2. ent[1] \in Word /\ ent[1] # Ones /\ ent[2] \in Word
  BY <1>1, WordAssumption, Layout
<1>3. o \in 0 .. Window - 1
  BY Cursor DEF TypeOK
<1>4. o \in BlockIdx /\ o + 1 \in BlockIdx /\ o + 2 \in BlockIdx
  BY <1>3, Layout DEF BlockIdx
<1>5. blk[o] \in Word /\ blk[o + 1] \in Word /\ blk[o + 2] \in Word
  BY <1>4 DEF TypeOK
<1>6. o + 1 - 1 = o /\ o + 2 - 1 = o + 1 /\ o + 3 - 1 = o + 2
  BY <1>3
<1>7. /\ Whole(o)[1] = BitAnd(blk[o], ent[1])
      /\ Whole(o)[2] = BitAnd(blk[o + 1], ent[2])
      /\ Whole(o)[3] = BitAnd(blk[o + 2], ent[3])
  BY <1>6 DEF Whole
<1>8. QED
  BY <1>1, <1>2, <1>5, <1>7, WordAssumption

\* Every word stays a word, the cursor in the window and on whole words, and an
\* append within the block, whatever the block and the memory after gTemp hold
\* (main.c:1319-1414).
THEOREM TypeCorrect == Spec => []TypeOK
<1>1. Init => TypeOK
  <2> SUFFICES ASSUME Init PROVE TypeOK
    OBVIOUS
  <2>1. blk \in [BlockIdx -> Word] /\ blk0 \in [BlockIdx -> Word]
    BY WordAssumption DEF Init
  <2>2. BootValues \in [Tags -> Word] /\ NoEntry \in Tags \X {4} \X Word
    BY Layout, WordAssumption DEF BootValues, NoEntry, Tags
  <2>3. 0 \in 0 .. 4 * Window - 4 /\ 0 % 4 = 0
    BY Layout
  <2>4. count \in Nat
    BY CapacityWords DEF Init
  <2>5. spoilt \in BOOLEAN /\ tears \in 0 .. MaxTears
    BY WordAssumption DEF Init
  <2>6. QED
    BY <2>1, <2>2, <2>3, <2>4, <2>5 DEF Init, TypeOK
<1>2. TypeOK /\ [Next]_vars => TypeOK'
  <2> SUFFICES ASSUME TypeOK, [Next]_vars PROVE TypeOK'
    OBVIOUS
  <2>1. CASE ParseEnd
    <3>1. ParseReturns(cur) /\ UNCHANGED ram /\ cur \in 0 .. 4 * Window - 4 /\ cur % 4 = 0
      BY <2>1 DEF ParseEnd, TypeOK
    <3>2. QED
      BY <3>1, ReturnsType, Layout DEF TypeOK, history
  <2>2. CASE ParseEntry
    <3>1. PICK len \in Temp(blk, cur \div 4 + 1), value \in Temp(blk, cur \div 4 + 2) :
            /\ AfterEntry(len) <= 4 * Window - 4 /\ cur' = AfterEntry(len)
            /\ ram' = [t \in Tags |-> IF t = blk[cur \div 4] THEN value ELSE ram[t]]
      BY <2>2 DEF ParseEntry
    <3>2. cur \div 4 + 1 \in Nat /\ cur \div 4 + 2 \in Nat
      BY Cursor DEF TypeOK
    <3>3. len \in Word /\ value \in Word
      BY <3>2, TempWord DEF TypeOK
    <3>4. cur' \in 0 .. 4 * Window - 4 /\ cur' % 4 = 0
      <4>1. cur \in 0 .. 4 * Window - 4 /\ cur % 4 = 0
        BY DEF TypeOK
      <4>2. AfterEntry(len) \in Nat /\ AfterEntry(len) % 4 = 0
        BY <3>3, <4>1, AfterWord DEF AfterEntry
      <4>3. QED
        BY ONLY <3>1, <4>2, Layout
    <3>5. ram' \in [Tags -> Word]
      BY <3>1, <3>3 DEF TypeOK
    <3>6. QED
      BY <2>2, <3>4, <3>5 DEF ParseEntry, TypeOK, history
  <2>3. CASE ParseInvalid
    <3>1. PICK free \in {0, NoSpace} : ParseReturns(free)
      BY <2>3 DEF ParseInvalid
    <3>2. free = NoSpace \/ (free \in 0 .. 4 * Window - 4 /\ free % 4 = 0)
      BY Layout
    <3>3. QED
      BY <2>3, <3>1, <3>2, ReturnsType, Layout DEF ParseInvalid, TypeOK, history
  <2>4. CASE WriteEntry
    <3>1. /\ blk' = Programmed(Whole(off \div 4)) /\ pc' = "parse" /\ why' = "reload" /\ cur' = 0
          /\ saved' = saved \cup {ent[1]} /\ torn' = torn \ {ent[1]}
          /\ want' = [want EXCEPT ![ent[1]] = ent[3]]
          /\ count' = count + 1 /\ spoilt' \in BOOLEAN
          /\ UNCHANGED <<ram, ent, off, blk0, tears>>
      BY <2>4 DEF WriteEntry, Whole, TypeOK
    <3>2. blk' \in [BlockIdx -> Word]
      BY <3>1, EntryWords, ProgrammedWords
    <3>3. ent[1] \in Tags /\ ent[3] \in Word
      BY EntryWords
    <3>4. QED
      BY <3>1, <3>2, <3>3, Layout DEF TypeOK
  <2>5. ASSUME NEW t \in Tags, NEW v \in Values, AddBoardInfo(t, v) PROVE TypeOK'
    BY <2>5, WordAssumption, Layout DEF AddBoardInfo, TypeOK, history
  <2>6. CASE TcpAccept
    BY <2>6, WordAssumption DEF TcpAccept, TypeOK, history
  <2>7. CASE EraseBlock
    <3>1. Blank \in [BlockIdx -> Word] /\ BootValues \in [Tags -> Word]
      BY Layout, WordAssumption DEF Blank, BootValues
    <3>2. QED
      BY <2>7, <3>1 DEF EraseBlock, Forgotten, TypeOK
  <2>8. ASSUME Restart
        PROVE  /\ ram' \in [Tags -> Word] /\ pc' = "parse" /\ why' = "boot" /\ cur' = 0
               /\ ent' \in Tags \X {4} \X Word
               /\ off' \in 0 .. 4 * Window - 4 /\ off' % 4 = 0
               /\ cur' \in 0 .. 4 * Window - 4 /\ cur' % 4 = 0
    <3>1. BootValues \in [Tags -> Word] /\ NoEntry \in Tags \X {4} \X Word
      BY Layout, WordAssumption DEF BootValues, NoEntry, Tags
    <3>2. QED
      BY <2>8, <3>1, Layout DEF Restart
  <2>9. CASE PowerFail
    BY <2>8, <2>9 DEF PowerFail, TypeOK, history
  <2>10. CASE PowerFailWriting
    <3>1. /\ tears < MaxTears /\ count' = count + 1 /\ tears' = tears + 1
          /\ Restart /\ UNCHANGED <<blk0, want, saved>>
      BY <2>10 DEF PowerFailWriting
    <3>2. PICK tag \in Part(blk[off \div 4], ent[1]), len \in Part(blk[off \div 4 + 1], ent[2]),
               data \in Part(blk[off \div 4 + 2], ent[3]) :
            /\ blk' = Programmed(<<tag, len, data>>)
            /\ torn' = torn \cup ({tag} \cap Tags)
            /\ spoilt' = (spoilt \/ ~InFrame(blk', off \div 4))
      BY <2>10 DEF PowerFailWriting
    <3>3. tag \in Word /\ len \in Word /\ data \in Word
      BY EntryWords, WordAssumption, Layout
    <3>4. blk' \in [BlockIdx -> Word]
      BY <3>2, <3>3, ProgrammedWords
    <3>5. torn' \subseteq Tags /\ spoilt' \in BOOLEAN
      BY <3>2 DEF TypeOK
    <3>6. tears' \in 0 .. MaxTears /\ count' \in Nat
      BY <3>1, WordAssumption DEF TypeOK
    <3>7. QED
      BY <2>8, <3>1, <3>4, <3>5, <3>6 DEF TypeOK
  <2>11. CASE PowerFailErasing
    <3>1. PICK b \in Leftovers : Forgotten(b)
      BY <2>11 DEF PowerFailErasing
    <3>2. b \in [BlockIdx -> Word] /\ BootValues \in [Tags -> Word]
      BY Layout, WordAssumption DEF BootValues
    <3>3. tears' \in 0 .. MaxTears
      BY <2>11, WordAssumption DEF PowerFailErasing, TypeOK
    <3>4. QED
      BY <2>8, <2>11, <3>1, <3>2, <3>3 DEF PowerFailErasing, Forgotten, TypeOK
  <2>12. CASE UNCHANGED vars
    BY <2>12 DEF vars, history, TypeOK
  <2>13. ASSUME TftpCmd \/ AutoBootCmd \/ BootAdrCmd PROVE TypeOK'
    BY <2>5, <2>13 DEF TftpCmd, AutoBootCmd, BootAdrCmd, Tags
  <2>14. QED
    BY <2>1, <2>2, <2>3, <2>4, <2>6, <2>7, <2>9, <2>10, <2>11, <2>12, <2>13
       DEF Next, Parse, PowerFails
<1>3. QED
  BY <1>1, <1>2, PTL DEF Spec
-----------------------------------------------------------------------------
(* What the shape of a block says.                                         *)

\* Division with remainder.
LEMMA DivMod ==
    ASSUME NEW a \in Int, NEW d \in Nat \ {0}
    PROVE  /\ a \div d \in Int
           /\ a % d \in 0 .. d - 1
           /\ a = d * (a \div d) + (a % d)
  BY Z3

\* A remainder is unique.
LEMMA ModUnique ==
    ASSUME NEW a \in Int, NEW d \in Nat \ {0}, NEW q \in Int, NEW r \in Nat,
           r < d, a = d * q + r
    PROVE  a % d = r
  BY Z3

\* A block with something at its start and nothing after the window is not taken
\* to be empty.
LEMMA NotAlike ==
    ASSUME NEW b, b[0] # Ones, \A i \in BlockIdx : Window + 2 <= i => b[i] = Ones
    PROVE  ~Alike(b)
<1> DEFINE q == BlockWords \div PageWords
           p == BlockWords - PageWords
<1>1. p \in BlockIdx /\ 0 \in BlockIdx /\ Window + 2 <= p
  BY Layout DEF BlockIdx
<1>2. q \in Int /\ BlockWords = PageWords * q
  <2>1. BlockWords % PageWords = 0 /\ BlockWords \in Int
    BY LayoutAssumption
  <2>2. BlockWords = PageWords * (BlockWords \div PageWords) + 0
        /\ BlockWords \div PageWords \in Int
    BY <2>1, DivMod, Layout
  <2>3. BlockWords = PageWords * q + 0 /\ q \in Int
    BY <2>2
  <2> HIDE DEF q
  <2>4. PageWords * q \in Int
    BY <2>3, Layout
  <2>5. QED
    BY ONLY <2>3, <2>4, <2>1
<1> HIDE DEF q
<1>3. p = PageWords * (q - 1) + 0
  BY ONLY <1>2, Layout, Z3
<1>4. p % PageWords = 0
  <2> DEFINE k == q - 1
  <2>1. p \in Int /\ k \in Int /\ p = PageWords * k + 0 /\ 0 < PageWords
    BY <1>1, <1>2, <1>3, Layout DEF BlockIdx
  <2> HIDE DEF p, k
  <2>2. QED
    BY ONLY <2>1, ModUnique, Layout
<1>5. 0 % PageWords = 0
  <2>1. 0 \in 0 .. 2 * PageWords - 1 /\ 0 < PageWords
    BY Layout
  <2>2. QED
    BY ONLY <2>1, ModOnce, Layout
<1> HIDE DEF p
<1>6. ASSUME Alike(b) PROVE FALSE
  <2>1. b[0] = b[PageWords + (0 % PageWords)] /\ b[p] = b[PageWords + (p % PageWords)]
    BY <1>1, <1>6 DEF Alike
  <2>2. b[0] = b[p]
    BY <2>1, <1>4, <1>5
  <2>3. QED
    BY <2>2, <1>1
<1>7. QED
  BY <1>6

\* The cursor goes from an entry that ends in the window to the next.
LEMMA AfterEnd ==
    ASSUME NEW b \in [BlockIdx -> Word], NEW s \in 0 .. Window - 1,
           EntryEnd(b, s) <= Window
    PROVE  /\ b[s + 1] \in Word /\ EntryEnd(b, s) \in Nat /\ s + 2 <= EntryEnd(b, s)
           /\ After(4 * s, b[s + 1]) = 4 * EntryEnd(b, s)
<1>1. s + 1 \in BlockIdx
  BY Layout DEF BlockIdx
<1>2. b[s + 1] \in Word
  BY <1>1
<1> DEFINE up == RoundUp(b[s + 1])
<1>3. up \in Nat /\ up % 4 = 0
  BY <1>2, RoundUpWord DEF Word
<1>4. EntryEnd(b, s) = s + 2 + up \div 4
  BY DEF EntryEnd
<1>5. 4 * s + 8 + up < WordMod => After(4 * s, b[s + 1]) = 4 * s + 8 + up
  <2>1. 4 * s \in 0 .. 4 * Window - 4 /\ (4 * s) % 4 = 0
    BY ONLY s \in 0 .. Window - 1, Layout
  <2>2. QED
    BY <2>1, <1>2, AfterWord
<1> HIDE DEF up
<1>6. /\ EntryEnd(b, s) \in Nat /\ s + 2 <= EntryEnd(b, s)
      /\ 4 * EntryEnd(b, s) = 4 * s + 8 + up
  BY <1>3, <1>4
<1>7. QED
  BY <1>2, <1>5, <1>6, Layout

\* An entry of a log is whole, and the cursor goes from it to the next.
LEMMA LogEntry ==
    ASSUME NEW b \in [BlockIdx -> Word], NEW e \in 0 .. Window, NEW S, LogOf(b, S, e),
           NEW s \in S \ {e}
    PROVE  /\ s \in 0 .. Window - 2 /\ s < e /\ b[s] # Ones
           /\ EntryEnd(b, s) \in S /\ EntryEnd(b, s) \in s + 2 .. e
           /\ \A x \in S : x <= s \/ EntryEnd(b, s) <= x
           /\ Temp(b, s + 1) = {b[s + 1]} /\ b[s + 1] \in Word
           /\ After(4 * s, b[s + 1]) = 4 * EntryEnd(b, s)
<1>1. /\ s \in 0 .. e /\ b[s] # Ones /\ EntryEnd(b, s) \in S /\ EntryEnd(b, s) \in 0 .. e
      /\ \A x \in S : x <= s \/ EntryEnd(b, s) <= x
  BY DEF LogOf
<1>2. s \in 0 .. Window - 1 /\ s < e /\ EntryEnd(b, s) <= Window
  BY <1>1, Layout
<1>3. /\ b[s + 1] \in Word /\ s + 2 <= EntryEnd(b, s)
      /\ After(4 * s, b[s + 1]) = 4 * EntryEnd(b, s)
  BY <1>2, AfterEnd
<1>4. EntryEnd(b, s) \in s + 2 .. e /\ s \in 0 .. Window - 2
  BY <1>1, <1>2, <1>3, Layout
<1>5. Temp(b, s + 1) = {b[s + 1]}
  BY <1>4, Layout DEF Temp
<1>6. QED
  BY <1>1, <1>2, <1>3, <1>4, <1>5

\* From the end of a log on the block is free, and it does not look empty.
LEMMA LogEnd ==
    ASSUME NEW b \in [BlockIdx -> Word], NEW e \in 0 .. Window, NEW S, LogOf(b, S, e)
    PROVE  /\ e \in BlockIdx /\ b[e] = Ones /\ 0 \in S /\ e \in S /\ S \subseteq 0 .. e
           /\ \A i \in BlockIdx : i >= e => b[i] = Ones
           /\ e # 0 => b[0] # Ones /\ ~Alike(b)
<1>1. e \in BlockIdx
  BY Layout DEF BlockIdx
<1>2. \A i \in BlockIdx : Window + 2 <= i => b[i] = Ones
  BY Layout DEF LogOf, FreeFrom, BlockIdx
<1>3. e # 0 => b[0] # Ones
  BY DEF LogOf
<1>4. e # 0 => ~Alike(b)
  BY <1>2, <1>3, NotAlike
<1>5. e >= e
  OBVIOUS
<1>6. QED
  BY <1>1, <1>3, <1>4, <1>5 DEF LogOf, FreeFrom
-----------------------------------------------------------------------------
(* A block that holds a log: parsing.                                      *)

\* At the end of the log RAM has what was saved, and an append goes there.
LEMMA LogParseEnd ==
    ASSUME TypeOK, NEW e \in 0 .. Window, NEW S, LogState(S, e), ParseEnd
    PROVE  LogState(S, e)'
<1> DEFINE c == cur \div 4
<1>1. c \in S /\ ReadTo(S, c) /\ LogOf(blk, S, e) /\ SavedIn(S, e) /\ Room(e)
  BY DEF LogState, ParseEnd
<1>2. c = e
  BY <1>1 DEF ParseEnd, LogOf
<1>3. UNCHANGED <<blk, ram, want, saved, torn, count>> /\ ParseReturns(cur)
  BY DEF ParseEnd, ParseReturns, history
<1>5. LogOf(blk, S, e)' /\ SavedIn(S, e)' /\ Room(e)'
  <2>1. LogOf(blk, S, e)'
    BY <1>1, <1>3 DEF LogOf, EntryEnd, FreeFrom
  <2>2. SavedIn(S, e)'
    BY <1>1, <1>3 DEF SavedIn, EntryEnd
  <2>3. Room(e)'
    BY <1>1, <1>3 DEF Room
  <2>4. QED
    BY <2>1, <2>2, <2>3
<1>6. CASE pc' = "write" /\ off' = cur /\ Fits(cur)
  <2>1. 4 * c = cur /\ c \in 0 .. Window - 1
    BY Cursor DEF TypeOK
  <2>2. cur # 4 * Window - 12
    <3>1. ASSUME cur = 4 * Window - 12 PROVE FALSE
      <4>1. 4 * Window - cur - 12 = 0
        BY <3>1, Layout
      <4>2. 0 \in 0 .. 2 * WordMod - 1 /\ 0 < WordMod
        BY Layout
      <4>3. 0 % WordMod = 0
        BY ONLY <4>2, ModOnce, Layout
      <4>4. (4 * Window - cur - 12) % WordMod = 0
        BY <4>1, <4>3
      <4>5. QED
        BY <4>4, <1>6 DEF Fits
    <3>2. QED
      BY <3>1
  <2>3. c + 4 <= Window \/ Window <= c + 2
    <3> HIDE DEF c
    <3>1. QED
      BY ONLY <2>1, <2>2, Layout
  <2>4. off' \div 4 = e
    BY <1>2, <1>6
  <2>5. QED
    BY <1>2, <1>5, <1>6, <2>3, <2>4 DEF LogState
<1>7. CASE pc' = "idle"
  <2>1. ASSUME NEW t \in saved \ torn PROVE ram[t] = want[t]
    <3>1. PICK s \in S \ {e} : /\ blk[s] = t /\ blk[s + 2] = want[t]
                               /\ \A x \in S \ {e} : x > s => blk[x] # t
      BY <1>1 DEF SavedIn
    <3>2. t \in Tags /\ s \in 0 .. Window - 2 /\ s < e /\ S \subseteq 0 .. e
      BY <1>1, LogEntry, LogEnd DEF TypeOK
    <3>3. \A x \in S : s < x /\ x < e => blk[x] # blk[s]
      BY <3>1, <3>2
    <3>4. QED
      BY <1>1, <1>2, <3>1, <3>2, <3>3 DEF ReadTo
  <2>2. Loaded'
    BY <1>3, <2>1 DEF Loaded
  <2>3. QED
    BY <1>5, <1>7, <2>2 DEF LogState
<1>8. QED
  BY <1>3, <1>6, <1>7 DEF ParseReturns

\* An entry goes to RAM, and takes precedence over those before it.
LEMMA LogParseEntry ==
    ASSUME TypeOK, NEW e \in 0 .. Window, NEW S, LogState(S, e), ParseEntry
    PROVE  LogState(S, e)'
<1> DEFINE c == cur \div 4
           n == EntryEnd(blk, c)
<1>1. /\ c \in S /\ ReadTo(S, c) /\ LogOf(blk, S, e) /\ SavedIn(S, e) /\ Room(e)
      /\ blk[c] # Ones
  BY DEF LogState, ParseEntry
<1>2. /\ c \in S \ {e} /\ 4 * c = cur
  BY <1>1, LogEnd, Cursor DEF TypeOK, ParseEntry
<1>3. /\ c \in 0 .. Window - 2 /\ n \in S /\ n \in c + 2 .. e
      /\ \A x \in S : x <= c \/ n <= x
      /\ Temp(blk, c + 1) = {blk[c + 1]}
      /\ After(4 * c, blk[c + 1]) = 4 * n
  BY <1>1, <1>2, LogEntry DEF TypeOK
<1>4. PICK value \in Temp(blk, c + 2) :
        /\ 4 * n <= 4 * Window - 4 /\ cur' = 4 * n
        /\ ram' = [t \in Tags |-> IF t = blk[c] THEN value ELSE ram[t]]
  <2>1. PICK len \in Temp(blk, c + 1), value \in Temp(blk, c + 2) :
          /\ AfterEntry(len) <= 4 * Window - 4 /\ cur' = AfterEntry(len)
          /\ ram' = [t \in Tags |-> IF t = blk[c] THEN value ELSE ram[t]]
    BY DEF ParseEntry
  <2>2. AfterEntry(len) = 4 * n
    BY <2>1, <1>2, <1>3 DEF AfterEntry
  <2>3. QED
    BY <2>1, <2>2
<1>5. UNCHANGED <<blk, want, saved, torn, off, count>> /\ pc' = "parse"
  BY DEF ParseEntry, history
<1> HIDE DEF n
<1>6. n <= Window - 1 /\ cur' \div 4 = n
  BY <1>3, <1>4, Layout
<1>7. value = blk[c + 2]
  <2>1. c + 2 < Window
    BY <1>3, <1>6, Layout
  <2>2. QED
    BY <1>4, <2>1 DEF Temp
<1> HIDE DEF c
<1>8. \A s \in S : /\ s < n /\ blk[s] \in Tags
                   /\ \A x \in S : s < x /\ x < n => blk[x] # blk[s]
                   => ram'[blk[s]] = blk[s + 2]
  <2>1. ASSUME NEW s \in S, s < n, blk[s] \in Tags, \A x \in S : s < x /\ x < n => blk[x] # blk[s]
        PROVE  ram'[blk[s]] = blk[s + 2]
    <3>1. s \in 0 .. e
      BY <1>1 DEF LogOf
    <3>2. CASE s = c
      BY <1>4, <1>7, <2>1, <3>2
    <3>3. CASE s < c
      <4>1. c < n
        BY <1>3
      <4>2. blk[c] # blk[s]
        BY <1>2, <2>1, <3>3, <4>1
      <4>3. \A x \in S : s < x /\ x < c => blk[x] # blk[s]
        <5>1. \A x \in S : x \in 0 .. e
          BY <1>1 DEF LogOf
        <5>2. QED
          BY <5>1, <2>1, <4>1, <1>3
      <4>4. ram[blk[s]] = blk[s + 2]
        BY <1>1, <2>1, <3>3, <4>3 DEF ReadTo
      <4>5. QED
        BY <1>4, <2>1, <4>2, <4>4
    <3>4. s <= c
      BY <1>3, <2>1, <3>1
    <3>5. QED
      BY <3>1, <3>2, <3>3, <3>4, <1>3
  <2>2. QED
    BY <2>1
<1>9. LogOf(blk, S, e)' /\ SavedIn(S, e)' /\ Room(e)'
  <2>1. LogOf(blk, S, e)'
    BY <1>1, <1>5 DEF LogOf, EntryEnd, FreeFrom
  <2>2. SavedIn(S, e)'
    BY <1>1, <1>5 DEF SavedIn, EntryEnd
  <2>3. Room(e)'
    BY <1>1, <1>5 DEF Room
  <2>4. QED
    BY <2>1, <2>2, <2>3
<1>10. ReadTo(S, cur \div 4)'
  BY <1>5, <1>6, <1>8 DEF ReadTo
<1>11. QED
  BY <1>3, <1>5, <1>6, <1>9, <1>10 DEF LogState

\* Only the last entry can fill the window.  Everything saved whole came before
\* it, and a log with an entry does not look empty.
LEMMA LogParseInvalid ==
    ASSUME TypeOK, NEW e \in 0 .. Window, NEW S, LogState(S, e), ParseInvalid
    PROVE  LogState(S, e)' /\ e = Window
<1> DEFINE c == cur \div 4
           n == EntryEnd(blk, c)
<1>1. /\ c \in S /\ ReadTo(S, c) /\ LogOf(blk, S, e) /\ SavedIn(S, e) /\ Room(e)
      /\ blk[c] # Ones
  BY DEF LogState, ParseInvalid
<1>2. c \in S \ {e} /\ 4 * c = cur
  BY <1>1, LogEnd, Cursor DEF TypeOK
<1>3. /\ c \in 0 .. Window - 2 /\ c < e /\ n \in S /\ n \in c + 2 .. e
      /\ \A x \in S : x <= c \/ n <= x
      /\ Temp(blk, c + 1) = {blk[c + 1]}
      /\ After(4 * c, blk[c + 1]) = 4 * n
  <2>1. blk \in [BlockIdx -> Word] /\ c \in S \ {e} /\ LogOf(blk, S, e)
    BY <1>1, <1>2 DEF TypeOK
  <2> HIDE DEF c
  <2>2. QED
    BY ONLY <2>1, LogEntry
<1>4. n = Window
  <2>1. 4 * n > 4 * Window - 4
    <3>1. PICK len \in Temp(blk, c + 1) : AfterEntry(len) > 4 * Window - 4
      BY DEF ParseInvalid
    <3>2. AfterEntry(len) = 4 * n
      BY <3>1, <1>2, <1>3 DEF AfterEntry
    <3>3. QED
      BY <3>1, <3>2
  <2> HIDE DEF n
  <2>2. QED
    BY <2>1, <1>3, Layout
<1>5. pc' = "idle" /\ UNCHANGED <<blk, ram, want, saved, torn, count>>
  <2>1. ~CheckEmpty
    BY <1>1, <1>3, LogEnd DEF CheckEmpty, TypeOK
  <2>2. ParseReturns(NoSpace)
    BY <2>1 DEF ParseInvalid
  <2>3. QED
    BY <2>2 DEF ParseReturns, ParseInvalid, history
<1>6. LogOf(blk, S, e)' /\ SavedIn(S, e)' /\ Room(e)'
  <2>1. LogOf(blk, S, e)'
    BY <1>1, <1>5 DEF LogOf, EntryEnd, FreeFrom
  <2>2. SavedIn(S, e)'
    BY <1>1, <1>5 DEF SavedIn, EntryEnd
  <2>3. Room(e)'
    BY <1>1, <1>5 DEF Room
  <2>4. QED
    BY <2>1, <2>2, <2>3
<1> HIDE DEF n, c
<1>7. ASSUME NEW t \in saved \ torn PROVE ram[t] = want[t]
  <2>1. PICK s \in S \ {e} : /\ blk[s] = t /\ blk[s + 2] = want[t]
                             /\ EntryEnd(blk, s) = s + 3 /\ s + 3 < Window
                             /\ \A x \in S \ {e} : x > s => blk[x] # t
    BY <1>1 DEF SavedIn
  <2>2. t \in Tags /\ s \in 0 .. Window - 2 /\ s < e /\ S \subseteq 0 .. e
    BY <1>1, <2>1, LogEntry, LogEnd DEF TypeOK
  <2>3. s # c
    BY <2>1, <2>2, <1>4 DEF n
  <2>4. s < c
    BY <1>3, <1>4, <2>1, <2>2, <2>3
  <2>5. \A x \in S : s < x /\ x < c => blk[x] # blk[s]
    BY <2>1, <2>2, <1>3
  <2>6. QED
    BY <1>1, <2>1, <2>2, <2>4, <2>5 DEF ReadTo
<1>8. Loaded'
  BY <1>5, <1>7 DEF Loaded
<1>9. e = Window
  BY <1>3, <1>4
<1>10. QED
  BY <1>5, <1>6, <1>8, <1>9 DEF LogState
-----------------------------------------------------------------------------
(* A block that holds a log: appending.                                    *)

\* The entries of a log up to the one at word o.
Entries(b, S, o) ==
    /\ 0 \in S /\ o \in S /\ S \subseteq 0 .. o
    /\ \A s \in S \ {o} :
         /\ b[s] # Ones /\ EntryEnd(b, s) \in S
         /\ \A x \in S : x <= s \/ EntryEnd(b, s) <= x

\* An entry that starts where the others end makes a longer log.
LEMMA Extend ==
    ASSUME NEW b \in [BlockIdx -> Word], NEW c \in [BlockIdx -> Word],
           NEW o \in 0 .. Window - 1, NEW T, Entries(b, T, o),
           \A i \in BlockIdx : i < o => c[i] = b[i],
           c[o] # Ones,
           NEW e, e = EntryEnd(c, o), e \in o + 2 .. Window,
           \A i \in BlockIdx : i >= e => c[i] = Ones,
           \A s \in T \ {o} : EntryEnd(b, s) >= s + 2
    PROVE  LogOf(c, T \cup {e}, e)
<1>1. /\ 0 \in T /\ o \in T /\ T \subseteq 0 .. o /\ T \cup {e} \subseteq 0 .. e
      /\ (T \cup {e}) \ {e} = T
  <2>1. 0 \in T /\ o \in T /\ T \subseteq 0 .. o
    BY DEF Entries
  <2>2. e \in Nat /\ o \in Nat /\ o < e
    BY ONLY o \in 0 .. Window - 1, e \in o + 2 .. Window, Layout
  <2>3. ~(e \in T) /\ \A x \in T : x \in 0 .. e
    BY ONLY <2>1, <2>2
  <2>4. QED
    BY ONLY <2>1, <2>2, <2>3
<1>2. ASSUME NEW s \in T
      PROVE  /\ c[s] # Ones /\ EntryEnd(c, s) \in T \cup {e}
             /\ \A x \in T \cup {e} : x <= s \/ EntryEnd(c, s) <= x
  <2>1. CASE s = o
    BY <1>1, <2>1
  <2>2. CASE s # o
    <3>1. /\ b[s] # Ones /\ EntryEnd(b, s) \in T
          /\ \A x \in T : x <= s \/ EntryEnd(b, s) <= x
          /\ EntryEnd(b, s) >= s + 2
      BY <2>2 DEF Entries
    <3>2. s \in 0 .. o /\ s < o /\ EntryEnd(b, s) \in 0 .. o
      BY <1>1, <2>2, <3>1
    <3>3. s \in BlockIdx /\ s + 1 \in BlockIdx /\ s + 1 < o
      BY <3>1, <3>2, Layout DEF BlockIdx
    <3>4. c[s] = b[s] /\ c[s + 1] = b[s + 1]
      BY <3>2, <3>3
    <3>5. EntryEnd(c, s) = EntryEnd(b, s)
      BY <3>4 DEF EntryEnd
    <3>6. EntryEnd(b, s) <= e
      BY <3>2
    <3>7. QED
      BY <3>1, <3>4, <3>5, <3>6
  <2>3. QED
    BY <2>1, <2>2
<1>3. QED
  BY <1>1, <1>2 DEF LogOf, FreeFrom

\* Whatever an append leaves, if it is in its frame: the log is as before, or
\* one entry longer.
LEMMA Grows ==
    ASSUME TypeOK, NEW e \in 0 .. Window, NEW S, LogOf(blk, S, e),
           e = off \div 4, NEW w, w[1] \in Word, w[2] \in Word, w[3] \in Word,
           blk' = Programmed(w), InFrame(blk', off \div 4)
    PROVE  \E n \in e .. e + 3 : \E T \in SUBSET (0 .. n) :
             /\ n <= Window /\ LogOf(blk', T, n) /\ S \ {e} \subseteq T \ {n}
             /\ T \ {n} \subseteq (S \ {e}) \cup {e}
             /\ w[1] # Ones => e \in T \ {n} /\ n = EntryEnd(blk', e) /\ n < Window
<1>1. /\ e \in 0 .. Window - 1 /\ e \in BlockIdx
      /\ blk \in [BlockIdx -> Word] /\ blk' \in [BlockIdx -> Word]
      /\ blk'[e] = w[1]
      /\ \A i \in BlockIdx : i < e => blk'[i] = blk[i]
  BY ProgrammedWords DEF TypeOK
<1>2. PICK n \in e .. e + 3 :
        n < Window /\ FreeFrom(blk', n) /\ (n = e \/ (blk'[e] # Ones /\ n = EntryEnd(blk', e)))
  BY DEF InFrame
<1>3. S \subseteq 0 .. e /\ 0 \in S /\ e \in S /\ FreeFrom(blk, e)
  BY DEF LogOf
<1>4. CASE n = e
  <2>1. blk'[e] = Ones
    BY <1>1, <1>2, <1>4 DEF FreeFrom
  <2>2. \A i \in BlockIdx : i \in Int
    BY Layout DEF BlockIdx
  <2>3. ASSUME NEW i \in BlockIdx PROVE blk'[i] = blk[i]
    <3>1. i < e \/ i >= e
      BY <2>2, <1>1
    <3>2. i >= e => blk'[i] = Ones /\ blk[i] = Ones
      BY <1>2, <1>3, <1>4 DEF FreeFrom
    <3>3. QED
      BY <3>1, <3>2, <1>1
  <2>4. blk' = blk
    <3>1. blk = [i \in BlockIdx |-> blk[i]] /\ blk' = [i \in BlockIdx |-> blk'[i]]
      BY ONLY <1>1
    <3>2. QED
      BY ONLY <3>1, <2>3, Zenon
  <2>5. S \in SUBSET (0 .. e) /\ e <= Window /\ e \in e .. e + 3
    BY <1>1, <1>3, Layout
  <2>6. /\ e <= Window /\ LogOf(blk', S, e) /\ S \ {e} \subseteq S \ {e}
        /\ S \ {e} \subseteq (S \ {e}) \cup {e} /\ w[1] = Ones
    BY <1>1, <2>1, <2>4, <2>5
  <2>7. QED
    <3> USE ONLY <2>5, <2>6
    <3> WITNESS e \in e .. e + 3
    <3> WITNESS S \in SUBSET (0 .. e)
    <3> QED
      OBVIOUS
<1>5. CASE n # e
  <2>1. blk'[e] # Ones /\ n = EntryEnd(blk', e)
    BY <1>2, <1>5
  <2>2. n \in e + 2 .. Window
    <3>1. n <= Window /\ n \in Nat
      BY <1>1, <1>2, Layout
    <3>2. e + 2 <= EntryEnd(blk', e)
      BY ONLY <1>1, <2>1, <3>1, AfterEnd
    <3>3. QED
      BY <1>1, <2>1, <3>1, <3>2, Layout
  <2>3. Entries(blk, S, e)
    BY <1>3 DEF LogOf, Entries
  <2>4. \A s \in S \ {e} : EntryEnd(blk, s) >= s + 2
    BY <1>1, LogEntry
  <2>5. \A i \in BlockIdx : i >= n => blk'[i] = Ones
    BY <1>2 DEF FreeFrom
  <2>6. LogOf(blk', S \cup {n}, n)
    BY ONLY <1>1, <2>1, <2>2, <2>3, <2>4, <2>5, Extend
  <2>7. /\ e < n /\ \A x \in S : x \in 0 .. n /\ x # n
    BY <1>1, <1>3, <2>2, Layout
  <2>8. S \cup {n} \in SUBSET (0 .. n) /\ (S \cup {n}) \ {n} = S
    BY <1>1, <2>2, <2>7, Layout
  <2>9. S = (S \ {e}) \cup {e} /\ n < Window /\ n <= Window
    BY <1>2, <1>3, <2>2, Layout
  <2>10. QED
    BY <1>3, <2>1, <2>6, <2>8, <2>9
<1>6. QED
  BY <1>4, <1>5

\* An entry that is before the append says what it said.
LEMMA StillSays ==
    ASSUME TypeOK, NEW e \in 0 .. Window, NEW S, LogOf(blk, S, e),
           NEW s \in S \ {e}, \A i \in BlockIdx : i < e => blk'[i] = blk[i],
           EntryEnd(blk, s) = s + 3
    PROVE  /\ s < e /\ s + 3 <= e
           /\ blk'[s] = blk[s] /\ blk'[s + 2] = blk[s + 2] /\ EntryEnd(blk', s) = s + 3
<1>1. s \in 0 .. Window - 2 /\ s < e /\ EntryEnd(blk, s) \in s + 2 .. e
  BY LogEntry DEF TypeOK
<1>2. s + 3 <= e
  BY <1>1
<1>3. s \in BlockIdx /\ s + 1 \in BlockIdx /\ s + 2 \in BlockIdx
  BY <1>1, Layout DEF BlockIdx
<1>4. blk'[s] = blk[s] /\ blk'[s + 1] = blk[s + 1] /\ blk'[s + 2] = blk[s + 2]
  BY <1>1, <1>2, <1>3
<1>5. QED
  BY <1>1, <1>2, <1>4 DEF EntryEnd

\* An append that stays in its frame, whole or cut short, keeps the block a log
\* with everything that was saved, but for the setting whose tag it leaves.
LEMMA LogWritten ==
    ASSUME TypeOK, TypeOK', NEW e \in 0 .. Window, NEW S, LogState(S, e), pc = "write",
           NEW w, w[1] \in Word, w[2] \in Word, w[3] \in Word,
           blk' = Programmed(w), InFrame(blk', off \div 4),
           pc' = "parse", cur' = 0, count' = count + 1,
           \A t \in saved' \ torn' :
              \/ t \in saved \ torn /\ want'[t] = want[t] /\ t # w[1]
              \/ t = w[1] /\ want'[t] = w[3] /\ w[2] = 4
    PROVE  HoldsLog'
<1>1. LogOf(blk, S, e) /\ SavedIn(S, e) /\ Room(e) /\ e = off \div 4
  BY DEF LogState
<1>2. PICK n \in e .. e + 3 : \E T \in SUBSET (0 .. n) :
             /\ n <= Window /\ LogOf(blk', T, n) /\ S \ {e} \subseteq T \ {n}
             /\ T \ {n} \subseteq (S \ {e}) \cup {e}
             /\ w[1] # Ones => e \in T \ {n} /\ n = EntryEnd(blk', e) /\ n < Window
  BY <1>1, Grows
<1>3. PICK T \in SUBSET (0 .. n) :
             /\ n <= Window /\ LogOf(blk', T, n) /\ S \ {e} \subseteq T \ {n}
             /\ T \ {n} \subseteq (S \ {e}) \cup {e}
             /\ w[1] # Ones => e \in T \ {n} /\ n = EntryEnd(blk', e) /\ n < Window
  BY <1>2
<1>4. /\ e \in 0 .. Window - 1
      /\ blk'[e] = w[1] /\ blk'[e + 1] = w[2] /\ blk'[e + 2] = w[3]
      /\ \A i \in BlockIdx : i < e => blk'[i] = blk[i]
  BY <1>1, ProgrammedWords
<1>5. n \in 0 .. Window
  BY <1>3, <1>4, Layout
<1>6. Room(n)'
  <2>1. n <= 3 * count'
    BY ONLY <1>1, <1>4, <1>2, count' = count + 1, TypeOK DEF Room, TypeOK
  <2>2. QED
    BY <2>1 DEF Room
<1>7. ASSUME NEW t \in saved' \ torn'
      PROVE  \E s \in T \ {n} :
               /\ blk'[s] = t /\ blk'[s + 2] = want'[t]
               /\ EntryEnd(blk', s) = s + 3 /\ s + 3 < Window
               /\ \A x \in T \ {n} : x > s => blk'[x] # t
  <2>1. CASE t \in saved \ torn /\ want'[t] = want[t] /\ t # w[1]
    <3>1. PICK s \in S \ {e} :
            /\ blk[s] = t /\ blk[s + 2] = want[t]
            /\ EntryEnd(blk, s) = s + 3 /\ s + 3 < Window
            /\ \A x \in S \ {e} : x > s => blk[x] # t
      BY <1>1, <2>1 DEF SavedIn
    <3>2. blk'[s] = t /\ blk'[s + 2] = want'[t] /\ EntryEnd(blk', s) = s + 3
      BY <1>1, <1>4, <2>1, <3>1, StillSays
    <3>3. ASSUME NEW x \in T \ {n}, x > s PROVE blk'[x] # t
      <4>1. CASE x = e
        BY <1>4, <2>1, <4>1
      <4>2. CASE x # e
        <5>1. x \in S \ {e}
          BY <1>3, <4>2
        <5>2. x \in 0 .. Window - 2 /\ x < e
          <6>1. blk \in [BlockIdx -> Word] /\ LogOf(blk, S, e)
            BY <1>1 DEF TypeOK
          <6>2. QED
            BY ONLY <5>1, <6>1, e \in 0 .. Window, LogEntry
        <5>3. x \in BlockIdx
          BY <5>2, Layout DEF BlockIdx
        <5>4. blk'[x] = blk[x]
          BY <1>4, <5>2, <5>3
        <5>5. QED
          BY <3>1, <3>3, <5>1, <5>4
      <4>3. QED
        BY <4>1, <4>2
    <3>4. s \in T \ {n}
      BY <1>3, <3>1
    <3>5. QED
      BY <3>1, <3>2, <3>3, <3>4
  <2>2. CASE t = w[1] /\ want'[t] = w[3] /\ w[2] = 4
    <3>1. w[1] # Ones
      BY <2>2, WordAssumption DEF TypeOK
    <3>2. e \in T \ {n} /\ n = EntryEnd(blk', e) /\ n < Window
      BY <1>3, <3>1
    <3>3. RoundUp(4) = 4 /\ 4 \div 4 = 1
      BY Layout, RoundUpWord
    <3>4. EntryEnd(blk', e) = e + 3
      BY <1>4, <2>2, <3>3 DEF EntryEnd
    <3>5. \A x \in T \ {n} : ~(x > e)
      <4>1. \A x \in S \ {e} : x < e /\ x \in Int
        <5>1. blk \in [BlockIdx -> Word] /\ LogOf(blk, S, e)
          BY <1>1 DEF TypeOK
        <5>2. QED
          BY ONLY <5>1, e \in 0 .. Window, LogEntry
      <4>2. QED
        BY <1>3, <1>4, <4>1
    <3>6. QED
      BY <1>4, <2>2, <3>2, <3>4, <3>5
  <2>3. QED
    BY <2>1, <2>2
<1>8. SavedIn(T, n)'
  BY <1>7 DEF SavedIn, EntryEnd
<1>9. LogOf(blk, T, n)'
  BY <1>3 DEF LogOf, EntryEnd, FreeFrom
<1>10. cur' \div 4 \in T /\ ReadTo(T, cur \div 4)'
  <2>1. cur' \div 4 = 0 /\ 0 \in T
    BY <1>3 DEF LogOf
  <2>2. \A s \in T : ~(s < 0)
    OBVIOUS
  <2>3. QED
    BY <2>1, <2>2 DEF ReadTo
<1>11. LogState(T, n)'
  BY <1>6, <1>8, <1>9, <1>10 DEF LogState
<1>12. QED
  BY <1>3, <1>5, <1>11 DEF HoldsLog

\* At the end of a log an entry goes to flash as it should.
LEMMA WholeWords ==
    ASSUME TypeOK, NEW e \in 0 .. Window, NEW S, LogState(S, e), pc = "write",
           NEW o, o = off \div 4
    PROVE  Whole(o)[1] = ent[1] /\ Whole(o)[2] = 4 /\ Whole(o)[3] = ent[3]
<1>1. LogOf(blk, S, e) /\ e = o
  BY DEF LogState
<1>2. o \in 0 .. Window - 1
  BY Cursor DEF TypeOK
<1>3. o \in BlockIdx /\ o + 1 \in BlockIdx /\ o + 2 \in BlockIdx
  BY <1>2, Layout DEF BlockIdx
<1>4. blk[o] = Ones /\ blk[o + 1] = Ones /\ blk[o + 2] = Ones
  BY <1>1, <1>2, <1>3 DEF LogOf, FreeFrom
<1>5. QED
  BY <1>4, EntryWords, WordAssumption, Layout

\* The entry overruns the window only if there were enough of them before.
LEMMA WholeFits ==
    ASSUME TypeOK, NEW e \in 0 .. Window, NEW S, LogState(S, e), WriteEntry
    PROVE  InFrame(blk', off \div 4) \/ Capacity < count'
<1>1. LogOf(blk, S, e) /\ e <= 3 * count /\ pc = "write" /\ count' = count + 1 /\ count \in Nat
  BY DEF LogState, Room, WriteEntry, TypeOK
<1>2. e = off \div 4 /\ (e + 4 <= Window \/ Window <= e + 2)
  BY <1>1 DEF LogState
<1>3. e \in 0 .. Window - 1
  BY <1>2, Cursor DEF TypeOK
<1>4. CASE Window <= e + 2
  BY ONLY <1>1, <1>3, <1>4, CapacityWords, Layout
<1>5. CASE e + 4 <= Window
  <2>1. blk' = Programmed(Whole(e))
    BY <1>2 DEF WriteEntry, Whole
  <2>2. Whole(e)[1] = ent[1] /\ Whole(e)[2] = 4 /\ Whole(e)[3] = ent[3] /\ ent[1] # Ones
    BY <1>1, <1>2, WholeWords, EntryWords
  <2>3. /\ blk'[e] = ent[1] /\ blk'[e + 1] = 4
        /\ \A i \in BlockIdx : e + 2 < i => blk'[i] = blk[i]
    BY <1>2, <2>1, <2>2, EntryWords, ProgrammedWords
  <2>4. EntryEnd(blk', e) = e + 3
    <3>1. RoundUp(4) = 4 /\ 4 \div 4 = 1
      BY Layout, RoundUpWord
    <3>2. QED
      BY <1>3, <2>3, <3>1 DEF EntryEnd
  <2>5. FreeFrom(blk', e + 3)
    <3>1. FreeFrom(blk, e)
      BY <1>1 DEF LogOf
    <3>2. ASSUME NEW i \in BlockIdx, i >= e + 3 PROVE blk'[i] = Ones
      <4>1. i \in Int /\ i >= e /\ e + 2 < i
        BY <1>3, <3>2, Layout DEF BlockIdx
      <4>2. QED
        BY <2>3, <3>1, <4>1 DEF FreeFrom
    <3>3. QED
      BY <3>2 DEF FreeFrom
  <2>6. e + 3 \in e .. e + 3 /\ e + 3 < Window
    BY <1>3, <1>5, Layout
  <2>7. InFrame(blk', e)
    BY <2>2, <2>3, <2>4, <2>5, <2>6 DEF InFrame
  <2>8. QED
    BY <1>2, <2>7
<1>6. QED
  BY <1>2, <1>4, <1>5

\* A block that holds a log, or somebody else's data, after an append.
LEMMA EntryWritten ==
    ASSUME TypeOK, TypeOK', BlockInv, WriteEntry
    PROVE  spoilt' \/ HoldsLog'
<1>1. SUFFICES ASSUME ~spoilt' PROVE HoldsLog'
  OBVIOUS
<1>2. /\ pc = "write" /\ ~spoilt /\ InFrame(blk', off \div 4)
      /\ blk' = Programmed(Whole(off \div 4)) /\ pc' = "parse" /\ cur' = 0 /\ count' = count + 1
      /\ saved' = saved \cup {ent[1]} /\ torn' = torn \ {ent[1]}
      /\ want' = [want EXCEPT ![ent[1]] = ent[3]]
  BY <1>1 DEF WriteEntry, Whole
<1>3. PICK e \in 0 .. Window : \E S \in SUBSET (0 .. e) : LogState(S, e)
  BY <1>2 DEF BlockInv, HoldsLog, HoldsClosed, ClosedState
<1>4. PICK S \in SUBSET (0 .. e) : LogState(S, e)
  BY <1>3
<1> DEFINE w == Whole(off \div 4)
<1>5. w[1] = ent[1] /\ w[2] = 4 /\ w[3] = ent[3]
  BY <1>2, <1>4, WholeWords
<1>6. w[1] \in Word /\ w[2] \in Word /\ w[3] \in Word
  BY EntryWords
<1>7. ASSUME NEW t \in saved' \ torn'
      PROVE  \/ t \in saved \ torn /\ want'[t] = want[t] /\ t # w[1]
             \/ t = w[1] /\ want'[t] = w[3] /\ w[2] = 4
  BY <1>2, <1>5, EntryWords DEF TypeOK
<1>8. blk' = Programmed(w)
  BY <1>2
<1> HIDE DEF w
<1>9. QED
  BY <1>2, <1>4, <1>6, <1>7, <1>8, LogWritten

\* The same, of an append that was cut short.
LEMMA EntryTorn ==
    ASSUME TypeOK, TypeOK', BlockInv, PowerFailWriting
    PROVE  spoilt' \/ HoldsLog'
<1>1. SUFFICES ASSUME ~spoilt' PROVE HoldsLog'
  OBVIOUS
<1>2. PICK tag \in Part(blk[off \div 4], ent[1]), len \in Part(blk[off \div 4 + 1], ent[2]),
           data \in Part(blk[off \div 4 + 2], ent[3]) :
        /\ blk' = Programmed(<<tag, len, data>>)
        /\ torn' = torn \cup ({tag} \cap Tags)
        /\ spoilt' = (spoilt \/ ~InFrame(blk', off \div 4))
  BY DEF PowerFailWriting
<1>3. tag \in Word /\ len \in Word /\ data \in Word
  BY EntryWords, WordAssumption, Layout
<1>4. /\ pc = "write" /\ ~spoilt /\ InFrame(blk', off \div 4)
      /\ pc' = "parse" /\ cur' = 0 /\ count' = count + 1
      /\ saved' = saved /\ want' = want
  BY <1>1, <1>2 DEF PowerFailWriting, Restart
<1>5. PICK e \in 0 .. Window : \E S \in SUBSET (0 .. e) : LogState(S, e)
  BY <1>4 DEF BlockInv, HoldsLog, HoldsClosed, ClosedState
<1>6. PICK S \in SUBSET (0 .. e) : LogState(S, e)
  BY <1>5
<1> DEFINE w == <<tag, len, data>>
<1>7. w[1] = tag /\ w[1] \in Word /\ w[2] \in Word /\ w[3] \in Word /\ blk' = Programmed(w)
  BY <1>2, <1>3
<1>8. ASSUME NEW t \in saved' \ torn'
      PROVE  \/ t \in saved \ torn /\ want'[t] = want[t] /\ t # w[1]
             \/ t = w[1] /\ want'[t] = w[3] /\ w[2] = 4
  BY <1>2, <1>4, <1>7 DEF TypeOK
<1> HIDE DEF w
<1>9. QED
  BY <1>4, <1>6, <1>7, <1>8, LogWritten

-----------------------------------------------------------------------------
(* A block whose parse has no end.                                         *)

\* The parser reads it, finds no space and appends nothing.
LEMMA ClosedParse ==
    ASSUME TypeOK, NEW S \in SUBSET (0 .. Window - 1), ClosedState(S), Parse
    PROVE  ClosedState(S)'
<1> DEFINE c == cur \div 4
<1>1. /\ Closed(blk, S) /\ ~Alike(blk) /\ saved = {} /\ c \in S
      /\ Capacity < count /\ count' = count
  BY DEF ClosedState, Parse, ParseEnd, ParseEntry, ParseInvalid, ParseReturns, history
<1>2. blk[c] # Ones
  BY <1>1 DEF Closed
<1>3. ASSUME blk' = blk
      PROVE  Closed(blk, S)' /\ ~Alike(blk)'
  BY <1>1, <1>3 DEF Closed, Temp, Alike
<1>4. CASE ParseEnd
  BY <1>2, <1>4 DEF ParseEnd
<1>5. CASE ParseEntry
  <2>1. PICK len \in Temp(blk, c + 1) :
          AfterEntry(len) <= 4 * Window - 4 /\ cur' = AfterEntry(len)
    BY <1>5 DEF ParseEntry
  <2>2. 4 * c = cur
    BY Cursor DEF TypeOK
  <2>3. cur' \div 4 \in S
    BY <1>1, <2>1, <2>2 DEF Closed, AfterEntry
  <2>4. pc' = "parse" /\ blk' = blk /\ saved' = saved
    BY <1>5 DEF ParseEntry, history
  <2>5. QED
    BY <1>1, <1>3, <2>3, <2>4 DEF ClosedState
<1>6. CASE ParseInvalid
  <2>1. ParseReturns(NoSpace)
    BY <1>1, <1>6 DEF ParseInvalid, CheckEmpty
  <2>2. pc' = "idle" /\ blk' = blk /\ saved' = saved
    BY <2>1 DEF ParseReturns, history
  <2>3. QED
    BY <1>1, <1>3, <2>2 DEF ClosedState
<1>7. QED
  BY <1>4, <1>5, <1>6 DEF Parse

-----------------------------------------------------------------------------
(* The invariant of the block.                                             *)

\* Steps that leave the block alone and start a parse, from any state.
LEMMA StartsParse ==
    ASSUME TypeOK, BlockInv, blk' = blk, saved' = saved, torn' = torn, want' = want,
           pc' = "parse", cur' = 0, count' = count, spoilt' = spoilt
    PROVE  BlockInv'
<1>1. ASSUME NEW e \in 0 .. Window, NEW S \in SUBSET (0 .. e), LogState(S, e)
      PROVE  LogState(S, e)'
  <2>1. LogOf(blk, S, e) /\ SavedIn(S, e) /\ Room(e)' /\ 0 \in S
    BY <1>1 DEF LogState, LogOf, Room
  <2>2. LogOf(blk, S, e)'
    BY <2>1 DEF LogOf, EntryEnd, FreeFrom
  <2>3. SavedIn(S, e)'
    BY <2>1 DEF SavedIn, EntryEnd
  <2>4. cur' \div 4 = 0 /\ \A s \in S : ~(s < 0)
    OBVIOUS
  <2>5. ReadTo(S, cur \div 4)'
    BY <2>4 DEF ReadTo
  <2>6. QED
    BY <2>1, <2>2, <2>3, <2>4, <2>5 DEF LogState
<1>2. ASSUME NEW S \in SUBSET (0 .. Window - 1), ClosedState(S) PROVE ClosedState(S)'
  <2>1. Closed(blk, S) /\ ~Alike(blk) /\ 0 \in S
    BY <1>2 DEF ClosedState, Closed
  <2>2. Closed(blk, S)' /\ ~Alike(blk)'
    BY <2>1 DEF Closed, Temp, Alike
  <2>3. QED
    BY <1>2, <2>1, <2>2 DEF ClosedState
<1>3. QED
  BY <1>1, <1>2 DEF BlockInv, HoldsLog, HoldsClosed

\* An erased block holds the empty log.
LEMMA BlankIsLog ==
    LogOf(Blank, {0}, 0)
  BY Layout DEF LogOf, FreeFrom, Blank, BlockIdx

\* Every step keeps the block a log, or without an end, or spoils it.
LEMMA BlockInvKept ==
    ASSUME TypeOK, TypeOK', BlockInv, [Next]_vars
    PROVE  BlockInv'
<1>1. CASE Parse
  <2>1. spoilt' = spoilt
    BY <1>1 DEF Parse, ParseEnd, ParseEntry, ParseInvalid, ParseReturns, history
  <2>2. ASSUME NEW e \in 0 .. Window, NEW S \in SUBSET (0 .. e), LogState(S, e)
        PROVE  HoldsLog'
    <3>1. LogState(S, e)'
      BY <1>1, <2>2, LogParseEnd, LogParseEntry, LogParseInvalid DEF Parse
    <3>2. QED
      BY <3>1 DEF HoldsLog
  <2>3. ASSUME NEW S \in SUBSET (0 .. Window - 1), ClosedState(S) PROVE HoldsClosed'
    BY <1>1, <2>3, ClosedParse DEF HoldsClosed
  <2>4. QED
    BY <2>1, <2>2, <2>3 DEF BlockInv, HoldsLog, HoldsClosed
<1>2. CASE WriteEntry
  BY <1>2, EntryWritten DEF BlockInv
<1>3. ASSUME NEW t \in Tags, NEW v \in Values, AddBoardInfo(t, v)
      PROVE  BlockInv'
  BY <1>3, StartsParse DEF AddBoardInfo, history
<1>4. CASE TftpCmd \/ AutoBootCmd \/ BootAdrCmd
  BY <1>3, <1>4 DEF TftpCmd, AutoBootCmd, BootAdrCmd, Tags
<1>5. CASE TcpAccept
  <2>1. /\ pc = "idle" /\ pc' = "idle"
        /\ UNCHANGED <<blk, saved, torn, want, cur, off, count, spoilt>>
        /\ ram[TAG_TFTP_SRV] = 0 /\ \A t \in Tags : t # TAG_TFTP_SRV => ram'[t] = ram[t]
    BY <1>5 DEF TcpAccept, TypeOK, history
  <2>2. ASSUME NEW e \in 0 .. Window, NEW S \in SUBSET (0 .. e), LogState(S, e)
        PROVE  LogState(S, e)'
    <3>1. LogOf(blk, S, e)' /\ SavedIn(S, e)' /\ Room(e)'
      <4>1. /\ LogOf(blk, S, e) /\ SavedIn(S, e) /\ Room(e)
            /\ UNCHANGED <<blk, saved, torn, want, off, count>>
        BY <2>1, <2>2 DEF LogState
      <4>2. LogOf(blk, S, e)'
        BY ONLY <4>1 DEF LogOf, EntryEnd, FreeFrom
      <4>3. SavedIn(S, e)'
        BY ONLY <4>1 DEF SavedIn, EntryEnd
      <4>4. Room(e)'
        BY ONLY <4>1 DEF Room
      <4>5. QED
        BY <4>2, <4>3, <4>4
    <3>2. Loaded'
      BY <2>1, <2>2 DEF LogState, Loaded, TypeOK
    <3>3. QED
      BY <2>1, <3>1, <3>2 DEF LogState
  <2>3. ASSUME NEW S \in SUBSET (0 .. Window - 1), ClosedState(S) PROVE ClosedState(S)'
    <3>1. Closed(blk, S)' /\ ~Alike(blk)'
      BY <2>1, <2>3 DEF ClosedState, Closed, Temp, Alike
    <3>2. QED
      BY <2>1, <2>3, <3>1 DEF ClosedState
  <2>4. QED
    BY <2>1, <2>2, <2>3 DEF BlockInv, HoldsLog, HoldsClosed
<1>6. CASE EraseBlock
  <2>1. pc' = "idle" /\ blk' = Blank /\ saved' = {} /\ count' = 0
    BY <1>6 DEF EraseBlock, Forgotten
  <2>2. LogOf(blk, {0}, 0)'
    BY <2>1, BlankIsLog DEF LogOf, EntryEnd, FreeFrom
  <2>3. LogState({0}, 0)'
    BY <2>1, <2>2 DEF LogState, SavedIn, Loaded, Room
  <2>4. QED
    BY <2>3, Layout DEF BlockInv, HoldsLog
<1>7. CASE PowerFail
  BY <1>7, StartsParse DEF PowerFail, Restart, history
<1>8. CASE PowerFailWriting
  BY <1>8, EntryTorn DEF BlockInv
<1>9. CASE PowerFailErasing
  BY <1>9 DEF PowerFailErasing, BlockInv
<1>10. CASE UNCHANGED vars
  <2>1. (HoldsLog' <=> HoldsLog) /\ (HoldsClosed' <=> HoldsClosed)
    <3>1. HoldsLog' <=> HoldsLog
      BY <1>10 DEF vars, history, HoldsLog, LogState, LogOf, FreeFrom, EntryEnd, SavedIn,
                   ReadTo, Loaded, Room
    <3>2. HoldsClosed' <=> HoldsClosed
      BY <1>10 DEF vars, history, HoldsClosed, ClosedState, Closed, Temp, Alike
    <3>3. QED
      BY <3>1, <3>2
  <2>2. QED
    BY <1>10, <2>1 DEF BlockInv, vars, history
<1>11. QED
  BY <1>1, <1>2, <1>4, <1>5, <1>6, <1>7, <1>8, <1>9, <1>10 DEF Next, PowerFails
-----------------------------------------------------------------------------
(* The theorems.                                                           *)

\* A block that is not taken for spoilt has one of the two shapes at first.
LEMMA BlockInvInit ==
    ASSUME Init
    PROVE  BlockInv
<1>1. /\ saved = {} /\ pc = "parse" /\ cur = 0
      /\ cur \div 4 = 0
  BY DEF Init
<1>2. count = IF blk = Blank THEN 0 ELSE Capacity + 1
  BY DEF Init
<1>3. ASSUME NEW e \in 0 .. Window, NEW S \in SUBSET (0 .. e), LogOf(blk, S, e)
      PROVE  LogState(S, e)
  <2>1. 0 \in S /\ \A s \in S : ~(s < 0)
    BY <1>3 DEF LogOf
  <2>2. ReadTo(S, cur \div 4)
    BY <1>1, <2>1 DEF ReadTo
  <2>3. e <= 3 * count
    <3>1. CASE blk = Blank
      <4>1. 0 \in BlockIdx /\ Blank[0] = Ones
        BY Layout DEF Blank, BlockIdx
      <4>2. e = 0
        BY <1>3, <3>1, <4>1 DEF LogOf
      <4>3. QED
        BY <1>2, <3>1, <4>2
    <3>2. CASE blk # Blank
      BY <1>2, <3>2, CapacityWords, Layout
    <3>3. QED
      BY <3>1, <3>2
  <2>4. QED
    BY <1>1, <1>3, <2>1, <2>2, <2>3 DEF LogState, SavedIn, Room
<1>4. ASSUME NEW S \in SUBSET (0 .. Window - 1), Closed(blk, S), ~Alike(blk)
      PROVE  ClosedState(S)
  <2>1. blk # Blank
    <3>1. PageWords \in Nat \ {0} /\ \A i \in BlockIdx : Blank[i] = Ones
      BY Layout DEF Blank
    <3>2. ASSUME NEW i \in BlockIdx PROVE PageWords + (i % PageWords) \in BlockIdx
      <4>1. i % PageWords \in 0 .. PageWords - 1 /\ 2 * PageWords <= BlockWords
        BY <3>1, DivMod, LayoutAssumption DEF BlockIdx
      <4>2. QED
        BY <3>1, <4>1, Layout DEF BlockIdx
    <3>3. Alike(Blank)
      BY <3>1, <3>2 DEF Alike
    <3>4. QED
      BY <1>4, <3>3
  <2>2. Capacity < count
    BY <1>2, <2>1, CapacityWords
  <2>3. QED
    BY <1>1, <1>4, <2>2 DEF ClosedState, Closed
<1>5. spoilt \/ IsLog(blk) \/ IsForeign(blk)
  BY DEF Init
<1>6. QED
  BY <1>3, <1>4, <1>5 DEF BlockInv, HoldsLog, HoldsClosed, IsLog, IsForeign

\* Until it is spoilt the block is an extension of what was saved, or it has no
\* end that an append could go to.
LEMMA BlockInvHolds == Spec => []BlockInv
<1>1. Init => BlockInv
  BY BlockInvInit
<1>2. TypeOK /\ TypeOK' /\ BlockInv /\ [Next]_vars => BlockInv'
  BY BlockInvKept
<1>3. QED
  BY <1>1, <1>2, TypeCorrect, PTL DEF Spec

\* Whichever commands are given and whenever power fails, again and again, and
\* whatever it leaves of an append: after any boot or command each setting that
\* was completely saved has the value last saved, until the block is spoilt; a
\* torn entry costs the one setting that its tag reads as (main.c:1319-1414).
THEOREM DurableHolds == Spec => []Durable
<1>1. BlockInv => Durable
  <2> SUFFICES ASSUME BlockInv, pc = "idle", ~spoilt PROVE Loaded
    BY DEF Durable, Loaded
  <2>1. ASSUME NEW e, NEW S, LogState(S, e) PROVE Loaded
    BY <2>1 DEF LogState
  <2>2. ASSUME NEW S, ClosedState(S) PROVE Loaded
    BY <2>2 DEF ClosedState, Loaded
  <2>3. QED
    BY <2>1, <2>2 DEF BlockInv, HoldsLog, HoldsClosed
<1>2. QED
  BY <1>1, BlockInvHolds, PTL

\* An append, cut short or not, leaves alone every word that is not free.
LEMMA WriteKeeps ==
    ASSUME TypeOK, BlockInv, ~spoilt, WriteEntry \/ PowerFailWriting
    PROVE  \A i \in BlockIdx : blk[i] # Ones => blk'[i] = blk[i]
<1> DEFINE o == off \div 4
<1>1. PICK w : w[1] \in Word /\ w[2] \in Word /\ w[3] \in Word /\ blk' = Programmed(w)
  <2>1. CASE WriteEntry
    <3>1. blk' = Programmed(Whole(o))
      BY <2>1 DEF WriteEntry, Whole
    <3>2. QED
      BY <3>1, EntryWords
  <2>2. CASE PowerFailWriting
    <3>1. PICK tag \in Part(blk[o], ent[1]), len \in Part(blk[o + 1], ent[2]),
               data \in Part(blk[o + 2], ent[3]) : blk' = Programmed(<<tag, len, data>>)
      BY <2>2 DEF PowerFailWriting
    <3>2. tag \in Word /\ len \in Word /\ data \in Word
      BY EntryWords, WordAssumption, Layout
    <3> DEFINE v == <<tag, len, data>>
    <3>3. v[1] \in Word /\ v[2] \in Word /\ v[3] \in Word /\ blk' = Programmed(v)
      BY <3>1, <3>2
    <3> HIDE DEF v
    <3>4. QED
      BY <3>3
  <2>3. QED
    BY <2>1, <2>2
<1>2. o \in 0 .. Window - 1 /\ \A i \in BlockIdx : i < o \/ o + 2 < i => blk'[i] = blk[i]
  BY <1>1, ProgrammedWords
<1>3. PICK e \in 0 .. Window : \E S \in SUBSET (0 .. e) : LogState(S, e)
  BY DEF BlockInv, HoldsLog, HoldsClosed, ClosedState, WriteEntry, PowerFailWriting
<1>4. e = o /\ FreeFrom(blk, e)
  BY <1>3 DEF LogState, LogOf, WriteEntry, PowerFailWriting
<1> HIDE DEF o
<1>5. ASSUME NEW i \in BlockIdx, blk[i] # Ones PROVE blk'[i] = blk[i]
  <2>1. i \in Int /\ ~(i >= o)
    BY <1>4, <1>5, Layout DEF FreeFrom, BlockIdx
  <2>2. QED
    BY <1>2, <2>1
<1>6. QED
  BY <1>5

\* Nothing in the block but free words is ever programmed, torn entries and the
\* append that overruns the window included, until the block is spoilt
\* (main.c:1371-1411).
THEOREM AppendOnlyHolds == Spec => AppendOnly
<1>1. TypeOK /\ BlockInv /\ [Next]_vars =>
        [pc = "write" /\ ~spoilt =>
            \A i \in BlockIdx : blk[i] # Ones => blk'[i] = blk[i]]_vars
  <2> SUFFICES ASSUME TypeOK, BlockInv, Next, pc = "write", ~spoilt
               PROVE  \A i \in BlockIdx : blk[i] # Ones => blk'[i] = blk[i]
    OBVIOUS
  <2>1. CASE WriteEntry \/ PowerFailWriting
    BY <2>1, WriteKeeps
  <2>2. CASE PowerFail
    BY <2>2 DEF PowerFail
  <2>3. QED
    BY <2>1, <2>2 DEF Next, Parse, ParseEnd, ParseEntry, ParseInvalid, TftpCmd, AutoBootCmd,
       BootAdrCmd, AddBoardInfo, TcpAccept, EraseBlock, PowerFails, PowerFailErasing
<1>2. QED
  BY <1>1, BlockInvHolds, TypeCorrect, PTL DEF Spec, AppendOnly

\* What was in the block when power was first applied, or since the user erased
\* it, stays: "To prevent clobbering user data Pano_ldr will not save its data
\* unless valid pano_ldr data is is detected in the block or the block is empty"
\* (README.md:320-322), for the blocks it tells apart and until an append or a
\* power failure spoils the block.
THEOREM UserDataKeptHolds == Spec => [](~spoilt => UserDataKept)
<1>1. Init => (~spoilt => UserDataKept)
  BY DEF Init, UserDataKept
<1>2. TypeOK /\ BlockInv /\ (~spoilt => UserDataKept) /\ [Next]_vars
        => (~spoilt => UserDataKept)'
  <2> SUFFICES ASSUME TypeOK, BlockInv, ~spoilt => UserDataKept, [Next]_vars, ~spoilt'
               PROVE  UserDataKept'
    OBVIOUS
  <2>1. CASE EraseBlock
    BY <2>1 DEF EraseBlock, Forgotten, UserDataKept
  <2>2. CASE WriteEntry \/ PowerFailWriting
    <3>1. ~spoilt /\ blk0' = blk0
      BY <2>2 DEF WriteEntry, PowerFailWriting
    <3>2. QED
      BY <2>2, <3>1, WriteKeeps DEF UserDataKept
  <2>3. CASE PowerFailErasing
    BY <2>3 DEF PowerFailErasing
  <2>4. CASE UNCHANGED <<blk, blk0, spoilt>>
    BY <2>4 DEF UserDataKept
  <2>5. QED
    <3>1. CASE Parse
      BY <2>4, <3>1 DEF Parse, ParseEnd, ParseEntry, ParseInvalid, ParseReturns, history
    <3>2. CASE TftpCmd \/ AutoBootCmd \/ BootAdrCmd
      BY <2>4, <3>2 DEF TftpCmd, AutoBootCmd, BootAdrCmd, AddBoardInfo, history
    <3>3. CASE TcpAccept \/ PowerFail
      BY <2>4, <3>3 DEF TcpAccept, PowerFail, history
    <3>4. CASE UNCHANGED vars
      BY <2>4, <3>4 DEF vars, history
    <3>5. QED
      BY <2>1, <2>2, <2>3, <3>1, <3>2, <3>3, <3>4 DEF Next, PowerFails
<1>3. QED
  BY <1>1, <1>2, BlockInvHolds, TypeCorrect, PTL DEF Spec

-----------------------------------------------------------------------------
(* The log implements Settings.                                            *)

\* The check of the room left turns down an entry in one case only; if there are
\* fewer words left than it has, the difference wraps.
LEMMA TurnedDown ==
    ASSUME NEW o \in 0 .. Window - 1, ~Fits(4 * o)
    PROVE  o = Window - 3
<1> DEFINE room == 4 * Window - 4 * o - 12
<1>1. /\ room \in Int /\ room >= -8 /\ room < WordMod /\ room = 4 * (Window - o - 3)
      /\ WordMod \in Nat \ {0} /\ 12 < WordMod
  BY Layout
<1>2. ~(room % WordMod >= 4)
  BY DEF Fits
<1> HIDE DEF room
<1>3. CASE room < 0
  <2>1. room = WordMod * (-1) + (room + WordMod) /\ room + WordMod \in Nat
        /\ room + WordMod < WordMod /\ -1 \in Int
    BY <1>1, <1>3
  <2>2. room % WordMod = room + WordMod
    BY ONLY <1>1, <2>1, ModUnique
  <2>3. QED
    BY <1>1, <1>2, <2>2
<1>4. CASE room >= 0
  <2>1. room \in 0 .. 2 * WordMod - 1
    BY <1>1, <1>4
  <2>2. room % WordMod = room
    BY ONLY <1>1, <2>1, ModOnce
  <2>3. room < 4 /\ Window - o - 3 \in Int
    BY <1>1, <1>2, <2>2, Layout
  <2>4. QED
    BY ONLY <1>1, <1>4, <2>3, Layout
<1>5. QED
  BY <1>1, <1>3, <1>4

\* An append is dropped only when there were as many as there is room for.
LEMMA DroppedLate ==
    ASSUME TypeOK, BlockInv, ~spoilt, ParseEnd \/ ParseInvalid, why = "add", pc' = "idle"
    PROVE  Capacity <= count
<1>1. count \in Nat /\ Capacity \in Nat
  BY CapacityWords DEF TypeOK
<1>2. ASSUME NEW e \in 0 .. Window, NEW S, LogState(S, e) PROVE Capacity <= count
  <2>1. e <= 3 * count
    BY <1>2 DEF LogState, Room
  <2>2. e = Window \/ e = Window - 3
    <3>1. CASE ParseEnd
      <4> DEFINE c == cur \div 4
      <4>1. c \in S /\ blk[c] = Ones /\ LogOf(blk, S, e)
        BY <1>2, <3>1 DEF LogState, ParseEnd
      <4>2. c = e
        BY <4>1 DEF LogOf
      <4>3. c \in 0 .. Window - 1 /\ 4 * c = cur
        BY Cursor DEF TypeOK
      <4>4. ~Fits(cur)
        BY <3>1, <4>3, Layout DEF ParseEnd, ParseReturns, NoSpace, TypeOK
      <4> HIDE DEF c
      <4>5. QED
        BY <4>2, <4>3, <4>4, TurnedDown
    <3>2. CASE ParseInvalid
      BY <1>2, <3>2, LogParseInvalid
    <3>3. QED
      BY <3>1, <3>2
  <2>3. QED
    BY ONLY <1>1, <2>1, <2>2, CapacityWords, Layout
<1>3. ASSUME NEW S, ClosedState(S) PROVE Capacity <= count
  BY <1>1, <1>3 DEF ClosedState
<1>4. QED
  BY <1>1, <1>2, <1>3 DEF BlockInv, HoldsLog, HoldsClosed

\* Only AddBoardInfo writes.
Asked == pc = "write" => why = "add"

LEMMA AskedHolds == Spec => []Asked
<1>1. Init => Asked
  BY DEF Init, Asked
<1>2. Asked /\ [Next]_vars => Asked'
  BY DEF Asked, Next, Parse, ParseEnd, ParseEntry, ParseInvalid, ParseReturns, WriteEntry,
         TftpCmd, AutoBootCmd, BootAdrCmd, AddBoardInfo, TcpAccept, EraseBlock,
         PowerFails, PowerFail, PowerFailWriting, PowerFailErasing, Restart, vars
<1>3. QED
  BY <1>1, <1>2, PTL DEF Spec

\* What Settings calls sure and saving, by the block's variables.
Sure == IF spoilt THEN {} ELSE saved \ torn
Saving == IF why = "add" THEN {<<ent[1], ent[3]>>} ELSE {}

\* The return of ParseDataBlock goes unnoticed if an append follows, and ends
\* the boot or the command if not.
LEMMA ReturnImplements ==
    ASSUME TypeOK, BlockInv, Durable', ParseEnd \/ ParseInvalid
    PROVE  Kept!Finish \/ UNCHANGED Kept!settings
<1>1. PICK free : ParseReturns(free)
  BY DEF ParseEnd, ParseInvalid
<1>2. /\ UNCHANGED <<blk, want, saved, torn, ram, count, spoilt>>
      /\ Sure' = Sure /\ pc = "parse"
  BY <1>1 DEF ParseEnd, ParseInvalid, ParseReturns, history, Sure
<1>3. CASE pc' = "write" /\ UNCHANGED <<why, ent>>
  <2>1. Saving' = Saving /\ (pc = "idle")' = (pc = "idle")
    BY <1>2, <1>3 DEF Saving
  <2>2. QED
    BY <1>2, <2>1 DEF Kept!settings, Sure, Saving
<1>4. CASE pc' = "idle" /\ why' = "boot"
  <2>1. \A t \in Sure : ram[t] = want[t] \/ (t = TAG_TFTP_SRV /\ want[t] = 0)
    BY <1>2, <1>4 DEF Durable, Loaded, Sure
  <2>2. Saving' = {} /\ (Saving = {} \/ spoilt \/ Capacity <= count)
    BY <1>4, DroppedLate DEF Saving
  <2>3. QED
    BY <1>2, <1>4, <2>1, <2>2 DEF Kept!Finish, Kept!Honours, Sure, Saving
<1>5. QED
  BY <1>3, <1>4, <1>1 DEF ParseReturns

\* The write of an entry is the save, at one moment.
LEMMA WriteImplements ==
    ASSUME TypeOK, BlockInv, Asked, WriteEntry
    PROVE  Kept!Commit(ent[1], ent[3]) /\ Saving = {<<ent[1], ent[3]>>}
<1>1. /\ pc = "write" /\ why = "add" /\ ram' = ram /\ count' = count + 1
      /\ pc' = "parse" /\ why' = "reload" /\ torn' = torn \ {ent[1]}
      /\ saved' = saved \cup {ent[1]} /\ want' = [want EXCEPT ![ent[1]] = ent[3]]
      /\ spoilt' = (spoilt \/ ~InFrame(blk', off \div 4))
  BY DEF WriteEntry, Asked
<1>2. spoilt' => spoilt \/ Capacity < count'
  <2>1. ASSUME ~spoilt, spoilt' PROVE Capacity < count'
    <3>1. PICK e \in 0 .. Window : \E S \in SUBSET (0 .. e) : LogState(S, e)
      BY <1>1, <2>1 DEF BlockInv, HoldsLog, HoldsClosed, ClosedState
    <3>2. InFrame(blk', off \div 4) \/ Capacity < count'
      BY <3>1, WholeFits
    <3>3. QED
      BY <1>1, <2>1, <3>2
  <2>2. QED
    BY <2>1
<1>3. spoilt' \in BOOLEAN /\ (spoilt => spoilt')
  BY <1>1 DEF TypeOK
<1>4. Sure' = IF spoilt' THEN {} ELSE Sure \cup {ent[1]}
  BY <1>1, <1>3 DEF Sure
<1>5. Saving' = {} /\ Saving = {<<ent[1], ent[3]>>}
  BY <1>1 DEF Saving
<1>6. (pc = "idle")' = (pc = "idle")
  BY <1>1
<1>7. QED
  BY <1>1, <1>2, <1>3, <1>4, <1>5, <1>6 DEF Kept!Commit, Sure, Saving

\* An append that is cut short costs one setting, or the whole promise.
LEMMA TearImplements ==
    ASSUME TypeOK, Asked, PowerFailWriting
    PROVE  Kept!PowerFailSaving
<1>1. /\ pc = "write" /\ why = "add" /\ count' = count + 1
      /\ ram' = BootValues /\ pc' = "parse" /\ why' = "boot"
      /\ saved' = saved /\ want' = want
  BY DEF PowerFailWriting, Restart, Asked
<1>2. PICK tag :
        /\ torn' = torn \cup ({tag} \cap Tags)
        /\ spoilt' = (spoilt \/ ~InFrame(blk', off \div 4))
  BY DEF PowerFailWriting
<1>3. spoilt' \in BOOLEAN /\ (spoilt => spoilt')
  BY <1>2 DEF TypeOK
<1>4. Saving # {} /\ Saving' = {}
  BY <1>1 DEF Saving
<1> DEFINE lost == {tag} \cap Tags
<1>5. lost \in {{}} \cup {{s} : s \in Tags}
  BY Zenon
<1>6. Sure' = IF spoilt' THEN {} ELSE Sure \ lost
  BY <1>1, <1>2, <1>3 DEF Sure
<1> HIDE DEF lost
<1>7. \E l \in {{}} \cup {{s} : s \in Tags} : Sure' = IF spoilt' THEN {} ELSE Sure \ l
  BY <1>5, <1>6
<1>8. (pc = "idle")' = FALSE
  BY <1>1
<1>9. QED
  BY <1>1, <1>3, <1>4, <1>7, <1>8 DEF Kept!PowerFailSaving, Kept!Restart, Sure, Saving

\* Every step is one of Settings', or none.
LEMMA StepImplements ==
    ASSUME TypeOK, BlockInv, Asked, TypeOK', Durable', [Next]_vars
    PROVE  [Kept!Next]_(Kept!settings)
<1>1. CASE ParseEnd \/ ParseInvalid
  BY <1>1, ReturnImplements DEF Kept!Next
<1>2. CASE ParseEntry
  <2>1. /\ pc = "parse" /\ ram' \in [Tags -> Word]
        /\ UNCHANGED <<blk, pc, why, ent, want, saved, torn, count, spoilt>>
    BY <1>2 DEF ParseEntry, TypeOK, history
  <2>2. Sure' = Sure /\ Saving' = Saving
    BY <2>1 DEF Sure, Saving
  <2>3. Kept!Load
    BY <2>1, <2>2 DEF Kept!Load, Sure, Saving
  <2>4. QED
    BY <2>3 DEF Kept!Next
<1>3. CASE WriteEntry
  <2>1. Saving = {<<ent[1], ent[3]>>} /\ Kept!Commit(ent[1], ent[3])
    BY <1>3, WriteImplements
  <2>2. \E save \in Saving : Kept!Commit(save[1], save[2])
    BY <2>1
  <2>3. QED
    BY <2>2 DEF Kept!Next, Saving
<1>4. ASSUME NEW t \in Tags, NEW v \in Values, AddBoardInfo(t, v)
      PROVE  Kept!Next
  <2>1. /\ pc = "idle" /\ pc' = "parse" /\ why' = "add" /\ ent' = <<t, 4, v>>
        /\ UNCHANGED <<blk, ram, want, saved, torn, count, spoilt>>
    BY <1>4 DEF AddBoardInfo, history
  <2>2. Sure' = Sure /\ Saving' = {<<t, v>>}
    BY <2>1 DEF Sure, Saving
  <2>3. Kept!Save(t, v)
    BY <2>1, <2>2 DEF Kept!Save, Sure, Saving
  <2>4. v \in Word
    BY WordAssumption
  <2>5. QED
    BY <2>3, <2>4 DEF Kept!Next
<1>5. CASE TftpCmd \/ AutoBootCmd \/ BootAdrCmd
  BY <1>4, <1>5 DEF TftpCmd, AutoBootCmd, BootAdrCmd, Tags
<1>6. CASE TcpAccept
  <2>1. /\ pc = "idle" /\ ram[TAG_TFTP_SRV] = 0
        /\ \E ip \in Peers : ram' = [ram EXCEPT ![TAG_TFTP_SRV] = ip]
        /\ UNCHANGED <<blk, pc, why, ent, want, saved, torn, count, spoilt>>
    BY <1>6 DEF TcpAccept, history
  <2>2. Sure' = Sure /\ Saving' = Saving
    BY <2>1 DEF Sure, Saving
  <2>3. Kept!Lend
    BY <2>1, <2>2 DEF Kept!Lend, Sure, Saving
  <2>4. QED
    BY <2>3 DEF Kept!Next
<1>7. CASE EraseBlock
  <2>1. /\ pc = "idle" /\ want' = BootValues /\ saved' = {}
        /\ count' = 0 /\ spoilt' = FALSE /\ UNCHANGED <<ram, pc, why, ent>>
    BY <1>7 DEF EraseBlock, Forgotten
  <2>2. Sure' = {} /\ Saving' = Saving
    BY <2>1 DEF Sure, Saving
  <2>3. Kept!Erase
    BY <2>1, <2>2 DEF Kept!Erase, Sure, Saving
  <2>4. QED
    BY <2>3 DEF Kept!Next
<1>8. CASE PowerFail
  <2>1. /\ ram' = BootValues /\ pc' = "parse" /\ why' = "boot"
        /\ UNCHANGED <<blk, want, saved, torn, count, spoilt>>
    BY <1>8 DEF PowerFail, Restart, history
  <2>2. Sure' = Sure /\ Saving' = {}
    BY <2>1 DEF Sure, Saving
  <2>3. Kept!PowerFail
    BY <2>1, <2>2 DEF Kept!PowerFail, Kept!Restart, Sure, Saving
  <2>4. QED
    BY <2>3 DEF Kept!Next
<1>9. CASE PowerFailWriting
  BY <1>9, TearImplements DEF Kept!Next
<1>10. CASE PowerFailErasing
  <2>1. /\ pc = "idle" /\ ram' = BootValues /\ pc' = "parse" /\ why' = "boot"
        /\ want' = BootValues /\ saved' = {} /\ count' = 0 /\ spoilt' = TRUE
    BY <1>10 DEF PowerFailErasing, Forgotten, Restart
  <2>2. Sure' = {} /\ Saving' = {}
    BY <2>1 DEF Sure, Saving
  <2>3. Kept!PowerFailErasing
    BY <2>1, <2>2 DEF Kept!PowerFailErasing, Kept!Restart, Sure, Saving
  <2>4. QED
    BY <2>3 DEF Kept!Next
<1>11. CASE UNCHANGED vars
  <2>1. UNCHANGED <<blk, ram, pc, why, ent, want, saved, torn, count, spoilt>>
    BY <1>11 DEF vars, history
  <2>2. Sure' = Sure /\ Saving' = Saving
    BY <2>1 DEF Sure, Saving
  <2>3. QED
    BY <2>1, <2>2 DEF Kept!settings, Sure, Saving
<1>12. QED
  BY <1>1, <1>2, <1>3, <1>5, <1>6, <1>7, <1>8, <1>9, <1>10, <1>11 DEF Next, Parse, PowerFails

\* The words of the log add up to saves that take effect at one moment each,
\* whatever the order of commands, connections, erasures and power failures and
\* whatever these leave of an append or of an erasure (main.c:1319-1414).
THEOREM Refinement == Spec => Implements
<1>1. Init => Kept!Init
  <2> SUFFICES ASSUME Init PROVE Kept!Init
    OBVIOUS
  <2>1. want = BootValues /\ ram = BootValues /\ pc = "parse" /\ why = "boot" /\ saved = {}
        /\ count \in Nat /\ spoilt \in BOOLEAN
    BY CapacityWords DEF Init
  <2>2. Sure = {} /\ Saving = {}
    BY <2>1 DEF Sure, Saving
  <2>3. QED
    BY <2>1, <2>2 DEF Kept!Init, Sure, Saving
<1>2. TypeOK /\ BlockInv /\ Asked /\ TypeOK' /\ Durable' /\ [Next]_vars
        => [Kept!Next]_(Kept!settings)
  BY StepImplements
<1>3. QED
  BY <1>1, <1>2, TypeCorrect, BlockInvHolds, AskedHolds, DurableHolds, PTL
     DEF Spec, Implements, Kept!Spec

=============================================================================
