------------------------------ MODULE DataBlock ------------------------------
(***************************************************************************)
(* Pano_ldr's settings (tftp server, autoboot mode, boot address) in the   *)
(* last erase block of flash: ParseDataBlock, AddBoardInfo and CheckEmpty  *)
(* of fw/pano_ldr/main.c, and the commands that call them.                 *)
(*                                                                         *)
(* The block is a log of 32-bit words, <tag> <length> <data> ..., that is  *)
(* only appended to; a word that reads all ones is free space.  A setting  *)
(* reaches RAM by parsing the log, at boot and again after every append.   *)
(*                                                                         *)
(* An append is one spi_write.  Power may fail at any moment: within the    *)
(* append, which then leaves in each of its words any mixture of the bits   *)
(* that were to be cleared, or within an erasure, which leaves anything.    *)
(* A tag so torn may read as another setting's, a torn length as any other. *)
(***************************************************************************)
EXTENDS Integers, FiniteSets

CONSTANTS
    WordMod,      \* 2^32: words, lengths and addresses wrap here
    Window,       \* words of the block that gTemp holds (256)
    PageWords,    \* words in a flash page
    BlockWords,   \* words in an erase block
    BitAnd(_, _), \* bitwise and: what programming a word leaves in it
    Part(_, _),   \* what a word may be when programming it is cut short
    Leftovers,    \* what the block may be when its erasure is cut short
    TAG_AUTO_BOOT, TAG_AUTO_BOOT_ADR, TAG_TFTP_SRV,
    GOLDEN_IMAGE_ADR,
    Values,       \* values a user may give a setting
    Peers,        \* IP addresses a telnet connection may come from
    AfterTemp,    \* what the memory after gTemp may hold
    Images,       \* what the block may hold when power is first applied
    MaxTears      \* bound on the writes and erasures that power cuts short

Word == 0 .. WordMod - 1
Ones == WordMod - 1
Tags == {TAG_AUTO_BOOT, TAG_AUTO_BOOT_ADR, TAG_TFTP_SRV}
BlockIdx == 0 .. BlockWords - 1
Blank == [i \in BlockIdx |-> Ones]

ASSUME LayoutAssumption ==
    /\ WordMod \in Nat /\ WordMod % 4 = 0
    /\ Window \in Nat /\ BlockWords \in Nat /\ PageWords \in Nat \ {0}
    /\ 2 * PageWords <= Window /\ Window + 2 + PageWords <= BlockWords
    /\ BlockWords % PageWords = 0
    /\ 4 * BlockWords + 16 < WordMod

ASSUME WordAssumption ==
    /\ Tags \subseteq Word \ {Ones} /\ Cardinality(Tags) = 3
    /\ GOLDEN_IMAGE_ADR \in Word
    /\ Values \subseteq Word /\ Peers \subseteq Word \ {0}
    /\ AfterTemp \subseteq Word
    /\ Images \subseteq [BlockIdx -> Word] /\ Leftovers \subseteq [BlockIdx -> Word]
    /\ MaxTears \in Nat
    /\ \A x \in Word : BitAnd(Ones, x) = x
    /\ \A x, y \in Word : BitAnd(x, y) \in Word /\ Part(x, y) \subseteq Word

\* No free word: ParseDataBlock returned 0.
NoSpace == -1

VARIABLES
    blk,    \* the erase block
    blk0,   \* what it held at first (history)
    ram,    \* gAutoBoot, gAutoBootAdr and gTftp.ServerIP, by tag
    pc,     \* "parse", "write" or "idle"
    why,    \* who called ParseDataBlock: "boot", "add" or "reload"
    cur,    \* pU32 - gTemp, in bytes
    ent,    \* the entry AddBoardInfo appends: its three words
    off,    \* where, in bytes
    want,   \* last value completely saved for each setting (history)
    saved,  \* the settings that have one (history)
    torn,   \* those whose tag an append that was cut short left (history)
    count,  \* the appends begun since the user erased the block (history)
    spoilt, \* the block may no longer be framed as it should be (history)
    tears   \* the writes and erasures cut short (bounded by MaxTears)

history == <<blk0, want, saved, torn, count, spoilt, tears>>
vars == <<blk, ram, pc, why, cur, ent, off, history>>

TypeOK ==
    /\ blk \in [BlockIdx -> Word] /\ blk0 \in [BlockIdx -> Word]
    /\ ram \in [Tags -> Word] /\ want \in [Tags -> Word]
    /\ pc \in {"parse", "write", "idle"}
    /\ why \in {"boot", "add", "reload"}
    /\ cur \in 0 .. 4 * Window - 4 /\ cur % 4 = 0
    /\ ent \in Tags \X {4} \X Word
    /\ off \in 0 .. 4 * Window - 4 /\ off % 4 = 0
    /\ saved \subseteq Tags /\ torn \subseteq Tags
    /\ count \in Nat /\ spoilt \in BOOLEAN /\ tears \in 0 .. MaxTears

-----------------------------------------------------------------------------

\* The variables' initializers.
BootValues ==
    [t \in Tags |-> IF t = TAG_AUTO_BOOT_ADR THEN GOLDEN_IMAGE_ADR ELSE 0]

\* Whole entries of three words that leave the window its last word free.
Capacity == (Window - 1) \div 3

\* AddBoardInfo is not running.
NoEntry == <<TAG_AUTO_BOOT, 4, 0>>

\* Mutant: lengths are not rounded up to whole words.
RoundUp_Dropped(len) == len

\* Lengths are rounded up to whole words, modulo the word size.
RoundUp(len) ==
    IF len % 4 = 0 THEN len ELSE (len + (4 - (len % 4))) % WordMod

\* gTemp[i] when block b is read into it, or what follows gTemp.
Temp(b, i) == IF i < Window THEN {b[i]} ELSE AfterTemp

\* Every page of block b is like its second.
Alike(b) == \A i \in BlockIdx : b[i] = b[PageWords + (i % PageWords)]

\* The cursor after an entry at byte at whose length word is len.
After(at, len) == (at + 8 + RoundUp(len)) % WordMod

-----------------------------------------------------------------------------
(* Blocks by what ParseDataBlock makes of them.                            *)

\* The word after the entry of block b whose tag is word s.
EntryEnd(b, s) == s + 2 + RoundUp(b[s + 1]) \div 4

\* From word e on the block is free.
FreeFrom(b, e) == \A i \in BlockIdx : i >= e => b[i] = Ones

\* b holds a log: the tags of its entries are the words S but for the last, e,
\* and from there on the block is free.
LogOf(b, S, e) ==
    /\ 0 \in S /\ e \in S /\ S \subseteq 0 .. e
    /\ FreeFrom(b, e)
    /\ \A s \in S \ {e} :
         /\ b[s] # Ones /\ EntryEnd(b, s) \in S
         /\ \A x \in S : x <= s \/ EntryEnd(b, s) <= x

IsLog(b) == \E e \in 0 .. Window : \E S \in SUBSET (0 .. e) : LogOf(b, S, e)

\* The parse of b stays on the words S, none of which is free, until it leaves
\* the window.
Closed(b, S) ==
    /\ 0 \in S /\ S \subseteq 0 .. Window - 1
    /\ \A s \in S :
         /\ b[s] # Ones
         /\ \A len \in Temp(b, s + 1) :
              After(4 * s, len) <= 4 * Window - 4 => After(4 * s, len) \div 4 \in S

\* Data of somebody else's, that does not look like a log nor like empty.
IsForeign(b) == ~Alike(b) /\ \E S \in SUBSET (0 .. Window - 1) : Closed(b, S)

\* What an append at word s leaves is an entry that ends inside the window, no
\* later than a whole one does and before free space; or nothing at all.
InFrame(b, s) ==
    \E e \in s .. s + 3 :
        /\ e < Window /\ FreeFrom(b, e)
        /\ e = s \/ (b[s] # Ones /\ e = EntryEnd(b, s))

-----------------------------------------------------------------------------

Init ==
    /\ blk \in Images /\ blk0 = blk
    /\ ram = BootValues
    /\ pc = "parse" /\ why = "boot" /\ cur = 0
    /\ ent = NoEntry /\ off = 0
    /\ want = BootValues /\ saved = {} /\ torn = {}
    /\ count = IF blk = Blank THEN 0 ELSE Capacity + 1
    /\ spoilt = ~(IsLog(blk) \/ IsForeign(blk)) /\ tears = 0

\* Mutant: a block that does not parse is taken to be empty.
CheckEmpty_Assumed == TRUE

\* CheckEmpty, after ParseDataBlock has read the block: each page is compared
\* with the second page of gTemp, which holds the block's own second page.
CheckEmpty == Alike(blk)

\* Mutant: the last words of the window that an entry fits are not used.
Fits_Strict(free) == (4 * Window - free - 12) % WordMod > 4

\* AddBoardInfo: BytesAvailable is unsigned.
Fits(free) == (4 * Window - free - 12) % WordMod >= 4

\* ParseDataBlock returns free to its caller.
ParseReturns(free) ==
    /\ IF why = "add" /\ free # NoSpace /\ Fits(free)
         THEN pc' = "write" /\ off' = free /\ UNCHANGED <<why, ent>>
         ELSE pc' = "idle" /\ off' = 0 /\ why' = "boot" /\ ent' = NoEntry
    /\ cur' = 0
    /\ UNCHANGED <<blk, history>>

\* The tag under the cursor is free space: the log ends here.
ParseEnd ==
    /\ pc = "parse" /\ blk[cur \div 4] = Ones
    /\ ParseReturns(cur)
    /\ UNCHANGED ram


AfterEntry(len) == After(cur, len)

\* The loop's body: an entry of the log goes to RAM.
ParseEntry ==
    /\ pc = "parse" /\ blk[cur \div 4] # Ones
    /\ \E len \in Temp(blk, cur \div 4 + 1), value \in Temp(blk, cur \div 4 + 2) :
         /\ AfterEntry(len) <= 4 * Window - 4
         /\ cur' = AfterEntry(len)
         /\ ram' = [t \in Tags |->
                      IF t = blk[cur \div 4] THEN value ELSE ram[t]]
    /\ UNCHANGED <<blk, pc, why, ent, off, history>>

\* The entry does not end inside gTemp: the rest of the block is ignored.
ParseInvalid ==
    /\ pc = "parse" /\ blk[cur \div 4] # Ones
    /\ \E len \in Temp(blk, cur \div 4 + 1) : AfterEntry(len) > 4 * Window - 4
    /\ ParseReturns(IF CheckEmpty THEN 0 ELSE NoSpace)
    /\ UNCHANGED ram

\* A command calls AddBoardInfo, which parses first.
AddBoardInfo(tag, value) ==
    /\ pc = "idle"
    /\ pc' = "parse" /\ why' = "add" /\ cur' = 0
    /\ ent' = <<tag, 4, value>>
    /\ UNCHANGED <<blk, ram, off, history>>

\* tftp <address>, autoboot <mode> and bootadr <address>.
TftpCmd == \E v \in Values : AddBoardInfo(TAG_TFTP_SRV, v)
AutoBootCmd == \E v \in Values : AddBoardInfo(TAG_AUTO_BOOT, v)
BootAdrCmd == \E v \in Values : AddBoardInfo(TAG_AUTO_BOOT_ADR, v)

\* blk with each word i of the entry, from off on, replaced by w[i].
Programmed(w) ==
    [i \in BlockIdx |->
        IF i - off \div 4 \in 0 .. 2 THEN w[i - off \div 4 + 1] ELSE blk[i]]

\* Mutant: the settings are not loaded again.
WriteEntry_NoReload ==
    /\ pc = "write"
    /\ blk' = Programmed([i \in 1 .. 3 |-> BitAnd(blk[off \div 4 + i - 1], ent[i])])
    /\ pc' = "idle" /\ why' = "boot" /\ ent' = NoEntry /\ off' = 0
    /\ saved' = saved \cup {ent[1]} /\ torn' = torn \ {ent[1]}
    /\ want' = [want EXCEPT ![ent[1]] = ent[3]]
    /\ count' = count + 1 /\ spoilt' = (spoilt \/ ~InFrame(blk', off \div 4))
    /\ UNCHANGED <<ram, cur, blk0, tears>>

\* spi_write of the entry goes through, and ParseDataBlock runs again.
WriteEntry ==
    /\ pc = "write"
    /\ blk' = Programmed([i \in 1 .. 3 |-> BitAnd(blk[off \div 4 + i - 1], ent[i])])
    /\ pc' = "parse" /\ why' = "reload" /\ cur' = 0
    /\ saved' = saved \cup {ent[1]} /\ torn' = torn \ {ent[1]}
    /\ want' = [want EXCEPT ![ent[1]] = ent[3]]
    /\ count' = count + 1 /\ spoilt' = (spoilt \/ ~InFrame(blk', off \div 4))
    /\ UNCHANGED <<ram, ent, off, blk0, tears>>

\* A telnet connection lends its address to an unset server address.
TcpAccept ==
    /\ pc = "idle" /\ ram[TAG_TFTP_SRV] = 0
    /\ \E ip \in Peers : ram' = [ram EXCEPT ![TAG_TFTP_SRV] = ip]
    /\ UNCHANGED <<blk, pc, why, cur, ent, off, history>>

\* What history remembers when the block is erased.
Forgotten(b) ==
    /\ blk' = b /\ blk0' = b
    /\ want' = BootValues /\ saved' = {} /\ torn' = {} /\ count' = 0

\* The user erases the block: RAM keeps the settings until the next boot.
EraseBlock ==
    /\ pc = "idle"
    /\ Forgotten(Blank) /\ spoilt' = FALSE
    /\ UNCHANGED <<ram, pc, why, cur, ent, off, tears>>

\* Power comes back, and main() starts over.
Restart ==
    /\ ram' = BootValues
    /\ pc' = "parse" /\ why' = "boot" /\ cur' = 0
    /\ ent' = NoEntry /\ off' = 0

PowerFail == Restart /\ UNCHANGED <<blk, history>>

\* Power fails in the write of an entry: its tag may read as any setting's.
PowerFailWriting ==
    /\ pc = "write" /\ tears < MaxTears
    /\ LET o == off \div 4 IN
       \E tag \in Part(blk[o], ent[1]), len \in Part(blk[o + 1], ent[2]),
          data \in Part(blk[o + 2], ent[3]) :
         /\ blk' = Programmed(<<tag, len, data>>)
         /\ torn' = torn \cup ({tag} \cap Tags)
         /\ spoilt' = (spoilt \/ ~InFrame(blk', o))
    /\ count' = count + 1 /\ tears' = tears + 1
    /\ Restart /\ UNCHANGED <<blk0, want, saved>>

\* Power fails in an erasure.
PowerFailErasing ==
    /\ pc = "idle" /\ tears < MaxTears
    /\ \E b \in Leftovers : Forgotten(b)
    /\ spoilt' = TRUE /\ tears' = tears + 1
    /\ Restart

Parse == ParseEnd \/ ParseEntry \/ ParseInvalid

PowerFails == PowerFail \/ PowerFailWriting \/ PowerFailErasing

Next ==
    \/ Parse \/ WriteEntry
    \/ TftpCmd \/ AutoBootCmd \/ BootAdrCmd
    \/ TcpAccept \/ EraseBlock
    \/ PowerFails

Spec == Init /\ [][Next]_vars

\* The CPU keeps running: a parse and a write go on until they are done.
FairSpec == Spec /\ WF_vars(Parse) /\ WF_vars(WriteEntry)

-----------------------------------------------------------------------------
(* Properties.                                                             *)
(*                                                                         *)
(* They are promised until the block is spoilt: an append has overrun the   *)
(* window, power has failed in an erasure, or in an append whose words then *)
(* read as an entry that is too long, or as free space with something       *)
(* behind.  From such a block nothing follows for what is read and where    *)
(* the next append goes (TornLength.cfg); an erasure mends it.              *)

\* RAM has what was saved; an unset server address may have been lent one.
Loaded ==
    \A t \in saved \ torn :
        \/ ram[t] = want[t]
        \/ t = TAG_TFTP_SRV /\ want[t] = 0

\* Last writer wins, across reboots and torn appends: whatever bits of an append
\* that was cut short are in flash, every setting has the value last completely
\* saved for it, except the one setting, if any, that the torn tag reads as,
\* which need not be the one that was being saved.
Durable == pc = "idle" /\ ~spoilt => Loaded

\* The log as a map from settings to values.  A setting counts as saved from the
\* moment its entry is in flash.
Kept == INSTANCE Settings WITH
    Setting <- Tags, Value <- Word,
    Default <- BootValues, Server <- TAG_TFTP_SRV,
    stored <- want,
    sure <- IF spoilt THEN {} ELSE saved \ torn,
    shown <- ram,
    saving <- IF why = "add" THEN {<<ent[1], ent[3]>>} ELSE {},
    ready <- pc = "idle",
    void <- spoilt

\* Entries and words add up to saves that take effect at one moment each: no
\* boot, command or power failure after it brings back an earlier value, makes
\* more than one other setting uncertain, or leaves in RAM what was saved over;
\* and from an erasure on there is room for Capacity saves, none of which is
\* dropped or overruns the window.
Implements == Kept!Spec

\* An append only goes to free words: nothing in the block, torn entries
\* included, is ever programmed over, were power to fail in it or not.
AppendOnly ==
    [][pc = "write" /\ ~spoilt =>
          \A i \in BlockIdx : blk[i] # Ones => blk'[i] = blk[i]]_vars

\* README: "To prevent clobbering user data Pano_ldr will not save its data
\* unless valid pano_ldr data is is detected in the block or the block is
\* empty."  What was there before the loader, entries of an older log included,
\* stays, since appends go to free words.  Not so for user data that passes for a
\* log (UserDataClobbered.cfg).
UserDataKept == \A i \in BlockIdx : blk0[i] # Ones => blk[i] = blk0[i]


(* What comments and the documentation say, and the code does not do.       *)

\* main.c: "The new data fits, write it".
AppendFits == pc = "write" => off + 12 <= 4 * Window

\* main.c: "Invalid length, ignore block".  A length that power failed in may
\* send the cursor back to an earlier entry, and the loader never starts again.
InvalidIgnored ==
    <>[][~PowerFails]_vars => (pc = "parse" ~> pc # "parse")

=============================================================================
