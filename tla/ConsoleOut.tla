----------------------------- MODULE ConsoleOut -----------------------------
(***************************************************************************)
(* The output half of the telnet console of fw/pano_ldr/main.c: NetPrintf,  *)
(* NetPuts, NetWaitBufEmpty and NetPrintFillPcb share one buffer, gNetPrint, *)
(* with the lwIP callbacks TcpAccept, TcpRecv, TcpSent, TcpPoll, TcpError.  *)
(*                                                                         *)
(* The loader is one thread.  A callback runs inside pano_netif_poll, which  *)
(* the main loop, a transfer and NetWaitBufEmpty call; TcpRecv's echo may   *)
(* itself wait for the buffer, inside the callback.                         *)
(*                                                                         *)
(* Every byte put in the buffer during a session that overlaps no other is  *)
(* numbered; 0 is a byte from anywhere else.  An echo is one byte.          *)
(***************************************************************************)
EXTENDS Integers, Sequences, FiniteSets, SequencesExt

CONSTANTS
    Pcbs,      \* TCP connections lwIP can hold (MEMP_NUM_TCP_PCB)
    NoCon,     \* gTcpCon = NULL
    BufLen,    \* NET_PRINT_BUF_LEN
    SndBuf,    \* TCP_SND_BUF
    MaxText,   \* bound: bytes put in the buffer in a session
    MaxEchoes  \* bound: echoes that wait, each inside the next

ASSUME OutputAssumption ==
    /\ NoCon \notin Pcbs
    /\ BufLen \in Nat \ {0} /\ SndBuf \in Nat /\ MaxText \in Nat
    /\ MaxEchoes \in Nat
    /\ BufLen <= SndBuf

BufIdx == 0 .. BufLen - 1

\* Who may wait: the main thread, and echoes inside each other.
Main == 0
Waiters == Main .. MaxEchoes

VARIABLES
    gTcpCon,      \* where output goes
    state,        \* each connection, as lwIP holds it
    unacked,      \* bytes lwIP has taken for it and the peer not acknowledged
    PrintBuf, prLen, BytesQueued, BytesSent, \* gNetPrint
    dumping,      \* the main thread is in a dump, between two NetPuts
    waits,        \* who is in the NetWaitBufEmpty of a NetPuts
    text,         \* bytes put in the buffer in this session (history)
    got,          \* bytes given to lwIP for this session (history)
    sole,         \* no other connection existed at its start (history)
    mixed         \* NetPuts appended to bytes in flight (history)

gNetPrint == <<PrintBuf, prLen, BytesQueued, BytesSent>>
history == <<text, got, sole, mixed>>
vars == <<gTcpCon, state, unacked, gNetPrint, dumping, waits, history>>

TypeOK ==
    /\ gTcpCon \in Pcbs \cup {NoCon}
    /\ state \in [Pcbs -> {"free", "open", "peerClosed", "closing"}]
    /\ unacked \in [Pcbs -> 0 .. SndBuf]
    /\ PrintBuf \in [BufIdx -> 0 .. MaxText]
    /\ prLen \in 0 .. BufLen + MaxEchoes + 2
    /\ BytesQueued \in 0 .. BufLen + 1
    /\ BytesSent \in Nat
    /\ dumping \in BOOLEAN
    /\ waits \subseteq Waiters
    /\ text \in 0 .. MaxText
    /\ got \in Seq(0 .. MaxText)
    /\ sole \in BOOLEAN /\ mixed \in BOOLEAN

Init ==
    /\ gTcpCon = NoCon
    /\ state = [p \in Pcbs |-> "free"] /\ unacked = [p \in Pcbs |-> 0]
    /\ PrintBuf = [i \in BufIdx |-> 0]
    /\ prLen = 0 /\ BytesQueued = 0 /\ BytesSent = 0
    /\ dumping = FALSE /\ waits = {}
    /\ text = 0 /\ got = <<>> /\ sole = TRUE /\ mixed = FALSE

-----------------------------------------------------------------------------

\* The number of the next byte but i.
Num(i) == IF gTcpCon # NoCon /\ sole THEN text + i + 1 ELSE 0

\* The bytes at PrintBuf[from] .. PrintBuf[from + n - 1] of buffer buf.
Bytes(buf, from, n) ==
    [i \in 1 .. n |-> IF from + i - 1 \in BufIdx THEN buf[from + i - 1] ELSE 0]

\* tcp_write accepts data on a connection the loader has not closed, if it
\* has memory for it.
CanWrite(p) == p # NoCon /\ state[p] \in {"open", "peerClosed"}

\* Mutant: the byte count is not cut to what is still to be queued.
ToQueue_All(len, queued) == len

\* Byte2Write.
ToQueue(len, queued) == len - queued

\* NetPrintFillPcb(p) when gNetPrint holds buf, len, queued and sent, and una
\* bytes are outstanding: queue what has not been queued, reading from
\* BytesSent on.
NetPrintFillPcb(p, buf, len, queued, sent, una) ==
    LET room == SndBuf - una[p]
        n == IF ToQueue(len, queued) <= room THEN ToQueue(len, queued) ELSE room
    IN  \/ /\ gTcpCon # NoCon /\ CanWrite(p) /\ ToQueue(len, queued) > 0
           /\ BytesQueued' = queued + n
           /\ unacked' = [una EXCEPT ![p] = @ + n]
           /\ got' = IF p = gTcpCon /\ sole THEN got \o Bytes(buf, sent, n) ELSE got
        \/ \* nothing to write, nobody to write to, or tcp_write failed
           /\ BytesQueued' = queued
           /\ unacked' = una
           /\ UNCHANGED got

\* Mutant: the buffer counts as empty once lwIP has taken it all.
BufEmpty_Queued == gTcpCon = NoCon \/ prLen = BytesQueued

\* NetWaitBufEmpty returns.
BufEmpty == gTcpCon = NoCon \/ prLen = BytesSent

\* pano_netif_poll is being called: not in the middle of a dump, unless its
\* NetPuts waits.
Polled == ~dumping \/ waits # {}

-----------------------------------------------------------------------------
(* The main thread.                                                        *)

\* NetPrintf of n bytes, once the buffer is empty.
NetPrintf(n) ==
    LET buf == [i \in BufIdx |->
                  IF i < n THEN Num(i) ELSE PrintBuf[i]]
    IN  /\ ~dumping /\ waits = {}
        /\ BufEmpty
        /\ text + n <= MaxText
        /\ PrintBuf' = buf /\ prLen' = n
        /\ text' = IF gTcpCon = NoCon THEN text ELSE text + n
        /\ NetPrintFillPcb(gTcpCon, buf, n, BytesQueued, BytesSent, unacked)
        /\ UNCHANGED <<gTcpCon, state, BytesSent, dumping, waits, sole, mixed>>

\* One byte goes to PrintBuf[i].
PutByte(i) ==
    /\ PrintBuf' = [PrintBuf EXCEPT ![i] = Num(0)]
    /\ prLen' = prLen + 1
    /\ text' = text + 1
    /\ mixed' = (mixed \/ (sole /\ BytesSent < BytesQueued))

\* Mutant: one byte too many.
HasRoom_OneMore == prLen <= BufLen

HasRoom == prLen < BufLen

\* NetPuts of one byte by who: a full buffer is flushed and waited for.
NetPuts(who) ==
    /\ text + Cardinality(waits) < MaxText
    /\ IF gTcpCon = NoCon
         THEN UNCHANGED <<unacked, gNetPrint, waits, history>>
       ELSE IF HasRoom
         THEN PutByte(prLen) /\ UNCHANGED <<unacked, BytesQueued, BytesSent,
                                            waits, got, sole>>
       ELSE /\ NetPrintFillPcb(gTcpCon, PrintBuf, prLen, BytesQueued, BytesSent,
                            unacked)
            /\ waits' = waits \cup {who}
            /\ UNCHANGED <<PrintBuf, prLen, BytesSent, text, sole, mixed>>

\* The innermost wait is over: the byte goes to the start of the buffer.
NetPutsResumes(who) ==
    /\ who \in waits /\ \A w \in waits : w <= who
    /\ BufEmpty
    /\ PutByte(0)
    /\ waits' = waits \ {who}
    /\ UNCHANGED <<gTcpCon, state, unacked, BytesQueued, BytesSent, dumping,
                   got, sole>>

\* NetDumpHex puts the dump in the buffer, and flushes it at its end.
DumpByte ==
    /\ waits = {}
    /\ dumping' = TRUE
    /\ NetPuts(Main)
    /\ UNCHANGED <<gTcpCon, state>>

DumpEnd ==
    /\ dumping /\ waits = {}
    /\ dumping' = FALSE
    /\ NetPrintFillPcb(gTcpCon, PrintBuf, prLen, BytesQueued, BytesSent,
                            unacked)
    /\ UNCHANGED <<gTcpCon, state, PrintBuf, prLen, BytesSent, waits, text,
                   sole, mixed>>

\* ExitCmd and RebootCmd.
ExitCmd ==
    /\ ~dumping /\ waits = {}
    /\ BufEmpty
    /\ state' = [p \in Pcbs |-> IF p = gTcpCon /\ state[p] # "free"
                                  THEN "closing" ELSE state[p]]
    /\ gTcpCon' = NoCon
    /\ UNCHANGED <<unacked, gNetPrint, dumping, waits, history>>

-----------------------------------------------------------------------------
(* lwIP's callbacks.                                                       *)

\* Mutant: the counters keep the values of the session before.
Emptied_Kept == prLen' = 0 /\ BytesSent' = 0 /\ UNCHANGED BytesQueued

\* The buffer is empty.
Emptied == prLen' = 0 /\ BytesQueued' = 0 /\ BytesSent' = 0

\* A connection is accepted: it becomes the console, whatever gTcpCon was.
\* The bytes left in PrintBuf stay there, but are not of this session: 0.
TcpAccept(p) ==
    /\ Polled /\ state[p] = "free"
    /\ gTcpCon' = p
    /\ state' = [state EXCEPT ![p] = "open"]
    /\ unacked' = [unacked EXCEPT ![p] = 0]
    /\ Emptied
    /\ PrintBuf' = [i \in BufIdx |-> 0]
    /\ text' = 0 /\ got' = <<>> /\ mixed' = FALSE
    /\ sole' = \A q \in Pcbs : state[q] = "free"
    /\ UNCHANGED <<dumping, waits>>

\* TcpRecv: a back space is echoed, also inside the wait of another echo.
TcpRecvEcho(p) ==
    /\ Polled /\ state[p] = "open"
    /\ LET depth == Cardinality(waits \ {Main}) + 1
       IN  depth <= MaxEchoes /\ NetPuts(depth)
    /\ UNCHANGED <<gTcpCon, state, dumping>>

\* TcpRecv without a buffer: the peer closed p.  gTcpCon is cleared whichever
\* connection it is, and p is not closed.
TcpRecvClosed(p) ==
    /\ Polled /\ state[p] \in {"open", "closing"}
    /\ gTcpCon' = NoCon
    /\ state' = [state EXCEPT ![p] = IF @ = "open" THEN "peerClosed"
                                                   ELSE "free"]
    /\ UNCHANGED <<unacked, gNetPrint, dumping, waits, history>>

\* TcpSent: the peer acknowledges n bytes.
TcpSent(p, n) ==
    /\ Polled /\ state[p] # "free" /\ n \in 1 .. unacked[p]
    /\ IF BytesSent + n = prLen
         THEN /\ Emptied
              /\ unacked' = [unacked EXCEPT ![p] = @ - n]
              /\ UNCHANGED got
         ELSE /\ BytesSent' = BytesSent + n
              /\ NetPrintFillPcb(p, PrintBuf, prLen, BytesQueued,
                                 BytesSent + n, [unacked EXCEPT ![p] = @ - n])
              /\ UNCHANGED prLen
    /\ UNCHANGED <<gTcpCon, state, PrintBuf, dumping, waits, text, sole, mixed>>

TcpPoll(p) ==
    /\ Polled /\ state[p] # "free"
    /\ NetPrintFillPcb(p, PrintBuf, prLen, BytesQueued, BytesSent, unacked)
    /\ UNCHANGED <<gTcpCon, state, PrintBuf, prLen, BytesSent, dumping, waits,
                   text, sole, mixed>>

\* The peer reset p, or never answered: lwIP frees it.  gTcpCon keeps it.
TcpError(p) ==
    /\ Polled /\ state[p] # "free"
    /\ state' = [state EXCEPT ![p] = "free"]
    /\ unacked' = [unacked EXCEPT ![p] = 0]
    /\ UNCHANGED <<gTcpCon, gNetPrint, dumping, waits, history>>

-----------------------------------------------------------------------------

Dump == DumpByte \/ DumpEnd

Resumes == \E who \in Waiters : NetPutsResumes(who)

Callback(p) ==
    \/ TcpAccept(p) \/ TcpRecvEcho(p) \/ TcpRecvClosed(p)
    \/ (\E n \in 1 .. SndBuf : TcpSent(p, n)) \/ TcpPoll(p) \/ TcpError(p)

Next ==
    \/ \E n \in 1 .. BufLen : NetPrintf(n)
    \/ Dump \/ Resumes \/ ExitCmd
    \/ \E p \in Pcbs : Callback(p)

Spec == Init /\ [][Next]_vars

\* The loader's thread goes on; lwIP's timer calls TcpPoll, and tcp_write does
\* not fail for ever; a peer acknowledges what it is sent, as long as lwIP does
\* not free the connection.
FairSpec ==
    /\ Spec
    /\ WF_vars(DumpEnd) /\ WF_vars(Resumes)
    /\ \A p \in Pcbs :
          /\ WF_vars(TcpPoll(p))
          /\ WF_vars(\E n \in 1 .. SndBuf : TcpSent(p, n))

-----------------------------------------------------------------------------
(* Properties.  They are about a session that does not overlap another:     *)
(* TcpAccept, TcpSent and TcpPoll do not look at which connection is gTcpCon.*)

Session == gTcpCon # NoCon /\ sole /\ state[gTcpCon] = "open"

\* The counters account for every byte: what was sent and what is in flight
\* is what was queued, and nothing is queued or put beyond the buffer.
Conserved ==
    Session => /\ BytesSent + unacked[gTcpCon] = BytesQueued
               /\ BytesQueued <= prLen
               /\ prLen <= BufLen

\* The peer gets the bytes printed, each once and in order, as long as NetPuts
\* does not append to a buffer that is in flight.
InOrder ==
    Session /\ ~mixed => IsPrefix(got, [i \in 1 .. text |-> i])

\* The user types on.
Types == \E p \in Pcbs : TcpRecvEcho(p)

\* Whoever waits in NetWaitBufEmpty, the main thread or an echo, comes back from
\* it, also when tcp_write fails at times, or the session ends.  That is if the
\* user pauses: every echo may fill the buffer again before the wait inside
\* which it came has seen it empty, and waits in turn.
Drains ==
    <>[][~Types]_vars =>
        \A who \in Waiters :
            (Session /\ who \in waits) ~> (who \notin waits \/ ~Session)

(* What the documentation says, and the code does not do.                   *)

\* README: "The dump command displays the specified range of flash in hex."
DumpDisplays ==
    Session => IsPrefix(got, [i \in 1 .. text |-> i])

=============================================================================
