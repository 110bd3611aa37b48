------------------------------ MODULE ConsoleIn ------------------------------
(***************************************************************************)
(* The input half of the telnet console of fw/pano_ldr/main.c: TcpRecv      *)
(* collects a line in gRxBuf, and the main loop hands it to ParseCmd.       *)
(*                                                                         *)
(* lwIP calls TcpRecv and TcpAccept from pano_netif_poll, which the main    *)
(* loop calls, and every command that prints or transfers too: a segment    *)
(* may arrive at any time, also while a command runs on the line in gRxBuf. *)
(* TcpRecv is such a caller itself: the echo of a back space may have to    *)
(* wait for room in the print buffer (ConsoleOut says when), and while it   *)
(* waits, between two statements of the loop, lwIP calls both again.        *)
(***************************************************************************)
EXTENDS Integers, Sequences, SequencesExt

CONSTANTS
    RxBufLen,       \* RX_BUF_LEN
    Chars,          \* ordinary characters
    BS, CR, IAC,    \* back space or delete, carriage return, telnet's 0xff
    NUL,
    Segments        \* the payloads a segment may have

Byte == Chars \cup {BS, CR, IAC}
RxIdx == 0 .. RxBufLen - 1

ASSUME InputAssumption ==
    /\ RxBufLen \in Nat \ {0}
    /\ {BS, CR, IAC, NUL} \cap Chars = {}
    /\ BS # CR /\ BS # IAC /\ CR # IAC
    /\ Segments \subseteq Seq(Byte)

VARIABLES
    gRxBuf,       \* the line
    gRxCount,     \* where the next character goes
    gInputReady,  \* a line is complete and not yet taken
    gSendWelcome, \* a connection was accepted and not yet welcomed
    running,      \* ParseCmd is executing the line in gRxBuf
    echoes,       \* what the calls of TcpRecv that wait in an echo, one inside the
                  \* other, have left of their segments
    typed,        \* the line as the user edited it (history)
    timely,       \* all of it arrived while no command was running (history)
    plain,        \* it has no back space and no split telnet command (history)
    alone,        \* no echo waited in it, nor when its session began (history)
    prev,         \* the line last handed to ParseCmd (history)
    fresh         \* that line was timely, and since then no connection came, and
                  \* no segment while an echo waited (history)

vars == <<gRxBuf, gRxCount, gInputReady, gSendWelcome, running, echoes, typed,
          timely, plain, alone, prev, fresh>>

TypeOK ==
    /\ gRxBuf \in [RxIdx -> Chars \cup {NUL}]
    /\ gRxCount \in RxIdx
    /\ gInputReady \in BOOLEAN /\ gSendWelcome \in BOOLEAN
    /\ running \in BOOLEAN /\ echoes \in Seq(Seq(Byte))
    /\ typed \in Seq(Chars)
    /\ timely \in BOOLEAN /\ plain \in BOOLEAN /\ alone \in BOOLEAN
    /\ prev \in Seq(Chars) /\ fresh \in BOOLEAN

Init ==
    /\ gRxBuf = [i \in RxIdx |-> NUL] /\ gRxCount = 0
    /\ gInputReady = FALSE /\ gSendWelcome = FALSE
    /\ running = FALSE /\ echoes = <<>>
    /\ typed = <<>> /\ timely = TRUE /\ plain = TRUE /\ alone = TRUE
    /\ prev = <<>> /\ fresh = TRUE

\* The string that starts at gRxBuf[0]: does it end inside the buffer, and
\* what is it then.
Terminated == \E i \in RxIdx : gRxBuf[i] = NUL
Line ==
    SubSeq([i \in 1 .. RxBufLen |-> gRxBuf[i - 1]], 1,
           CHOOSE n \in RxIdx :
               gRxBuf[n] = NUL /\ \A j \in 0 .. n - 1 : gRxBuf[j] # NUL)

-----------------------------------------------------------------------------

\* Mutant: the index is not kept off the end of the buffer.
Bump_Unchecked(n) == n + 1

\* The last statement of TcpRecv's loop: keep room for the terminator.
Bump(n) == IF n < RxBufLen - 1 THEN n + 1 ELSE n

\* Mutant: input goes on while a complete line waits to be processed.
Accepts_Always(ready) == TRUE

\* The check at the top of the loop.
Accepts(ready) == ~ready

\* Mutant: the terminator goes after the place of the next character.
CarriageReturn_Late(s) ==
    [s EXCEPT !.ready = TRUE, !.count = Bump(@), !.buf[Bump(s.count)] = NUL]

\* A carriage return ends the line, wherever the next character would go.
CarriageReturn(s) ==
    [s EXCEPT !.ready = TRUE, !.buf[s.count] = NUL, !.count = Bump(@)]

\* A back space takes the last character off before it is echoed.
Erased(n) == IF n > 0 THEN n - 1 ELSE n

\* One turn of TcpRecv's loop over the segment seg.  The state s holds the
\* line buffer, the cursor cp and the turns a telnet command skips.  A back
\* space and a carriage return leave the cursor where it is.
RecvByte(seg, s) ==
    IF s.skip > 0 THEN [s EXCEPT !.skip = @ - 1]
    ELSE IF ~Accepts(s.ready) THEN s
    ELSE CASE seg[s.cp] = IAC -> [s EXCEPT !.cp = @ + 3, !.skip = 2]
           [] seg[s.cp] = BS ->
                [s EXCEPT !.count = Bump(Erased(@))]
           [] seg[s.cp] = CR -> CarriageReturn(s)
           [] OTHER -> [s EXCEPT !.buf[s.count] = seg[s.cp],
                                 !.cp = @ + 1, !.count = Bump(@)]

\* The loop's state after each of its turns, one for every byte.
Turns(seg, s) ==
    LET turn[k \in 0 .. Len(seg)] == IF k = 0 THEN s ELSE RecvByte(seg, turn[k - 1])
    IN  turn

\* The turn that comes echoes.
Echoes(seg, s) == s.skip = 0 /\ Accepts(s.ready) /\ seg[s.cp] = BS

\* TcpRecv's loop over seg, with the line's index at n: to its end, or until one
\* of its echoes waits.  Then the character is taken off, and Bump and the other
\* turns are to come: as many bytes, from the cursor on.
Loop(seg, n, callers) ==
    LET turn == Turns(seg, [buf |-> gRxBuf, count |-> n, ready |-> gInputReady,
                            cp |-> 1, skip |-> 0])
    IN  \/ LET t == turn[Len(seg)] IN
           /\ gRxBuf' = t.buf /\ gRxCount' = t.count /\ gInputReady' = t.ready
           /\ echoes' = callers
        \/ \E k \in 1 .. Len(seg) :
             LET t == turn[k - 1] IN
             /\ Echoes(seg, t)
             /\ gRxBuf' = t.buf /\ gRxCount' = Erased(t.count)
             /\ gInputReady' = t.ready
             /\ echoes' = Append(callers, SubSeq(seg, t.cp, t.cp + Len(seg) - k - 1))

\* What the user means by the byte b: a telnet command is three bytes and no
\* text, a carriage return ends the line, and a back space takes back a
\* character.  The state is the line so far, the bytes of a telnet command that
\* are still to come, whether the line is ended, and was free of back spaces.
EditByte(b, s) ==
    IF s.ended THEN s
    ELSE IF s.command > 0 THEN [s EXCEPT !.command = @ - 1]
    ELSE CASE b = IAC -> [s EXCEPT !.command = 2]
           [] b = BS -> [s EXCEPT !.line = IF @ = <<>> THEN @ ELSE Front(@),
                                  !.plain = FALSE]
           [] b = CR -> [s EXCEPT !.ended = TRUE]
           [] OTHER -> [s EXCEPT !.line = Append(@, b)]
Edits(seg) ==
    LET edit[k \in 0 .. Len(seg)] ==
          IF k = 0 THEN [line |-> typed, command |-> 0, ended |-> FALSE, plain |-> plain]
                   ELSE EditByte(seg[k], edit[k - 1])
    IN  edit
Edited(seg) == Edits(seg)[Len(seg)]

\* TcpRecv with a payload.
TcpRecv(seg) ==
    /\ Loop(seg, gRxCount, echoes)
    /\ IF gInputReady
         THEN UNCHANGED <<typed, timely, plain>>
         ELSE /\ typed' = Edited(seg).line
              /\ timely' = (timely /\ ~running)
              /\ plain' = (Edited(seg).plain /\ Edited(seg).command = 0)
    /\ alone' = (alone /\ echoes' = <<>>)
    /\ fresh' = (fresh /\ echoes = <<>>)
    /\ UNCHANGED <<gSendWelcome, running, prev>>

\* The innermost echo found room: its turn ends, and the loop goes on, on
\* whatever the calls in between have made of the line.
EchoReturns ==
    /\ echoes # <<>>
    /\ Loop(Last(echoes), Bump(gRxCount), Front(echoes))
    /\ timely' = (timely /\ ~running)
    /\ UNCHANGED <<gSendWelcome, running, typed, plain, alone, prev, fresh>>

\* A new connection resets the line, also one that is being executed, or in
\* which TcpRecv waits.
TcpAccept ==
    /\ gInputReady' = FALSE /\ gSendWelcome' = TRUE /\ gRxCount' = 0
    /\ typed' = <<>> /\ timely' = TRUE /\ plain' = TRUE
    /\ alone' = (echoes = <<>>)
    /\ fresh' = FALSE
    /\ UNCHANGED <<gRxBuf, running, echoes, prev>>

\* The main loop welcomes a new connection.
SendWelcome ==
    /\ echoes = <<>> /\ ~running /\ gSendWelcome
    /\ gSendWelcome' = FALSE
    /\ UNCHANGED <<gRxBuf, gRxCount, gInputReady, running, echoes, typed, timely,
                   plain, alone, prev, fresh>>

\* Mutant: the line is reset before it is processed.
ParseCmd_ResetsFirst ==
    /\ echoes = <<>> /\ ~running /\ gInputReady
    /\ gInputReady' = FALSE /\ running' = TRUE /\ gRxCount' = 0
    /\ typed' = <<>> /\ timely' = TRUE /\ plain' = TRUE /\ alone' = TRUE
    /\ prev' = Line /\ fresh' = timely
    /\ UNCHANGED <<gRxBuf, gSendWelcome, echoes>>

\* The main loop calls ParseCmd with gRxBuf.
ParseCmd ==
    /\ echoes = <<>> /\ ~running /\ gInputReady
    /\ gInputReady' = FALSE /\ running' = TRUE
    /\ typed' = <<>> /\ timely' = TRUE /\ plain' = TRUE /\ alone' = TRUE
    /\ prev' = Line /\ fresh' = timely
    /\ UNCHANGED <<gRxBuf, gRxCount, gSendWelcome, echoes>>

\* A command ends its first argument in place, in gRxBuf.
CutArgument(i) ==
    /\ echoes = <<>> /\ running /\ \A j \in 0 .. i : gRxBuf[j] # NUL
    /\ gRxBuf' = [gRxBuf EXCEPT ![i] = NUL]
    /\ UNCHANGED <<gRxCount, gInputReady, gSendWelcome, running, echoes, typed,
                   timely, plain, alone, prev, fresh>>

\* ParseCmd returns.  What was typed in the meantime is dropped, except that
\* a carriage return among it has set gInputReady again.
ParseCmdReturns ==
    /\ echoes = <<>> /\ running
    /\ running' = FALSE /\ gRxCount' = 0
    /\ typed' = <<>> /\ timely' = ~gInputReady /\ plain' = TRUE /\ alone' = TRUE
    /\ UNCHANGED <<gRxBuf, gInputReady, gSendWelcome, echoes, prev, fresh>>

Next ==
    \/ \E seg \in Segments : TcpRecv(seg)
    \/ EchoReturns
    \/ TcpAccept
    \/ SendWelcome \/ ParseCmd \/ ParseCmdReturns
    \/ \E i \in RxIdx : CutArgument(i)

Spec == Init /\ [][Next]_vars

-----------------------------------------------------------------------------
(* Properties.                                                             *)

\* ParseCmd is only handed a terminated line, however long the input was,
\* however it was cut into segments and whatever was typed ahead.
LineTerminated == gInputReady => Terminated

\* A line typed while no command was running, without back spaces, is executed
\* as typed, cut to what the buffer holds: nothing of an earlier line, of an
\* earlier connection or of a telnet command gets into it.  This is for a line
\* in which, and a session at whose start, no echo of TcpRecv waited.
ExecutesTyped ==
    gInputReady /\ timely /\ plain /\ alone =>
        Line = SubSeq(typed, 1, IF Len(typed) < RxBufLen - 1
                                  THEN Len(typed) ELSE RxBufLen - 1)

\* Text typed while a command runs does not become part of a command: a
\* carriage return among it makes the main loop execute the line of that
\* command once more, whole or cut after its first argument.  The promise ends
\* with a connection and with a segment that comes while an echo waits: that
\* segment's text goes over the terminator.  (It also ends while that second
\* execution runs, with gRxCount at 0.)
TypeAheadReruns ==
    gInputReady /\ ~timely /\ fresh => IsPrefix(Line, prev)

(* What comments say, and the code does not do.                             *)

\* TcpRecv: "back space or delete".
BackspaceDeletes ==
    /\ gInputReady /\ timely /\ alone /\ Len(typed) < RxBufLen - 1
    => Line = typed

\* TcpAccept: "Reset everything for a new connection".  So a line that is typed
\* into a new session without back spaces is executed as typed, whatever the
\* session before was doing when the connection came.
SessionStartsClean ==
    gInputReady /\ timely /\ plain =>
        Line = SubSeq(typed, 1, IF Len(typed) < RxBufLen - 1
                                  THEN Len(typed) ELSE RxBufLen - 1)

=============================================================================
