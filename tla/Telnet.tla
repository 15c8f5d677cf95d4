------------------------------- MODULE Telnet -------------------------------
(***************************************************************************)
(* The telnet server of lwip_test (fw/lwip_test/main.c): a line typed on a *)
(* connection is handed back to lwIP.  lwIP is external: it calls          *)
(* TcpAccept, TcpRecv and TcpPoll from pano_netif_poll, one after the      *)
(* other, for whichever connection it likes.  All connections share one    *)
(* buffer and its flags.                                                   *)
(*                                                                         *)
(* A connection the peer closes stays as it is (TcpRecv with p = NULL only *)
(* writes to the log); it goes when lwIP gives it up (TcpError).           *)
(*                                                                         *)
(* Handing a line to tcp_write is all the program does for it: if lwIP     *)
(* refuses it, the buffer and the flag are cleared all the same, and the   *)
(* line is lost.  lwIP takes all or nothing, and never more than           *)
(* TCP_SND_BUF (1072), while the buffer keeps 1517 bytes: a line longer    *)
(* than 1072 never comes back.  Nothing here says that a line does.        *)
(***************************************************************************)
EXTENDS Naturals, Sequences, SequencesExt

CONSTANTS Conns,    \* the connections there may be
          Room,     \* sizeof(gRxBuf) (1518)
          Wnd,      \* the receive window of a connection (TCP_WND)
          Bufs,     \* the payloads of a pbuf: sequences of "char", "cr" and "iac" (0xff)
          Rest      \* how many bytes may be in the other pbufs of its chain

VARIABLES open,           \* the connections lwIP has
          window,         \* bytes lwIP lets the peer send, by connection
          gRxBuf,         \* its first gRxCount bytes
          gWelcomeSent, gSendRxBuf,
          typed,          \* history: the text since the last hand-over, its first Room bytes
          spoilt,         \* history: how many of them ClearRxFifo has written over since
          dropped         \* history: bytes of a connection that were never looked at

telnetvars == <<open, window, gRxBuf, gWelcomeSent, gSendRxBuf, typed, spoilt, dropped>>

Fresh == [c \in Conns |-> Wnd]

TelnetInit == /\ open = {} /\ window = Fresh
              /\ gRxBuf = <<>> /\ gWelcomeSent = FALSE /\ gSendRxBuf = FALSE
              /\ typed = <<>> /\ spoilt = 0 /\ dropped = [c \in Conns |-> 0]

\* The bytes of a pbuf that are text: 0xff and the two bytes behind it are skipped.
Text(buf) == LET from[k \in 1 .. Len(buf) + 3] ==
                   IF k > Len(buf) THEN <<>>
                   ELSE IF buf[k] = "iac" THEN from[k + 3] ELSE <<buf[k]>> \o from[k + 1]
             IN  from[1]

\* A defect: the count may reach the size of the buffer.
MutStore(buf, byte) == IF Len(buf) < Room THEN Append(buf, byte) ELSE buf
\* The byte is written at gRxCount, which stays below the size.
Store(buf, byte) == IF Len(buf) < Room - 1 THEN Append(buf, byte) ELSE buf

\* A defect: a connection begins with both flags down, the text of others stays.
MutTcpAccept(c) == /\ c \notin open /\ open' = open \cup {c}
                   /\ window' = [window EXCEPT ![c] = Wnd]
                   /\ dropped' = [dropped EXCEPT ![c] = 0]
                   /\ gWelcomeSent' = FALSE /\ gSendRxBuf' = FALSE
                   /\ UNCHANGED <<gRxBuf, typed, spoilt>>

TcpAccept(c) == /\ c \notin open /\ open' = open \cup {c}
                /\ window' = [window EXCEPT ![c] = Wnd]
                /\ dropped' = [dropped EXCEPT ![c] = 0]
                /\ gWelcomeSent' = FALSE
                /\ UNCHANGED <<gRxBuf, gSendRxBuf, typed, spoilt>>

\* lwIP has no memory for the connection: TcpAccept is called without one.
AcceptFails == gWelcomeSent' = FALSE
               /\ UNCHANGED <<open, window, gRxBuf, gSendRxBuf, typed, spoilt, dropped>>

\* A defect: what the loop has stepped over is given back.
MutGivenBack(buf) == LET over[k \in 0 .. Len(buf) + 2] ==
                           IF k >= Len(buf) THEN k
                           ELSE over[IF buf[k + 1] = "iac" THEN k + 3 ELSE k + 1]
                     IN  over[0]
\* tcp_recved
GivenBack(buf) == Len(buf)

\* Of the chain p only the first pbuf is looked at, all of it is freed.
TcpRecv(c) == \E buf \in Bufs, rest \in Rest :
    /\ c \in open /\ Len(buf) + rest <= window[c]
    /\ window' = [window EXCEPT ![c] = @ - (Len(buf) + rest) + GivenBack(buf)]
    /\ dropped' = [dropped EXCEPT ![c] = @ + rest]
    /\ gRxBuf' = FoldLeft(Store, gRxBuf, Text(buf))
    /\ gSendRxBuf' = (gSendRxBuf \/ Contains(Text(buf), "cr"))
    /\ LET all == typed \o Text(buf)
       IN  typed' = SubSeq(all, 1, IF Len(all) < Room THEN Len(all) ELSE Room)
    /\ UNCHANGED <<open, gWelcomeSent, spoilt>>

TcpError(c) == /\ c \in open /\ open' = open \ {c}
               /\ window' = [window EXCEPT ![c] = Wnd]
               /\ dropped' = [dropped EXCEPT ![c] = 0]
               /\ UNCHANGED <<gRxBuf, gWelcomeSent, gSendRxBuf, typed, spoilt>>

Welcome(c) == /\ c \in open /\ ~gWelcomeSent /\ gWelcomeSent' = TRUE
              /\ UNCHANGED <<open, window, gRxBuf, gSendRxBuf, typed, spoilt, dropped>>

\* A defect: the flag is not reset.
MutEcho(c) == /\ c \in open /\ gWelcomeSent /\ gSendRxBuf
              /\ gRxBuf' = <<>> /\ typed' = <<>> /\ spoilt' = 0
              /\ UNCHANGED <<open, window, gWelcomeSent, gSendRxBuf, dropped>>
\* gRxBuf goes to tcp_write, whose result is only logged.
Echo(c) == /\ c \in open /\ gWelcomeSent /\ gSendRxBuf
           /\ gSendRxBuf' = FALSE
           /\ gRxBuf' = <<>> /\ typed' = <<>> /\ spoilt' = 0
           /\ UNCHANGED <<open, window, gWelcomeSent, dropped>>

TcpPoll(c) == Welcome(c) \/ Echo(c)

\* ClearRxFifo, on an invalid length of a frame, takes gRxBuf for what it reads.
Scribble == /\ gRxBuf # <<>>
            /\ \E n \in 1 .. Len(gRxBuf) :
                 /\ gRxBuf' = [k \in DOMAIN gRxBuf |-> IF k <= n THEN "frame" ELSE gRxBuf[k]]
                 /\ spoilt' = IF n > spoilt THEN n ELSE spoilt
            /\ UNCHANGED <<open, window, gWelcomeSent, gSendRxBuf, typed, dropped>>

Callback == \/ \E c \in Conns : TcpAccept(c) \/ TcpRecv(c) \/ TcpError(c) \/ TcpPoll(c)
            \/ AcceptFails \/ Scribble

-----------------------------------------------------------------------------
\* What will be handed to tcp_write is what was typed since the last time, over all
\* connections and in the order it came, cut off one byte before the end of the buffer, but
\* for the bytes that ClearRxFifo has written over in between (main.c 185-190, 413-437, 468-476).
SharedBuffer == /\ Len(gRxBuf) = IF Len(typed) < Room THEN Len(typed) ELSE Room - 1
                /\ \A k \in DOMAIN gRxBuf : gRxBuf[k] = IF k <= spoilt THEN "frame" ELSE typed[k]

\* The flag is up as long as an end of line that was typed waits, on whatever connection, be
\* connections made, welcomed or lost in between, and only then: an ended line is handed over
\* once, cut off or not, and text without an end of line is not (main.c 394, 428-436, 459,
\* 468-476).  (Of typed there is no more than Room bytes to look at.)
LineEndWaits == /\ Contains(typed, "cr") => gSendRxBuf
                /\ gSendRxBuf => Contains(typed, "cr") \/ Len(typed) = Room

\* A peer may send what it could at first, less what came in later pbufs of a chain, which
\* the code never gives back and dropped counts: never more than lwIP has room for, and what
\* was looked at is given back (main.c 418-439).
WindowAccounts == \A c \in open : window[c] + dropped[c] = Wnd
=============================================================================
