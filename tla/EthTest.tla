------------------------------ MODULE EthTest -------------------------------
(***************************************************************************)
(* The firmware eth_test (fw/eth_test/main.c): it prints the frames that   *)
(* arrive and the state of the link, and sends a test frame when the       *)
(* button is pressed.  Like lwip_test it reads frames from a stream of     *)
(* bytes in which nothing marks where one begins (NetInput).  A step is    *)
(* one access to a register and the computation up to the next.  The LEDs  *)
(* it blinks go on as those of Blinky do and are left out.                 *)
(***************************************************************************)
EXTENDS Button, Sequences, SequencesExt

CONSTANTS Base,        \* values of a byte (256)
          BufSize,     \* sizeof(gRxBuf) (1518)
          ClearReads,  \* reads ClearRxFifo makes at most (2048)
          Frames,      \* what may arrive
          Leftovers,   \* what the receive FIFO may hold when the program is started
          RxDepth, TxDepth,   \* sizes of the FIFOs of the MAC
          EmptyRead,   \* what a read of ETH_RX may return when nothing is there
          TestFrame,   \* gTxBuf
          Phys         \* states of the link: [up, speed]

VARIABLES pc, i,
          phy, EthStatus,     \* the link, and what was printed of it last
          caller,             \* where ClearRxFifo returns to
          Count, gRxBuf,      \* gRxBuf: the bytes of the frame read so far
          rx, tx,             \* the FIFOs
          due, lost,          \* history, as in NetInput
          full                \* history: a byte was written into a full FIFO

framevars == <<caller, Count, gRxBuf, rx, tx, due, lost, full>>
loopvars  == <<pc, i, EthStatus>>

Bytes == 0 .. Base - 1
NoLink == [up |-> FALSE, speed |-> 10]    \* all bits 0

Encode(f) == <<Len(f) \div Base, Len(f) % Base>> \o f
Encoded(fs) == FlattenSeq([k \in 1 .. Len(fs) |-> Encode(fs[k])])

FramesInit == /\ caller = "main" /\ Count = 0 /\ gRxBuf = <<>> /\ rx = <<>> /\ tx = <<>>
              /\ due = <<>> /\ lost = FALSE /\ full = FALSE

\* The MAC.  Between programs the FIFOs are not followed.
Arrive == \E f \in Frames :
    /\ pc # "boot" /\ Len(rx \o Encode(f)) <= RxDepth
    /\ rx' = rx \o Encode(f)
    /\ due' = IF lost THEN <<>> ELSE Append(due, f)
    /\ UNCHANGED <<loopvars, buttonvars, phy, caller, Count, gRxBuf, tx, lost, full>>

MacSends == /\ Len(tx) >= Len(Encode(TestFrame))
            /\ tx' = SubSeq(tx, 1 + Len(Encode(TestFrame)), Len(tx))
            /\ UNCHANGED <<loopvars, buttonvars, phy, caller, Count, gRxBuf, rx, due, lost, full>>

-----------------------------------------------------------------------------
ReadRx(b) == \/ rx # <<>> /\ b = Head(rx) /\ rx' = Tail(rx)
             \/ rx = <<>> /\ b \in EmptyRead /\ rx' = rx

Boot == /\ pc = "boot" /\ pc' = "clear" /\ caller' = "main"
        /\ i' = 0 /\ rx' \in Leftovers
        /\ EthStatus' = NoLink /\ Begin
        /\ UNCHANGED <<phy, Count, gRxBuf, tx, due, lost, full>>

\* ClearRxFifo; gRxBuf is only a place to put the bytes.
ClearByte == /\ pc = "clear" /\ i < ClearReads /\ rx # <<>>
             /\ rx' = Tail(rx) /\ i' = i + 1
             /\ UNCHANGED <<pc, EthStatus, buttonvars, phy, caller, Count, gRxBuf, tx,
                            due, lost, full>>

ClearDone == /\ pc = "clear" /\ (i = ClearReads \/ rx = <<>>)
             /\ pc' = IF caller = "main" THEN "status" ELSE "frames"
             /\ i' = 0 /\ lost' = (rx # <<>>) /\ due' = <<>>
             /\ UNCHANGED <<EthStatus, buttonvars, phy, caller, Count, gRxBuf, rx, tx, full>>

Status == /\ pc = "status" /\ pc' = "frames" /\ EthStatus' = phy
          /\ UNCHANGED <<i, buttonvars, phy, framevars>>

\* while(!(ETH_STATUS & ETH_STATUS_RXEMPTY))
NoFrame == /\ pc = "frames" /\ rx = <<>> /\ pc' = "button" /\ lost' = FALSE /\ due' = <<>>
           /\ UNCHANGED <<i, EthStatus, buttonvars, phy, caller, Count, gRxBuf, rx, tx, full>>

High == /\ pc = "frames" /\ rx # <<>> /\ pc' = "low"
        /\ \E b \in Bytes : ReadRx(b) /\ Count' = b
        /\ UNCHANGED <<i, EthStatus, buttonvars, phy, caller, gRxBuf, tx, due, lost, full>>

\* A defect: a length that is refused is only reported.
MutLow == \E b \in Bytes :
    /\ pc = "low" /\ ReadRx(b) /\ Count' = Count * Base + b
    /\ gRxBuf' = <<>> /\ i' = 0
    /\ pc' = IF Count' < BufSize THEN "read" ELSE "frames"
    /\ UNCHANGED <<EthStatus, buttonvars, phy, caller, tx, due, lost, full>>
Low == \E b \in Bytes :
    /\ pc = "low" /\ ReadRx(b) /\ Count' = Count * Base + b
    /\ gRxBuf' = <<>> /\ i' = 0
    /\ IF Count' < BufSize THEN pc' = "read" /\ UNCHANGED caller
                           ELSE pc' = "clear" /\ caller' = "loop"
    /\ UNCHANGED <<EthStatus, buttonvars, phy, tx, due, lost, full>>

Read == /\ pc = "read" /\ i < Count /\ i' = i + 1
        /\ \E b \in Bytes : ReadRx(b) /\ gRxBuf' = Append(gRxBuf, b)
        /\ UNCHANGED <<pc, EthStatus, buttonvars, phy, caller, Count, tx, due, lost, full>>

\* The frame is printed.
Report == /\ pc = "read" /\ i = Count /\ pc' = "frames" /\ i' = 0
          /\ due' = (IF due = <<>> THEN <<>> ELSE Tail(due))
          /\ gRxBuf' = <<>> /\ Count' = 0
          /\ UNCHANGED <<EthStatus, buttonvars, phy, caller, rx, tx, lost, full>>

LookAtButton == /\ pc = "button" /\ Look
                /\ pc' = IF JustPressed THEN "send" ELSE "pause"
                /\ i' = 0
                /\ UNCHANGED <<EthStatus, phy, framevars>>

\* ETH_TX = ...; the loop ends with the last byte.
Send == LET stream == Encode(TestFrame)
        IN  /\ pc = "send"
            /\ IF Len(tx) < TxDepth THEN tx' = Append(tx, stream[i + 1]) /\ UNCHANGED full
                                    ELSE full' = TRUE /\ UNCHANGED tx
            /\ IF i + 1 < Len(stream) THEN i' = i + 1 /\ UNCHANGED pc ELSE i' = 0 /\ pc' = "pause"
            /\ UNCHANGED <<EthStatus, buttonvars, phy, caller, Count, gRxBuf, rx, due, lost>>

\* Twenty sleeps, ten of them with the LED lit; Fast is never set.
Pause == /\ pc = "pause" /\ pc' = "status"
         /\ UNCHANGED <<i, EthStatus, buttonvars, phy, framevars>>

Test == \/ Boot \/ ClearByte \/ ClearDone \/ Status \/ NoFrame \/ High \/ Low \/ Read \/ Report
        \/ LookAtButton \/ Send \/ Pause

Wire == Arrive \/ MacSends

-----------------------------------------------------------------------------
\* Whenever the loop looks for a frame it finds whole ones, although the program may be
\* started with half a frame in the FIFO, and lengths it refuses make it throw away all
\* that is there; what it prints is the frame that came first; and until the transmit FIFO
\* is full once it leaves whole frames there (eth_test/main.c 64, 97-130, 176-191).
FramesWhole ==
    /\ pc = "frames" /\ ~lost => rx = Encoded(due)
    /\ pc = "read" /\ i = Count /\ ~lost => due # <<>> /\ gRxBuf = Head(due)
    /\ pc # "send" /\ ~full => \E n \in 0 .. TxDepth :
                                  tx = Encoded([k \in 1 .. n |-> TestFrame])
=============================================================================
