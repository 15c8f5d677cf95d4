----------------------------- MODULE NetOutput ------------------------------
(***************************************************************************)
(* How the firmware of lwip_test sends Ethernet frames: pano_netif_output  *)
(* of fw/lwip_test/main.c, called by lwIP with a chain of pbufs.           *)
(*                                                                         *)
(* A frame goes into the transmit stream as its length in two bytes and    *)
(* then its bytes; the MAC (external) takes a frame out once it is all     *)
(* there.  A byte written while the FIFO is full is lost, as EthDevice     *)
(* says.  A step is one write to ETH_TX and the computation around it.  A  *)
(* byte is a digit below Base; ThisBufLen wraps below Wrap (2^16).         *)
(* EthDriver states what the constants must satisfy.                       *)
(***************************************************************************)
EXTENDS Naturals, Sequences, SequencesExt

CONSTANTS Base,      \* values of a byte (256)
          Wrap,      \* values of a u16_t
          TxDepth,   \* bytes the transmit FIFO holds
          Chains,    \* what lwIP may pass: a pbuf chain as the payloads of its pbufs
          Beyond,    \* what memory behind the first pbuf's payload may hold
          MaxQueued, \* bound of the model: frames not yet taken by the MAC
          MaxResets  \* bound of the model

Bytes == 0 .. Base - 1

\* The frame a chain stands for.
Frame(c) == FlattenSeq(c)

VARIABLES tx,     \* the transmit FIFO
          pc,     \* what pano_netif_output does next, "idle" outside of it
          chain,  \* the pbufs from p on
          first,  \* payload of the pbuf it was called with: cp runs on from there
          total,  \* TxLen
          i,      \* bytes written: the loop counter, and cp - first
          left,   \* ThisBufLen
          asked,  \* history: the chains passed whose frames the MAC has not taken
          cut,    \* history: a frame was cut off, by a CPU reset or for want of room
          resets

call == <<chain, first, total>>
vars == <<tx, pc, call, i, left, asked, cut, resets>>

Init == /\ tx = <<>> /\ pc = "idle"
        /\ chain = <<>> /\ first = <<>> /\ total = 0 /\ i = 0 /\ left = 0
        /\ asked = <<>> /\ cut = FALSE /\ resets = 0

\* ETH_TX = b
WriteTx(b) == IF Len(tx) < TxDepth THEN tx' = Append(tx, b) /\ UNCHANGED cut
                                   ELSE cut' = TRUE /\ UNCHANGED tx

-----------------------------------------------------------------------------
\* lwIP hands over a frame.  The caller is always told ERR_OK.  Once a frame was
\* cut off nothing puts the MAC back in step, and no more is explored.
Output == \E c \in Chains :
    /\ pc = "idle" /\ Len(asked) < MaxQueued /\ ~cut
    /\ asked' = Append(asked, c)
    /\ chain' = c /\ first' = Head(c) /\ total' = Len(Frame(c))
    /\ left' = Len(Head(c)) /\ i' = 0
    /\ pc' = "high"
    /\ UNCHANGED <<tx, cut, resets>>

MutWriteHighPbuf == /\ pc = "high" /\ pc' = "low" /\ WriteTx(Len(first) \div Base)
                    /\ UNCHANGED <<call, i, left, asked, resets>>
WriteHigh == /\ pc = "high" /\ pc' = "low" /\ WriteTx(total \div Base)
             /\ UNCHANGED <<call, i, left, asked, resets>>

WriteLow == /\ pc = "low" /\ pc' = "data" /\ WriteTx(total % Base)
            /\ UNCHANGED <<call, i, left, asked, resets>>

\* The byte cp points at: cp is not moved to the next pbuf's payload.
AtCp == IF i < Len(first) THEN {first[i + 1]} ELSE Beyond

\* One turn of the loop: on to the next pbuf if this one is used up, and a byte.
WriteData ==
    LET here == IF left = 0 THEN Tail(chain) ELSE chain
        len  == IF left = 0 THEN Len(Head(here)) ELSE left
    IN  /\ pc = "data" /\ i < total
        /\ here # <<>>
        /\ \E b \in AtCp : WriteTx(b)
        /\ chain' = here /\ left' = (len + Wrap - 1) % Wrap /\ i' = i + 1
        /\ UNCHANGED <<pc, first, total, asked, resets>>

\* All written, or "Ran out of buffers before data".
Return == /\ pc = "data" /\ pc' = "idle"
          /\ i = total \/ (left = 0 /\ Len(chain) = 1)
          /\ chain' = <<>> /\ first' = <<>> /\ total' = 0 /\ i' = 0 /\ left' = 0
          /\ UNCHANGED <<tx, asked, cut, resets>>

\* pano_netif_output, from its call to its return.
Running == WriteHigh \/ WriteLow \/ WriteData \/ Return

\* The MAC takes the frame at the head of the FIFO once it is all there.
MacSends ==
    LET size == tx[1] * Base + tx[2]
    IN  /\ Len(tx) >= 2 /\ Len(tx) >= 2 + size
        /\ tx' = SubSeq(tx, 3 + size, Len(tx))
        /\ asked' = IF asked = <<>> THEN <<>> ELSE Tail(asked)
        /\ UNCHANGED <<pc, call, i, left, cut, resets>>

\* The debug bridge resets the CPU, not the Ethernet core.
CpuReset == /\ resets < MaxResets /\ resets' = resets + 1
            /\ cut' = (cut \/ pc # "idle")
            /\ pc' = "idle"
            /\ chain' = <<>> /\ first' = <<>> /\ total' = 0 /\ i' = 0 /\ left' = 0
            /\ UNCHANGED <<tx, asked>>

Next == Output \/ Running \/ MacSends \/ CpuReset

Spec == Init /\ [][Next]_vars

-----------------------------------------------------------------------------
(* Properties.                                                             *)

TypeOK == /\ tx \in Seq(Bytes) /\ Len(tx) <= TxDepth
          /\ pc \in {"idle", "high", "low", "data"}
          /\ first \in Seq(Bytes) /\ i \in 0 .. total /\ left \in 0 .. Wrap - 1
          /\ asked \in Seq(Chains) /\ cut \in BOOLEAN

\* What the MAC takes in a step, if it takes something.
Took == SubSeq(tx, 3, Len(tx) - Len(tx'))

\* The frames the MAC takes are the frames passed, in order and of the right
\* lengths, whatever the shape of the chains and although the CPU may be reset
\* between two frames: the MAC keeps finding a length where it expects one
\* (main.c 282, 290-305).
LengthsKept == [][Len(tx') < Len(tx) /\ ~cut =>
                    asked # <<>> /\ Len(Took) = Len(Frame(Head(asked)))]_vars

\* A frame passed in a single pbuf is sent byte for byte (main.c 292-305).
SingleIntact == [][Len(tx') < Len(tx) /\ ~cut /\ asked # <<>> /\ Len(Head(asked)) = 1 =>
                     Took = Head(asked)[1]]_vars

\* What the MAC takes, whole (main.c 282-305).
FramesIntact == LengthsKept /\ SingleIntact

\* A chained frame is sent byte for byte too: "This pbuf might be chained" (266-267).
ChainIntact == [][Len(tx') < Len(tx) /\ ~cut /\ asked # <<>> =>
                     Took = Frame(Head(asked))]_vars
=============================================================================
