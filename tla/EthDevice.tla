------------------------------ MODULE EthDevice -----------------------------
(***************************************************************************)
(* What the firmware relies on when it reads and writes the Ethernet       *)
(* registers: two byte streams.  A read of ETH_RX gives the next received  *)
(* byte and removes it, once; a read of ETH_STATUS shows the streams and   *)
(* removes nothing; a write of ETH_TX hands one byte to the MAC.  Each     *)
(* access is answered once, one read and one write at a time.              *)
(*                                                                         *)
(* Two things are the firmware's to avoid.  A read of ETH_RX with nothing  *)
(* received returns any byte, and a byte that arrives in that very cycle   *)
(* is lost.  A byte written when the transmit buffer is full is lost, and  *)
(* a status read together with such a write does not yet show it.          *)
(*                                                                         *)
(* EthRegs, the registers of eth_axi4lite.v, is shown to implement this    *)
(* module.                                                                 *)
(***************************************************************************)
EXTENDS Naturals, Sequences

CONSTANTS Bytes, TxDepth
VARIABLES rx,      \* bytes received and not read
          tx,      \* bytes written and not sent
          answer,  \* <<what the outstanding read returns>>, or <<>>
          writing  \* a write is not acknowledged yet

\* Any of no item and the items of S.
Maybe(S) == {<<>>} \cup {<<x>> : x \in S}

\* The read side of a cycle in which arriving comes from the wire.
NoRead(arriving) == /\ answer' \in {answer, <<>>}
                    /\ rx' = rx \o arriving

ReadRx(arriving) ==
    /\ answer = <<>>
    /\ \E b \in Bytes : /\ rx # <<>> => b = Head(rx)
                        /\ answer' = <<[reg |-> "ETH_RX", byte |-> b]>>
    /\ LET found == rx \o arriving IN rx' = IF found = <<>> THEN <<>> ELSE Tail(found)

ReadStatus(arriving) ==
    /\ answer = <<>>
    /\ \E full \in BOOLEAN : /\ full => Len(tx) >= TxDepth
                             /\ ~full => Len(tx) <= TxDepth
                             /\ answer' = <<[reg |-> "ETH_STATUS", empty |-> rx = <<>>, full |-> full]>>
    /\ rx' = rx \o arriving

ReadOther(arriving) == /\ answer = <<>> /\ answer' = <<[reg |-> "none"]>>
                       /\ rx' = rx \o arriving


\* The write side: the MAC may send the oldest byte, a byte the buffer has no
\* room for is dropped, a byte may be written.
WriteSide(written, sending) ==
    LET kept == IF Len(tx) > TxDepth THEN SubSeq(tx, 1, TxDepth) ELSE tx
    IN  /\ sending => kept # <<>>
        /\ tx' = (IF sending THEN Tail(kept) ELSE kept) \o written
        /\ written # <<>> => ~writing /\ writing'
        /\ writing' \in BOOLEAN

Init == rx = <<>> /\ tx = <<>> /\ answer = <<>> /\ writing = FALSE

Next == /\ \E arriving \in Maybe(Bytes) :
              NoRead(arriving) \/ ReadRx(arriving) \/ ReadStatus(arriving) \/ ReadOther(arriving)
        /\ \E written \in Maybe(Bytes), sending \in BOOLEAN : WriteSide(written, sending)

Spec == Init /\ [][Next]_<<rx, tx, answer, writing>>
=============================================================================
