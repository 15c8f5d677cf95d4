------------------------------- MODULE EthRegs ------------------------------
(***************************************************************************)
(* The Ethernet registers (eth_axi4lite.v): an AXI4-Lite slave in front of *)
(* the byte FIFOs of the Ethernet MAC.  A state is one clock cycle: the    *)
(* registers, the FIFOs and what the bus asks for; p holds the inputs of   *)
(* the cycle that no rule ties to an earlier one.                          *)
(*                                                                         *)
(* The FIFOs belong to the MAC, which is not part of this repository; they *)
(* are modelled by what this circuit relies on.  The oldest received byte  *)
(* is on rx_data before it is asked for, and rx_rd_en removes it; tx_wr_en *)
(* stores tx_data unless the buffer is full.  Of the status register the   *)
(* model keeps RXEMPTY and TXFULL.  Address and data of a write come       *)
(* together, as axi4lite_dist.v sends them.                                *)
(***************************************************************************)
EXTENDS Naturals, Sequences

CONSTANTS Octets,    \* values of a byte
          RxSize,    \* how many received bytes the MAC holds
          TxSize     \* how many bytes to be sent it holds

ASSUME DepthAssumption == RxSize \in Nat \ {0} /\ TxSize \in Nat \ {0}

VARIABLES rvalid_q, rd_data_q,     \* the answer to a read
          bvalid_q,                \* the answer to a write
          wr_data_q, tx_wr_en,     \* the byte for the MAC, and its strobe
          rx_rd_en,                \* the strobe that removes a received byte
          rx_fifo, tx_fifo,        \* the FIFOs of the MAC
          ar, aw, wdata,           \* the read, write and data on the bus
          rready                   \* the bus takes the answer to a read

regs == <<rvalid_q, rd_data_q, bvalid_q, wr_data_q, tx_wr_en, rx_rd_en>>
bus  == <<ar, aw, wdata, rready>>
regsvars == <<regs, rx_fifo, tx_fifo, bus>>

Regs == {"ETH_RX", "ETH_TX", "ETH_STATUS"}
NoReg == "none"                    \* araddr or awaddr is not valid

\* noise is what rx_data shows when nothing was received.
Inputs == [bready : BOOLEAN, noise : Octets, arriving : {<<>>} \cup {<<b>> : b \in Octets},
           sending : BOOLEAN]

Values == [reg : {NoReg}] \cup [reg : {"ETH_RX"}, byte : Octets]
          \cup [reg : {"ETH_STATUS"}, empty : BOOLEAN, full : BOOLEAN]
Zero == [reg |-> NoReg]

-----------------------------------------------------------------------------
(* Wires.                                                                  *)

arvalid == ar # NoReg
awvalid == aw # NoReg

\* A defect: a read is taken while another one is being answered.
MutArreadyAlways == TRUE
arready == ~rvalid_q

awready == ~bvalid_q /\ ~arvalid

read_en  == arvalid /\ arready
write_en == awvalid /\ awready

rx_empty == rx_fifo = <<>>

tx_full  == Len(tx_fifo) = TxSize
rx_data(p) == IF rx_empty THEN p.noise ELSE Head(rx_fifo)

\* The read multiplexer.
data_r(p) == IF ar = "ETH_RX" THEN [reg |-> ar, byte |-> rx_data(p)]
             ELSE IF ar = "ETH_STATUS" THEN [reg |-> ar, empty |-> rx_empty, full |-> tx_full]
             ELSE Zero

-----------------------------------------------------------------------------
(* Registers.                                                              *)

Rvalid == rvalid_q' = IF read_en THEN TRUE ELSE rvalid_q /\ ~rready

\* A defect: the answer follows the inputs while it waits to be taken.
MutRdDataFollows(p) == rd_data_q' = data_r(p)
RdData(p) == rd_data_q' = IF ~rvalid_q \/ rready THEN data_r(p) ELSE rd_data_q

Bvalid(p) == bvalid_q' = IF write_en THEN TRUE ELSE bvalid_q /\ ~p.bready

TxWrite == /\ wr_data_q' = wdata
           /\ tx_wr_en' = (write_en /\ aw = "ETH_TX")

\* A read of ETH_RX removes the byte in the next cycle.  The strobe ends when
\* a cycle goes by in which no register is read.
RxRead == rx_rd_en' = IF read_en THEN rx_rd_en \/ ar = "ETH_RX" ELSE FALSE

-----------------------------------------------------------------------------
(* The MAC's FIFOs, and the inputs.                                        *)

RxFifo(p) == rx_fifo' = (IF rx_rd_en /\ ~rx_empty THEN Tail(rx_fifo) ELSE rx_fifo) \o p.arriving
TxFifo(p) == tx_fifo' = (IF p.sending THEN Tail(tx_fifo) ELSE tx_fifo)
                     \o (IF tx_wr_en /\ ~tx_full THEN <<wr_data_q>> ELSE <<>>)

\* The MAC sends and receives what its FIFOs allow.
MacAllows(p) == /\ p.arriving # <<>> => Len(rx_fifo) < RxSize
                /\ p.sending => tx_fifo # <<>>
                /\ ~rx_empty => p.noise = rx_data(p)

\* AXI: an offer that is not taken is repeated.
Offers == /\ ar' \in IF arvalid /\ ~arready THEN {ar} ELSE Regs \cup {NoReg}
          /\ IF awvalid /\ ~awready THEN UNCHANGED <<aw, wdata>>
             ELSE /\ aw' \in Regs \cup {NoReg}
                  /\ wdata' \in IF aw' = "ETH_TX" THEN Octets ELSE {wdata}
          /\ rready' \in BOOLEAN

RegsInit == /\ rvalid_q = FALSE /\ rd_data_q = Zero /\ bvalid_q = FALSE
            /\ wr_data_q \in Octets /\ tx_wr_en = FALSE /\ rx_rd_en = FALSE
            /\ rx_fifo = <<>> /\ tx_fifo = <<>>
            /\ ar = NoReg /\ aw = NoReg /\ wdata \in Octets /\ rready \in BOOLEAN

Clock(p) == /\ MacAllows(p)
            /\ Rvalid /\ RdData(p) /\ Bvalid(p) /\ TxWrite /\ RxRead
            /\ RxFifo(p) /\ TxFifo(p)
            /\ Offers

RegsNext == \E p \in Inputs : Clock(p)
RegsSpec == RegsInit /\ [][RegsNext]_regsvars

-----------------------------------------------------------------------------
(* Properties.                                                             *)

RegsTypeOK ==
    /\ rvalid_q \in BOOLEAN /\ bvalid_q \in BOOLEAN /\ tx_wr_en \in BOOLEAN /\ rx_rd_en \in BOOLEAN
    /\ rd_data_q \in Values /\ wr_data_q \in Octets
    /\ rx_fifo \in Seq(Octets) /\ Len(rx_fifo) <= RxSize
    /\ tx_fifo \in Seq(Octets) /\ Len(tx_fifo) <= TxSize
    /\ ar \in Regs \cup {NoReg} /\ aw \in Regs \cup {NoReg} /\ wdata \in Octets

\* The strobe that removes a received byte lasts one cycle, in which nothing
\* else is read: its register is only cleared by a cycle without a read, and
\* RXEMPTY and the next byte are stale until the byte is gone.
PopOnce == rx_rd_en => ~read_en /\ rvalid_q

\* The strobes and the answer registers fit together (eth_axi4lite.v 107-309).
StrobeInv == RegsTypeOK /\ PopOnce

\* The device the firmware sees: a byte counts as read when the read is
\* taken, though it leaves the FIFO later, and as written likewise.
Unread  == IF rx_rd_en /\ ~rx_empty THEN Tail(rx_fifo) ELSE rx_fifo
Unsent  == IF tx_wr_en THEN Append(tx_fifo, wr_data_q) ELSE tx_fifo
Answer  == IF rvalid_q THEN <<rd_data_q>> ELSE <<>>

Device == INSTANCE EthDevice WITH Bytes <- Octets, TxDepth <- TxSize,
              rx <- Unread, tx <- Unsent, answer <- Answer, writing <- bvalid_q

\* Reads and writes by the firmware act on two byte streams, each byte once
\* and in order, in spite of the delay between an access and its effect; and
\* an answer stands, unchanged, until it is taken (eth_axi4lite.v 107-309).
ImplementsEthDevice == Device!Spec
=============================================================================
