------------------------------ MODULE RingFifo ------------------------------
(***************************************************************************)
(* The FIFO the bus bridges are built from: dport_axi_fifo (Depth 2) and   *)
(* tcm_mem_pmem_fifo2 (Depth 4), two copies of one circuit.  Its pointers  *)
(* have ADDR_W bits and wrap; both instances have DEPTH = 2^ADDR_W, so a   *)
(* pointer is a number modulo Depth, and the ADDR_W + 1 bits of the count  *)
(* are a number modulo 2 * Depth.                                          *)
(***************************************************************************)
EXTENDS Naturals, Sequences

CONSTANTS Depth, Data

ASSUME DepthAssumption == Depth \in Nat \ {0}

VARIABLES ram,      \* ram_q: the slots; nothing resets them
          rdPtr,    \* rd_ptr_q
          wrPtr,    \* wr_ptr_q
          count     \* count_q

fifovars == <<ram, rdPtr, wrPtr, count>>

Slots == 0 .. Depth - 1
Wrap(p) == p % Depth

Valid  == count # 0            \* valid_o
Accept == count # Depth        \* accept_o
DataOut == ram[rdPtr]          \* data_out_o: meaningful only while Valid

FifoInit ==
    /\ ram \in [Slots -> Data]
    /\ rdPtr = 0
    /\ wrPtr = 0
    /\ count = 0

PushSlot(push, x) ==
    IF push /\ Accept
    THEN ram' = [ram EXCEPT ![wrPtr] = x] /\ wrPtr' = Wrap(wrPtr + 1)
    ELSE UNCHANGED <<ram, wrPtr>>

PopSlot(pop) == rdPtr' = IF pop /\ Valid THEN Wrap(rdPtr + 1) ELSE rdPtr

\* A defect: a push that meets a pop in the same cycle is counted, the pop is
\* not.
MutCountPushOnly(push, pop) ==
    count' = IF push /\ Accept THEN (count + 1) % (2 * Depth)
             ELSE IF pop /\ Valid THEN count - 1 ELSE count

\* Up on a push alone, down on a pop alone, still when both happen or neither.
Count(push, pop) ==
    LET in  == push /\ Accept
        out == pop /\ Valid
    IN  count' = IF in /\ ~out THEN (count + 1) % (2 * Depth)
                 ELSE IF ~in /\ out THEN count - 1 ELSE count

FifoClock(push, x, pop) == PushSlot(push, x) /\ PopSlot(pop) /\ Count(push, pop)

FifoNext == \E push, pop \in BOOLEAN, x \in Data : FifoClock(push, x, pop)
FifoSpec == FifoInit /\ [][FifoNext]_fifovars

-----------------------------------------------------------------------------
(* Properties                                                              *)

\* The types of the registers: the count, whose register could hold twice as
\* much, never passes the number of slots.
FifoTypeOK ==
    /\ ram \in [Slots -> Data]
    /\ rdPtr \in Slots
    /\ wrPtr \in Slots
    /\ count \in 0 .. Depth

\* Three registers keep what two would: the write pointer is always the read
\* pointer advanced by the count, whatever pushes and pops coincided.
PointersAgree == wrPtr = Wrap(rdPtr + count)

\* The registers fit together (dport_axi.v 281-304, tcm_mem_pmem.v 403-427).
FifoInv == FifoTypeOK /\ PointersAgree

\* The c items found in the slots s from pointer p on.
Ring(s, p, c) == [i \in 1 .. c |-> s[Wrap(p + i - 1)]]

\* The items the FIFO holds, oldest first.
Contents == Ring(ram, rdPtr, count)

Queue == INSTANCE BoundedQueue WITH q <- Contents

\* The ring of slots is a bounded queue: nothing is lost, duplicated,
\* reordered or overwritten, also when the pointers wrap and when a push and a
\* pop meet in one cycle.
ImplementsQueue == Queue!Spec
=============================================================================
