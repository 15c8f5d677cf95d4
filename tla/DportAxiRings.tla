--------------------------- MODULE DportAxiRings ----------------------------
(***************************************************************************)
(* The bridge of the data port (DportAxi) with the FIFO of response tags   *)
(* put in place as the circuit has it: RingFifo, clocked by the wires of   *)
(* the bridge.  DportAxi has a bounded queue (resp) there; the ring runs   *)
(* beside it and is seen to hold the same.                                 *)
(***************************************************************************)
EXTENDS DportAxi, RingFifo

ASSUME RingAssumption == Depth = FifoDepth /\ Data = Ids

ringvars == <<vars, fifovars>>

\* u_resp: push_i, data_in_i and pop_i.
RespClock == FifoClock(res_push, pins.mem.id, mem_ack)

RingsInit == Init /\ FifoInit
RingsNext == Clock /\ RespClock

RingsSpec == RingsInit /\ [][RingsNext]_ringvars
FairRingsSpec == RingsSpec /\ SlaveFairness

-----------------------------------------------------------------------------
\* The registers of the ring fit together and its slots hold the queue, however the pointers
\* wrap and whenever a push and a pop meet (dport_axi.v 146-163, 281-312).
RingInPlace == FifoInv /\ Contents = resp
=============================================================================
