------------------------------ MODULE DportMux ------------------------------
(***************************************************************************)
(* The multiplexer behind the CPU's data port (dport_mux.v): requests      *)
(* inside the memory's address range go to the memory (tcm), all others to *)
(* the peripheral bus (ext).  Neither side knows of the other, so the      *)
(* multiplexer must not let an answer of one overtake one of the other.    *)
(*                                                                         *)
(* A state is one clock cycle: two registers and the inputs.  The two      *)
(* sides are any two memory ports (MemPort); that the memory and the       *)
(* peripheral bridge are such ports is shown of TcmMem and DportAxi.       *)
(***************************************************************************)
EXTENDS Naturals, Sequences

CONSTANTS
    Ids,             \* names of requests; the tag of a request is its id
    CacheOpTargets,  \* the sides to which the CPU sends flush, invalidate and
                     \* writeback requests
    SideDepth        \* how many requests either side holds

PendingRange == 32   \* pending_q is a register of 5 bits

ASSUME CacheOpAssumption == CacheOpTargets \subseteq {"tcm", "ext"}
ASSUME DepthAssumption == SideDepth \in 1 .. PendingRange - 1

VARIABLES
    tcm_access_q,    \* the side of the last accepted request
    pending_q,       \* how many accepted requests are not acknowledged
    pins,            \* the inputs during this cycle
    tcmTodo, tcmDone, extTodo, extDone     \* the two sides, as MemPort has it

vars == <<tcm_access_q, pending_q, pins, tcmTodo, tcmDone, extTodo, extDone>>

Request ==
    [op : {"read", "write"}, side : {"tcm", "ext"}, id : Ids]
    \cup [op : {"cache"}, side : CacheOpTargets, id : Ids]
NoRequest == [op |-> "none", side |-> "ext"]

Tcm == INSTANCE MemPort WITH Requests <- Request, todo <- tcmTodo, done <- tcmDone
Ext == INSTANCE MemPort WITH Requests <- Request, todo <- extTodo, done <- extDone

-----------------------------------------------------------------------------
(* Wires.                                                                  *)

tcm_access == pins.mem.side = "tcm"

\* A defect: a request waits only while more than one answer is owed.
MutHoldLate == pending_q > 1 /\ tcm_access_q # tcm_access
hold == pending_q # 0 /\ tcm_access_q # tcm_access

request == pins.mem # NoRequest

\* What each side sees of the request.
tcm_request == request /\ tcm_access /\ ~hold
ext_request == request /\ ~tcm_access /\ ~hold

mem_accept == (IF tcm_access THEN pins.tcmAccept ELSE pins.extAccept) /\ ~hold

\* A defect: the answer is selected by the request of this cycle.
MutAckUnlatched == IF tcm_access THEN pins.tcmAck ELSE pins.extAck
mem_ack == IF tcm_access_q THEN pins.tcmAck ELSE pins.extAck
mem_resp_tag == IF tcm_access_q THEN Head(tcmDone).id ELSE Head(extDone).id

-----------------------------------------------------------------------------
(* The registers.                                                          *)

accepted == request /\ mem_accept

\* A defect: a request accepted while another is acknowledged is not counted.
MutAckFirst ==
    pending_q' = IF mem_ack THEN (pending_q + PendingRange - 1) % PendingRange
                 ELSE IF accepted THEN (pending_q + 1) % PendingRange
                 ELSE pending_q

Pending ==
    pending_q' = IF accepted /\ ~mem_ack THEN (pending_q + 1) % PendingRange
                 ELSE IF ~accepted /\ mem_ack
                      THEN (pending_q + PendingRange - 1) % PendingRange
                 ELSE pending_q

Access == tcm_access_q' = IF accepted THEN tcm_access ELSE tcm_access_q

Mux == Pending /\ Access

-----------------------------------------------------------------------------
(* The two sides and the CPU.                                              *)

\* The memory takes what it is sent, cache operations included, and answers it.
TcmSide ==
    \E perform \in BOOLEAN :
        Tcm!Cycle(IF tcm_request /\ pins.tcmAccept THEN <<pins.mem>> ELSE <<>>,
                  perform, pins.tcmAck)

\* The peripheral bridge raises accept for a cache operation as for any
\* request, but only a read or a write enters its queues.
ExtSide ==
    \E perform \in BOOLEAN :
        Ext!Cycle(IF ext_request /\ pins.extAccept /\ pins.mem.op # "cache"
                  THEN <<pins.mem>> ELSE <<>>, perform, pins.extAck)

Pins == [mem : Request \cup {NoRequest}, tcmAccept : BOOLEAN, extAccept : BOOLEAN,
         tcmAck : BOOLEAN, extAck : BOOLEAN]

\* What the sides may drive: accept while there is room, and an acknowledge of
\* a request that was performed.
Driven(p, tt, td, et, ed) ==
    /\ p.tcmAccept => Len(tt) + Len(td) < SideDepth
    /\ p.extAccept => Len(et) + Len(ed) < SideDepth
    /\ p.tcmAck => td # <<>>
    /\ p.extAck => ed # <<>>

Init ==
    /\ tcm_access_q = FALSE
    /\ pending_q = 0
    /\ Tcm!Init /\ Ext!Init
    /\ pins \in Pins
    /\ Driven(pins, tcmTodo, tcmDone, extTodo, extDone)

Clock ==
    /\ Mux
    /\ TcmSide
    /\ ExtSide
    /\ pins' \in Pins
    /\ Driven(pins', tcmTodo', tcmDone', extTodo', extDone')

Next == Clock
Spec == Init /\ [][Next]_vars

\* The CPU keeps a request up until it is accepted.
CpuHolds == request /\ ~mem_accept => pins'.mem = pins.mem

\* The sides are live: they accept what is offered, perform it and answer.
FairSpec ==
    /\ Init /\ [][Next /\ CpuHolds]_vars
    /\ WF_vars(Next /\ CpuHolds)
    /\ WF_vars(Next /\ CpuHolds /\ (request /\ mem_accept)')
    /\ WF_vars(Next /\ CpuHolds /\ (Len(tcmTodo') < Len(tcmTodo) \/ Len(extTodo') < Len(extTodo)))
    /\ WF_vars(Next /\ CpuHolds /\ (pins.tcmAck \/ pins.extAck)')

-----------------------------------------------------------------------------
(* Properties                                                              *)

\* Types of the registers, the inputs and the sides; the counter stays far
\* from the wrap of its 5 bits.
TypeOK ==
    /\ tcm_access_q \in BOOLEAN
    /\ pending_q \in 0 .. SideDepth
    /\ pins \in Pins
    /\ \A s \in {tcmTodo, tcmDone, extTodo, extDone} :
          s \in Seq(Request) /\ Len(s) <= SideDepth

Outstanding(todo, done) == Len(todo) + Len(done)

\* The counter counts: it is the number of requests owed by the side selected
\* last, and the other side owes none.  So no answer is lost at the output
\* multiplexer, and the 5-bit register never wraps.
PendingCounts ==
    /\ pending_q = Outstanding(tcmTodo, tcmDone) + Outstanding(extTodo, extDone)
    /\ tcm_access_q => Outstanding(extTodo, extDone) = 0
    /\ ~tcm_access_q => Outstanding(tcmTodo, tcmDone) = 0

\* An answer of either side in this cycle is passed to the CPU, with its tag.
AcksPassed ==
    /\ pins.tcmAck => mem_ack /\ mem_resp_tag = Head(tcmDone).id
    /\ pins.extAck => mem_ack /\ mem_resp_tag = Head(extDone).id

Port == INSTANCE MemPort
        WITH Requests <- Request, todo <- tcmTodo \o extTodo, done <- tcmDone \o extDone

\* The two sides behind the multiplexer are one memory port: the CPU's requests
\* take effect in program order across memory and peripherals, and their
\* answers come back in that order.
ImplementsMemPort == Port!Spec

\* A request for either side is accepted in the end, however the answers of
\* the other side are spread.
RequestsAccepted == request ~> mem_accept

\* Every accepted request is acknowledged to the CPU.
AnswersArrive == pending_q # 0 ~> mem_ack

\* Nothing waits for ever at the multiplexer: neither the request it holds back
\* (dport_mux.v 170) nor the acknowledge of one it passed on (141).
NothingStuck == RequestsAccepted /\ AnswersArrive
=============================================================================
