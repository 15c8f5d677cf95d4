------------------------------ MODULE DportAxi ------------------------------
(***************************************************************************)
(* The bridge from the CPU's data port to the AXI4-Lite peripheral bus     *)
(* (dport_axi.v).  A state is one clock cycle: the registers, and in pins  *)
(* the level of every input during the cycle.  Each wire of the circuit is *)
(* an operator of the state, each always block an action, and Clock is the *)
(* edge that ends the cycle.  The reset is asserted only before the first  *)
(* cycle.                                                                  *)
(*                                                                         *)
(* The address, data and byte enables of a request are one value, its id;  *)
(* the CPU numbers its requests by their tags, so the tag of a request is  *)
(* named by the same id.  The request queue holds ids of payloads and the  *)
(* response queue ids of tags, as two queues with nothing but the circuit  *)
(* to keep them in step.                                                   *)
(*                                                                         *)
(* The slave at the far side is any AXI4-Lite slave: it takes an address   *)
(* and a data word whenever it likes, in either order, performs a write    *)
(* when it has both, and answers in a later cycle than the one in which it *)
(* got the request.                                                        *)
(***************************************************************************)
EXTENDS Naturals, Sequences

CONSTANT Ids       \* names of requests

VARIABLES
    req,           \* u_req: the accepted requests not yet on the bus
    resp,          \* u_resp: the tags of the requests not yet acknowledged
    pending,       \* request_pending_q
    awInhibit,     \* awvalid_inhibit_q
    wInhibit,      \* wvalid_inhibit_q
    pins,          \* the inputs during this cycle
    slvAw,         \* slave: addresses of writes it took without their data
    slvW,          \* slave: data of writes it took without their address
    owedB,         \* slave: writes it performed and did not answer
    owedR          \* slave: reads it performed and did not answer

regs == <<req, resp, pending, awInhibit, wInhibit>>
slave == <<slvAw, slvW, owedB, owedR>>
vars == <<regs, pins, slave>>

FifoDepth == 2         \* DEPTH of u_req and u_resp
SlaveDepth == 2        \* how far this slave may run ahead of itself

Request == [op : {"read", "write"}, id : Ids]
NoRequest == [op |-> "none"]

Req == INSTANCE BoundedQueue WITH q <- req, Depth <- FifoDepth, Data <- Request
Resp == INSTANCE BoundedQueue WITH q <- resp, Depth <- FifoDepth, Data <- Ids

-----------------------------------------------------------------------------
(* The wires of the CPU side.                                              *)

mem_request == pins.mem # NoRequest      \* mem_rd_i || mem_wr_i != 0
mem_accept == Req!Accept /\ Resp!Accept

req_push == mem_request /\ Resp!Accept
res_push == mem_request /\ Req!Accept

mem_ack == pins.bvalid \/ pins.rvalid
mem_resp_tag == Head(resp)               \* meaningful only if Resp!Valid

-----------------------------------------------------------------------------
(* The wires of the bus side.                                              *)

request_in_progress == pending /\ ~mem_ack

req_is_read  == Req!Valid /\ ~request_in_progress /\ Head(req).op = "read"
req_is_write == Req!Valid /\ ~request_in_progress /\ Head(req).op = "write"

\* A defect: the address stays asserted after it was taken.
MutAwAlways == req_is_write
awvalid == req_is_write /\ ~awInhibit
wvalid  == req_is_write /\ ~wInhibit
arvalid == req_is_read

\* A defect: a write is over once its address was taken.
MutWriteCompleteEarly == (awInhibit \/ pins.awready) /\ req_is_write
write_complete == /\ awInhibit \/ pins.awready
                  /\ wInhibit \/ pins.wready
                  /\ req_is_write
read_complete == arvalid /\ pins.arready
req_pop == read_complete \/ write_complete

-----------------------------------------------------------------------------
(* The registers.                                                          *)

\* A defect: the address is withdrawn although only the data was refused.
MutAwInhibitUnready ==
    awInhibit' = IF awvalid /\ wvalid /\ ~pins.wready THEN TRUE
                 ELSE IF wvalid /\ pins.wready THEN FALSE ELSE awInhibit

\* The address was taken before the data: do not offer it again.
AwInhibit ==
    awInhibit' = IF awvalid /\ pins.awready /\ wvalid /\ ~pins.wready THEN TRUE
                 ELSE IF wvalid /\ pins.wready THEN FALSE ELSE awInhibit

\* A defect: the data stays asserted although it was taken.
MutWNotInhibited == wInhibit' = FALSE

\* The data was taken before the address: do not offer it again.
WInhibit ==
    wInhibit' = IF wvalid /\ pins.wready /\ awvalid /\ ~pins.awready THEN TRUE
                ELSE IF awvalid /\ pins.awready THEN FALSE ELSE wInhibit

\* A defect: the answer to the last request also clears the mark of a request
\* that entered the bus in the same cycle.
MutAckClearsAll ==
    pending' = IF mem_ack THEN FALSE ELSE pending \/ write_complete \/ read_complete

\* A defect: an answer does not end the wait of the bridge.
MutPendingSticks == pending' = (pending \/ write_complete \/ read_complete)

Pending ==
    pending' = IF write_complete \/ read_complete THEN TRUE
               ELSE IF mem_ack THEN FALSE ELSE pending

Bridge ==
    /\ Req!Clock(req_push, pins.mem, req_pop)
    /\ Resp!Clock(res_push, pins.mem.id, mem_ack)
    /\ AwInhibit
    /\ WInhibit
    /\ Pending

-----------------------------------------------------------------------------
(* The slave and the CPU.                                                  *)

Drop(s, gone) == IF gone THEN Tail(s) ELSE s

Slave ==
    LET aw == IF awvalid /\ pins.awready THEN Append(slvAw, Head(req).id) ELSE slvAw
        w  == IF wvalid /\ pins.wready THEN Append(slvW, Head(req).id) ELSE slvW
        b  == Drop(owedB, pins.bvalid)
        r  == Drop(owedR, pins.rvalid)
        both == aw # <<>> /\ w # <<>>
    IN  /\ slvAw' = Drop(aw, both)
        /\ slvW' = Drop(w, both)
        /\ owedB' = IF both THEN Append(b, [addr |-> Head(aw), data |-> Head(w)]) ELSE b
        /\ owedR' = IF arvalid /\ pins.arready THEN Append(r, Head(req).id) ELSE r

Pins == [mem : Request \cup {NoRequest}, awready : BOOLEAN, wready : BOOLEAN,
         arready : BOOLEAN, bvalid : BOOLEAN, rvalid : BOOLEAN]

\* What the two sides may drive: the CPU any request or none, the slave any
\* ready it has room for and an answer to a request it performed.
Driven(p, aw, w, b, r) ==
    /\ p \in Pins
    /\ p.awready => Len(aw) < SlaveDepth
    /\ p.wready => Len(w) < SlaveDepth
    /\ p.bvalid => b # <<>>
    /\ p.rvalid => r # <<>>

Init ==
    /\ req = <<>> /\ resp = <<>>
    /\ pending = FALSE /\ awInhibit = FALSE /\ wInhibit = FALSE
    /\ slvAw = <<>> /\ slvW = <<>> /\ owedB = <<>> /\ owedR = <<>>
    /\ pins \in Pins
    /\ Driven(pins, slvAw, slvW, owedB, owedR)

Clock ==
    /\ Bridge
    /\ Slave
    /\ pins' \in Pins
    /\ Driven(pins', slvAw', slvW', owedB', owedR')

Next == Clock
Spec == Init /\ [][Next]_vars

\* The slave takes a part of what it is offered.
SlaveTakes == \/ awvalid /\ pins.awready
              \/ wvalid /\ pins.wready
              \/ arvalid /\ pins.arready

\* The slave is live: of what is offered to it something is taken in the end,
\* and what it performed is answered.  The clock runs.
SlaveFairness ==
    /\ WF_vars(Clock)
    /\ WF_vars(Clock /\ SlaveTakes')
    /\ WF_vars(Clock /\ mem_ack')

FairSpec == Spec /\ SlaveFairness

-----------------------------------------------------------------------------
(* Properties                                                              *)

\* Types, and the capacity of the two queues.
TypeOK ==
    /\ req \in Seq(Request) /\ Len(req) <= FifoDepth
    /\ resp \in Seq(Ids) /\ Len(resp) <= FifoDepth
    /\ pending \in BOOLEAN /\ awInhibit \in BOOLEAN /\ wInhibit \in BOOLEAN
    /\ pins \in Pins
    /\ slvAw \in Seq(Ids) /\ slvW \in Seq(Ids)
    /\ owedB \in Seq([addr : Ids, data : Ids]) /\ owedR \in Seq(Ids)

\* The ids of the requests the slave performed and has not answered.
Owed == [i \in 1 .. Len(owedB) |-> owedB[i].addr] \o owedR

\* The tag queue is in step with the payloads, although the two are pushed
\* and popped by different wires: it holds the tag of the request on the bus
\* if there is one, then those of the queued requests, in their order.
TagsInStep == resp = Owed \o [i \in 1 .. Len(req) |-> req[i].id]

\* "Allows 1 outstanding transaction": the bus never holds more than one
\* request, be it half taken or taken and not answered, and the pending mark
\* is set exactly while an answer is owed.
OneOutstanding ==
    /\ Len(Owed) = IF pending THEN 1 ELSE 0
    /\ Len(slvAw) + Len(slvW) + Len(Owed) <= 1

\* A half-taken write is the oldest request: the slave holds exactly the half
\* whose offer is inhibited, and the write has the bus to itself.
HalfWrite ==
    /\ awInhibit \/ wInhibit =>
          req # <<>> /\ Head(req).op = "write" /\ ~pending
    /\ ~(awInhibit /\ wInhibit)
    /\ slvAw = IF awInhibit THEN <<Head(req).id>> ELSE <<>>
    /\ slvW = IF wInhibit THEN <<Head(req).id>> ELSE <<>>

\* The two queues, the bus and the halves of a write stay in step (dport_axi.v
\* 107-230): nothing but the circuit keeps payloads, tags and marks together.
QueuesInStep == TagsInStep /\ OneOutstanding /\ HalfWrite

\* The slave never joins the address of one write with the data of another,
\* in whichever order and however far apart it took the two.
WritesPaired == \A i \in 1 .. Len(owedB) : owedB[i].addr = owedB[i].data

\* An acknowledge finds a tag, and the tag is that of the request answered.
AckMatches ==
    mem_ack => /\ Resp!Valid
               /\ ~(pins.bvalid /\ pins.rvalid)
               /\ mem_resp_tag = IF pins.bvalid THEN owedB[1].addr ELSE owedR[1]

\* AXI: what is offered and not taken is offered again, unchanged.  Neither
\* the arrival of a new request, nor of an answer, nor the transfer of the
\* other half of a write may withdraw it.
HandshakesStable ==
    [][/\ awvalid /\ ~pins.awready => awvalid' /\ Head(req') = Head(req)
       /\ wvalid /\ ~pins.wready => wvalid' /\ Head(req') = Head(req)
       /\ arvalid /\ ~pins.arready => arvalid' /\ Head(req') = Head(req)]_vars

\* The requests the slave performed, as the port's abstract specification
\* counts them.
Performed ==
    [i \in 1 .. Len(owedB) |-> [op |-> "write", id |-> owedB[i].addr]]
    \o [i \in 1 .. Len(owedR) |-> [op |-> "read", id |-> owedR[i]]]

Port == INSTANCE MemPort WITH Requests <- Request, todo <- req, done <- Performed

\* The bridge and a slave together are a memory port: accepted requests are
\* performed on the slave once each and in order, and answered in order.
ImplementsMemPort == Port!Spec

\* Every accepted request is answered, if the slave is live.
AnswersArrive == Resp!Valid ~> mem_ack

\* Back pressure ends: the CPU is never refused for ever.
KeepsAccepting == []<>mem_accept

\* With a live slave nothing waits for ever behind the bridge (dport_axi.v 138,
\* 168): every request is answered, and the CPU is accepted again.
NothingStuck == AnswersArrive /\ KeepsAccepting
=============================================================================
