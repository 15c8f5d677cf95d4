----------------------------- MODULE AxiLiteDist ----------------------------
(***************************************************************************)
(* The distributor of the peripheral bus (axi4lite_dist.v): one AXI4-Lite  *)
(* master in front of six slaves, chosen by bits 24 to 26 of the address.  *)
(* A state is one clock cycle; p holds the inputs of the cycle that no     *)
(* rule ties to an earlier one.                                            *)
(*                                                                         *)
(* A request is the port its address selects and an id that stands for the *)
(* rest of address and data.  Three address bits select eight ports: those *)
(* that are not connected are always unready.  The slaves take the address *)
(* and the data of a write in one cycle, as the source assumes, and answer *)
(* in a later cycle.  The master may send the data of a write after its    *)
(* address.                                                                *)
(***************************************************************************)
EXTENDS Naturals, Sequences

CONSTANTS Ports,     \* the ports connected to a slave
          Request    \* the requests of the master: [port, id]

Selectable == 0 .. 7 \* what three bits of an address can select
None == [port |-> 0, id |-> "none"]          \* no address is valid

ASSUME PortAssumption == Ports \subseteq Selectable
ASSUME RequestAssumption == \A r \in Request : r.port \in Selectable /\ r # None

VARIABLES
    read_sel_q, read_pending_q,                       \* the read side
    awaddr_q, awvalid_q, write_sel_q, write_pending_q, \* the write side
    ar, aw, wdata, wvalid,         \* what the master offers
    rowed, rvalid,                 \* slaves: reads taken and not answered,
    bowed, bvalid                  \*   writes likewise; answers on offer

readRegs  == <<read_sel_q, read_pending_q>>
writeRegs == <<awaddr_q, awvalid_q, write_sel_q, write_pending_q>>
master == <<ar, aw, wdata, wvalid>>
slaves == <<rowed, rvalid, bowed, bvalid>>
vars   == <<readRegs, writeRegs, master, slaves>>

\* arready and awready are those of the port selected.
Inputs  == [rready : BOOLEAN, bready : BOOLEAN,
            arready : BOOLEAN, awready : BOOLEAN]

-----------------------------------------------------------------------------
(* Reads.                                                                  *)

in_arvalid == ar # None

read_sel == IF read_pending_q THEN read_sel_q ELSE ar.port

read_out == in_arvalid /\ ~read_pending_q

read_ready(p) == read_sel \in Ports /\ p.arready
in_arready(p) == read_ready(p) /\ ~read_pending_q
in_rvalid == read_sel_q \in rvalid
read_made(p)  == read_out /\ read_ready(p)
read_given(p) == in_rvalid /\ p.rready

ReadSide(p) ==
    /\ read_pending_q' = IF read_given(p) THEN FALSE
                         ELSE IF ~read_pending_q /\ in_arvalid THEN in_arready(p)
                         ELSE read_pending_q
    /\ read_sel_q' = read_sel

-----------------------------------------------------------------------------
(* Writes.                                                                 *)

in_awvalid == aw # None \/ awvalid_q
in_awaddr  == IF awvalid_q THEN awaddr_q ELSE aw

\* A defect: the port follows the next address while an answer is awaited.
MutWriteSelFollows == in_awaddr.port
write_sel == IF write_pending_q THEN write_sel_q ELSE in_awaddr.port
write_out == in_awvalid /\ wvalid /\ ~write_pending_q

write_ready(p) == write_sel \in Ports /\ p.awready

in_awready(p) == write_ready(p) /\ ~write_pending_q /\ ~awvalid_q
in_wready(p)  == write_ready(p) /\ ~write_pending_q /\ in_awvalid

in_bvalid == write_sel_q \in bvalid
aw_taken(p) == aw # None /\ in_awready(p)
w_taken(p)  == wvalid /\ in_wready(p)
write_made(p)  == write_out /\ write_ready(p)
write_given(p) == in_bvalid /\ p.bready

\* A defect: the address is kept for one cycle only.
MutLatchForgets(p) ==
    /\ awvalid_q' = (aw_taken(p) /\ ~wvalid)
    /\ awaddr_q' = IF aw_taken(p) THEN aw ELSE awaddr_q

\* The address of a write whose data comes later is kept.
AddressLatch(p) ==
    /\ awvalid_q' = IF aw_taken(p) /\ ~wvalid THEN TRUE
                    ELSE awvalid_q /\ ~write_given(p)
    /\ awaddr_q' = IF aw_taken(p) THEN aw ELSE awaddr_q

WriteSide(p) ==
    /\ write_pending_q' = IF write_given(p) THEN FALSE
                          ELSE IF ~write_pending_q /\ wvalid THEN in_wready(p)
                          ELSE write_pending_q
    /\ write_sel_q' = write_sel

-----------------------------------------------------------------------------
(* The slaves and the master.                                              *)

\* A slave that was given an access answers it in a later cycle; the answer
\* stands until it is taken.
Slave(owed, made, what, given, valid, validNext) ==
    /\ owed' = [s \in Ports |-> (IF s \in given THEN Tail(owed[s]) ELSE owed[s])
                               \o (IF s \in made THEN <<what>> ELSE <<>>)]
    /\ validNext \subseteq {s \in Ports : owed'[s] # <<>>}
    /\ valid \ given \subseteq validNext

Slaves(p) ==
    /\ rvalid' \in SUBSET Ports
    /\ bvalid' \in SUBSET Ports
    /\ Slave(rowed, IF read_made(p) THEN {read_sel} ELSE {}, ar,
             IF p.rready THEN rvalid \cap {read_sel_q} ELSE {}, rvalid, rvalid')
    /\ Slave(bowed, IF write_made(p) THEN {write_sel} ELSE {},
             [addr |-> in_awaddr, data |-> Head(wdata)],
             IF p.bready THEN bvalid \cap {write_sel_q} ELSE {}, bvalid, bvalid')

\* The master offers reads and writes as it likes; data follows addresses.
Master(p) ==
    /\ ar' \in IF in_arvalid /\ ~(in_arready(p)) THEN {ar} ELSE Request \cup {None}
    /\ LET left == IF w_taken(p) THEN Tail(wdata) ELSE wdata
       IN  \/ /\ aw' = IF aw_taken(p) THEN None ELSE aw
              /\ wdata' = left
           \/ /\ aw = None \/ aw_taken(p)
              /\ Len(left) < 2
              /\ \E r \in Request : aw' = r /\ wdata' = Append(left, r)
    /\ wvalid' \in IF wvalid /\ ~w_taken(p) THEN {TRUE} ELSE BOOLEAN
    /\ wvalid' => wdata' # <<>>

Init == /\ read_sel_q = 0 /\ read_pending_q = FALSE
        /\ awaddr_q = None /\ awvalid_q = FALSE
        /\ write_sel_q = 0 /\ write_pending_q = FALSE
        /\ ar = None /\ aw = None /\ wdata = <<>> /\ wvalid = FALSE
        /\ rowed = [s \in Ports |-> <<>>] /\ rvalid = {}
        /\ bowed = [s \in Ports |-> <<>>] /\ bvalid = {}

Clock(p) == ReadSide(p) /\ AddressLatch(p) /\ WriteSide(p) /\ Slaves(p) /\ Master(p)

Next == \E p \in Inputs : Clock(p)
Spec == Init /\ [][Next]_vars

\* Each slave takes the writes it is offered and answers; the master sends its
\* data and takes its answers.
FairSpec ==
    /\ Spec
    /\ WF_vars(Next)
    /\ WF_vars(\E p \in Inputs : (aw_taken(p) \/ write_made(p)) /\ Clock(p))
    /\ WF_vars(\E p \in Inputs : read_given(p) /\ Clock(p))
    /\ WF_vars(\E p \in Inputs : write_given(p) /\ Clock(p))
    /\ WF_vars(Next /\ wvalid')
    /\ WF_vars(Next /\ in_rvalid') /\ WF_vars(Next /\ in_bvalid')

-----------------------------------------------------------------------------
(* Properties.                                                             *)

TypeOK ==
    /\ read_sel_q \in Selectable /\ write_sel_q \in Selectable
    /\ {read_pending_q, awvalid_q, write_pending_q, wvalid} \subseteq BOOLEAN
    /\ {ar, aw, awaddr_q} \subseteq Request \cup {None}
    /\ rvalid \subseteq Ports /\ bvalid \subseteq Ports
    /\ \A s \in Ports : Len(rowed[s]) <= 1 /\ Len(bowed[s]) <= 1

\* A slave sees only what is addressed to it, and the data of a write with
\* the address it was sent for, however late it came.
RoutedRight ==
    \A s \in Ports :
        /\ \A i \in 1 .. Len(rowed[s]) : rowed[s][i].port = s
        /\ \A i \in 1 .. Len(bowed[s]) : bowed[s][i].addr.port = s /\ bowed[s][i].addr = bowed[s][i].data

\* No answer is left standing at a port nobody looks at: whatever a slave
\* owes, the master is waiting for, at that port.
Awaited ==
    \A s \in Ports :
        /\ rowed[s] # <<>> => read_pending_q /\ read_sel_q = s
        /\ bowed[s] # <<>> => write_pending_q /\ write_sel_q = s

\* What is at each slave, and what the distributor remembers, agree
\* (axi4lite_dist.v 176-402).
RoutingInv == TypeOK /\ RoutedRight /\ Awaited

\* The accesses performed and not answered, whichever slave has them.
Owed(f) == IF \E s \in Ports : f[s] # <<>> THEN f[CHOOSE s \in Ports : f[s] # <<>>] ELSE <<>>

\* Each write the master sends is performed in the order sent; the one whose
\* address was taken before its data is still to be performed.
Kept == IF awvalid_q /\ ~write_pending_q THEN <<awaddr_q>> ELSE <<>>
Addresses(s) == [i \in 1 .. Len(s) |-> s[i].addr]

Reads  == INSTANCE MemPort WITH Requests <- Request, todo <- <<>>, done <- Owed(rowed)
Writes == INSTANCE MemPort WITH Requests <- Request, todo <- Kept, done <- Addresses(Owed(bowed))

\* To the master the slaves are one: its accesses are performed once each, in
\* order, and answered in order, the reads and the writes each by themselves.
ReadsInOrder  == Reads!Spec
WritesInOrder == Writes!Spec

\* Both directions together; and no access strays on the way (axi4lite_dist.v 176-402).
InOrder == []RoutingInv /\ ReadsInOrder /\ WritesInOrder

\* A read that was taken is answered, and the bus is free for the next.
AnswersGiven   == read_pending_q ~> ~read_pending_q

\* A write to a connected port is performed and answered, whether
\* its data came with its address or later.
WritesAnswered == (wvalid /\ in_awvalid /\ in_awaddr.port \in Ports) ~> in_bvalid

\* No access to a connected port waits for ever (axi4lite_dist.v 254, 488).
Answered == AnswersGiven /\ WritesAnswered
=============================================================================
