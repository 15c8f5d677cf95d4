------------------------------- MODULE TcmPmem ------------------------------
(***************************************************************************)
(* The debug bridge's way into the memory (tcm_mem_pmem.v): an AXI4 slave  *)
(* that turns read and write bursts into single accesses of the RAM port,  *)
(* and the answers of the RAM into R and B responses.  A state is one      *)
(* clock cycle; p holds the inputs of the cycle that no rule ties to an    *)
(* earlier one.                                                            *)
(*                                                                         *)
(* The RAM answers an access in the cycle after (TcmMem).  Its answer is   *)
(* the address of the word: what the word holds is TcmMem's business, here *)
(* it matters which word it is.  Likewise a word of write data is named by *)
(* the address it is meant for.  Every word of write data has a byte       *)
(* enabled, and WLAST is set on the last word of a burst.                  *)
(***************************************************************************)
EXTENDS Integers, Sequences

CONSTANTS
    Bursts,      \* the bursts the master may ask for: [id, addr, len]
    FifoDepth    \* DEPTH of u_requests and u_response

LenRange == 256  \* req_len_q is a register of 8 bits

ASSUME BurstAssumption ==
    Bursts \subseteq [id : Nat, addr : Nat, len : 0 .. LenRange - 1]
ASSUME FifoAssumption == FifoDepth \in Nat \ {0}

VARIABLES
    req_rd, req_wr, req_len, req_addr, req_id,   \* the burst in progress
    req_prio,                    \* whose turn it is: TRUE for writes
    hold_rd, hold_wr,            \* an access the RAM did not accept yet
    reqs,                        \* u_requests: accesses made, not answered
    resps,                       \* u_response: words from the RAM
    ram_ack,                     \* the word the RAM answers with, if it does
    aw, ar,                      \* the bursts the master asks for
    wvalid, wdata                \* the write data it offers, and has ready

burst == <<req_rd, req_wr, req_len, req_addr, req_id>>
arbiter == <<req_prio, hold_rd, hold_wr>>
fifos == <<reqs, resps>>
master == <<aw, ar, wvalid, wdata>>
vars == <<burst, arbiter, fifos, ram_ack, master>>

NoBurst == [id |-> 0, addr |-> 0, len |-> LenRange]
Inputs == [accept : BOOLEAN, bready : BOOLEAN, rready : BOOLEAN]

ReqFifo == INSTANCE BoundedQueue WITH q <- reqs, Depth <- FifoDepth,
                Data <- [read : BOOLEAN, last : BOOLEAN, id : Nat]
RespFifo == INSTANCE BoundedQueue WITH q <- resps, Depth <- FifoDepth, Data <- Nat

-----------------------------------------------------------------------------
(* Wires: who is served.                                                   *)

awvalid == aw # NoBurst
arvalid == ar # NoBurst

write_prio == (req_prio /\ ~hold_rd) \/ hold_wr
read_prio == (~req_prio /\ ~hold_wr) \/ hold_rd

write_active == /\ awvalid \/ req_wr
                /\ ~req_rd
                /\ ReqFifo!Accept
                /\ write_prio \/ req_wr \/ ~arvalid

read_active == /\ arvalid \/ req_rd
               /\ ~req_wr
               /\ ReqFifo!Accept
               /\ read_prio \/ req_rd \/ ~awvalid

awready(p) == write_active /\ ~req_wr /\ p.accept
wready(p)  == write_active /\ p.accept
arready(p) == read_active /\ ~req_rd /\ p.accept

ram_addr == IF req_wr \/ req_rd THEN req_addr
            ELSE IF write_active THEN aw.addr ELSE ar.addr
ram_wr == write_active /\ wvalid
ram_rd == read_active

performed(p) == (ram_rd \/ ram_wr) /\ p.accept
aw_taken(p) == awvalid /\ awready(p)
w_taken(p) == wvalid /\ wready(p)
ar_taken(p) == arvalid /\ arready(p)

-----------------------------------------------------------------------------
(* The burst in progress.                                                  *)

DecLen(n) == (n + LenRange - 1) % LenRange

\* The next beat of the burst, or its end.
Continue(p) ==
    IF ~performed(p) THEN UNCHANGED burst
    ELSE IF req_len = 0
    THEN req_rd' = FALSE /\ req_wr' = FALSE /\ UNCHANGED <<req_len, req_addr, req_id>>
    ELSE /\ req_addr' = req_addr + 1
         /\ req_len' = DecLen(req_len)
         /\ UNCHANGED <<req_rd, req_wr, req_id>>

\* A defect: the address of a write burst taken with its first word is not
\* moved past that word.
MutStartWriteAddr(p) ==
    /\ req_wr' = IF w_taken(p) THEN ~Head(wdata).last ELSE TRUE
    /\ req_len' = IF w_taken(p) THEN DecLen(aw.len) ELSE aw.len
    /\ req_addr' = aw.addr
    /\ req_id' = aw.id
    /\ req_rd' = IF performed(p) /\ req_len = 0 THEN FALSE ELSE req_rd

\* A write burst is taken, with its first word or without.
StartWrite(p) ==
    /\ req_wr' = IF w_taken(p) THEN ~Head(wdata).last ELSE TRUE
    /\ req_len' = IF w_taken(p) THEN DecLen(aw.len) ELSE aw.len
    /\ req_addr' = IF w_taken(p) THEN aw.addr + 1 ELSE aw.addr
    /\ req_id' = aw.id
    /\ req_rd' = IF performed(p) /\ req_len = 0 THEN FALSE ELSE req_rd

\* A read burst is taken, and its first word is read.
StartRead(p) ==
    /\ req_rd' = (ar.len # 0)
    /\ req_len' = DecLen(ar.len)
    /\ req_addr' = ar.addr + 1
    /\ req_id' = ar.id
    /\ req_wr' = IF performed(p) /\ req_len = 0 THEN FALSE ELSE req_wr

Burst(p) == IF aw_taken(p) THEN StartWrite(p)
            ELSE IF ar_taken(p) THEN StartRead(p)
            ELSE Continue(p)

\* A defect: the turn stays where it is.
MutPrioFixed(p) == req_prio' = req_prio

Prio(p) == req_prio' = IF aw_taken(p) \/ ar_taken(p) THEN ~req_prio ELSE req_prio

Hold(p) ==
    /\ hold_rd' = IF p.accept THEN FALSE ELSE hold_rd \/ ram_rd
    /\ hold_wr' = IF p.accept THEN FALSE ELSE hold_wr \/ ram_wr

-----------------------------------------------------------------------------
(* The answers.                                                            *)

resp_valid == RespFifo!Valid
bvalid == resp_valid /\ ReqFifo!Valid /\ ~Head(reqs).read /\ Head(reqs).last
rvalid == resp_valid /\ ReqFifo!Valid /\ Head(reqs).read

\* The answers of the RAM to the words of a write are dropped, but the last.
resp_accept(p) ==
    \/ rvalid /\ p.rready
    \/ bvalid /\ p.bready
    \/ resp_valid /\ ReqFifo!Valid /\ ~Head(reqs).read /\ ~Head(reqs).last

\* A defect: the last word is recognised by the register although the burst
\* starts in this cycle.
MutReqInStale(p) == [read |-> ram_rd, last |-> req_len = 0, id |-> req_id]

\* What is noted of the access made in this cycle.
req_in(p) == IF ar_taken(p) THEN [read |-> TRUE, last |-> ar.len = 0, id |-> ar.id]
             ELSE IF aw_taken(p) THEN [read |-> FALSE, last |-> aw.len = 0, id |-> aw.id]
             ELSE [read |-> ram_rd, last |-> req_len = 0, id |-> req_id]

Fifos(p) ==
    /\ ReqFifo!Clock(performed(p), req_in(p), resp_accept(p))
    /\ RespFifo!Clock(ram_ack # <<>>, ram_ack[1], resp_accept(p))

Bridge(p) == Burst(p) /\ Prio(p) /\ Hold(p) /\ Fifos(p)

-----------------------------------------------------------------------------
(* The RAM and the master.                                                 *)

Ram(p) == ram_ack' = IF performed(p) THEN <<ram_addr>> ELSE <<>>

\* The words of write data of a burst.
DataWords(b) == [i \in 1 .. b.len + 1 |-> [word |-> b.addr + i - 1, last |-> i = b.len + 1]]

\* An offer stands until it is taken.  The data of a write may be offered
\* with its address or later, and more than one burst of it be ready.
Master(p) ==
    /\ IF arvalid /\ ~ar_taken(p) THEN ar' = ar ELSE ar' \in Bursts \cup {NoBurst}
    /\ LET left == IF w_taken(p) THEN Tail(wdata) ELSE wdata
       IN  \/ /\ IF aw_taken(p) THEN aw' = NoBurst ELSE aw' = aw
              /\ wdata' = left
           \/ /\ ~awvalid \/ aw_taken(p)
              /\ \E b \in Bursts :
                    /\ aw' = b
                    /\ wdata' = left \o DataWords(b)
    /\ IF wvalid /\ ~w_taken(p) THEN wvalid' = TRUE ELSE wvalid' \in BOOLEAN
    /\ wvalid' => wdata' # <<>>

Init ==
    /\ req_rd = FALSE /\ req_wr = FALSE /\ req_len = 0 /\ req_addr = 0 /\ req_id = 0
    /\ req_prio = FALSE /\ hold_rd = FALSE /\ hold_wr = FALSE
    /\ reqs = <<>> /\ resps = <<>> /\ ram_ack = <<>>
    /\ aw = NoBurst /\ ar = NoBurst /\ wvalid = FALSE /\ wdata = <<>>

Clock(p) == Bridge(p) /\ Ram(p) /\ Master(p)

Next == \E p \in Inputs : Clock(p)
Spec == Init /\ [][Next]_vars

\* The RAM accepts an access that is kept up, and the master offers its write
\* data and takes its answers.
FairSpec ==
    /\ Spec
    /\ WF_vars(Next)
    /\ WF_vars(\E p \in Inputs : performed(p) /\ Clock(p))
    /\ WF_vars(Next /\ wvalid')
    /\ WF_vars(\E p \in Inputs : ((rvalid /\ p.rready) \/ (bvalid /\ p.bready)) /\ Clock(p))

-----------------------------------------------------------------------------
(* Properties                                                              *)

\* Types of the registers and queues, and the width of the length register.
TypeOK ==
    /\ req_rd \in BOOLEAN /\ req_wr \in BOOLEAN /\ req_prio \in BOOLEAN
    /\ hold_rd \in BOOLEAN /\ hold_wr \in BOOLEAN
    /\ req_len \in 0 .. LenRange - 1 /\ req_addr \in Nat /\ req_id \in Nat
    /\ reqs \in Seq([read : BOOLEAN, last : BOOLEAN, id : Nat]) /\ Len(reqs) <= FifoDepth
    /\ resps \in Seq(Nat) /\ Len(resps) <= FifoDepth
    /\ ram_ack \in Seq(Nat) /\ Len(ram_ack) <= 1
    /\ aw \in Bursts \cup {NoBurst} /\ ar \in Bursts \cup {NoBurst}
    /\ wvalid \in BOOLEAN /\ wdata \in Seq([word : Nat, last : BOOLEAN])

\* The two FIFOs hold the same accesses, but for the one the RAM is about to
\* answer.  So an answer of the RAM, which cannot be refused (accept_o of
\* u_response is left open), finds room, and is paired with its request.
AnswersFit ==
    /\ Len(reqs) = Len(resps) + Len(ram_ack)
    /\ ram_ack # <<>> => RespFifo!Accept

\* An access offered to the RAM is kept up until it is accepted, whatever is
\* asked for meanwhile: the RAM gives the port away a cycle after.
HoldKept ==
    /\ hold_rd => ram_rd /\ ~ram_wr
    /\ hold_wr => ram_wr /\ ~ram_rd

\* Each word of write data goes to the address it is meant for, and the last
\* of a burst ends it, however address and data were spread.
WritesLand ==
    ram_wr => /\ ram_addr = Head(wdata).word
              /\ Head(wdata).last <=> (IF req_wr THEN req_len ELSE aw.len) = 0

\* The queues, the hold marks and the counters are consistent with what is in flight
\* (tcm_mem_pmem.v 218-322).
FlowInv == TypeOK /\ AnswersFit /\ HoldKept /\ WritesLand

\* The accesses still to be made, and those whose answer is due.
Todo == IF req_rd \/ req_wr
        THEN [i \in 1 .. req_len + 1 |->
                [read |-> req_rd, last |-> i = req_len + 1, id |-> req_id, word |-> req_addr + i - 1]]
        ELSE <<>>
Owed == LET words == resps \o ram_ack
        IN  [i \in 1 .. Len(reqs) |->
                [read |-> reqs[i].read, last |-> reqs[i].last, id |-> reqs[i].id, word |-> words[i]]]

\* The accesses a burst stands for.
Beats(read, b) ==
    [i \in 1 .. b.len + 1 |->
        [read |-> read, last |-> i = b.len + 1, id |-> b.id, word |-> b.addr + i - 1]]

Port == INSTANCE MemPort WITH Requests <- {}, todo <- Todo, done <- Owed

\* A burst is the accesses it stands for: each word once, in order, with its
\* identity, and each answered once, in order, with the word asked for; a
\* second burst is taken only when the first is through.
PortStep ==
    \E p \in Inputs :
        LET taken == IF aw_taken(p) THEN Beats(FALSE, aw)
                     ELSE IF ar_taken(p) THEN Beats(TRUE, ar) ELSE <<>>
        IN  Port!Cycle(taken, performed(p), resp_accept(p)) /\ (taken # <<>> => Todo = <<>>)
ImplementsBursts == Port!Init /\ [][PortStep]_vars

\* A burst that was taken ends.
BurstsEnd == Todo # <<>> ~> Todo = <<>>

\* A burst asked for is taken, whatever is asked for on the other side.
ReadsTaken == arvalid ~> (req_rd \/ \E i \in 1 .. Len(reqs) : reqs[i].read)
WritesTaken == awvalid ~> (req_wr \/ \E i \in 1 .. Len(reqs) : ~reqs[i].read)

\* Neither direction starves the other, nor waits for ever on the RAM or the
\* queues: what is asked for is taken, and what was taken ends (tcm_mem_pmem.v
\* 314-322).
NothingStuck == BurstsEnd /\ ReadsTaken /\ WritesTaken
=============================================================================
