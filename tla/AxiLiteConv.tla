----------------------------- MODULE AxiLiteConv ----------------------------
(***************************************************************************)
(* The converter between the CPU's AXI4 port and the AXI4-Lite bus of the  *)
(* peripherals (axi4_axi4lite_conv.v): it cuts bursts into single accesses *)
(* and joins their answers again.  A state is one clock cycle; p holds the *)
(* inputs of the cycle that no rule ties to an earlier one.                *)
(*                                                                         *)
(* Addresses count words of four bytes.  The data of a word written is the *)
(* address it is meant for, and a read returns the address it was made     *)
(* with, so that a misplaced access shows.                                 *)
(*                                                                         *)
(* The bus on the AXI4-Lite side is axi4lite_dist.v: one read and one      *)
(* write at a time, and address and data of a write taken in one cycle.    *)
(***************************************************************************)
EXTENDS Naturals, Sequences

CONSTANT Bursts       \* what the master may ask for: [id, addr, len, type]

CntRange == 256       \* arcnt_q and awcnt_q are registers of 8 bits

\* A burst has less than 256 words: the count of one whose address comes before its data is
\* its length plus one, in 8 bits.  A wrapping burst is as long as one of the blocks
\* calculate_addr_next knows.
ASSUME BurstAssumption ==
    /\ Bursts \subseteq [id : Nat, addr : Nat, len : 0 .. CntRange - 2,
                         type : {"FIXED", "INCR", "WRAP"}]
    /\ \A b \in Bursts : b.type = "WRAP" => b.len \in {0, 1, 3, 7, 15}

VARIABLES
    awmask, armask,                 \* awvalid_mask_q, arvalid_mask_q
    arvalid_q, arcnt_q, arburst,    \* the read burst: [id, addr, len, type]
    awvalid_q, awcnt_q, awburst,    \* the write burst
    blast_q,                        \* the next answer ends the write burst
    ar, aw, wdata, wvalid,          \* what the master offers
    rd, rvalid, wr, bvalid          \* the bus: the accesses it owes an answer

readRegs  == <<armask, arvalid_q, arcnt_q, arburst>>
writeRegs == <<awmask, awvalid_q, awcnt_q, awburst, blast_q>>
master == <<ar, aw, wdata, wvalid>>
bus    == <<rd, rvalid, wr, bvalid>>
vars   == <<readRegs, writeRegs, master, bus>>

NoBurst == [id |-> 0, addr |-> 0, len |-> 0, type |-> "none"]
Inputs == [rready : BOOLEAN, bready : BOOLEAN, arready : BOOLEAN, awready : BOOLEAN]

\* A defect: a wrapping burst runs on past its block.
MutNoWrap(b) == IF b.type = "FIXED" THEN b ELSE [b EXCEPT !.addr = @ + 1]

\* The burst after one of its words: calculate_addr_next.
Advance(b) ==
    LET block == IF b.len \in {0, 1, 3, 7, 15} THEN b.len + 1 ELSE 16
    IN  IF b.type = "FIXED" THEN b
        ELSE IF b.type = "WRAP"
        THEN [b EXCEPT !.addr = (@ - (@ % block)) + ((@ + 1) % block)]
        ELSE [b EXCEPT !.addr = @ + 1]

-----------------------------------------------------------------------------
(* Wires.                                                                  *)

in_arvalid == ar # NoBurst
in_awvalid == aw # NoBurst

out_arvalid == (in_arvalid /\ ~armask) \/ arvalid_q
out_araddr  == IF arvalid_q THEN arburst.addr ELSE ar.addr

\* A defect: of a burst only the word that comes with its address is offered.
MutAwvalid == in_awvalid /\ wvalid /\ ~awmask

out_awvalid == (in_awvalid /\ wvalid /\ ~awmask) \/ (awvalid_q /\ wvalid)
out_awaddr  == IF awvalid_q THEN awburst.addr ELSE aw.addr

\* axi4lite_dist.v takes data only with an address.
out_wready(p) == p.awready /\ out_awvalid

in_arready(p) == p.arready /\ ~armask
in_awready(p) == p.awready /\ ~awmask
in_wready(p)  == out_wready(p)

\* A defect: the last word is announced when its read is still to be made.
MutRlastEarly == arcnt_q < 2

rlast == arcnt_q = 0

in_bvalid == bvalid /\ blast_q
out_bready(p) == ~blast_q \/ p.bready

ar_taken(p) == in_arvalid /\ in_arready(p)
aw_taken(p) == in_awvalid /\ in_awready(p)
w_taken(p)  == wvalid /\ in_wready(p)
r_given(p)  == rvalid /\ p.rready
b_given(p)  == in_bvalid /\ p.bready

read_made(p)  == out_arvalid /\ p.arready
write_made(p) == out_awvalid /\ p.awready

-----------------------------------------------------------------------------
(* Registers.                                                              *)

Masks(p) ==
    /\ armask' = (ar_taken(p) \/ (armask /\ ~(r_given(p) /\ rlast)))
    /\ awmask' = (aw_taken(p) \/ (awmask /\ ~b_given(p)))

Read(p) ==
    IF arvalid_q /\ read_made(p)
    THEN /\ arburst' = Advance(arburst)
         /\ arvalid_q' = (arcnt_q # 1)
         /\ arcnt_q' = (arcnt_q + CntRange - 1) % CntRange
    ELSE IF ar_taken(p)
    THEN /\ arburst' = Advance(ar)
         /\ arvalid_q' = (ar.len # 0)
         /\ arcnt_q' = ar.len
    ELSE UNCHANGED <<arburst, arvalid_q, arcnt_q>>

\* The next word of the write burst.
WriteOn == /\ awburst' = Advance(awburst)
           /\ awvalid_q' = (awcnt_q # 1)
           /\ blast_q' = (blast_q \/ awcnt_q = 1)
           /\ awcnt_q' = (awcnt_q + CntRange - 1) % CntRange

\* A write burst is taken together with its first word.
WriteWithData == /\ awburst' = Advance(aw)
                 /\ awvalid_q' = ~Head(wdata).last
                 /\ blast_q' = Head(wdata).last
                 /\ awcnt_q' = aw.len

\* A write burst is taken, its data comes later.
WriteAddressOnly == /\ awburst' = aw
                    /\ awvalid_q' = TRUE /\ blast_q' = FALSE
                    /\ awcnt_q' = (aw.len + 1) % CntRange

\* Otherwise: the answer that ends the burst may be passed on.
WriteAnswer(p) == /\ blast_q' = (blast_q /\ ~b_given(p))
                  /\ UNCHANGED <<awburst, awvalid_q, awcnt_q>>

Write(p) == IF awvalid_q /\ write_made(p) THEN WriteOn
            ELSE IF ~aw_taken(p) THEN WriteAnswer(p)
            ELSE IF w_taken(p) THEN WriteWithData
            ELSE WriteAddressOnly

-----------------------------------------------------------------------------
(* The bus and the master.                                                 *)

\* One access of a kind is outstanding; its answer comes in a later cycle and
\* stands until it is taken.
Bus(p) ==
    /\ p.arready => rd = <<>>
    /\ p.awready => wr = <<>>
    /\ rd' = IF read_made(p) THEN <<out_araddr>> ELSE IF r_given(p) THEN <<>> ELSE rd
    /\ wr' = IF write_made(p) THEN <<[addr |-> out_awaddr, data |-> Head(wdata).word]>>
             ELSE IF bvalid /\ out_bready(p) THEN <<>> ELSE wr
    /\ IF rvalid /\ ~r_given(p) THEN rvalid' = TRUE ELSE rvalid' \in BOOLEAN
    /\ IF bvalid /\ ~out_bready(p) THEN bvalid' = TRUE ELSE bvalid' \in BOOLEAN
    /\ rvalid' => rd' # <<>>
    /\ bvalid' => wr' # <<>>

\* The address of the word at distance n in a burst, as AXI defines it.
WordAt(b, n) ==
    LET base == b.addr - (b.addr % (b.len + 1))
    IN  IF b.type = "FIXED" THEN b.addr
        ELSE IF b.type = "INCR" THEN b.addr + n
        ELSE base + ((b.addr - base + n) % (b.len + 1))

\* The words of write data of a burst.
Words(b) == [i \in 1 .. b.len + 1 |-> [word |-> WordAt(b, i - 1), last |-> i = b.len + 1]]

\* An offer stands until it is taken.  The data of a write may be offered
\* with its address or later, and the next write before this one is answered.
Master(p) ==
    /\ ar' \in IF in_arvalid /\ ~ar_taken(p) THEN {ar} ELSE Bursts \cup {NoBurst}
    /\ LET left == IF w_taken(p) THEN Tail(wdata) ELSE wdata
       IN  \/ /\ aw' = IF aw_taken(p) THEN NoBurst ELSE aw
              /\ wdata' = left
           \/ /\ left = <<>> /\ (~in_awvalid \/ aw_taken(p))
              /\ \E b \in Bursts : aw' = b /\ wdata' = Words(b)
    /\ IF wvalid /\ ~w_taken(p) THEN wvalid' = TRUE ELSE wvalid' \in BOOLEAN
    /\ wvalid' => wdata' # <<>>

Init == /\ awmask = FALSE /\ armask = FALSE
        /\ arvalid_q = FALSE /\ arcnt_q = 0 /\ arburst = NoBurst
        /\ awvalid_q = FALSE /\ awcnt_q = 0 /\ awburst = NoBurst /\ blast_q = FALSE
        /\ ar = NoBurst /\ aw = NoBurst /\ wdata = <<>> /\ wvalid = FALSE
        /\ rd = <<>> /\ rvalid = FALSE /\ wr = <<>> /\ bvalid = FALSE

Clock(p) == Masks(p) /\ Read(p) /\ Write(p) /\ Bus(p) /\ Master(p)

Next == \E p \in Inputs : Clock(p)
Spec == Init /\ [][Next]_vars

\* Something moves in a direction: the bus takes what is offered to it or
\* answers, the master offers its data or takes its answer.
ReadMoves  == (rd = <<>>) # (rd' = <<>>) \/ (~rvalid /\ rvalid')
WriteMoves == (wr = <<>>) # (wr' = <<>>) \/ (~bvalid /\ bvalid') \/ (~wvalid /\ wvalid')

\* Neither direction stops for ever while something can move in it.
FairSpec == /\ Spec
            /\ WF_vars(Next)
            /\ WF_vars(Next /\ ReadMoves) /\ WF_vars(Next /\ WriteMoves)

-----------------------------------------------------------------------------
(* Properties.                                                             *)

\* Types; the words still to come of a burst are never more than it has.
TypeOK ==
    /\ {awmask, armask, arvalid_q, awvalid_q, blast_q, wvalid, rvalid, bvalid} \subseteq BOOLEAN
    /\ arcnt_q \in 0 .. arburst.len /\ awcnt_q \in 0 .. awburst.len + 1
    /\ ar \in Bursts \cup {NoBurst} /\ aw \in Bursts \cup {NoBurst}
    /\ Len(rd) <= 1 /\ Len(wr) <= 1

\* Each word of write data reaches the address it is meant for, however the
\* master spreads address and data.
WritesLand == wr # <<>> => wr[1].addr = wr[1].data

\* A burst that is let in has the converter to itself: its identity and count
\* are in registers that the next one would overwrite.
OneBurst == /\ arvalid_q \/ rd # <<>> => armask
            /\ awvalid_q \/ wr # <<>> => awmask

\* Registers, masks and the words on the bus fit the bursts they belong to
\* (axi4_axi4lite_conv.v 124-285).
BurstInv == TypeOK /\ OneBurst /\ WritesLand

\* The accesses a burst stands for, from its word first on.
Beats(b, n) == [i \in 1 .. n |-> [id |-> b.id, word |-> WordAt(b, i - 1), last |-> i = n]]

TodoReads  == IF arvalid_q THEN Beats(arburst, arcnt_q) ELSE <<>>
TodoWrites == IF awvalid_q THEN Beats(awburst, awcnt_q) ELSE <<>>
OwedReads  == IF rd = <<>> THEN <<>> ELSE <<[id |-> arburst.id, word |-> rd[1], last |-> rlast]>>
OwedWrites == IF wr = <<>> THEN <<>> ELSE <<[id |-> awburst.id, word |-> wr[1].addr, last |-> blast_q]>>

Reads  == INSTANCE MemPort WITH Requests <- {}, todo <- TodoReads, done <- OwedReads
Writes == INSTANCE MemPort WITH Requests <- {}, todo <- TodoWrites, done <- OwedWrites

\* A read burst is answered word by word: every word of the burst once, in
\* the order AXI gives them, with its identity, the last one marked.
ReadStep == \E p \in Inputs :
    /\ Reads!Cycle(IF ar_taken(p) THEN Beats(ar, ar.len + 1) ELSE <<>>, read_made(p), r_given(p))
    /\ ar_taken(p) => TodoReads = <<>>
ImplementsReads == Reads!Init /\ [][ReadStep]_vars

\* A write burst is performed word by word likewise, and answered once, when
\* the last word was performed, with its identity.
WriteStep == \E p \in Inputs :
    LET answered == bvalid /\ out_bready(p)
    IN  /\ Writes!Cycle(IF aw_taken(p) THEN Beats(aw, aw.len + 1) ELSE <<>>, write_made(p), answered)
        /\ aw_taken(p) => TodoWrites = <<>>
        /\ answered => (in_bvalid <=> OwedWrites[1].last)
ImplementsWrites == Writes!Init /\ [][WriteStep]_vars

\* Both directions together, which share the clock but no register.
ImplementsPorts == ImplementsReads /\ ImplementsWrites

\* Bursts end: what was let in is answered, and the next one is let in.
ReadsEnd  == armask ~> ~armask
WritesEnd == awmask ~> ~awmask

\* No burst of either direction stays open (axi4_axi4lite_conv.v 127-176, 317).
BurstsEnd == ReadsEnd /\ WritesEnd
=============================================================================
