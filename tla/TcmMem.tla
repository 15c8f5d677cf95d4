------------------------------- MODULE TcmMem -------------------------------
(***************************************************************************)
(* The tightly coupled memory (tcm_mem.v with tcm_mem_ram.v): a dual-port  *)
(* RAM, one port for the instruction fetch, the other shared by the CPU's  *)
(* data port and the debug bridge (ext: the RAM port of tcm_mem_pmem).     *)
(* A state is one clock cycle: the registers and, in pins, the requests    *)
(* made during it.                                                         *)
(***************************************************************************)
EXTENDS Naturals, Sequences

CONSTANTS
    Words,    \* word addresses
    Data,     \* contents of a word
    Ids       \* tags of the CPU's requests

VARIABLES
    ram,        \* u_ram.ram
    read0,      \* ram_read0_q: what the fetch port read
    read1,      \* ram_read1_q: what the shared port read
    mem_i_valid_q,
    mem_d_accept_q,
    mem_d_tag_q,
    mem_d_ack_q,
    ext_ack_q,
    pins

regs == <<mem_i_valid_q, mem_d_accept_q, mem_d_tag_q, mem_d_ack_q, ext_ack_q>>
memvars == <<ram, read0, read1, regs, pins>>

\* A flush, invalidate or writeback of the CPU is a cache operation.
Accesses(ops, ids) ==
    [op : ops \ {"write"}, word : Words, id : ids]
    \cup [op : ops \cap {"write"}, word : Words, data : Data, id : ids]
CpuAccess == Accesses({"read", "write", "cache"}, Ids)
ExtAccess == Accesses({"read", "write"}, {"ext"})
FetchAccess == Accesses({"read"}, {"fetch"})
NoAccess == [op |-> "none"]

-----------------------------------------------------------------------------
(* Wires.                                                                  *)

ext_request == pins.ext # NoAccess      \* ext_rd_w || ext_wr_w != 0
cpu_request == pins.cpu # NoAccess

mem_d_accept == mem_d_accept_q
ext_accept == ~mem_d_accept_q

\* A defect: the bridge is served although the CPU was told it has the port.
MutExtFirst == IF ext_request THEN pins.ext ELSE pins.cpu

\* The access on the shared port; without one the port reads some word.
muxed == IF ext_accept THEN pins.ext ELSE pins.cpu

-----------------------------------------------------------------------------
(* The clock edge.                                                         *)

\* The shared port: reads first.
RamPort1 ==
    /\ ram' = IF muxed.op = "write" THEN [ram EXCEPT ![muxed.word] = muxed.data] ELSE ram
    /\ IF muxed = NoAccess THEN read1' \in {ram[w] : w \in Words}
                           ELSE read1' = ram[muxed.word]

\* The fetch port reads every cycle.
RamPort0 == read0' = ram[pins.pc]

IFetch == mem_i_valid_q' = pins.fetch

\* A request of the bridge takes the shared port for the next cycle.
Arbiter == mem_d_accept_q' = ~ext_request

CpuAck ==
    /\ mem_d_ack_q' = (cpu_request /\ mem_d_accept)
    /\ mem_d_tag_q' = IF cpu_request /\ mem_d_accept THEN pins.cpu.id ELSE mem_d_tag_q

ExtAck == ext_ack_q' = (ext_request /\ ext_accept)

Pins == [cpu : CpuAccess \cup {NoAccess}, ext : ExtAccess \cup {NoAccess},
         fetch : BOOLEAN, pc : Words]

MemInit ==
    /\ ram \in [Words -> Data] /\ read0 \in Data /\ read1 \in Data
    /\ mem_i_valid_q = FALSE
    /\ mem_d_accept_q = TRUE
    /\ mem_d_tag_q \in Ids /\ mem_d_ack_q = FALSE
    /\ ext_ack_q = FALSE
    /\ pins \in Pins

Edge == RamPort0 /\ RamPort1 /\ IFetch /\ Arbiter /\ CpuAck /\ ExtAck
MemClock == Edge /\ pins' \in Pins

MemNext == MemClock
MemSpec == MemInit /\ [][MemNext]_memvars

-----------------------------------------------------------------------------
(* Properties                                                              *)

\* Types of the memory, the registers and the requests.
MemTypeOK ==
    /\ ram \in [Words -> Data] /\ read0 \in Data /\ read1 \in Data
    /\ mem_i_valid_q \in BOOLEAN /\ mem_d_accept_q \in BOOLEAN
    /\ mem_d_tag_q \in Ids /\ mem_d_ack_q \in BOOLEAN /\ ext_ack_q \in BOOLEAN
    /\ pins \in Pins

Answer(due, a) == IF due THEN <<a>> ELSE <<>>
Shared == INSTANCE SharedRam WITH
    Access <- CpuAccess \cup ExtAccess \cup FetchAccess,
    mem <- ram,
    owed <- [cpu |-> Answer(mem_d_ack_q, [id |-> mem_d_tag_q, value |-> read1]),
             ext |-> Answer(ext_ack_q, [id |-> "ext", value |-> read1]),
             fetch |-> Answer(mem_i_valid_q, [id |-> "fetch", value |-> read0])]

\* The accesses accepted in this cycle, and the users answered in it.
Made == [cpu |-> IF cpu_request /\ mem_d_accept THEN <<pins.cpu>> ELSE <<>>,
         ext |-> IF ext_request /\ ext_accept THEN <<pins.ext>> ELSE <<>>,
         fetch |-> IF pins.fetch THEN <<[op |-> "read", word |-> pins.pc, id |-> "fetch"]>> ELSE <<>>]
Acked == {u \in Shared!Users : (u = "cpu" /\ mem_d_ack_q) \/ (u = "ext" /\ ext_ack_q)
                                \/ (u = "fetch" /\ mem_i_valid_q)}

\* One memory for all three: each request told accepted is served exactly
\* once, and its user, not another, is answered with the word as it was.
\* Cache operations of the CPU are answered like accesses: what DportMux
\* asks of this side, every request acknowledged once and in order, is
\* contained in it.
SharedStep == Made \in Shared!Made /\ Shared!Cycle(Made, Acked)
ImplementsSharedRam == Shared!Init /\ [][SharedStep]_memvars
=============================================================================
