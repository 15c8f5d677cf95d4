----------------------------- MODULE TestBench ------------------------------
(***************************************************************************)
(* The simulation test bench (fpga/tb): sc_main and its ways out, the      *)
(* reset generator, the bench's thread that runs a program, the SystemC    *)
(* wrapper of the Verilog that relays every signal between bench and RTL,  *)
(* and the writers of wave files.                                          *)
(*                                                                         *)
(* SystemC is external and modelled by its rules: of the processes that    *)
(* are ready each runs once, in any order; what they write shows when all  *)
(* have run (one delta cycle), and makes those sensitive to it ready; if   *)
(* nothing changes, time goes on by half a clock period.  The RTL is       *)
(* external too (Verilator): it sees an edge when its own copy of the      *)
(* clock rises, both of its resets are asynchronous, and each edge sets    *)
(* its outputs to anything in Drives.  A signal SIGINT may arrive between  *)
(* any two steps, except while its handler runs.                           *)
(*                                                                         *)
(* Nothing in the bench drives the inputs axi_i_in, axi_t_in and intr_in:  *)
(* a program that makes an access to a peripheral waits for ever.          *)
(***************************************************************************)
EXTENDS Naturals, Sequences, AxiBundles

CONSTANTS ArgLists,   \* the command lines, argv[0] first
          Regions,    \* Regions[image]: the memory an image occupies, a set of [base, size]
          RamSize,    \* 64 * 1024
          Drives,     \* outputs of the RTL: [i : SUBSET LiteMasterFields, t : SUBSET SlaveFields]
          DelayStart  \* WAVES_DELAY_US, in half periods of the clock

ASSUME DelayAssumption == DelayStart \in Nat
ASSUME DriveAssumption == \A d \in Drives : d.i \subseteq LiteMasterFields /\ d.t \subseteq SlaveFields
ASSUME ArgsAssumption == \A argv \in ArgLists : argv \in Seq(STRING) /\ argv # <<>>

VARIABLES stage,         \* of sc_main: "main", "elab", "sim", "exit", "over" or "crash"
          argv, waves,   \* the command line; ENABLE_WAVES is not "no"
          calls,         \* the calls of abort() in progress, the latest first
          m_verilate_vcd, vcd, dumped,   \* pointer, file, and whether anything is in it
          cur, nxt,      \* the signals, and what was written to them
          ready,         \* the processes still to run in this delta cycle
          reset_gen, bench,              \* where the two threads are
          loaded,        \* {the image in the RAM}, or {}
          seen_clk, mem, cpu,            \* RTL: the clock it saw last; its two reset domains
          m_delay_waves, now,            \* delay of the wave file; half periods since the start
          before         \* the signals when time last went on, as the wave file of SystemC has them

main   == <<argv, waves>>
files  == <<m_verilate_vcd, vcd, dumped>>
rtl    == <<seen_clk, mem, cpu>>
kernel == <<cur, nxt, ready, reset_gen, bench, loaded, rtl, m_delay_waves, now, before>>
benchvars == <<stage, main, calls, files, kernel>>

Processes == {"reset_gen", "bench", "relay", "rtl", "trace"}

\* The signals before anything was written; i_pins and t_pins stand for the pins of
\* the RTL that make up axi_i_out and axi_t_out, m_in for those fed by the inputs.
Signals == [clk |-> FALSE, rst |-> FALSE, rst_cpu_in |-> FALSE,
            m_clk_in |-> FALSE, m_rst_in |-> FALSE, m_rst_cpu_in |-> FALSE,
            m_in |-> [i |-> ZeroLiteSlave, t |-> ZeroMaster],
            i_pins |-> ZeroLiteMaster, t_pins |-> ZeroSlave,
            axi_i_out |-> ZeroLiteMaster, axi_t_out |-> ZeroSlave]

\* The kernel before sc_start and after the simulation was left.
KernelIdle == [cur |-> Signals, nxt |-> Signals, ready |-> {},
               reset_gen |-> "start", bench |-> "attach", loaded |-> {},
               seen_clk |-> FALSE, mem |-> "unreset", cpu |-> "unreset",
               m_delay_waves |-> FALSE, now |-> 0, before |-> Signals]

SetKernel(k) ==
    /\ cur' = k.cur /\ nxt' = k.nxt /\ ready' = k.ready /\ reset_gen' = k.reset_gen
    /\ bench' = k.bench /\ loaded' = k.loaded /\ seen_clk' = k.seen_clk /\ mem' = k.mem
    /\ cpu' = k.cpu /\ m_delay_waves' = k.m_delay_waves /\ now' = k.now /\ before' = k.before

\* Without waves nothing sets m_verilate_vcd: it is what the memory held.
BenchInit == /\ stage = "main" /\ argv \in ArgLists /\ waves \in BOOLEAN /\ calls = <<>>
             /\ m_verilate_vcd \in {"null", "wild"} /\ vcd = "none" /\ dumped = FALSE
             /\ cur = Signals /\ nxt = Signals /\ ready = {}
             /\ reset_gen = "start" /\ bench = "attach" /\ loaded = {}
             /\ seen_clk = FALSE /\ mem = "unreset" /\ cpu = "unreset"
             /\ m_delay_waves = FALSE /\ now = 0 /\ before = Signals

-----------------------------------------------------------------------------
(* sc_main                                                                 *)

Options == {"--trace", "--seed", "--vcd_name"}

\* last_argc: 0 too if nothing but options is found.
LastArgc(args) == LET from[i \in 2 .. Len(args) + 2] ==
                          IF i > Len(args) THEN 0
                          ELSE IF args[i] \in Options THEN from[i + 2] ELSE i - 2
                  IN  from[2]

\* What set_argcv hands on.
HandedOn(args) == SubSeq(args, LastArgc(args) + 1, Len(args))

\* The images riscv_main (external) is told to load: none, or the one that ends the line.
Images(args) == {args[k + 1] : k \in {k \in 2 .. Len(args) - 1 : args[k] = "-f"}}
ASSUME ImageAssumption == \A args \in ArgLists : Images(HandedOn(args)) \subseteq {args[Len(args)]}

\* new testbench: the wave file is opened while tb is still NULL.
Construct == /\ stage = "main" /\ stage' = "elab"
             /\ IF waves THEN m_verilate_vcd' = "ours" /\ vcd' = "open"
                         ELSE UNCHANGED <<m_verilate_vcd, vcd>>
             /\ UNCHANGED <<main, calls, dumped, kernel>>

\* sc_start: the methods run once before time begins.
ScStart == /\ stage = "elab" /\ stage' = "sim"
           /\ \E d \in BOOLEAN :
                SetKernel([KernelIdle EXCEPT !.ready = {"relay", "rtl", "trace"},
                                             !.m_delay_waves = waves /\ d])
           /\ UNCHANGED <<main, calls, files>>

-----------------------------------------------------------------------------
(* The ways out.                                                           *)

Call(who) == [who |-> who, at |-> "test"]

\* The simulation is left by exit(), by a failed assertion or by the signal.
Leave(who) == /\ stage' = "exit" /\ calls' = <<Call(who)>>
              /\ SetKernel(KernelIdle) /\ UNCHANGED <<main, files>>

\* sigint_handler; before tb is set it has nothing to close.
Sigint == \/ stage = "sim" /\ Leave("sigint")
          \/ /\ stage \in {"main", "elab"} /\ stage' = "over"
             /\ UNCHANGED <<main, calls, files, kernel>>
          \/ /\ stage = "exit" /\ \A k \in 1 .. Len(calls) : calls[k].who # "sigint"
             /\ calls' = <<Call("sigint")>> \o calls
             /\ UNCHANGED <<stage, main, files, kernel>>

\* $finish
VlFinish == stage = "sim" /\ Leave("exit")

\* The call of abort() returns.  exit(1) in the handler runs exit_override once more,
\* unless it is exit() that was interrupted; abort() ends the process.
Return == IF Head(calls).who = "sigint" /\ \A k \in 1 .. Len(calls) : calls[k].who # "exit"
            THEN calls' = <<Call("exit")>> /\ UNCHANGED stage
            ELSE calls' = <<>> /\ stage' = "over"

At(next) == calls' = [calls EXCEPT ![1].at = next] /\ UNCHANGED stage

\* A defect: the pointer is cleared before the file is closed.
MutAbort ==
    /\ stage = "exit" /\ UNCHANGED <<main, dumped, kernel>>
    /\ CASE Head(calls).at = "test" ->
              /\ UNCHANGED vcd
              /\ CASE m_verilate_vcd = "null" -> Return /\ UNCHANGED m_verilate_vcd
                   [] m_verilate_vcd = "ours" -> At("flush") /\ m_verilate_vcd' = "null"
                   [] OTHER -> stage' = "crash" /\ UNCHANGED <<calls, m_verilate_vcd>>
         [] Head(calls).at = "flush" -> At("close") /\ UNCHANGED <<m_verilate_vcd, vcd>>
         [] OTHER -> Return /\ vcd' = "closed" /\ UNCHANGED m_verilate_vcd

\* testbench_vbase::abort
Abort ==
    /\ stage = "exit" /\ UNCHANGED <<main, dumped, kernel>>
    /\ \/ /\ Head(calls).at = "test"
          /\ \/ m_verilate_vcd = "null" /\ Return
             \/ m_verilate_vcd = "ours" /\ At("flush")
             \/ m_verilate_vcd = "wild" /\ stage' = "crash" /\ UNCHANGED calls
          /\ UNCHANGED <<m_verilate_vcd, vcd>>
       \/ Head(calls).at = "flush" /\ At("close") /\ UNCHANGED <<m_verilate_vcd, vcd>>
       \/ Head(calls).at = "close" /\ At("null") /\ vcd' = "closed" /\ UNCHANGED m_verilate_vcd
       \/ Head(calls).at = "null" /\ Return /\ m_verilate_vcd' = "null" /\ UNCHANGED vcd

-----------------------------------------------------------------------------
(* The processes.                                                          *)

ProcessRuns(p) == stage = "sim" /\ p \in ready /\ ready' = ready \ {p} /\ UNCHANGED <<main, cur, before, now>>
Goes == UNCHANGED <<stage, calls>>

\* A defect: the reset is not taken back.
MutScResetGen == /\ ProcessRuns("reset_gen") /\ Goes
                 /\ reset_gen' = IF reset_gen = "start" THEN "assert" ELSE "done"
                 /\ nxt' = [nxt EXCEPT !.rst = TRUE]
                 /\ UNCHANGED <<files, bench, loaded, rtl, m_delay_waves>>
\* sc_reset_gen
ScResetGen == /\ ProcessRuns("reset_gen") /\ Goes
              /\ reset_gen' = IF reset_gen = "start" THEN "assert" ELSE "done"
              /\ nxt' = [nxt EXCEPT !.rst = (reset_gen = "start")]
              /\ UNCHANGED <<files, bench, loaded, rtl, m_delay_waves>>

Named == Images(HandedOn(argv))

\* create_memory
Fits(region) == region.base + region.size < RamSize

\* testbench::process up to its first wait
Attach == /\ ProcessRuns("bench") /\ bench = "attach" /\ bench' = "main" /\ Goes
          /\ UNCHANGED <<files, nxt, reset_gen, loaded, rtl, m_delay_waves>>

\* riscv_main loads the image, and resets the CPU up to the wait there.
Load == \E image \in Named :
    /\ ProcessRuns("bench") /\ bench = "main" /\ Goes
    /\ \A r \in Regions[image] : Fits(r)
    /\ loaded' = {image}
    /\ bench' = "reset" /\ nxt' = [nxt EXCEPT !.rst_cpu_in = TRUE]
    /\ UNCHANGED <<files, reset_gen, rtl, m_delay_waves>>

\* sc_assert in create_memory; assert_handler
LoadFails == \E image \in Named :
    /\ stage = "sim" /\ "bench" \in ready /\ bench = "main"
    /\ \E r \in Regions[image] : ~Fits(r)
    /\ Leave("assert")

\* A defect: the CPU is left in reset.
MutReset == /\ ProcessRuns("bench") /\ bench = "reset" /\ bench' = "step" /\ Goes
            /\ UNCHANGED <<files, nxt, reset_gen, loaded, rtl, m_delay_waves>>
\* The rest of testbench::reset, and the first step
Reset == /\ ProcessRuns("bench") /\ bench = "reset" /\ bench' = "step" /\ Goes
         /\ nxt' = [nxt EXCEPT !.rst_cpu_in = FALSE]
         /\ UNCHANGED <<files, reset_gen, loaded, rtl, m_delay_waves>>

\* testbench::step
Step == /\ ProcessRuns("bench") /\ bench = "step" /\ Goes
        /\ UNCHANGED <<files, nxt, reset_gen, bench, loaded, rtl, m_delay_waves>>

\* riscv_main has no image to load, or the program ends.
ProcessExits == /\ stage = "sim" /\ "bench" \in ready
                /\ bench = "step" \/ (bench = "main" /\ Named = {})
                /\ Leave("exit")

\* Undriven inputs.
axi_i_in == ZeroLiteSlave
axi_t_in == ZeroMaster

\* A defect: the resets go to the RTL a delta cycle ahead of the clock.
MutRelay ==
    /\ ProcessRuns("relay") /\ Goes
    /\ nxt' = [nxt EXCEPT !.m_clk_in = cur.clk, !.m_rst_in = nxt.rst, !.m_rst_cpu_in = nxt.rst_cpu_in,
                   !.m_in = [i |-> axi_i_in, t |-> axi_t_in],
                   !.axi_i_out = IF LiteMastersEqual(@, cur.i_pins) THEN @ ELSE cur.i_pins,
                   !.axi_t_out = IF SlavesEqual(@, cur.t_pins) THEN @ ELSE cur.t_pins]
    /\ UNCHANGED <<files, reset_gen, bench, loaded, rtl, m_delay_waves>>
\* async_outputs
Relay ==
    /\ ProcessRuns("relay") /\ Goes
    /\ nxt' = [nxt EXCEPT !.m_clk_in = cur.clk, !.m_rst_in = cur.rst, !.m_rst_cpu_in = cur.rst_cpu_in,
                   !.m_in = [i |-> axi_i_in, t |-> axi_t_in],
                   !.axi_i_out = IF LiteMastersEqual(@, cur.i_pins) THEN @ ELSE cur.i_pins,
                   !.axi_t_out = IF SlavesEqual(@, cur.t_pins) THEN @ ELSE cur.t_pins]
    /\ UNCHANGED <<files, reset_gen, bench, loaded, rtl, m_delay_waves>>

\* trace_rtl: the delay ends without a dump of its own.
TraceRtl ==
    /\ ProcessRuns("trace") /\ Goes
    /\ m_delay_waves' = (m_delay_waves /\ now <= DelayStart)
    /\ dumped' = (dumped \/ (waves /\ ~m_delay_waves))
    /\ UNCHANGED <<m_verilate_vcd, vcd, nxt, reset_gen, bench, loaded, rtl>>

Edge == cur.m_clk_in /\ ~seen_clk

\* The core's reset is rst_cpu_i alone, that of all the rest rst_i.
Rtl == /\ ProcessRuns("rtl") /\ Goes
       /\ seen_clk' = cur.m_clk_in
       /\ mem' = IF cur.m_rst_in THEN "held" ELSE IF Edge /\ mem = "held" THEN "ready" ELSE mem
       /\ cpu' = IF cur.m_rst_cpu_in THEN "held" ELSE IF Edge /\ cpu = "held" THEN "running" ELSE cpu
       /\ \E d \in Drives :
            /\ cur.m_rst_in => d = [i |-> {}, t |-> {}]
            /\ ~cur.m_rst_in /\ ~Edge => d = [i |-> cur.i_pins, t |-> cur.t_pins]
            /\ nxt' = [nxt EXCEPT !.i_pins = d.i, !.t_pins = d.t]
       /\ UNCHANGED <<files, reset_gen, bench, loaded, m_delay_waves>>

-----------------------------------------------------------------------------
(* The kernel.                                                             *)

\* Which processes a change of the signals wakes.
MutTraceSensitive(from, to) == from.m_clk_in # to.m_clk_in
TraceSensitive(from, to) == from.clk # to.clk
RelaySensitive(from, to) ==
    \E s \in {"clk", "rst", "rst_cpu_in", "i_pins", "t_pins"} : from[s] # to[s]
RtlSensitive(from, to) == \E s \in {"m_clk_in", "m_rst_in", "m_rst_cpu_in"} : from[s] # to[s]

Woken(from, to) ==
    {p \in Processes : \/ p \in {"reset_gen", "bench"} /\ ~from.clk /\ to.clk
                       \/ p = "relay" /\ RelaySensitive(from, to)
                       \/ p = "trace" /\ TraceSensitive(from, to)
                       \/ p = "rtl" /\ RtlSensitive(from, to)}

\* The delta cycle ends: the written values show.
Update == /\ stage = "sim" /\ ready = {} /\ nxt # cur
          /\ cur' = nxt /\ ready' = Woken(cur, nxt)
          /\ UNCHANGED <<stage, main, calls, files, nxt, reset_gen, bench, loaded, rtl,
                         m_delay_waves, now, before>>

Quiet == stage = "sim" /\ ready = {} /\ nxt = cur

\* What the tracer of SystemC records of the signals.
Recorded(s) == [s EXCEPT !.axi_i_out = LiteMasterTraced(@), !.axi_t_out = SlaveTraced(@)]

\* Time goes on: sc_clock changes; the instant that ends is recorded.
Tick == /\ Quiet
        /\ nxt' = [nxt EXCEPT !.clk = ~@]
        /\ now' = IF now <= DelayStart THEN now + 1 ELSE now
        /\ before' = Recorded(cur)
        /\ UNCHANGED <<stage, main, calls, files, cur, ready, reset_gen, bench, loaded, rtl,
                       m_delay_waves>>

Kernel == \/ Construct \/ ScStart \/ ScResetGen \/ Attach \/ Load \/ LoadFails \/ Reset \/ Step
          \/ Relay \/ TraceRtl \/ Rtl \/ Update \/ Tick \/ Abort \/ (bench = "main" /\ ProcessExits)

BenchNext == Kernel \/ ProcessExits \/ VlFinish \/ Sigint

\* The processor of the host goes on executing.
BenchSpec == BenchInit /\ [][BenchNext]_benchvars /\ WF_benchvars(Kernel)

-----------------------------------------------------------------------------
(* Properties.                                                             *)

\* At a clock edge the RTL sees its inputs as they were before the edge, in whatever
\* order the processes run: what a thread writes at the edge passes the relay a delta
\* cycle later than the clock (riscv_tcm_top_rtl.cpp 142-145).
SamplesBefore ==
    [][("rtl" \in ready \ ready' /\ Edge /\ stage' = "sim") =>
         cur.m_rst_in = before.rst /\ cur.m_rst_cpu_in = before.rst_cpu_in]_benchvars

\* A CPU that runs out of its reset runs the image the command line names, with the rest
\* of the circuit out of reset too: two threads give the two resets, the one for one clock
\* period from the first edge on, the other when the image is in memory (sc_reset_gen.h
\* 10-15, testbench.h 48-54, 107-133, main.cpp 92-117).
ProgramRuns == cpu = "running" => mem = "ready" /\ loaded = {argv[Len(argv)]}

\* The two wave files agree: the RTL's own is written at an edge with what the bundles
\* showed at the end of the instant before, never in the middle of an evaluation
\* (riscv_tcm_top_rtl.cpp 95-116, axi4_lite.h, axi4.h sc_trace).
WavesAgree ==
    [][("trace" \in ready \ ready' /\ dumped' /\ stage' = "sim") =>
         /\ seen_clk = before.m_clk_in
         /\ cur.i_pins = before.axi_i_out /\ cur.t_pins = before.axi_t_out]_benchvars

\* However the process ends - the program returns, the RTL finishes, an assertion fails,
\* SIGINT arrives, be it while one of the others is being handled - a wave file with
\* something in it is closed (main.cpp 40-77, testbench_vbase.h 48-57).
WavesClosed == stage = "over" /\ dumped => vcd = "closed"

\* The CPU is let go in the end (testbench.h 107-133).
CpuStarted == stage = "sim" ~> cpu = "running" \/ stage # "sim"
=============================================================================
