------------------------------ MODULE CpuReset ------------------------------
(***************************************************************************)
(* How the processor is held in reset and restarted: the power-on reset    *)
(* of reset_gen.v, and the registers at the end of fpga_top.v that let the *)
(* debug bridge stop and start the CPU through bit 0 of its GPIO register. *)
(*                                                                         *)
(* The host behind the bridge loads a program over a serial line: it       *)
(* clears the bit, rewrites the memory word by word, and sets the bit.     *)
(* A command takes hundreds of clock cycles to arrive; Gap is the least    *)
(* number of cycles assumed between two of them.  The CPU is seen only     *)
(* through the memory image its current execution started from.            *)
(***************************************************************************)
EXTENDS Naturals

CONSTANTS Words,      \* the words of the memory a program occupies
          Versions,   \* the programs: what a word may belong to
          Powered,    \* the program in the bit file, a member of Versions
          Full,       \* the last value of the reset counter (15 in reset_gen)
          Gap         \* cycles between two commands of the host

ASSUME VersionsAssumption == Powered \in Versions
ASSUME FullAssumption     == Full \in Nat \ {0}
ASSUME GapAssumption      == Gap \in Nat \ {0}

VARIABLES count_q, rst_q,               \* reset_gen
          bridge_rst_enable, rst_cpu_r, \* fpga_top
          enable_w,                     \* bit 0 of the bridge's GPIO register
          ram,                          \* the memory of the CPU
          boot,                         \* ram when the CPU last was in reset
          loading,                      \* {the program the host is writing}, or {}
          restarts,                     \* the host has stopped an armed bridge
          idle                          \* cycles since the host's last command

chip == <<count_q, rst_q, bridge_rst_enable, rst_cpu_r, boot>>
host == <<enable_w, ram, loading, restarts>>
vars == <<chip, host, idle>>

Image(v) == [w \in Words |-> v]

TypeOK == /\ count_q \in 0 .. Full
          /\ {rst_q, bridge_rst_enable, rst_cpu_r, enable_w, restarts} \subseteq BOOLEAN
          /\ ram \in [Words -> Versions] /\ boot \in [Words -> Versions]
          /\ loading \subseteq Versions
          /\ idle \in 0 .. Gap

Init == /\ count_q = 0 /\ rst_q = TRUE
        /\ bridge_rst_enable = FALSE /\ rst_cpu_r \in BOOLEAN  \* no initial value
        /\ enable_w = FALSE
        /\ ram = Image(Powered) /\ boot = Image(Powered)
        /\ loading = {} /\ restarts = FALSE /\ idle = 0

-----------------------------------------------------------------------------
(* One clock edge. *)

ResetGen == IF count_q # Full
              THEN count_q' = count_q + 1 /\ UNCHANGED rst_q
              ELSE rst_q' = FALSE /\ UNCHANGED count_q

MutArmTransparent == bridge_rst_enable' = (~rst_q /\ enable_w)

ArmBridge == bridge_rst_enable' = (~rst_q /\ (bridge_rst_enable \/ enable_w))

MutCpuHeldAlways == rst_q \/ ~enable_w
MutCpuHeldNever  == rst_q

CpuHeld == rst_q \/ (bridge_rst_enable /\ ~enable_w)

Clock == /\ ResetGen
         /\ ArmBridge
         /\ rst_cpu_r' = CpuHeld
         /\ boot' = IF rst_cpu_r THEN ram ELSE boot
         /\ idle' = IF rst_q THEN 0 ELSE IF idle < Gap THEN idle + 1 ELSE idle
         /\ UNCHANGED host

-----------------------------------------------------------------------------
(* The commands of the host, each long after the one before. *)

Command == ~rst_q /\ idle = Gap /\ idle' = 0 /\ UNCHANGED chip

Stop == /\ Command /\ enable_w' = FALSE
        /\ restarts' = (restarts \/ bridge_rst_enable)
        /\ loading' = {} /\ UNCHANGED ram

StartLoad(v) == /\ Command /\ ~enable_w /\ loading' = {v}
                /\ UNCHANGED <<enable_w, ram, restarts>>

WriteWord(w) == /\ Command /\ \E v \in loading : /\ ram[w] # v
                                     /\ ram' = [ram EXCEPT ![w] = v]
                /\ UNCHANGED <<enable_w, loading, restarts>>

Start == /\ Command /\ enable_w' = TRUE
         /\ \A v \in loading : ram = Image(v)
         /\ loading' = {} /\ UNCHANGED <<ram, restarts>>

Host == Stop \/ Start \/ (\E v \in Versions : StartLoad(v)) \/ (\E w \in Words : WriteWord(w))

Next == Clock \/ Host
Spec == Init /\ [][Next]_vars

-----------------------------------------------------------------------------
Settled == ~rst_q /\ idle = Gap

(* The processor comes up by itself: until the host has asked for the bit  *)
(* once, its being clear does not hold the CPU (comment at fpga_top:400).  *)
ComesUpRunning == Settled /\ ~bridge_rst_enable => ~rst_cpu_r

(* From the second start on, the bit controls the CPU: once the host has    *)
(* stopped a bridge that a first start armed, every start runs the CPU from *)
(* its reset vector over exactly the memory the host left.                  *)
LaterStartsRun == Settled /\ restarts /\ enable_w => ~rst_cpu_r /\ boot = ram

(* Nor is any word of the memory overwritten under a running CPU from then  *)
(* on: a stop has reached the CPU before the first write of the load.       *)
NoWriteUnderCpu == [][ram' # ram /\ restarts => rst_cpu_r]_vars

(* README:66 promises that firmware can be loaded over the serial port: a   *)
(* load that is finished and started runs, from its first instruction.      *)
LoadedProgramRuns == Settled /\ enable_w => ~rst_cpu_r /\ boot = ram

=============================================================================
