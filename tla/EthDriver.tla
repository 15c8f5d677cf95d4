----------------------------- MODULE EthDriver ------------------------------
(***************************************************************************)
(* The network driver of lwip_test: pano_netif_poll and ClearRxFifo        *)
(* (NetInput), and pano_netif_output (NetOutput), on one CPU.              *)
(*                                                                         *)
(* There are no interrupts and no threads.  lwIP runs only when the main   *)
(* loop calls it - at boot, with a received frame, and to check its timers *)
(* - and calls pano_netif_output from there, any number of times; reading  *)
(* goes on when it has returned.  A reset of the CPU ends both and leaves  *)
(* both FIFOs as they are.                                                 *)
(***************************************************************************)
EXTENDS NetInput

CONSTANTS Wrap, TxDepth, Chains, Beyond, MaxQueued  \* see NetOutput

VARIABLES tx, out_pc, chain, first, total, out_i, left, asked, cut

Out == INSTANCE NetOutput WITH pc <- out_pc, i <- out_i

outvars == <<tx, out_pc, chain, first, total, out_i, left, asked, cut>>
allvars == <<vars, outvars>>

ASSUME ChainsAssumption == \A c \in Chains :
    c # <<>> /\ c \in Seq(Seq(Bytes)) /\ Len(Out!Frame(c)) \in 1 .. Base * Base - 1
ASSUME OutputAssumption ==
    /\ {Wrap, TxDepth, MaxQueued} \subseteq Nat \ {0}
    /\ Base * Base <= Wrap      \* a u16_t holds what two bytes do
    /\ Beyond \subseteq Bytes /\ Beyond # {}

DriverInit == Init /\ Out!Init

\* Where the main loop is in a call of lwIP.
InLwip == pc \in {"boot", "input", "timeouts"}

\* The driver reads on.
Reads == out_pc = "idle" /\ Firmware /\ UNCHANGED outvars

\* lwIP sends a frame.
Sends == InLwip /\ Out!Output /\ UNCHANGED vars

Writes == Out!Running /\ UNCHANGED vars

Restart == CpuReset /\ Out!CpuReset

Wire == \/ Arrive /\ UNCHANGED outvars
        \/ Out!MacSends /\ UNCHANGED vars

DriverNext == Reads \/ Sends \/ Writes \/ Restart \/ Wire

DriverSpec == DriverInit /\ [][DriverNext]_allvars

\* The CPU keeps executing, and lwIP returns however often it sends before.
FairSpec == /\ DriverSpec
            /\ WF_allvars(Writes) /\ SF_allvars(Reads)

-----------------------------------------------------------------------------
(* Properties.                                                             *)

\* The main loop always comes back to look for the next frame: nothing in the
\* driver waits, for a buffer of lwIP's or for room in the FIFO in particular
\* (main.c 292-307, 354-361).
PollsForever == []<>(pc = "poll")

\* The properties of the transmit side.
FramesIntact == Out!FramesIntact
ChainIntact  == Out!ChainIntact
=============================================================================
