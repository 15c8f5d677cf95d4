------------------------------- MODULE Board --------------------------------
(***************************************************************************)
(* The programs of fw/ on the processor the debug bridge stops, loads and  *)
(* starts (CpuReset).  A program runs if the processor was released over   *)
(* exactly its image; what runs otherwise (the program in the bit file, or *)
(* a half loaded one) is not followed.  Stopping the processor resets      *)
(* nothing but the program: the button and the link stay as they are, the  *)
(* receive FIFO of the Ethernet core keeps what it has (Leftovers).  What  *)
(* a stop left in the transmit FIFO is not followed.                       *)
(*                                                                         *)
(* The start code of a program (external) clears the variables that have   *)
(* no initial value; ButtonLast has one, which only loading restores.      *)
(* Programs, and what goes on around them, take their steps while no       *)
(* command of the host is on its way.                                      *)
(***************************************************************************)
EXTENDS CpuReset, Sequences, SequencesExt

CONSTANTS Blinky, EthTest, LwipTest,     \* of Versions
          Base, BufSize, ClearReads, Frames, Leftovers, RxDepth, TxDepth, EmptyRead, TestFrame,
          Phys, Conns, Room, Wnd, Bufs, Rest, Polls

ASSUME ProgramsAssumption == /\ Words # {}
                             /\ Blinky # EthTest /\ EthTest # LwipTest /\ LwipTest # Blinky
ASSUME StreamAssumption == /\ Base \in Nat \ {0} /\ TxDepth \in Nat
                           /\ \A f \in Frames \cup Leftovers \cup {TestFrame} : f \in Seq(Nat)
ASSUME WindowAssumption == /\ Wnd \in Nat /\ Rest \subseteq Nat /\ Room \in Nat \ {0}
                           /\ Bufs \subseteq Seq({"char", "cr", "iac"})

VARIABLES button, ButtonLast, acted, stale,
          pc, Led, i, Fast,
          phy, EthStatus, netif_up,
          caller, Count, rx, tx, due, lost, full,
          open, window, gRxBuf, gWelcomeSent, gSendRxBuf, typed, spoilt, dropped

Bl == INSTANCE Blinky
Et == INSTANCE EthTest
Lw == INSTANCE LwipTest

buttonvars == <<button, ButtonLast, acted, stale>>
progvars   == <<pc, Led, i, Fast, EthStatus, netif_up, caller, Count, rx, tx, due, lost, full,
                open, window, gRxBuf, gWelcomeSent, gSendRxBuf, typed, spoilt, dropped>>
fw == <<buttonvars, progvars, phy>>

ProgramInit == /\ pc = "boot" /\ Led = "red" /\ i = 0 /\ Fast = FALSE
               /\ EthStatus = Et!NoLink /\ netif_up = FALSE
               /\ Et!FramesInit /\ Lw!TelnetInit

BoardInit == /\ Init /\ ProgramInit /\ Bl!ButtonInit
             /\ phy \in Phys

-----------------------------------------------------------------------------
(* The processor and its host. *)

\* In reset the program forgets all but what is in its image.
Forget == /\ pc' = "boot" /\ Led' = "red" /\ i' = 0 /\ Fast' = FALSE
          /\ EthStatus' = Et!NoLink /\ netif_up' = FALSE
          /\ caller' = "main" /\ Count' = 0 /\ gRxBuf' = <<>> /\ rx' = <<>> /\ tx' = <<>>
          /\ due' = <<>> /\ lost' = FALSE /\ full' = FALSE
          /\ open' = {} /\ window' = Lw!Fresh /\ dropped' = [c \in Conns |-> 0]
          /\ gWelcomeSent' = FALSE /\ gSendRxBuf' = FALSE /\ typed' = <<>> /\ spoilt' = 0
          /\ acted' = 0 /\ stale' = FALSE

Cycle == /\ Clock
         /\ IF rst_cpu_r' THEN Forget ELSE UNCHANGED <<progvars, acted, stale>>
         /\ UNCHANGED <<button, ButtonLast, phy>>

\* A finished load has put the initial value into the image, one broken off may have.
Loaded == /\ ButtonLast' \in IF loading = {} THEN {ButtonLast}
                             ELSE IF enable_w' THEN {Bl!NoLook} ELSE {ButtonLast, Bl!NoLook}
          /\ UNCHANGED <<button, acted, stale, progvars, phy>>

HostStep == \/ (Stop \/ Start) /\ Loaded
            \/ /\ (\E v \in Versions : StartLoad(v)) \/ (\E w \in Words : WriteWord(w))
               /\ UNCHANGED fw

-----------------------------------------------------------------------------
(* The programs. *)

Runs(v) == /\ ~rst_q /\ ~rst_cpu_r /\ idle = Gap
           /\ boot = Image(v) /\ ram = boot

blinkyrest == <<phy, EthStatus, netif_up, caller, Count, rx, tx, due, lost, full,
                open, window, gRxBuf, gWelcomeSent, gSendRxBuf, typed, spoilt, dropped>>
RunBlinky == Runs(Blinky) /\ Bl!Blink /\ UNCHANGED blinkyrest

ethrest == <<Led, Fast, netif_up, open, window, gWelcomeSent, gSendRxBuf, typed, spoilt, dropped>>
RunEthTest == Runs(EthTest) /\ Et!Test /\ UNCHANGED ethrest

lwiprest == <<buttonvars, Led, Fast, caller, Count, rx, tx, due, lost, full>>
RunLoop  == Runs(LwipTest) /\ Lw!Loop /\ UNCHANGED lwiprest
RunPoll  == Runs(LwipTest) /\ Lw!Poll /\ UNCHANGED lwiprest
RunTimer == Runs(LwipTest) /\ Lw!Timer /\ UNCHANGED lwiprest

(* What happens around them. *)
PushButton == /\ ~rst_q /\ idle = Gap /\ (Bl!Press \/ Bl!Release)
              /\ UNCHANGED <<progvars, phy>>

Plug == /\ ~rst_q /\ idle = Gap /\ phy' \in Phys \ {phy}
        /\ UNCHANGED <<buttonvars, progvars>>

Wire == Runs(EthTest) /\ Et!Wire /\ UNCHANGED ethrest

Board == Cycle \/ HostStep
         \/ /\ RunBlinky \/ RunEthTest \/ RunLoop \/ RunPoll \/ PushButton \/ Plug \/ Wire
            /\ UNCHANGED vars

\* The processor goes on, and so does time: lwIP's timers run out.  A program that is not
\* stopped is polled again and again; nothing is assumed of the host, the peers or the link.
BoardSpec == /\ BoardInit /\ [][Board]_<<vars, fw>>
             /\ WF_<<vars, fw>>(RunLoop /\ UNCHANGED vars)
             /\ SF_<<vars, fw>>(RunTimer /\ UNCHANGED vars)

-----------------------------------------------------------------------------
PressActsOnce  == Et!PressActsOnce
FramesWhole    == Runs(EthTest) => Et!FramesWhole
SharedBuffer   == Runs(LwipTest) => Lw!SharedBuffer
LineEndWaits   == Runs(LwipTest) => Lw!LineEndWaits
WindowAccounts == Runs(LwipTest) => Lw!WindowAccounts

\* A line that was ended is handed to tcp_write in the end while there is a connection to send
\* it on, unless connections, wanted or not, are made again and again: each takes the next
\* poll for its welcome (main.c 394, 454-479).  What tcp_write does with it is not claimed: a
\* line it refuses is lost.
LineHandedOver == <>[](Runs(LwipTest) /\ gSendRxBuf /\ open # {}) => []<>~gWelcomeSent

\* lwIP is told in the end of a link that stays up, or down, whatever it did before and
\* whatever its speed (main.c 94-128).
LinkTold == /\ <>[](Runs(LwipTest) /\ phy.up)  => <>[]netif_up
            /\ <>[](Runs(LwipTest) /\ ~phy.up) => <>[]~netif_up
=============================================================================
