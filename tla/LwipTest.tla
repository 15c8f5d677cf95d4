------------------------------ MODULE LwipTest ------------------------------
(***************************************************************************)
(* The main loop of the firmware lwip_test (fw/lwip_test/main.c): it tells *)
(* lwIP of the link, and polls the Ethernet, which is when lwIP calls the  *)
(* telnet server.  What a poll does with frames is in EthDriver; the LEDs  *)
(* the loop blinks go on as those of Blinky do and are left out.           *)
(***************************************************************************)
EXTENDS Telnet

CONSTANTS Polls     \* polls of a turn of the loop (20: ten with the LED lit)

VARIABLES pc, i,
          phy, EthStatus,     \* the link, and what the program saw of it last
          netif_up            \* gNetif: what lwIP was told

NoLink == [up |-> FALSE, speed |-> 10]    \* all bits 0

\* netif_add leaves the link down; TcpInit makes the server listen.
Boot == /\ pc = "boot" /\ pc' = "status"
        /\ i' = 0 /\ EthStatus' = NoLink /\ netif_up' = FALSE
        /\ UNCHANGED <<phy, telnetvars>>

\* A defect: the mask has the speed only.
MutSeen == [up |-> FALSE, speed |-> phy.speed]
\* ETH_STATUS & (ETH_STATUS_LINK_UP | ETH_STATUS_LINK_SPEED)
Seen == phy

Status == /\ pc = "status" /\ pc' = "poll" /\ i' = 0
          /\ EthStatus' = Seen
          /\ netif_up' = IF EthStatus # Seen THEN Seen.up ELSE netif_up
          /\ UNCHANGED <<phy, telnetvars>>

\* timer_sleep, after a poll.
Sleep == /\ pc = "poll"
         /\ IF i + 1 < Polls THEN i' = i + 1 /\ UNCHANGED pc ELSE i' = 0 /\ pc' = "status"
         /\ UNCHANGED <<phy, EthStatus, netif_up, telnetvars>>

Loop == Boot \/ Status \/ Sleep

Polled == pc = "poll" /\ UNCHANGED <<pc, i, phy, EthStatus, netif_up>>

Poll == Polled /\ Callback

\* The timers of lwIP run, and with them the polls of its connections.
Timer == Polled /\ \E c \in Conns : TcpPoll(c)
=============================================================================
