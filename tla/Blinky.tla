------------------------------- MODULE Blinky -------------------------------
(***************************************************************************)
(* The firmware blinky (fw/blinky/main.c): one LED after the other blinks, *)
(* and a press of the button changes between two rates.  A step is a       *)
(* timer_sleep and the computation up to the next.                         *)
(***************************************************************************)
EXTENDS Button

VARIABLES pc, Led, i, Fast

\* The LEDs lit: the output register.
gpio == IF pc = "lit" THEN {Led} ELSE {}

\* The switch at the end of the loop.
After(led) == CASE led = "red" -> "green" [] led = "green" -> "blue" [] led = "blue" -> "red"

\* Sleeps of a phase.
Turns == IF Fast THEN 3 ELSE 10

Boot == /\ pc = "boot" /\ pc' = "lit"
        /\ Led' = "red" /\ i' = 0 /\ Fast' = FALSE
        /\ Begin

\* A turn of either loop: the press ends the phase as well.
Turn(phase) ==
    /\ pc = phase /\ Look
    /\ Fast' = (Fast # JustPressed)
    /\ i' = IF JustPressed \/ i + 1 = Turns THEN 0 ELSE i + 1

Lit == /\ Turn("lit") /\ UNCHANGED Led
       /\ IF i' = 0 THEN pc' = "dark" ELSE UNCHANGED pc

Dark == /\ Turn("dark")
        /\ IF i' = 0 THEN pc' = "lit" /\ Led' = After(Led) ELSE UNCHANGED <<pc, Led>>

Blink == Boot \/ Lit \/ Dark
=============================================================================
