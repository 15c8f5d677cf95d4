------------------------------- MODULE Button -------------------------------
(***************************************************************************)
(* The button of the Pano and how the firmware looks at it:                *)
(* ButtonJustPressed, of which blinky, eth_test and lwip_test have a copy  *)
(* each (that of lwip_test is not called).  There is no interrupt: a press *)
(* is what two looks in a row differ by.                                   *)
(***************************************************************************)
EXTENDS Naturals

VARIABLES button,       \* GPIO_BIT_PANO_BUTTON of the input register: 0 while pressed
          ButtonLast,   \* what it was at the last look
          acted,        \* history: how often this press has set something off
          stale         \* history: pressed since before the program was started, and loaded

Up == 2                 \* GPIO_BIT_PANO_BUTTON
NoLook == 3

buttonvars == <<button, ButtonLast, acted, stale>>

ButtonInit == button = Up /\ ButtonLast = NoLook /\ acted = 0 /\ stale = FALSE

Press   == button = Up /\ button' = 0 /\ acted' = 0 /\ UNCHANGED <<ButtonLast, stale>>
Release == button = 0 /\ button' = Up /\ acted' = 0 /\ stale' = FALSE /\ UNCHANGED ButtonLast

\* main begins.  ButtonLast is what loading the program made it, or what an earlier run of it
\* left there.
Begin == acted' = 0 /\ stale' = (button = 0 /\ ButtonLast = NoLook) /\ UNCHANGED <<button, ButtonLast>>

\* A defect: the first look counts as well.
MutJustPressed == ButtonLast # button /\ button = 0
JustPressed == ButtonLast # NoLook /\ ButtonLast # button /\ button = 0

\* A call of ButtonJustPressed; its value is JustPressed.
Look == /\ ButtonLast' = button
        /\ acted' = IF JustPressed THEN acted + 1 ELSE acted
        /\ UNCHANGED <<button, stale>>

\* However long the button is held, a press sets off one thing at most in a run of a program,
\* and none if it was held already when the program was loaded and started
\* (blinky/main.c 73-89, eth_test/main.c 157-173).
PressActsOnce == acted <= IF stale THEN 0 ELSE 1
=============================================================================
