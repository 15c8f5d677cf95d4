----------------------------- MODULE MCDportMux -----------------------------
(* DportMux with cache operations on the memory, which answers them, and   *)
(* with none on the peripherals, which do not.                             *)
EXTENDS DportMux
=============================================================================
