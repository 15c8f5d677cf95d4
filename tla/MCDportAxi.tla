----------------------------- MODULE MCDportAxi -----------------------------
(* DportAxiRings with two requests that can be told apart.  The queues     *)
(* hold two requests and the bus one more, so two ids and two kinds of     *)
(* request give every mix of equal and different neighbours.               *)
EXTENDS DportAxiRings
=============================================================================
