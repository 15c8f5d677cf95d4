---------------------------- MODULE MCAxiLiteConv ---------------------------
(* AxiLiteConv with single words and bursts of every type.  The wrapping    *)
(* burst starts in the middle of its block of four, so that it wraps.       *)
EXTENDS AxiLiteConv
AllTypes == {[id |-> 1, addr |-> 0, len |-> 0, type |-> "INCR"],
             [id |-> 2, addr |-> 20, len |-> 1, type |-> "INCR"],
             [id |-> 3, addr |-> 42, len |-> 3, type |-> "WRAP"],
             [id |-> 4, addr |-> 60, len |-> 1, type |-> "FIXED"]}
=============================================================================
