---------------------------- MODULE BoundedQueue ----------------------------
(***************************************************************************)
(* What a clocked FIFO promises its user: a queue of at most Depth items.  *)
(* In one clock cycle it may take an item in, give its oldest item out, or *)
(* do both.  An item offered to a full queue and a pop of an empty one are *)
(* ignored.  RingFifo is the circuit, and is shown to implement this       *)
(* module; the modules that contain FIFOs use this one in its place.       *)
(***************************************************************************)
EXTENDS Naturals, Sequences

CONSTANTS Depth,   \* DEPTH: how many items fit
          Data     \* what may be stored
VARIABLE q         \* the items, oldest first

Accept == Len(q) # Depth     \* accept_o
Valid  == q # <<>>           \* valid_o

\* One clock edge, with the inputs push_i, data_in_i and pop_i.
Clock(push, x, pop) ==
    LET kept == IF pop /\ Valid THEN Tail(q) ELSE q
    IN  q' = IF push /\ Accept THEN Append(kept, x) ELSE kept

Init == q = <<>>
Next == \E push, pop \in BOOLEAN, x \in Data : Clock(push, x, pop)
Spec == Init /\ [][Next]_q
=============================================================================
