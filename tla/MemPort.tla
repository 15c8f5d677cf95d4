------------------------------- MODULE MemPort ------------------------------
(***************************************************************************)
(* What the data port of the CPU relies on, whatever stands behind it.     *)
(* Requests that the port accepts are performed on the target one at a     *)
(* time, in the order of acceptance and each exactly once, and each is     *)
(* acknowledged after it was performed, again in that order.               *)
(*                                                                         *)
(* DportAxi (the bridge to the peripheral bus), TcmMem (the memory) and    *)
(* DportMux (which hides the two behind one port) are shown to implement   *)
(* this module; so are TcmPmem, AxiLiteConv and AxiLiteDist for what their *)
(* own masters rely on.                                                    *)
(***************************************************************************)
EXTENDS Naturals, Sequences

CONSTANT Requests
VARIABLES todo,   \* accepted, not yet performed; oldest first
          done    \* performed, not yet acknowledged; oldest first

\* One clock cycle: reqs is the request accepted in it, if there is one;
\* perform and ack say whether a request takes effect and whether one that
\* took effect in an earlier cycle is acknowledged.
Cycle(reqs, perform, ack) ==
    LET queued == todo \o reqs
    IN  /\ perform => queued # <<>>
        /\ ack => done # <<>>
        /\ todo' = IF perform THEN Tail(queued) ELSE queued
        /\ done' = (IF ack THEN Tail(done) ELSE done)
                   \o (IF perform THEN <<Head(queued)>> ELSE <<>>)

Init == todo = <<>> /\ done = <<>>

Next == \E perform, ack \in BOOLEAN :
            \/ Cycle(<<>>, perform, ack)
            \/ \E r \in Requests : Cycle(<<r>>, perform, ack)

Spec == Init /\ [][Next]_<<todo, done>>
=============================================================================
