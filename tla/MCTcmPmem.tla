------------------------------ MODULE MCTcmPmem -----------------------------
(* TcmPmem with a single access and bursts of two and three words at        *)
(* addresses that do not overlap, so that a wrong address, length or        *)
(* identity shows, and FIFOs that a burst fills.                            *)
EXTENDS TcmPmem
ShortBursts == {[id |-> 1, addr |-> 0, len |-> 0], [id |-> 2, addr |-> 10, len |-> 1],
                [id |-> 3, addr |-> 20, len |-> 2]}
=============================================================================
