------------------------------ MODULE MCEthRegs -----------------------------
(* EthRegs with two values of a byte: enough to tell a byte that is read    *)
(* twice, skipped or out of order, as the streams can hold different        *)
(* neighbours.                                                              *)
EXTENDS EthRegs, TLC
CONSTANTS a, b
TwoBytes == {a, b}
Symmetry == Permutations(TwoBytes)
=============================================================================
