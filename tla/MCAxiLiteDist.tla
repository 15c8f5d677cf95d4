---------------------------- MODULE MCAxiLiteDist ---------------------------
(* AxiLiteDist with two slaves and a port without one.  Accesses to one port *)
(* need not be told apart: of each slave at most one is outstanding.         *)
EXTENDS AxiLiteDist
TwoPorts == {0, 1}
Requests == {[port |-> 0, id |-> "a"], [port |-> 1, id |-> "a"], [port |-> 6, id |-> "a"]}
=============================================================================
