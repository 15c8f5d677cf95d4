----------------------------- MODULE MCCpuReset -----------------------------
EXTENDS CpuReset

CONSTANTS w1, w2, Bitfile, Blinky, LwipTest

TwoWords == {w1, w2}
Programs == {Bitfile, Blinky, LwipTest}
=============================================================================
