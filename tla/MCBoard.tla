------------------------------ MODULE MCBoard -------------------------------
(* Small programs and peers for Board: a byte is a digit below 3, so that  *)
(* the length of a frame may be written as one too large (BufSize = 2      *)
(* refuses 2 and more), and telnet lines are cut off after two bytes.      *)
EXTENDS Board

CONSTANTS w1, w2, Bitfile, c1, c2

TwoWords == {w1, w2}
Programs == {Bitfile, Blinky, EthTest, LwipTest}
TwoConns == {c1, c2}
SomeFrames == {<<1>>, <<0, 2>>}
HalfFrames == {<<>>, <<2>>, <<0, 1, 1>>}
OneByte == <<1>>
Links == {[up |-> FALSE, speed |-> 10], [up |-> TRUE, speed |-> 10], [up |-> TRUE, speed |-> 100]}
SomeBufs == {<<"char">>, <<"cr">>, <<"iac">>, <<"iac", "cr", "char", "cr">>, <<"char", "char", "cr">>}
=============================================================================
