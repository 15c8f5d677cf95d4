----------------------------- MODULE MCEthDriver ----------------------------
(* EthDriver with bytes of three values, so that a length of three uses both *)
(* its bytes, and 5 to 8 are lengths longer than any frame; no length exceeds *)
(* a pbuf.  Of two pbufs lwIP may keep both.  Sent are a frame in one pbuf,   *)
(* and one in a chain that has an empty pbuf in it.                          *)
EXTENDS EthDriver
Received == {<<1>>, <<2, 0, 1>>}
Passed   == {<<<<2, 0, 1>>>>, <<<<1>>, <<2>>, <<>>, <<0>>>>}
=============================================================================
