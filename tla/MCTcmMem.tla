------------------------------ MODULE MCTcmMem ------------------------------
(* TcmMem with two words, two values and two tags, so that an access to the *)
(* wrong word, wrong data and a wrong tag show.  The circuit treats all of  *)
(* each alike.                                                              *)
EXTENDS TcmMem, TLC
Symmetry == Permutations(Words) \cup Permutations(Data) \cup Permutations(Ids)
=============================================================================
