------------------------------ MODULE MCSession ------------------------------
(* An instance of Session for TLC: the keys 1 and the space bar are enough  *)
(* to type a target and to reach it.                                        *)
EXTENDS Session

OneAndSpace == { <<49>>, <<Space>> }
=============================================================================
