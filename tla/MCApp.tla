-------------------------------- MODULE MCApp --------------------------------
(* An instance of App for TLC: with the keys 1 and q the texts hold words   *)
(* (Return separates them), answers, and numbers on both sides of every     *)
(* limit.                                                                   *)
EXTENDS App

OneAndQ == { <<49>>, <<CharQ>> }
=============================================================================
