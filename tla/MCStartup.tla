------------------------------ MODULE MCStartup ------------------------------
(* An instance of Startup for TLC. *)
EXTENDS Startup

CONSTANTS eDP1, HDMI1

Two   == {eDP1, HDMI1}
Sizes == [n \in Outputs |-> IF n = eDP1 THEN 2 ELSE 0]
=============================================================================
