----------------------------- MODULE MCRecovery -----------------------------
(* An instance of Recovery for TLC: one instance edits twice and may write *)
(* in two pieces, the other competes with it for the names.                *)
EXTENDS Recovery

CONSTANTS p, q

Two     == {p, q}
Edits   == [r \in Two |-> IF r = p THEN 2 ELSE 1]
Lengths == [r \in Two |-> IF r = p THEN 2 ELSE 1]
=============================================================================
