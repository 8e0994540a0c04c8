-------------------------------- MODULE MCView --------------------------------
(* An instance of View for TLC: the texts of MCTextBuffer, on an output     *)
(* that gets areas of one and a half lines, of less than a line, and too    *)
(* narrow to show anything.                                                 *)
EXTENDS View, MCTextBuffer

Areas == { [columns |-> 2,  height |-> 3],
           [columns |-> 2,  height |-> 1],
           [columns |-> -1, height |-> 4] }
=============================================================================
