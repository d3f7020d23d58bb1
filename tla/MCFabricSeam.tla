---------------------------- MODULE MCFabricSeam ----------------------------
(* The submit seam on small instances: one ordinary command, short rings.  *)
EXTENDS FabricSeam

CONSTANTS draw, end, nop   \* model values for the ring commands

MCCommands == {draw}
=============================================================================
