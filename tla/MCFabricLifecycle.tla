-------------------------- MODULE MCFabricLifecycle --------------------------
(* A few short processes, one after another, on one control block.         *)
EXTENDS FabricLifecycle
=============================================================================
