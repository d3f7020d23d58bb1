------------------------------ MODULE MCOffline ------------------------------
(* What runs off line: the script that patches the Godot tree, on the       *)
(* project's own list of edits, and the scripts that read a trace, the      *)
(* frame records or the boot log.  A behaviour runs one of them.            *)
EXTENDS TreePatch, GodotEdits, Cpu0Trace, FrameCapture, BootLog

VARIABLE desk      \* which runs: "patch" | "trace" | "capture" | "boot"

offlineVars == <<desk, patchVars, traceVars, captureVars, bootVars>>

OfflineInit ==
  /\ desk \in {"patch", "trace", "capture", "boot"}
  /\ PatchInit
  /\ TraceInit /\ (desk # "trace" => inIrq = {})
  /\ CaptureInit /\ (desk # "capture" => playing)
  /\ BootInit

OfflineNext ==
  /\ UNCHANGED desk
  /\ \/ desk = "patch"   /\ PatchNext   /\ UNCHANGED <<traceVars, captureVars, bootVars>>
     \/ desk = "trace"   /\ TraceNext   /\ UNCHANGED <<patchVars, captureVars, bootVars>>
     \/ desk = "capture" /\ CaptureNext /\ UNCHANGED <<patchVars, traceVars, bootVars>>
     \/ desk = "boot"    /\ BootNext    /\ UNCHANGED <<patchVars, traceVars, captureVars>>

OfflineSpec == OfflineInit /\ [][OfflineNext]_offlineVars
=============================================================================
