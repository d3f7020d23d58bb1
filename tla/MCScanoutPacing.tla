-------------------------- MODULE MCScanoutPacing --------------------------
(* A few scanout periods of a game whose frames are short, long or late.   *)
EXTENDS ScanoutPacing
=============================================================================
