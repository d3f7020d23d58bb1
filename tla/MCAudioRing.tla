---------------------------- MODULE MCAudioRing ----------------------------
(* A ring of a few stereo frames, shared by processes that come and go.    *)
EXTENDS AudioRing
=============================================================================
