----------------------------- MODULE MCBltAlloc -----------------------------
(* The heap allocator on a region of a few aligned units.                  *)
EXTENDS BltAlloc

WithEmpty   == {0, 8, 16}           \* an upload of no pixels among them
=============================================================================
