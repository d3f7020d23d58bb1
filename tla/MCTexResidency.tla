--------------------------- MODULE MCTexResidency ---------------------------
(* Texture residency on small instances, with interchangeable texture      *)
(* names; and below its pages of one size the allocator of the heap, on a   *)
(* region of a few aligned units.  A behaviour runs one of the two.         *)
EXTENDS TexResidency, BltAlloc, TLC

CONSTANTS ka, kb, kc   \* model values for texture names

TwoKeys   == {ka, kb}
ThreeKeys == {ka, kb, kc}
KeySymmetry == Permutations(Keys)

UploadSizes == {2, 8, 12, 24}       \* one, one, two and three units of 8 bytes

VARIABLE level      \* which runs: "cache" | "heap"

heapVars == <<level, vars, allocVars>>

HeapInit == level \in {"cache", "heap"} /\ Init /\ AllocInit

HeapNext ==
  /\ UNCHANGED level
  /\ \/ level = "cache" /\ Next      /\ UNCHANGED allocVars
     \/ level = "heap"  /\ AllocNext /\ UNCHANGED vars

HeapSpec == HeapInit /\ [][HeapNext]_heapVars
=============================================================================
