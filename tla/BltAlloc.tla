------------------------------ MODULE BltAlloc ------------------------------
(***************************************************************************)
(* blt_alloc: the offset allocator behind the DDR source heap (and, in the *)
(* emitter's residency mode, the SDRAM regions).  It keeps only the free   *)
(* blocks, in an array of MaxFree entries sorted by offset; callers keep   *)
(* offset and size of what they own and hand both back.                    *)
(*                                                                         *)
(* blt_alloc that finds no block returns BLT_ALLOC_FAIL and changes        *)
(* nothing: RoomIsFound says when it may.                                  *)
(***************************************************************************)
EXTENDS Naturals, Sequences, FiniteSets, FiniteSetsExt

CONSTANTS
  Base, Size,  \* the region [Base, Base + Size)
  Align,       \* BLT_ALLOC_ALIGN
  MaxFree,     \* BLT_ALLOC_MAX_FREE
  Requests     \* the sizes callers ask for

ASSUME AllocAssumption ==
  /\ Align \in Nat \ {0} /\ MaxFree \in Nat \ {0}
  /\ Base \in Nat /\ Base % Align = 0
  /\ Size \in Nat \ {0} /\ Size % Align = 0
  /\ Requests \subseteq Nat

VARIABLES
  fb,    \* fb[0 .. n - 1]: the free blocks
  live,  \* what callers own: where, and the size they asked for
  leaked \* history: blocks neither free nor owned

allocVars == <<fb, live, leaked>>

Block(off, size) == [off |-> off, size |-> size]
End(b) == b.off + b.size

RoundUp(s) == ((s + Align - 1) \div Align) * Align
BlockSize(s) == IF RoundUp(s) = 0 THEN Align ELSE RoundUp(s)

\* The blocks that are out: owned by a caller, or lost.
Owned == {Block(a.off, BlockSize(a.asked)) : a \in live}
Out   == Owned \union leaked

Without(s, i) == SubSeq(s, 1, i - 1) \o SubSeq(s, i + 1, Len(s))
Insert(s, i, b) == SubSeq(s, 1, i - 1) \o <<b>> \o SubSeq(s, i, Len(s))

Whole == <<Block(Base, Size)>>

AllocInit == fb = Whole /\ live = {} /\ leaked = {}

-----------------------------------------------------------------------------
(* blt_alloc: first fit, taken from the front of the block.                *)

Fits(i, n) == fb[i].size >= n
FirstFit(n) == CHOOSE i \in DOMAIN fb : Fits(i, n) /\ \A j \in 1 .. i - 1 : ~Fits(j, n)

\* A mutant: an oversized block is handed out whole.
TakeWhole(i, n) == Without(fb, i)

TakeFrom(i, n) ==
  IF fb[i].size = n THEN Without(fb, i)
                    ELSE [fb EXCEPT ![i] = Block(@.off + n, @.size - n)]

Alloc(s) ==
  LET n == BlockSize(s)
      i == FirstFit(n)
  IN  /\ \E k \in DOMAIN fb : Fits(k, n)
      /\ fb' = TakeFrom(i, n)
      /\ live' = live \union {[off |-> fb[i].off, asked |-> s]}
      /\ UNCHANGED leaked

-----------------------------------------------------------------------------
(* blt_free: insert in order, joined with the free neighbours it touches.  *)

\* The first free block at or above off, one past the end if there is none.
InsertionPoint(off) ==
  CHOOSE i \in 1 .. Len(fb) + 1 :
    /\ \A j \in 1 .. i - 1 : fb[j].off < off
    /\ i <= Len(fb) => fb[i].off >= off

MeetsLeft(b, i)  == i > 1 /\ End(fb[i - 1]) = b.off
MeetsRight(b, i) == i <= Len(fb) /\ End(b) = fb[i].off

\* A mutant: a block that closes a gap is joined with its left neighbour only.
JoinsLeftOnly(b, i) == [fb EXCEPT ![i - 1].size = @ + b.size]

JoinedLeft(b, i) ==
  IF MeetsRight(b, i)
    THEN Without([fb EXCEPT ![i - 1].size = @ + b.size + fb[i].size], i)
    ELSE [fb EXCEPT ![i - 1].size = @ + b.size]

Joined(b, i) ==
  IF MeetsLeft(b, i) THEN JoinedLeft(b, i)
                     ELSE [fb EXCEPT ![i] = Block(b.off, b.size + @.size)]

\* The array has no room for one more block: it is dropped.
ListFull(i, b) == ~MeetsLeft(b, i) /\ ~MeetsRight(b, i) /\ Len(fb) >= MaxFree

FreeOf(a) ==
  LET b == Block(a.off, RoundUp(a.asked))
      i == InsertionPoint(a.off)
  IN  CASE b.size = 0 -> fb
        [] b.size > 0 /\ (MeetsLeft(b, i) \/ MeetsRight(b, i)) -> Joined(b, i)
        [] b.size > 0 /\ ListFull(i, b) -> fb
        [] OTHER -> Insert(fb, i, b)

Free(a) ==
  LET b == Block(a.off, BlockSize(a.asked))
  IN  /\ a \in live
      /\ fb' = FreeOf(a)
      /\ live' = live \ {a}
      /\ leaked' = IF fb' = fb THEN leaked \union {b} ELSE leaked

\* blt_alloc_reset, through blt_heap_reset: everything is free again.
Reset ==
  /\ fb' = Whole /\ live' = {} /\ leaked' = {}

AllocNext == (\E s \in Requests : Alloc(s)) \/ (\E a \in live : Free(a)) \/ Reset

AllocSpec == AllocInit /\ [][AllocNext]_allocVars

-----------------------------------------------------------------------------
(* Properties.                                                             *)

\* The free array never outgrows its MaxFree entries, nor a block the region
\* (blt_alloc_t and blt_free's bound on n_free).
AllocTypeOK ==
  /\ fb \in Seq([off : Nat, size : Nat]) /\ Len(fb) <= MaxFree
  /\ live \subseteq [off : Nat, asked : Requests]

Bytes(blocks) == MapThenSumSet(LAMBDA b : b.size, blocks)

\* blt_alloc_used.
Used == Size - Bytes({fb[i] : i \in DOMAIN fb})

\* The array the inner loops rely on: sorted, non-empty blocks that neither
\* overlap nor touch (touching ones were coalesced), aligned, inside the region.
FreeListOrdered ==
  /\ \A i \in DOMAIN fb :
       /\ fb[i].size > 0 /\ fb[i].off % Align = 0 /\ fb[i].size % Align = 0
       /\ fb[i].off >= Base /\ End(fb[i]) <= Base + Size
  /\ \A i \in 1 .. Len(fb) - 1 : End(fb[i]) < fb[i + 1].off

\* No byte has two owners and none disappears: the list is in order, what is free, owned
\* and lost are disjoint, and blt_alloc_used accounts for exactly what is out.
HeapConserved ==
  /\ AllocTypeOK /\ FreeListOrdered
  /\ \A a, b \in Out \union {fb[i] : i \in DOMAIN fb} :
       a # b => End(a) <= b.off \/ End(b) <= a.off
  /\ Cardinality(Owned) = Cardinality(live) /\ Owned \intersect leaked = {}
  /\ Used = Bytes(Out)

\* An allocation is refused only for want of a contiguous gap: whenever n aligned
\* bytes in a row are out to nobody, first fit finds a block of at least n.
RoomIsFound ==
  \A n \in {s * Align : s \in 1 .. Size \div Align} :
    (\E k \in 0 .. (Size - n) \div Align :
       LET gap == Block(Base + k * Align, n)
       IN  \A b \in Out : End(b) <= gap.off \/ End(gap) <= b.off)
      => \E i \in DOMAIN fb : Fits(i, n)

\* The array never holds more blocks than there are blocks out, plus one: with at
\* most MF_TEX_CACHE_N uploads alive its 1024 entries cannot run out.
FragmentsBounded == Len(fb) <= Cardinality(Out) + 1

\* The list is enough to find room with, and the array to keep it.
FreeListSuffices == RoomIsFound /\ FragmentsBounded

\* "All sizes are rounded up to BLT_ALLOC_ALIGN by BOTH alloc and free": what
\* blt_alloc gave out blt_free takes back, unless the array has no entry left for it.
FreeUndoesAlloc ==
  [][leaked' # leaked /\ leaked' # {} => Len(fb) >= MaxFree]_allocVars

=============================================================================
