------------------------------ MODULE RectSplit ------------------------------
(***************************************************************************)
(* What a rect of the canvas writes: emit_rect of the bridge, which cuts a *)
(* large one into cells and drops the cells off the screen, the rounding   *)
(* of its vertices to the wire, and the rasterizer of TriCover.  Rects are *)
(* axis-aligned and may be mirrored; floating point is taken as exact,     *)
(* with Fine positions to a sub-pixel unit.                                *)
(***************************************************************************)
EXTENDS TriCover

CONSTANTS
  Fine,       \* positions of a vertex per sub-pixel unit
  SplitCell,  \* SPLIT_CELL_PX
  MaxCells,   \* SPLIT_MAX_CELLS
  Sides,      \* bound: where a rect lies on an axis, [lo, len]
  NoRect

ASSUME SplitAssumption ==
  /\ Fine \in Nat \ {0} /\ SplitCell \in Nat \ {0} /\ MaxCells \in Nat \ {0}
  /\ Sides \subseteq [lo : Int, len : Nat \ {0}]

VARIABLE rect   \* the rect drawn, or NoRect

splitVars == <<rect, tris, hits>>

PixelFine == One * Fine

-----------------------------------------------------------------------------
(* Positions along an axis are fractions: a numerator over n, the number   *)
(* of cells of the axis.                                                   *)

\* corner(): mirrored where src_rect is negative, and snapped to whole pixels.
Snapped(num, n) == PixelFine * n * ((2 * num + PixelFine * n) \div (2 * PixelFine * n))

Corner(a, snap, i, n) ==
  LET num == a.lo * n + a.len * (IF a.flip THEN n - i ELSE i)
  IN  IF snap THEN Snapped(num, n) ELSE num

\* rbc_lroundf: half away from zero.
RoundAway(num, d) ==
  IF num >= 0 THEN (2 * num + d) \div (2 * d) ELSE -((d - 2 * num) \div (2 * d))

\* A mutant: the width of a cell is rounded, and the cells laid side by side.
RoundedCells(a, snap, i, n) ==
  RoundAway(Corner(a, snap, 0, 1), Fine)
    + i * RoundAway(Corner(a, snap, 1, n) - Corner(a, snap, 0, n), n * Fine)

\* Where the wire has corner i of n.
Wire(a, snap, i, n) == RoundAway(Corner(a, snap, i, n), n * Fine)

Least(x, y) == IF x < y THEN x ELSE y
Most(x, y)  == IF x > y THEN x ELSE y

Span(a, snap) ==
  LET p == Corner(a, snap, 0, 1)   q == Corner(a, snap, 1, 1) IN Most(p, q) - Least(p, q)

Large(r) == \E a \in {r.x, r.y} : Span(a, r.snap) > SplitCell * PixelFine

Ceiling(num, d) == -((-num) \div d)

\* How many cells an axis is cut into.
Cells(a, snap) == Least(Most(1, Ceiling(Span(a, snap), SplitCell * PixelFine)), MaxCells)

\* Cell i of n lies off a screen of the given size.
OffScreen(a, snap, i, n, size) ==
  LET p == Corner(a, snap, i, n)   q == Corner(a, snap, i + 1, n)
  IN  Most(p, q) <= 0 \/ Least(p, q) >= size * PixelFine * n

\* The cells that are drawn.
Drawable(r) ==
  LET nx == Cells(r.x, r.snap)   ny == Cells(r.y, r.snap)
  IN  {c \in (0 .. nx - 1) \X (0 .. ny - 1) :
         Large(r) => /\ ~OffScreen(r.x, r.snap, c[1], nx, W)
                     /\ ~OffScreen(r.y, r.snap, c[2], ny, H)}

\* The two triangles of a cell.
CellTris(r, c) ==
  LET nx == Cells(r.x, r.snap)   ny == Cells(r.y, r.snap)
      V(i, j) == [x |-> Wire(r.x, r.snap, c[1] + i, nx), y |-> Wire(r.y, r.snap, c[2] + j, ny)]
  IN  <<<<V(0, 0), V(0, 1), V(1, 1)>>, <<V(0, 0), V(1, 1), V(1, 0)>>>>

-----------------------------------------------------------------------------

Axes  == {[lo |-> s.lo, len |-> s.len, flip |-> f] : s \in Sides, f \in BOOLEAN}
Rects == [x : Axes, y : Axes, snap : BOOLEAN]

SplitInit == Init /\ rect = NoRect

EmitRect(r) ==
  /\ rect' = r
  /\ hits' = [p \in Pixels |->
       Cardinality({d \in Drawable(r) \X {1, 2} : Writes(CellTris(r, d[1])[d[2]], p)})]
  /\ UNCHANGED tris

\* A quad of TriCover, or a rect.
SplitNext ==
  /\ rect = NoRect
  /\ \/ Next /\ UNCHANGED rect
     \/ tris = <<>> /\ \E r \in Rects : EmitRect(r)

SplitSpec == SplitInit /\ [][SplitNext]_splitVars

-----------------------------------------------------------------------------
(* Properties.                                                             *)

\* Between its corners as the wire has them; of the two, top_left gives a rect the right
\* and the lower.
InSide(a, snap, c) ==
  LET p == Wire(a, snap, 0, 1)   q == Wire(a, snap, 1, 1)
  IN  Least(p, q) < c /\ c <= Most(p, q)

Capped(a, snap) == Span(a, snap) > MaxCells * SplitCell * PixelFine

\* However a rect is cut, mirrored, snapped and rounded, it writes the pixels that the
\* whole rect covers, each once; and no triangle is larger than a cell and a pixel, which
\* the blitter's setup can still do, short of a rect beyond what MaxCells cells span.
\* (emit_rect: "split it into cells of at most SPLIT_CELL_PX on screen and drop cells
\* wholly off-screen".)
SplitDrawsTheRect ==
  rect # NoRect =>
    /\ \A p \in Pixels :
         hits[p] = IF InSide(rect.x, rect.snap, Center(p).x) /\ InSide(rect.y, rect.snap, Center(p).y)
                     THEN 1 ELSE 0
    /\ ~Capped(rect.x, rect.snap) /\ ~Capped(rect.y, rect.snap) =>
         \A c \in Drawable(rect), k \in {1, 2} :
           LET t    == Oriented(CellTris(rect, c)[k])
               side == (SplitCell + 1) * One
           IN  Edge(t[1], t[2], t[3]) <= side * side

\* "edge a->b is inside on E==0 iff it is a top or left edge": of the pixels whose centres
\* are on a side of a rect of one cell, in a row between its other two sides, those on its
\* left side are written and those on its right side are not.
LeftEdgesAreIn ==
  rect # NoRect /\ ~Large(rect) =>
    LET Low(a)  == Least(Wire(a, rect.snap, 0, 1), Wire(a, rect.snap, 1, 1))
        High(a) == Most(Wire(a, rect.snap, 0, 1), Wire(a, rect.snap, 1, 1))
        Beside(p) == Low(rect.y) < Center(p).y /\ Center(p).y < High(rect.y)
    IN  \A p, q \in Pixels :
          (/\ Beside(p) /\ Beside(q) /\ Low(rect.x) < High(rect.x)
           /\ Center(p).x = Low(rect.x) /\ Center(q).x = High(rect.x))
          => hits[p] = 1 /\ hits[q] = 0

=============================================================================
