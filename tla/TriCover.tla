------------------------------ MODULE TriCover ------------------------------
(***************************************************************************)
(* Which pixels a two-triangle draw writes, by the integer rasterizer the  *)
(* fabric reproduces (blt_tri), and the test that lets such a draw replace *)
(* a deferred clear (mf_pc_is_cover).  Coordinates are in units of 1/One   *)
(* of a pixel; the code has One = 16.                                      *)
(***************************************************************************)
EXTENDS Integers, Sequences, FiniteSets

CONSTANTS
  W, H,     \* the target, in pixels
  One,      \* sub-pixel units per pixel
  Points,   \* where vertices may be
  Mesh      \* the draw is a mesh: a corner both triangles use is one vertex

ASSUME CoverAssumption ==
  /\ W \in Nat \ {0} /\ H \in Nat \ {0}
  /\ One \in Nat \ {0} /\ One % 2 = 0
  /\ Points \subseteq [x : Int, y : Int]
  /\ Mesh \in BOOLEAN

VARIABLES
  tris,   \* the triangles rasterized so far, in list order
  hits    \* how often each pixel was written

vars == <<tris, hits>>

Pixels == (0 .. W - 1) \X (0 .. H - 1)
Center(p) == [x |-> p[1] * One + One \div 2, y |-> p[2] * One + One \div 2]

-----------------------------------------------------------------------------
(* blt_raster_tri.                                                         *)

Edge(a, b, c) == (b.x - a.x) * (c.y - a.y) - (b.y - a.y) * (c.x - a.x)

\* Mutants: every edge belongs to a triangle, or only its left edges do.
AlwaysIn(a, b) == TRUE
LeftOnly(a, b) == b.y > a.y

TopLeft(a, b) == (a.y = b.y /\ b.x < a.x) \/ b.y > a.y

\* Triangles are normalized to positive area.
Oriented(t) == IF Edge(t[1], t[2], t[3]) < 0 THEN <<t[1], t[3], t[2]>> ELSE t

Within(a, b, c) == Edge(a, b, c) + (IF TopLeft(a, b) THEN 0 ELSE -1) >= 0

Writes(t, p) ==
  LET o == Oriented(t)
      c == Center(p)
  IN  /\ Edge(o[1], o[2], o[3]) # 0
      /\ Within(o[2], o[3], c) /\ Within(o[3], o[1], c) /\ Within(o[1], o[2], c)

-----------------------------------------------------------------------------
(* mf_pc_corner_of and mf_pc_is_cover, for a draw that copies.             *)

Corners == {"TL", "TR", "BL", "BR"}

\* Left and top are tested first.
CornerOf(v) ==
  LET left == v.x <= 0      right == v.x >= W * One
      top  == v.y <= 0      bot   == v.y >= H * One
  IN  CASE left /\ top -> "TL"
        [] right /\ top /\ ~left -> "TR"
        [] left /\ bot /\ ~top -> "BL"
        [] right /\ bot /\ ~left /\ ~top -> "BR"
        [] OTHER -> "none"

Mask(t) == {CornerOf(t[i]) : i \in 1 .. 3}
HalfRect(t) == Mask(t) \subseteq Corners /\ Cardinality(Mask(t)) = 3

\* A mutant: the corner union alone, which the source warns against.
UnionOnly(s, t) == HalfRect(s) /\ HalfRect(t) /\ Mask(s) \union Mask(t) = Corners

IsCover(s, t) ==
  /\ HalfRect(s) /\ HalfRect(t)
  /\ Mask(s) \union Mask(t) = Corners
  /\ Mask(s) \intersect Mask(t) \in {{"TL", "BR"}, {"TR", "BL"}}

-----------------------------------------------------------------------------

Init == tris = <<>> /\ hits = [p \in Pixels |-> 0]

\* In a mesh, vertices at the same corner of the target are the same vertex.
FitsMesh(t) ==
  \A i \in DOMAIN tris, j, k \in 1 .. 3 :
    CornerOf(tris[i][j]) = CornerOf(t[k]) /\ CornerOf(t[k]) # "none" => tris[i][j] = t[k]

RasterTri(t) ==
  /\ Len(tris) < 2
  /\ Mesh => FitsMesh(t)
  /\ tris' = Append(tris, t)
  /\ hits' = [p \in Pixels |-> hits[p] + (IF Writes(t, p) THEN 1 ELSE 0)]

Next == \E a, b, c \in Points : RasterTri(<<a, b, c>>)

Spec == Init /\ [][Next]_vars

-----------------------------------------------------------------------------
(* Properties.                                                             *)

Drawn == Len(tris) = 2

\* "Does this draw provably write EVERY pixel of the w x h target?": a clear is only
\* dropped for a draw that leaves none of its pixels.
CoverWritesEveryPixel ==
  Drawn /\ IsCover(tris[1], tris[2]) => \A p \in Pixels : hits[p] > 0

Vertices(t) == {t[1], t[2], t[3]}

\* Edge i of s is an edge of t too, and the two triangles lie on either side of it.
Adjacent(s, t, i) ==
  LET a == s[i]   b == s[(i % 3) + 1]
  IN  /\ {a, b} \subseteq Vertices(t) /\ Edge(s[1], s[2], s[3]) > 0
      /\ \E d \in Vertices(t) : Edge(a, b, d) < 0

StrictlyIn(t, c) == \A i \in 1 .. 3 : Edge(t[i], t[(i % 3) + 1], c) > 0

\* On the open segment from a to b.
Between(a, b, c) ==
  Edge(a, b, c) = 0 /\ (c.x - a.x) * (c.x - b.x) + (c.y - a.y) * (c.y - b.y) < 0

\* The shared edge of a quad's triangles, as edge i of the first.
QuadSharing(i) == Drawn /\ Adjacent(Oriented(tris[1]), Oriented(tris[2]), i)

\* The fill rule gives each pixel on or beside the diagonal of a quad to at most one
\* of its triangles (the top-left rule of blt_tri.c): a blended quad has no seam.
QuadsWriteNoPixelTwice ==
  \A i \in 1 .. 3 : QuadSharing(i) => \A p \in Pixels : hits[p] <= 1

\* Nor is there a gap: a pixel whose centre is inside the quad, on the diagonal
\* included, is written.
QuadsLeaveNoGap ==
  \A i \in 1 .. 3 : QuadSharing(i) =>
    LET s == Oriented(tris[1])   t == Oriented(tris[2])
    IN  \A p \in Pixels :
          LET c == Center(p)
          IN  StrictlyIn(s, c) \/ StrictlyIn(t, c) \/ Between(s[i], s[(i % 3) + 1], c)
                => hits[p] > 0

=============================================================================
