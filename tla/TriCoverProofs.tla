---------------------------- MODULE TriCoverProofs ----------------------------
(***************************************************************************)
(* The top-left rule of blt_raster_tri and the cover proof of              *)
(* backend_mfgpu.c, for every target, sub-pixel scale and choice of        *)
(* vertices: of two triangles on either side of a shared edge no pixel is  *)
(* written by both, two that make a convex quad leave no pixel between     *)
(* them, and a pair fabric_mark_cover accepts writes the whole target; and *)
(* of RectSplit, that a rect cut into cells writes its pixels once each.   *)
(*                                                                         *)
(* The argument: the two triangles walk the shared edge in opposite        *)
(* directions; an edge value changes its sign with the direction, and of   *)
(* the two directions exactly one is top or left, so exactly one of the    *)
(* two edge tests passes.  A pixel on the diagonal's side of one triangle  *)
(* is inside it, for the diagonal and one side decide the other.           *)
(***************************************************************************)
EXTENDS RectSplit, SequenceTheorems, FiniteSetTheorems, WellFoundedInduction, TLAPS

Point == [x : Int, y : Int]

(***************************************************************************)
(* The edge function changes sign with the direction of the edge.          *)
(***************************************************************************)
LEMMA EdgeReversed ==
  ASSUME NEW a \in Point, NEW b \in Point, NEW c \in Point
  PROVE  /\ Edge(a, b, c) \in Int
         /\ Edge(b, a, c) = -Edge(a, b, c)
BY DEF Edge, Point

(***************************************************************************)
(* Twice the signed area: the same from each corner, opposite when two     *)
(* corners are exchanged.                                                  *)
(***************************************************************************)
LEMMA EdgeRotated ==
  ASSUME NEW a \in Point, NEW b \in Point, NEW c \in Point
  PROVE  /\ Edge(b, c, a) = Edge(a, b, c)
         /\ Edge(c, a, b) = Edge(a, b, c)
         /\ Edge(a, c, b) = -Edge(a, b, c)
BY DEF Edge, Point

(***************************************************************************)
(* An edge passes through its own ends, and no edge joins a point to itself. *)
(***************************************************************************)
LEMMA EdgeDegenerate ==
  ASSUME NEW a \in Point, NEW b \in Point
  PROVE  Edge(a, b, a) = 0 /\ Edge(a, b, b) = 0 /\ Edge(a, a, b) = 0
BY DEF Edge, Point

(***************************************************************************)
(* Of the two directions of a proper edge exactly one is top or left.      *)
(***************************************************************************)
LEMMA OneDirectionIsTopLeft ==
  ASSUME NEW a \in Point, NEW b \in Point, a # b
  PROVE  TopLeft(a, b) <=> ~TopLeft(b, a)
<1>1. a.x # b.x \/ a.y # b.y
  BY DEF Point
<1> QED
  BY <1>1 DEF TopLeft, Point

(***************************************************************************)
(* So exactly one of the two directions of an edge claims a point.         *)
(***************************************************************************)
LEMMA OneDirectionClaims ==
  ASSUME NEW a \in Point, NEW b \in Point, NEW c \in Point, a # b
  PROVE  Within(a, b, c) <=> ~Within(b, a, c)
BY EdgeReversed, OneDirectionIsTopLeft DEF Within

(***************************************************************************)
(* Where a lies left of a -> b, the counter-clockwise triangle u, v, w that *)
(* has both ends of the edge and a corner to its right walks b -> a.       *)
(***************************************************************************)
LEMMA OppositeWalk ==
  ASSUME NEW u \in Point, NEW v \in Point, NEW w \in Point,
         NEW a \in {u, v, w}, NEW b \in {u, v, w}, NEW d \in {u, v, w},
         Edge(u, v, w) > 0, Edge(a, b, d) < 0
  PROVE  a # b /\ \/ b = u /\ a = v
                  \/ b = v /\ a = w
                  \/ b = w /\ a = u
<1>1. a # b
  BY EdgeDegenerate
<1>2. d # a /\ d # b
  BY EdgeDegenerate
<1>3. ~(a = u /\ b = v) /\ ~(a = v /\ b = w) /\ ~(a = w /\ b = u)
  <2>1. ASSUME a = u, b = v PROVE FALSE
    <3>1. d = w
      BY <1>2, <2>1
    <3> QED
      BY <2>1, <3>1, EdgeReversed
  <2>2. ASSUME a = v, b = w PROVE FALSE
    <3>1. d = u
      BY <1>2, <2>2
    <3> QED
      BY <2>2, <3>1, EdgeRotated, EdgeReversed
  <2>3. ASSUME a = w, b = u PROVE FALSE
    <3>1. d = v
      BY <1>2, <2>3
    <3> QED
      BY <2>3, <3>1, EdgeRotated, EdgeReversed
  <2> QED
    BY <2>1, <2>2, <2>3
<1> QED
  BY <1>1, <1>3

(***************************************************************************)
(* Normalizing a triangle keeps its corners and gives it positive area.    *)
(***************************************************************************)
Triangle == Points \X Points \X Points

LEMMA OrientedIsPositive ==
  ASSUME NEW t \in Triangle
  PROVE  /\ Oriented(t) \in Point \X Point \X Point
         /\ \A p \in Pixels : Writes(t, p) =>
              Edge(Oriented(t)[1], Oriented(t)[2], Oriented(t)[3]) > 0
<1>1. Points \subseteq Point
  BY CoverAssumption DEF Point
<1>2. t[1] \in Point /\ t[2] \in Point /\ t[3] \in Point
  BY <1>1 DEF Triangle
<1>3. Oriented(t) \in Point \X Point \X Point
  <2>1. CASE Edge(t[1], t[2], t[3]) < 0
    <3>1. Oriented(t) = <<t[1], t[3], t[2]>>
      BY <2>1 DEF Oriented
    <3> QED
      BY <1>2, <3>1
  <2>2. CASE ~(Edge(t[1], t[2], t[3]) < 0)
    <3>1. Oriented(t) = t
      BY <2>2 DEF Oriented
    <3> QED
      BY <1>1, <3>1 DEF Triangle
  <2> QED
    BY <2>1, <2>2
<1>4. ASSUME NEW p \in Pixels, Writes(t, p)
      PROVE  Edge(Oriented(t)[1], Oriented(t)[2], Oriented(t)[3]) > 0
  <2>1. Edge(Oriented(t)[1], Oriented(t)[2], Oriented(t)[3]) # 0
    BY <1>4 DEF Writes
  <2>2. CASE Edge(t[1], t[2], t[3]) < 0
    <3>1. Oriented(t) = <<t[1], t[3], t[2]>>
      BY <2>2 DEF Oriented
    <3> QED
      BY <1>2, <2>2, <3>1, EdgeRotated, EdgeReversed
  <2>3. CASE ~(Edge(t[1], t[2], t[3]) < 0)
    <3>1. Oriented(t) = t
      BY <2>3 DEF Oriented
    <3> QED
      BY <1>2, <2>1, <2>3, <3>1, EdgeReversed
  <2> QED
    BY <2>2, <2>3
<1> QED
  BY <1>3, <1>4

(***************************************************************************)
(* A written pixel passes the test of every edge of the triangle.          *)
(***************************************************************************)
LEMMA WrittenIsWithin ==
  ASSUME NEW t \in Triangle, NEW p \in Pixels, Writes(t, p)
  PROVE  LET o == Oriented(t)
         IN  /\ Within(o[1], o[2], Center(p))
             /\ Within(o[2], o[3], Center(p))
             /\ Within(o[3], o[1], Center(p))
BY DEF Writes

(***************************************************************************)
(* Two triangles on either side of a shared edge never write one pixel.    *)
(***************************************************************************)
LEMMA NeighboursAreDisjoint ==
  ASSUME NEW s \in Triangle, NEW t \in Triangle, NEW i \in 1 .. 3,
         Adjacent(Oriented(s), Oriented(t), i), NEW p \in Pixels
  PROVE  ~(Writes(s, p) /\ Writes(t, p))
<1> SUFFICES ASSUME Writes(s, p), Writes(t, p) PROVE FALSE
  OBVIOUS
<1> DEFINE o == Oriented(s)
           n == Oriented(t)
           a == o[i]
           b == o[(i % 3) + 1]
           c == Center(p)
<1>1. c \in Point
  BY CoverAssumption DEF Center, Pixels, Point
<1>2. o \in Point \X Point \X Point /\ n \in Point \X Point \X Point
  BY OrientedIsPositive
<1>3. n[1] \in Point /\ n[2] \in Point /\ n[3] \in Point
  BY <1>2
<1>4. Edge(n[1], n[2], n[3]) > 0
  BY OrientedIsPositive
<1>5. PICK d \in {n[1], n[2], n[3]} : Edge(a, b, d) < 0
  BY DEF Adjacent, Vertices
<1>6. a \in {n[1], n[2], n[3]} /\ b \in {n[1], n[2], n[3]}
  BY DEF Adjacent, Vertices
<1>7. a \in Point /\ b \in Point
  BY <1>3, <1>6
<1>8. a # b /\ \/ b = n[1] /\ a = n[2]
               \/ b = n[2] /\ a = n[3]
               \/ b = n[3] /\ a = n[1]
  <2> HIDE DEF a, b, n
  <2> QED
    BY <1>3, <1>4, <1>5, <1>6, OppositeWalk
<1>9. Within(b, a, c)
  <2>1. /\ Within(n[1], n[2], c) /\ Within(n[2], n[3], c)
        /\ Within(n[3], n[1], c)
    BY WrittenIsWithin
  <2> HIDE DEF a, b, c, n
  <2> QED
    BY <1>8, <2>1
<1>10. Within(a, b, c)
  <2>1. /\ Within(o[1], o[2], c) /\ Within(o[2], o[3], c)
        /\ Within(o[3], o[1], c)
    BY WrittenIsWithin
  <2>2. \/ i = 1 /\ (i % 3) + 1 = 2
        \/ i = 2 /\ (i % 3) + 1 = 3
        \/ i = 3 /\ (i % 3) + 1 = 1
    OBVIOUS
  <2> HIDE DEF c, o
  <2> QED
    BY <2>1, <2>2
<1> HIDE DEF a, b, c
<1> QED
  BY <1>1, <1>7, <1>8, <1>9, <1>10, OneDirectionClaims

(***************************************************************************)
(* The edge values of a point add up to twice the area.                    *)
(***************************************************************************)
LEMMA EdgesAddUp ==
  ASSUME NEW a \in Point, NEW b \in Point, NEW c \in Point, NEW p \in Point
  PROVE  Edge(a, b, p) + Edge(b, c, p) + Edge(c, a, p) = Edge(a, b, c)
BY DEF Edge, Point

(***************************************************************************)
(* A point on the open segment from a to b lies strictly inside the two    *)
(* other edges of a triangle on its left.                                  *)
(***************************************************************************)
LEMMA Products ==
  ASSUME NEW m \in Int, NEW n \in Int
  PROVE  /\ m * n \in Int /\ m * m >= 0
         /\ m > 0 /\ n > 0 => m * n > 0
         /\ m > 0 /\ m * n > 0 => n > 0
         /\ m >= 0 /\ n >= 0 => m * n >= 0
OBVIOUS

LEMMA InsideOtherEdges ==
  ASSUME NEW a \in Point, NEW b \in Point, NEW e \in Point, NEW c \in Point,
         Edge(a, b, e) > 0, Between(a, b, c)
  PROVE  Edge(b, e, c) > 0 /\ Edge(e, a, c) > 0
<1>1. PICK ux \in Int, uy \in Int, vx \in Int, vy \in Int, ex \in Int, ey \in Int :
        /\ ux = b.x - a.x /\ uy = b.y - a.y
        /\ vx = c.x - a.x /\ vy = c.y - a.y
        /\ ex = e.x - a.x /\ ey = e.y - a.y
  <2>1. /\ b.x - a.x \in Int /\ b.y - a.y \in Int /\ c.x - a.x \in Int
        /\ c.y - a.y \in Int /\ e.x - a.x \in Int /\ e.y - a.y \in Int
    BY DEF Point
  <2> QED BY <2>1
<1>2. PICK area \in Int, left \in Int, right \in Int :
        /\ area = ux * ey - uy * ex
        /\ right = (ex - ux) * (vy - uy) - (ey - uy) * (vx - ux)
        /\ left = ex * vy * (-1) + ey * vx
  OBVIOUS
<1>3. /\ ux * vy - uy * vx = 0
      /\ vx * (vx - ux) + vy * (vy - uy) < 0
      /\ area > 0 /\ Edge(b, e, c) = right /\ Edge(e, a, c) = left
  <2>1. /\ c.x - b.x = vx - ux /\ c.y - b.y = vy - uy
        /\ e.x - b.x = ex - ux /\ e.y - b.y = ey - uy
        /\ a.x - e.x = -ex /\ a.y - e.y = -ey
        /\ c.x - e.x = vx - ex /\ c.y - e.y = vy - ey
    BY <1>1 DEF Point
  <2>2. ux * vy - uy * vx = 0 /\ vx * (vx - ux) + vy * (vy - uy) < 0
    BY <1>1, <2>1 DEF Between, Edge
  <2>3. area > 0
    BY <1>1, <1>2 DEF Edge
  <2>4. Edge(b, e, c) = right
    BY <1>2, <2>1 DEF Edge
  <2>5. Edge(e, a, c) = (-ex) * (vy - ey) - (-ey) * (vx - ex)
    BY <2>1 DEF Edge
  <2>6. (-ex) * (vy - ey) - (-ey) * (vx - ex) = ex * vy * (-1) + ey * vx
    OBVIOUS
  <2> QED BY <1>2, <2>2, <2>3, <2>4, <2>5, <2>6
<1>4. (ux * vx + uy * vy) > 0
  BY <1>3
<1>5. (ux * (ux - vx) + uy * (uy - vy)) > 0
  BY <1>3
<1>6. ux * ux + uy * uy > 0
  BY <1>4, <1>5
<1>7. (ux * ux + uy * uy) * left = (ux * vx + uy * vy) * area
  BY <1>2, <1>3
<1>8. (ux * ux + uy * uy) * right = (ux * (ux - vx) + uy * (uy - vy)) * area
  BY <1>2, <1>3
<1>9. (ux * vx + uy * vy) * area > 0 /\ (ux * (ux - vx) + uy * (uy - vy)) * area > 0
  BY <1>3, <1>4, <1>5, Products
<1>10. PICK sq \in Int, l \in Int, r \in Int :
         /\ sq = ux * ux + uy * uy /\ sq > 0
         /\ l = (ux * vx + uy * vy) * area /\ l > 0
         /\ r = (ux * (ux - vx) + uy * (uy - vy)) * area /\ r > 0
  BY <1>6, <1>9
<1>11. sq * left > 0 /\ sq * right > 0
  BY <1>7, <1>8, <1>10
<1>12. left > 0 /\ right > 0
  BY <1>10, <1>11, Products
<1> QED
  BY <1>3, <1>12

(***************************************************************************)
(* A triangle writes a pixel that every edge claims, whatever order and    *)
(* direction its corners came in.                                          *)
(***************************************************************************)
LEMMA ClaimedIsWritten ==
  ASSUME NEW t \in Triangle, NEW p \in Pixels,
         NEW u \in Point, NEW v \in Point, NEW w \in Point,
         {t[1], t[2], t[3]} = {u, v, w}, Edge(u, v, w) > 0,
         Within(u, v, Center(p)), Within(v, w, Center(p)), Within(w, u, Center(p))
  PROVE  Writes(t, p)
<1> DEFINE c == Center(p)
<1>1. Points \subseteq Point
  BY CoverAssumption DEF Point
<1>2. t[1] \in Point /\ t[2] \in Point /\ t[3] \in Point
  BY <1>1 DEF Triangle
<1>3. u # v /\ v # w /\ w # u
  BY EdgeDegenerate, EdgeRotated
<1>4. Edge(v, w, u) > 0 /\ Edge(w, u, v) > 0
  BY EdgeRotated
<1>5. Edge(u, w, v) < 0 /\ Edge(w, v, u) < 0 /\ Edge(v, u, w) < 0
  BY <1>4, EdgeRotated, EdgeReversed
<1>6. \/ t[1] = u /\ t[2] = v /\ t[3] = w
      \/ t[1] = v /\ t[2] = w /\ t[3] = u
      \/ t[1] = w /\ t[2] = u /\ t[3] = v
      \/ t[1] = u /\ t[2] = w /\ t[3] = v
      \/ t[1] = w /\ t[2] = v /\ t[3] = u
      \/ t[1] = v /\ t[2] = u /\ t[3] = w
  BY <1>3
<1>7. CASE \/ t[1] = u /\ t[2] = v /\ t[3] = w
           \/ t[1] = v /\ t[2] = w /\ t[3] = u
           \/ t[1] = w /\ t[2] = u /\ t[3] = v
  <2>1. Edge(t[1], t[2], t[3]) > 0 /\ Edge(t[1], t[2], t[3]) \in Int
    BY <1>2, <1>4, <1>7, EdgeReversed
  <2>2. Oriented(t) = t
    BY <2>1 DEF Oriented
  <2> HIDE DEF c
  <2>3. Within(t[1], t[2], c) /\ Within(t[2], t[3], c) /\ Within(t[3], t[1], c)
    BY <1>7 DEF c
  <2> QED BY <2>1, <2>2, <2>3 DEF Writes, c
<1>8. CASE \/ t[1] = u /\ t[2] = w /\ t[3] = v
           \/ t[1] = w /\ t[2] = v /\ t[3] = u
           \/ t[1] = v /\ t[2] = u /\ t[3] = w
  <2>1. Edge(t[1], t[2], t[3]) < 0 /\ Edge(t[1], t[3], t[2]) > 0
        /\ Edge(t[1], t[3], t[2]) \in Int
    BY <1>2, <1>4, <1>5, <1>8, EdgeReversed
  <2>2. Oriented(t) = <<t[1], t[3], t[2]>>
    BY <2>1 DEF Oriented
  <2> HIDE DEF c
  <2>3. Within(t[1], t[3], c) /\ Within(t[3], t[2], c) /\ Within(t[2], t[1], c)
    BY <1>8 DEF c
  <2> QED BY <2>1, <2>2, <2>3 DEF Writes, c
<1> QED BY <1>6, <1>7, <1>8

(***************************************************************************)
(* An edge claims what is strictly on its left.                            *)
(***************************************************************************)
LEMMA InsideIsWithin ==
  ASSUME NEW a \in Point, NEW b \in Point, NEW c \in Point, Edge(a, b, c) > 0
  PROVE  Within(a, b, c)
BY EdgeReversed DEF Within

(***************************************************************************)
(* A corner of a triangle and its edge opposite, in the order walked.      *)
(***************************************************************************)
LEMMA CornerPast ==
  ASSUME NEW o \in Point \X Point \X Point, NEW i \in 1 .. 3
  PROVE  \E e \in Point :
           /\ {o[1], o[2], o[3]} = {o[i], o[(i % 3) + 1], e}
           /\ Edge(o[i], o[(i % 3) + 1], e) = Edge(o[1], o[2], o[3])
<1>1. o[1] \in Point /\ o[2] \in Point /\ o[3] \in Point
  OBVIOUS
<1>2. \/ i = 1 /\ (i % 3) + 1 = 2
      \/ i = 2 /\ (i % 3) + 1 = 3
      \/ i = 3 /\ (i % 3) + 1 = 1
  OBVIOUS
<1>3. CASE i = 1 /\ (i % 3) + 1 = 2
  <2> WITNESS o[3] \in Point
  <2> QED BY <1>3
<1>4. CASE i = 2 /\ (i % 3) + 1 = 3
  <2> WITNESS o[1] \in Point
  <2> QED BY <1>1, <1>4, EdgeRotated
<1>5. CASE i = 3 /\ (i % 3) + 1 = 1
  <2> WITNESS o[2] \in Point
  <2> QED BY <1>1, <1>5, EdgeRotated
<1> QED BY <1>2, <1>3, <1>4, <1>5

(***************************************************************************)
(* Normalizing keeps the corners.                                          *)
(***************************************************************************)
LEMMA OrientedKeepsCorners ==
  ASSUME NEW t \in Triangle
  PROVE  {Oriented(t)[1], Oriented(t)[2], Oriented(t)[3]} = {t[1], t[2], t[3]}
<1>1. CASE Edge(t[1], t[2], t[3]) < 0
  <2>1. Oriented(t) = <<t[1], t[3], t[2]>>
    BY <1>1 DEF Oriented
  <2> QED BY <2>1
<1>2. CASE ~(Edge(t[1], t[2], t[3]) < 0)
  BY <1>2 DEF Oriented
<1> QED BY <1>1, <1>2

(***************************************************************************)
(* A pixel strictly inside a triangle is written by it.                    *)
(***************************************************************************)
LEMMA StrictIsWritten ==
  ASSUME NEW t \in Triangle, NEW p \in Pixels, StrictlyIn(Oriented(t), Center(p))
  PROVE  Writes(t, p)
<1>1. Center(p) \in Point
  BY CoverAssumption DEF Center, Pixels, Point
<1>2. PICK o \in Point \X Point \X Point : o = Oriented(t)
  BY OrientedIsPositive
<1>3. o[1] \in Point /\ o[2] \in Point /\ o[3] \in Point
  BY <1>2
<1>4. PICK c \in Point : c = Center(p)
  BY <1>1
<1>5. Edge(o[1], o[2], c) > 0 /\ Edge(o[2], o[3], c) > 0 /\ Edge(o[3], o[1], c) > 0
  <2>1. \A i \in 1 .. 3 : Edge(o[i], o[(i % 3) + 1], c) > 0
    BY <1>2, <1>4 DEF StrictlyIn
  <2>2. (1 % 3) + 1 = 2 /\ (2 % 3) + 1 = 3 /\ (3 % 3) + 1 = 1
    OBVIOUS
  <2> QED BY <2>1, <2>2
<1>6. Within(o[1], o[2], c) /\ Within(o[2], o[3], c) /\ Within(o[3], o[1], c)
  BY <1>3, <1>5, InsideIsWithin
<1>7. Edge(o[1], o[2], o[3]) > 0
  <2>1. Edge(o[1], o[2], c) + Edge(o[2], o[3], c) + Edge(o[3], o[1], c)
          = Edge(o[1], o[2], o[3])
    BY <1>3, EdgesAddUp
  <2>2. {Edge(o[1], o[2], c), Edge(o[2], o[3], c), Edge(o[3], o[1], c)} \subseteq Int
    BY <1>3, EdgeReversed
  <2> QED BY <1>5, <2>1, <2>2
<1>8. {t[1], t[2], t[3]} = {o[1], o[2], o[3]}
  BY <1>2, OrientedKeepsCorners
<1>9. PICK u \in Point, v \in Point, w \in Point : u = o[1] /\ v = o[2] /\ w = o[3]
  BY <1>3
<1>10. /\ {t[1], t[2], t[3]} = {u, v, w} /\ Edge(u, v, w) > 0
       /\ Within(u, v, Center(p)) /\ Within(v, w, Center(p)) /\ Within(w, u, Center(p))
  BY <1>4, <1>6, <1>7, <1>8, <1>9
<1> QED BY <1>10, ClaimedIsWritten

(***************************************************************************)
(* A pixel on the open shared edge is written by the triangle on whose     *)
(* walk that edge is top or left.                                          *)
(***************************************************************************)
LEMMA OnEdgeIsWritten ==
  ASSUME NEW t \in Triangle, NEW p \in Pixels,
         NEW a \in Point, NEW b \in Point, NEW e \in Point,
         {t[1], t[2], t[3]} = {a, b, e}, Edge(a, b, e) > 0,
         Between(a, b, Center(p)), TopLeft(a, b)
  PROVE  Writes(t, p)
<1>1. Center(p) \in Point
  BY CoverAssumption DEF Center, Pixels, Point
<1>2. PICK c \in Point : c = Center(p)
  BY <1>1
<1>3. Edge(b, e, c) > 0 /\ Edge(e, a, c) > 0
  BY <1>2, InsideOtherEdges
<1>4. Within(b, e, c) /\ Within(e, a, c)
  BY <1>3, InsideIsWithin
<1>5. Within(a, b, c)
  BY <1>2 DEF Within, Between
<1> QED BY <1>2, <1>4, <1>5, ClaimedIsWritten

(***************************************************************************)
(* Two triangles on either side of a shared edge leave no pixel between    *)
(* them.                                                                   *)
(***************************************************************************)
LEMMA NeighboursLeaveNoGap ==
  ASSUME NEW s \in Triangle, NEW t \in Triangle, NEW i \in 1 .. 3,
         Adjacent(Oriented(s), Oriented(t), i), NEW p \in Pixels,
         \/ StrictlyIn(Oriented(s), Center(p)) \/ StrictlyIn(Oriented(t), Center(p))
         \/ Between(Oriented(s)[i], Oriented(s)[(i % 3) + 1], Center(p))
  PROVE  Writes(s, p) \/ Writes(t, p)
<1>1. CASE StrictlyIn(Oriented(s), Center(p)) \/ StrictlyIn(Oriented(t), Center(p))
  BY <1>1, StrictIsWritten
<1>2. CASE Between(Oriented(s)[i], Oriented(s)[(i % 3) + 1], Center(p))
  <2>1. PICK o \in Point \X Point \X Point, n \in Point \X Point \X Point :
          o = Oriented(s) /\ n = Oriented(t)
    BY OrientedIsPositive
  <2>2. n[1] \in Point /\ n[2] \in Point /\ n[3] \in Point
    BY <2>1
  <2>3. PICK a \in Point, b \in Point : a = o[i] /\ b = o[(i % 3) + 1]
    BY <2>1, <2>2 DEF Adjacent, Vertices
  <2>4. PICK c \in Point : c = Center(p)
    <3>1. Center(p) \in Point
      BY CoverAssumption DEF Center, Pixels, Point
    <3> QED BY <3>1
  <2>5. Between(a, b, c) /\ Between(b, a, c)
    <3>1. Between(a, b, c)
      BY <1>2, <2>1, <2>3, <2>4
    <3>2. Edge(b, a, c) = 0
      BY <3>1, EdgeReversed DEF Between
    <3>3. (c.x - b.x) * (c.x - a.x) + (c.y - b.y) * (c.y - a.y) < 0
      BY <3>1 DEF Between, Point
    <3> QED BY <3>1, <3>2, <3>3 DEF Between
  <2>6. PICK e \in Point : {s[1], s[2], s[3]} = {a, b, e} /\ Edge(a, b, e) > 0
    <3>1. Edge(o[1], o[2], o[3]) > 0
      BY <2>1 DEF Adjacent
    <3>2. \E e \in Point : /\ {o[1], o[2], o[3]} = {a, b, e}
                           /\ Edge(a, b, e) = Edge(o[1], o[2], o[3])
      BY <2>3, CornerPast
    <3> QED BY <2>1, <3>1, <3>2, OrientedKeepsCorners
  <2>7. PICK d \in {n[1], n[2], n[3]} : Edge(a, b, d) < 0
    BY <2>1, <2>3 DEF Adjacent, Vertices
  <2>8. d \in Point /\ {t[1], t[2], t[3]} = {b, a, d} /\ Edge(b, a, d) > 0
    <3>1. d \in Point
      BY <2>2
    <3>2. a # b /\ d # a /\ d # b
      BY <2>7, <3>1, EdgeDegenerate
    <3>3. a \in {n[1], n[2], n[3]} /\ b \in {n[1], n[2], n[3]}
      BY <2>1, <2>3 DEF Adjacent, Vertices
    <3>4. {n[1], n[2], n[3]} = {b, a, d}
      BY <3>2, <3>3
    <3>5. Edge(b, a, d) > 0
      BY <2>7, <3>1, EdgeReversed
    <3> QED BY <2>1, <3>1, <3>4, <3>5, OrientedKeepsCorners
  <2>9. a # b
    BY <2>6, EdgeDegenerate
  <2>10. TopLeft(a, b) \/ TopLeft(b, a)
    BY <2>9, OneDirectionIsTopLeft
  <2> QED BY <2>4, <2>5, <2>6, <2>8, <2>10, OnEdgeIsWritten
<1> QED BY <1>1, <1>2

-----------------------------------------------------------------------------

Written(i, p) == IF i <= Len(tris) /\ Writes(tris[i], p) THEN 1 ELSE 0

(***************************************************************************)
(* The inductive invariant: a pixel's count is the number of triangles     *)
(* drawn so far that write it.                                             *)
(***************************************************************************)
HitsCounted ==
  /\ tris \in Seq(Triangle) /\ Len(tris) <= 2
  /\ hits = [p \in Pixels |-> Written(1, p) + Written(2, p)]

(***************************************************************************)
(* Rasterizing one triangle more adds exactly its own pixels.              *)
(***************************************************************************)
LEMMA RasterCounts ==
  ASSUME HitsCounted, NEW t \in Triangle, RasterTri(t)
  PROVE  HitsCounted'
<1>1. tris \in Seq(Triangle) /\ Len(tris) \in {0, 1}
  <2>1. tris \in Seq(Triangle)
    BY DEF HitsCounted
  <2>2. Len(tris) \in Nat
    BY <2>1, LenProperties
  <2>3. Len(tris) < 2
    BY DEF RasterTri
  <2>4. \A n \in Nat : n < 2 => n \in {0, 1}
    OBVIOUS
  <2>5. Len(tris) \in {0, 1}
    BY <2>2, <2>3, <2>4, Zenon
  <2> QED
    BY <2>1, <2>5, Zenon
<1>2. tris' = Append(tris, t)
  BY DEF RasterTri
<1>3. /\ tris' \in Seq(Triangle) /\ Len(tris') = Len(tris) + 1
      /\ tris'[Len(tris) + 1] = t
      /\ Len(tris) = 1 => tris'[1] = tris[1]
  BY <1>1, <1>2, AppendProperties
<1>4. ASSUME NEW p \in Pixels
      PROVE  Written(1, p)' + Written(2, p)'
               = Written(1, p) + Written(2, p) + (IF Writes(t, p) THEN 1 ELSE 0)
  <2>1. CASE Len(tris) = 0
    <3>1. Written(1, p) = 0 /\ Written(2, p) = 0 /\ Written(2, p)' = 0
      BY <2>1, <1>3 DEF Written
    <3>2. Written(1, p)' = IF Writes(t, p) THEN 1 ELSE 0
      BY <2>1, <1>3 DEF Written
    <3> QED
      BY <3>1, <3>2
  <2>2. CASE Len(tris) = 1
    <3>1. Written(2, p) = 0
      BY <2>2 DEF Written
    <3>2. Written(1, p)' = Written(1, p)
      BY <2>2, <1>3 DEF Written
    <3>3. Written(2, p)' = IF Writes(t, p) THEN 1 ELSE 0
      BY <2>2, <1>3 DEF Written
    <3>4. Written(1, p) \in {0, 1}
      BY DEF Written
    <3> QED
      BY <3>1, <3>2, <3>3, <3>4
  <2> QED
    BY <1>1, <2>1, <2>2
<1>5. hits' = [p \in Pixels |-> Written(1, p)' + Written(2, p)']
  BY <1>4 DEF HitsCounted, RasterTri
<1>6. Len(tris') <= 2
  <2>1. CASE Len(tris) = 0
    BY <2>1, <1>3
  <2>2. CASE Len(tris) = 1
    BY <2>2, <1>3
  <2> QED
    BY <1>1, <2>1, <2>2, Zenon
<1> QED
  BY <1>3, <1>5, <1>6 DEF HitsCounted

(***************************************************************************)
(* Every count is exact, whatever is drawn.                                *)
(***************************************************************************)
THEOREM HitsAreCounted == Spec => []HitsCounted
<1>1. Init => HitsCounted
  BY DEF Init, HitsCounted, Written
<1>2. HitsCounted /\ [Next]_vars => HitsCounted'
  <2> SUFFICES ASSUME HitsCounted, [Next]_vars PROVE HitsCounted'
    OBVIOUS
  <2>1. CASE Next
    <3>1. PICK a \in Points, b \in Points, c \in Points : RasterTri(<<a, b, c>>)
      BY <2>1 DEF Next
    <3>2. <<a, b, c>> \in Triangle
      BY DEF Triangle
    <3> QED
      BY <3>1, <3>2, RasterCounts
  <2>2. CASE UNCHANGED vars
    BY <2>2 DEF vars, HitsCounted, Written
  <2> QED
    BY <2>1, <2>2
<1> QED
  BY <1>1, <1>2, PTL DEF Spec

LEMMA BothDrawn ==
  ASSUME HitsCounted, Drawn
  PROVE  tris[1] \in Triangle /\ tris[2] \in Triangle
<1>1. tris \in Seq(Triangle) /\ Len(tris) = 2
  BY DEF HitsCounted, Drawn
<1> QED
  BY <1>1, ElementOfSeq

(***************************************************************************)
(* A quad drawn as two triangles writes no pixel twice (blt_tri.c): for    *)
(* every target size, scale and set of vertices.                           *)
(***************************************************************************)
THEOREM QuadsHaveNoSeam == Spec => []QuadsWriteNoPixelTwice
<1>1. HitsCounted => QuadsWriteNoPixelTwice
  <2> SUFFICES ASSUME HitsCounted, NEW i \in 1 .. 3, QuadSharing(i), NEW p \in Pixels
               PROVE  hits[p] <= 1
    BY DEF QuadsWriteNoPixelTwice
  <2>1. Len(tris) = 2
    BY DEF QuadSharing, Drawn
  <2>2. tris[1] \in Triangle /\ tris[2] \in Triangle
    BY BothDrawn DEF QuadSharing
  <2>3. ~(Writes(tris[1], p) /\ Writes(tris[2], p))
    BY <2>2, NeighboursAreDisjoint DEF QuadSharing
  <2>4. hits[p] = Written(1, p) + Written(2, p)
    BY DEF HitsCounted
  <2> QED
    BY <2>3, <2>4 DEF Written
<1> QED
  BY <1>1, HitsAreCounted, PTL

(***************************************************************************)
(* Nor does it leave a gap: a pixel inside either triangle, or on the      *)
(* diagonal between them, is written (blt_raster_tri).                     *)
(***************************************************************************)
THEOREM QuadsHaveNoGap == Spec => []QuadsLeaveNoGap
<1>1. HitsCounted => QuadsLeaveNoGap
  <2> SUFFICES ASSUME HitsCounted, NEW i \in 1 .. 3, QuadSharing(i), NEW p \in Pixels,
                      LET s == Oriented(tris[1])   t == Oriented(tris[2])
                          c == Center(p)
                      IN  StrictlyIn(s, c) \/ StrictlyIn(t, c) \/ Between(s[i], s[(i % 3) + 1], c)
               PROVE  hits[p] > 0
    BY DEF QuadsLeaveNoGap
  <2>1. Len(tris) = 2
    BY DEF QuadSharing, Drawn
  <2>2. tris[1] \in Triangle /\ tris[2] \in Triangle
    BY BothDrawn DEF QuadSharing
  <2>3. Writes(tris[1], p) \/ Writes(tris[2], p)
    BY <2>2, NeighboursLeaveNoGap DEF QuadSharing
  <2>4. hits[p] = Written(1, p) + Written(2, p)
    BY DEF HitsCounted
  <2> QED
    BY <2>1, <2>3, <2>4 DEF Written
<1> QED
  BY <1>1, HitsAreCounted, PTL

-----------------------------------------------------------------------------
(* The cover proof.                                                        *)

\* What the corner of a vertex says of where it is.
LEMMA CornerSays ==
  ASSUME NEW v \in Point
  PROVE  /\ CornerOf(v) = "TL" => v.x <= 0 /\ v.y <= 0
         /\ CornerOf(v) = "TR" => v.x >= W * One /\ v.y <= 0
         /\ CornerOf(v) = "BL" => v.x <= 0 /\ v.y >= H * One
         /\ CornerOf(v) = "BR" => v.x >= W * One /\ v.y >= H * One
BY DEF CornerOf

\* The centre of a pixel is strictly inside the target.
LEMMA CentresAreInside ==
  ASSUME NEW p \in Pixels
  PROVE  /\ Center(p) \in Point
         /\ 0 < Center(p).x /\ Center(p).x < W * One
         /\ 0 < Center(p).y /\ Center(p).y < H * One
<1>1. PICK px \in 0 .. W - 1, py \in 0 .. H - 1 : px = p[1] /\ py = p[2]
  BY DEF Pixels
<1>2. Center(p).x = px * One + One \div 2 /\ Center(p).y = py * One + One \div 2
  BY <1>1 DEF Center
<1>3. PICK h \in Nat \ {0} : h = One \div 2 /\ One = 2 * h
  BY CoverAssumption
<1>4. ASSUME NEW n \in Nat, NEW k \in 0 .. n - 1
      PROVE  0 < k * One + h /\ k * One + h < n * One /\ k * One + h \in Int
  <2>1. n = k + 1 + (n - k - 1) /\ n - k - 1 \in Nat
    OBVIOUS
  <2>2. PICK r \in Nat : n = k + 1 + r
    BY <2>1
  <2>3. n * One = k * One + One + r * One /\ r * One >= 0 /\ k * One >= 0
    BY <2>2, CoverAssumption
  <2>4. k * One \in Int /\ r * One \in Int /\ One \in Int
    BY <2>2, CoverAssumption
  <2> QED BY <1>3, <2>3, <2>4
<1>5. /\ 0 < px * One + h /\ px * One + h < W * One /\ px * One + h \in Int
      /\ 0 < py * One + h /\ py * One + h < H * One /\ py * One + h \in Int
  BY <1>4, CoverAssumption
<1>6. Center(p) \in Point
  BY <1>1, <1>3, <1>5 DEF Center, Point
<1> QED BY <1>2, <1>3, <1>5, <1>6

\* The side of the target between two of its corners, or beyond, has the target on the
\* inner side: across the top and the bottom, and down the right and up the left.
LEMMA SidesAreOutside ==
  ASSUME NEW a \in Point, NEW b \in Point, NEW c \in Point
  PROVE  /\ a.x < c.x /\ c.x < b.x /\ a.y < c.y /\ b.y < c.y => Edge(a, b, c) > 0
         /\ b.x < c.x /\ c.x < a.x /\ a.y > c.y /\ b.y > c.y => Edge(a, b, c) > 0
         /\ a.y < c.y /\ c.y < b.y /\ a.x > c.x /\ b.x > c.x => Edge(a, b, c) > 0
         /\ b.y < c.y /\ c.y < a.y /\ a.x < c.x /\ b.x < c.x => Edge(a, b, c) > 0
<1>1. PICK ax \in Int, ay \in Int, bx \in Int, by \in Int :
        ax = a.x - c.x /\ ay = a.y - c.y /\ bx = b.x - c.x /\ by = b.y - c.y
  <2>1. {a.x - c.x, a.y - c.y, b.x - c.x, b.y - c.y} \subseteq Int
    BY DEF Point
  <2> QED BY <2>1
<1>2. Edge(a, b, c) = ax * by - ay * bx
  BY <1>1 DEF Edge, Point
<1>3. /\ ax < 0 /\ bx > 0 /\ ay < 0 /\ by < 0 => ax * by > 0 /\ ay * bx < 0
      /\ bx < 0 /\ ax > 0 /\ ay > 0 /\ by > 0 => ax * by > 0 /\ ay * bx < 0
      /\ ay < 0 /\ by > 0 /\ ax > 0 /\ bx > 0 => ax * by > 0 /\ ay * bx < 0
      /\ by < 0 /\ ay > 0 /\ ax < 0 /\ bx < 0 => ax * by > 0 /\ ay * bx < 0
  OBVIOUS
<1>4. ax * by \in Int /\ ay * bx \in Int
  OBVIOUS
<1> QED BY <1>1, <1>2, <1>3, <1>4 DEF Point

\* Whatever side of the diagonal from a to b the centre is on, or on it, the triangle of
\* that side writes the pixel.
LEMMA DiagonalSplits ==
  ASSUME NEW s \in Triangle, NEW t \in Triangle, NEW p \in Pixels,
         NEW a \in Point, NEW b \in Point, NEW e \in Point, NEW d \in Point,
         {s[1], s[2], s[3]} = {a, b, e}, {t[1], t[2], t[3]} = {b, a, d},
         Edge(b, e, Center(p)) > 0, Edge(e, a, Center(p)) > 0,
         Edge(a, d, Center(p)) > 0, Edge(d, b, Center(p)) > 0
  PROVE  Writes(s, p) \/ Writes(t, p)
<1>1. PICK c \in Point : c = Center(p)
  BY CentresAreInside
<1>2. a # b
  BY <1>1, EdgeReversed
<1>3. /\ Within(b, e, c) /\ Within(e, a, c) /\ Within(a, d, c) /\ Within(d, b, c)
      /\ \A x, y \in {a, b, d, e} : Edge(x, y, c) \in Int
  BY <1>1, InsideIsWithin, EdgeReversed
<1>4. ASSUME Edge(a, b, c) >= 0, Within(a, b, c)
      PROVE  Writes(s, p)
  <2>1. Edge(a, b, c) + Edge(b, e, c) + Edge(e, a, c) = Edge(a, b, e)
    BY EdgesAddUp
  <2>2. Edge(a, b, e) > 0
    BY <1>1, <1>3, <1>4, <2>1
  <2> QED BY <1>1, <1>3, <1>4, <2>2, ClaimedIsWritten
<1>5. ASSUME Edge(b, a, c) >= 0, Within(b, a, c)
      PROVE  Writes(t, p)
  <2>1. Edge(b, a, c) + Edge(a, d, c) + Edge(d, b, c) = Edge(b, a, d)
    BY EdgesAddUp
  <2>2. Edge(b, a, d) > 0
    BY <1>1, <1>3, <1>5, <2>1
  <2> QED BY <1>1, <1>3, <1>5, <2>2, ClaimedIsWritten
<1>6. CASE Edge(a, b, c) > 0
  BY <1>3, <1>4, <1>6, InsideIsWithin
<1>7. CASE Edge(a, b, c) < 0
  <2>1. Edge(b, a, c) > 0
    BY <1>7, EdgeReversed
  <2> QED BY <1>3, <1>5, <2>1, InsideIsWithin
<1>8. CASE Edge(a, b, c) = 0
  <2>1. Edge(b, a, c) = 0
    BY <1>8, EdgeReversed
  <2>2. Within(a, b, c) \/ Within(b, a, c)
    BY <1>2, OneDirectionClaims
  <2> QED BY <1>4, <1>5, <1>8, <2>1, <2>2
<1> QED BY <1>3, <1>6, <1>7, <1>8

\* The vertices of a half rectangle that has corners x, y and z.
LEMMA HalfRectVertices ==
  ASSUME NEW t \in Triangle, NEW x \in Mask(t), NEW y \in Mask(t), NEW z \in Mask(t),
         x # y, y # z, x # z
  PROVE  \E i, j, k \in 1 .. 3 :
           /\ CornerOf(t[i]) = x /\ CornerOf(t[j]) = y /\ CornerOf(t[k]) = z
           /\ {t[1], t[2], t[3]} = {t[i], t[j], t[k]}
           /\ t[i] \in Point /\ t[j] \in Point /\ t[k] \in Point
<1>1. PICK i \in 1 .. 3, j \in 1 .. 3, k \in 1 .. 3 :
        CornerOf(t[i]) = x /\ CornerOf(t[j]) = y /\ CornerOf(t[k]) = z
  BY DEF Mask
<1>2. i # j /\ j # k /\ i # k
  BY <1>1
<1>3. {t[1], t[2], t[3]} = {t[i], t[j], t[k]}
  BY <1>2
<1>4. t[1] \in Point /\ t[2] \in Point /\ t[3] \in Point
  BY CoverAssumption DEF Triangle, Point
<1> QED BY <1>1, <1>3, <1>4

\* Of the two corners off a shared diagonal, each triangle has one.
LEMMA OneCornerEach ==
  ASSUME NEW m, NEW n, m \subseteq Corners, n \subseteq Corners,
         Cardinality(m) = 3, Cardinality(n) = 3, m \union n = Corners,
         NEW x \in Corners, NEW y \in Corners, m \intersect n = Corners \ {x, y}
  PROVE  (x \in m /\ y \in n) \/ (y \in m /\ x \in n)
<1>1. Cardinality(Corners) = 4
  <2>1. IsFiniteSet({"TL"}) /\ Cardinality({"TL"}) = 1
    BY FS_Singleton
  <2>2. IsFiniteSet({"TL"} \union {"TR"}) /\ Cardinality({"TL"} \union {"TR"}) = 1 + 1
    <3>1. "TR" \notin {"TL"}
      OBVIOUS
    <3> QED BY <2>1, <3>1, FS_AddElement
  <2>3. /\ IsFiniteSet({"TL"} \union {"TR"} \union {"BL"})
        /\ Cardinality({"TL"} \union {"TR"} \union {"BL"}) = 1 + 1 + 1
    <3>1. "BL" \notin {"TL"} \union {"TR"}
      OBVIOUS
    <3> QED BY <2>2, <3>1, FS_AddElement
  <2>4. Cardinality({"TL"} \union {"TR"} \union {"BL"} \union {"BR"}) = 1 + 1 + 1 + 1
    <3>1. "BR" \notin {"TL"} \union {"TR"} \union {"BL"}
      OBVIOUS
    <3> QED BY <2>3, <3>1, FS_AddElement
  <2>5. Corners = {"TL"} \union {"TR"} \union {"BL"} \union {"BR"}
    BY DEF Corners
  <2> QED BY <2>4, <2>5
<1>2. m # Corners /\ n # Corners
  BY <1>1
<1>3. ~ (x \in m /\ y \in m) /\ ~ (x \in n /\ y \in n)
  <2>1. x \in m /\ y \in m => m = Corners
    OBVIOUS
  <2>2. x \in n /\ y \in n => n = Corners
    OBVIOUS
  <2> QED BY <1>2, <2>1, <2>2
<1> QED BY <1>3

\* Across a side of the target, walked clockwise on the screen, lies the target.
LEMMA WalkedSides ==
  ASSUME NEW p \in Pixels, NEW a \in Point, NEW b \in Point,
         \/ CornerOf(a) = "TL" /\ CornerOf(b) = "TR"
         \/ CornerOf(a) = "TR" /\ CornerOf(b) = "BR"
         \/ CornerOf(a) = "BR" /\ CornerOf(b) = "BL"
         \/ CornerOf(a) = "BL" /\ CornerOf(b) = "TL"
  PROVE  Edge(a, b, Center(p)) > 0
<1>1. PICK c \in Point : /\ c = Center(p)
                         /\ 0 < c.x /\ c.x < W * One /\ 0 < c.y /\ c.y < H * One
  BY CentresAreInside
<1>2. PICK right \in Int, bottom \in Int : right = W * One /\ bottom = H * One
  BY CoverAssumption
<1>3. /\ a.x \in Int /\ a.y \in Int /\ b.x \in Int /\ b.y \in Int /\ c.x \in Int /\ c.y \in Int
  BY DEF Point
<1>4. \/ a.x < c.x /\ c.x < b.x /\ a.y < c.y /\ b.y < c.y
      \/ b.x < c.x /\ c.x < a.x /\ a.y > c.y /\ b.y > c.y
      \/ a.y < c.y /\ c.y < b.y /\ a.x > c.x /\ b.x > c.x
      \/ b.y < c.y /\ c.y < a.y /\ a.x < c.x /\ b.x < c.x
  <2>1. CASE CornerOf(a) = "TL" /\ CornerOf(b) = "TR"
    <3>1. a.x <= 0 /\ a.y <= 0 /\ b.x >= right /\ b.y <= 0
      BY <1>2, <2>1, CornerSays
    <3> QED BY <1>1, <1>2, <1>3, <3>1
  <2>2. CASE CornerOf(a) = "TR" /\ CornerOf(b) = "BR"
    <3>1. a.x >= right /\ a.y <= 0 /\ b.x >= right /\ b.y >= bottom
      BY <1>2, <2>2, CornerSays
    <3> QED BY <1>1, <1>2, <1>3, <3>1
  <2>3. CASE CornerOf(a) = "BR" /\ CornerOf(b) = "BL"
    <3>1. a.x >= right /\ a.y >= bottom /\ b.x <= 0 /\ b.y >= bottom
      BY <1>2, <2>3, CornerSays
    <3> QED BY <1>1, <1>2, <1>3, <3>1
  <2>4. CASE CornerOf(a) = "BL" /\ CornerOf(b) = "TL"
    <3>1. a.x <= 0 /\ a.y >= bottom /\ b.x <= 0 /\ b.y <= 0
      BY <1>2, <2>4, CornerSays
    <3> QED BY <1>1, <1>2, <1>3, <3>1
  <2> QED BY <2>1, <2>2, <2>3, <2>4
<1>5. Edge(a, b, c) > 0
  BY <1>4, SidesAreOutside
<1> QED BY <1>1, <1>5

\* Two triangles that have the corners of one diagonal in common, and one other each.
SameCorners(s, t) ==
  \A j, k \in 1 .. 3 :
    CornerOf(s[j]) = CornerOf(t[k]) /\ CornerOf(t[k]) # "none" => s[j] = t[k]

LEMMA FallingDiagonal ==
  ASSUME NEW s \in Triangle, NEW t \in Triangle, NEW p \in Pixels, SameCorners(s, t),
         {"TL", "TR", "BR"} \subseteq Mask(s), {"TL", "BL", "BR"} \subseteq Mask(t)
  PROVE  Writes(s, p) \/ Writes(t, p)
<1>1. PICK i \in 1 .. 3, j \in 1 .. 3, k \in 1 .. 3 :
        /\ CornerOf(s[i]) = "TL" /\ CornerOf(s[j]) = "TR" /\ CornerOf(s[k]) = "BR"
        /\ {s[1], s[2], s[3]} = {s[i], s[j], s[k]}
        /\ s[i] \in Point /\ s[j] \in Point /\ s[k] \in Point
  BY HalfRectVertices
<1>2. PICK l \in 1 .. 3, m \in 1 .. 3, n \in 1 .. 3 :
        /\ CornerOf(t[l]) = "TL" /\ CornerOf(t[m]) = "BL" /\ CornerOf(t[n]) = "BR"
        /\ {t[1], t[2], t[3]} = {t[l], t[m], t[n]}
        /\ t[l] \in Point /\ t[m] \in Point /\ t[n] \in Point
  BY HalfRectVertices
<1>3. PICK tl \in Point, tr \in Point, br \in Point, bl \in Point :
        tl = s[i] /\ tr = s[j] /\ br = s[k] /\ bl = t[m]
  BY <1>1, <1>2
<1>4. t[l] = tl /\ t[n] = br
  BY <1>1, <1>2, <1>3 DEF SameCorners
<1>5. /\ {s[1], s[2], s[3]} = {br, tl, tr} /\ {t[1], t[2], t[3]} = {tl, br, bl}
      /\ CornerOf(tl) = "TL" /\ CornerOf(tr) = "TR" /\ CornerOf(br) = "BR" /\ CornerOf(bl) = "BL"
  BY <1>1, <1>2, <1>3, <1>4
<1>6. /\ Edge(tl, tr, Center(p)) > 0 /\ Edge(tr, br, Center(p)) > 0
      /\ Edge(br, bl, Center(p)) > 0 /\ Edge(bl, tl, Center(p)) > 0
  BY <1>5, WalkedSides
<1> QED BY <1>5, <1>6, DiagonalSplits

LEMMA RisingDiagonal ==
  ASSUME NEW s \in Triangle, NEW t \in Triangle, NEW p \in Pixels, SameCorners(s, t),
         {"TR", "BL", "TL"} \subseteq Mask(s), {"TR", "BL", "BR"} \subseteq Mask(t)
  PROVE  Writes(s, p) \/ Writes(t, p)
<1>1. PICK i \in 1 .. 3, j \in 1 .. 3, k \in 1 .. 3 :
        /\ CornerOf(s[i]) = "TR" /\ CornerOf(s[j]) = "BL" /\ CornerOf(s[k]) = "TL"
        /\ {s[1], s[2], s[3]} = {s[i], s[j], s[k]}
        /\ s[i] \in Point /\ s[j] \in Point /\ s[k] \in Point
  BY HalfRectVertices
<1>2. PICK l \in 1 .. 3, m \in 1 .. 3, n \in 1 .. 3 :
        /\ CornerOf(t[l]) = "TR" /\ CornerOf(t[m]) = "BL" /\ CornerOf(t[n]) = "BR"
        /\ {t[1], t[2], t[3]} = {t[l], t[m], t[n]}
        /\ t[l] \in Point /\ t[m] \in Point /\ t[n] \in Point
  BY HalfRectVertices
<1>3. PICK tl \in Point, tr \in Point, br \in Point, bl \in Point :
        tr = s[i] /\ bl = s[j] /\ tl = s[k] /\ br = t[n]
  BY <1>1, <1>2
<1>4. t[l] = tr /\ t[m] = bl
  BY <1>1, <1>2, <1>3 DEF SameCorners
<1>5. /\ {s[1], s[2], s[3]} = {tr, bl, tl} /\ {t[1], t[2], t[3]} = {bl, tr, br}
      /\ CornerOf(tl) = "TL" /\ CornerOf(tr) = "TR" /\ CornerOf(br) = "BR" /\ CornerOf(bl) = "BL"
  BY <1>1, <1>2, <1>3, <1>4
<1>6. /\ Edge(tl, tr, Center(p)) > 0 /\ Edge(tr, br, Center(p)) > 0
      /\ Edge(br, bl, Center(p)) > 0 /\ Edge(bl, tl, Center(p)) > 0
  BY <1>5, WalkedSides
<1> QED BY <1>5, <1>6, DiagonalSplits

\* A cover writes every pixel if its shared corners are the same vertices.
LEMMA CoverIsComplete ==
  ASSUME NEW s \in Triangle, NEW t \in Triangle, NEW p \in Pixels,
         IsCover(s, t), SameCorners(s, t)
  PROVE  Writes(s, p) \/ Writes(t, p)
<1>1. SameCorners(t, s)
  BY DEF SameCorners
<1>2. /\ Mask(s) \subseteq Corners /\ Mask(t) \subseteq Corners
      /\ Cardinality(Mask(s)) = 3 /\ Cardinality(Mask(t)) = 3
      /\ Mask(s) \union Mask(t) = Corners
  BY DEF IsCover, HalfRect
<1>3. CASE Mask(s) \intersect Mask(t) = {"TL", "BR"}
  <2>1. {"TL", "BR"} = Corners \ {"TR", "BL"} /\ "TR" \in Corners /\ "BL" \in Corners
    BY DEF Corners
  <2>2. ("TR" \in Mask(s) /\ "BL" \in Mask(t)) \/ ("BL" \in Mask(s) /\ "TR" \in Mask(t))
    BY <1>2, <1>3, <2>1, OneCornerEach
  <2>3. {"TL", "BR"} \subseteq Mask(s) /\ {"TL", "BR"} \subseteq Mask(t)
    BY <1>3
  <2> QED BY <1>1, <2>2, <2>3, FallingDiagonal
<1>4. CASE Mask(s) \intersect Mask(t) = {"TR", "BL"}
  <2>1. {"TR", "BL"} = Corners \ {"TL", "BR"} /\ "TL" \in Corners /\ "BR" \in Corners
    BY DEF Corners
  <2>2. ("TL" \in Mask(s) /\ "BR" \in Mask(t)) \/ ("BR" \in Mask(s) /\ "TL" \in Mask(t))
    BY <1>2, <1>4, <2>1, OneCornerEach
  <2>3. {"TR", "BL"} \subseteq Mask(s) /\ {"TR", "BL"} \subseteq Mask(t)
    BY <1>4
  <2> QED BY <1>1, <2>2, <2>3, RisingDiagonal
<1> QED BY <1>3, <1>4 DEF IsCover

\* The second triangle of a mesh has the first one's vertices at the corners both use.
MeshFits == Mesh /\ Drawn => SameCorners(tris[1], tris[2])

\* "Does this draw provably write EVERY pixel of the w x h target?" (mf_pc_is_cover):
\* for every target, scale and mesh, wherever its corners overhang.
THEOREM CoversAreComplete ==
  ASSUME Mesh PROVE Spec => []CoverWritesEveryPixel
<1>1. Init => MeshFits
  <2> SUFFICES ASSUME Init PROVE ~Drawn
    BY DEF MeshFits
  <2> QED BY DEF Init, Drawn
<1>2. HitsCounted /\ MeshFits /\ [Next]_vars => MeshFits'
  <2> SUFFICES ASSUME HitsCounted, MeshFits, [Next]_vars, Drawn'
               PROVE  SameCorners(tris[1], tris[2])'
    BY DEF MeshFits
  <2>1. CASE UNCHANGED vars
    BY <2>1 DEF vars, MeshFits, Drawn
  <2>2. CASE Next
    <3>1. PICK a \in Points, b \in Points, c \in Points : RasterTri(<<a, b, c>>)
      BY <2>2 DEF Next
    <3>2. PICK t \in Triangle : t = <<a, b, c>>
      BY DEF Triangle
    <3>3. tris \in Seq(Triangle) /\ tris' = Append(tris, t) /\ FitsMesh(t) /\ Len(tris) < 2
      BY <3>1, <3>2 DEF HitsCounted, RasterTri
    <3>4. Len(tris') = 2 /\ Len(tris) = 1
      <4>1. Len(tris') = 2
        BY DEF Drawn
      <4>2. Len(tris') = Len(tris) + 1 /\ Len(tris) \in Nat
        BY <3>3, AppendProperties, LenProperties
      <4>3. PICK n \in Nat : n = Len(tris)
        BY <4>2
      <4>4. n + 1 = 2
        BY <4>1, <4>2, <4>3
      <4>5. n = 1
        BY <4>4
      <4> QED BY <4>1, <4>3, <4>5
    <3>5. tris'[1] = tris[1] /\ tris'[2] = t /\ 1 \in DOMAIN tris
      BY <3>3, <3>4, AppendProperties
    <3> QED BY <3>3, <3>5 DEF FitsMesh, SameCorners
  <2> QED BY <2>1, <2>2
<1>3. HitsCounted /\ MeshFits => CoverWritesEveryPixel
  <2> SUFFICES ASSUME HitsCounted, MeshFits, Drawn, IsCover(tris[1], tris[2]), NEW p \in Pixels
               PROVE  hits[p] > 0
    BY DEF CoverWritesEveryPixel
  <2>1. Writes(tris[1], p) \/ Writes(tris[2], p)
    BY BothDrawn, CoverIsComplete DEF MeshFits
  <2>2. hits[p] = Written(1, p) + Written(2, p) /\ Len(tris) = 2
    BY DEF HitsCounted, Drawn
  <2> QED BY <2>1, <2>2 DEF Written
<1> QED BY <1>1, <1>2, <1>3, HitsAreCounted, PTL DEF Spec

-----------------------------------------------------------------------------
(***************************************************************************)
(* What a rect of the canvas writes (RectSplit).  Snapping and rounding    *)
(* keep the order of positions and do not depend on the number of cells    *)
(* they are fractions of, so the corners of the cells follow each other on *)
(* the wire from end to end of the rect: a centre between the ends is in   *)
(* exactly one cell of each axis, which lies on the screen.  The triangles *)
(* of a cell have the diagonal in common, walked in opposite directions,   *)
(* so exactly one of the two claims it.                                    *)
(***************************************************************************)

\* The quotient of a division by a positive number.
LEMMA Quotient ==
  ASSUME NEW m \in Int, NEW d \in Nat \ {0}
  PROVE  /\ m \div d \in Int
         /\ d * (m \div d) <= m /\ m < d * (m \div d) + d
<1>1. m = d * (m \div d) + (m % d) /\ m % d \in 0 .. d - 1 /\ m \div d \in Int
  OBVIOUS
<1>2. PICK q \in Int, r \in Int : q = m \div d /\ r = m % d
  BY <1>1
<1>3. d * q \in Int
  OBVIOUS
<1> QED BY <1>1, <1>2, <1>3

\* A factor that is at least one larger gives a product that is at least d larger.
LEMMA NextMultiple ==
  ASSUME NEW d \in Nat \ {0}, NEW x \in Int, NEW y \in Int, d * x < d * y + d
  PROVE  x <= y
<1> SUFFICES ASSUME x >= y + 1 PROVE FALSE
  OBVIOUS
<1>1. PICK k \in Nat : x = y + 1 + k
  <2>1. x - y - 1 \in Nat /\ x = y + 1 + (x - y - 1)
    OBVIOUS
  <2> QED BY <2>1
<1>2. d * x = d * y + d + d * k
  BY <1>1
<1>3. d * k >= 0 /\ d * k \in Int /\ d * y \in Int
  OBVIOUS
<1> QED BY <1>2, <1>3

\* What RoundAway returns: the multiple of d that num is within half of, the one further
\* from zero if there are two.
IsRounded(num, d, r) ==
  /\ 2 * (d * r) - d <= 2 * num /\ 2 * num <= 2 * (d * r) + d
  /\ num >= 0 => 2 * num < 2 * (d * r) + d
  /\ num < 0 => 2 * (d * r) - d < 2 * num

LEMMA RoundAwayRounds ==
  ASSUME NEW num \in Int, NEW d \in Nat \ {0}
  PROVE  RoundAway(num, d) \in Int /\ IsRounded(num, d, RoundAway(num, d))
<1>1. 2 * d \in Nat \ {0} /\ 2 * num + d \in Int /\ d - 2 * num \in Int
  OBVIOUS
<1>2. CASE num >= 0
  <2>1. PICK q \in Int : q = (2 * num + d) \div (2 * d)
    BY <1>1, Quotient
  <2>2. 2 * d * q <= 2 * num + d /\ 2 * num + d < 2 * d * q + 2 * d
    BY <1>1, <2>1, Quotient
  <2>3. 2 * d * q = 2 * (d * q) /\ d * q \in Int
    OBVIOUS
  <2>4. RoundAway(num, d) = q
    BY <1>2, <2>1 DEF RoundAway
  <2>5. IsRounded(num, d, q)
    BY <1>2, <2>2, <2>3 DEF IsRounded
  <2> QED BY <2>4, <2>5
<1>3. CASE num < 0
  <2>1. PICK q \in Int : q = (d - 2 * num) \div (2 * d)
    BY <1>1, Quotient
  <2>2. 2 * d * q <= d - 2 * num /\ d - 2 * num < 2 * d * q + 2 * d
    BY <1>1, <2>1, Quotient
  <2>3. 2 * d * q = -(2 * (d * (-q))) /\ d * (-q) \in Int
    OBVIOUS
  <2>4. RoundAway(num, d) = -q
    BY <1>3, <2>1 DEF RoundAway
  <2>5. IsRounded(num, d, -q)
    <3>1. PICK s \in Int : s = d * (-q)
      BY <2>3
    <3> QED BY <1>3, <2>2, <2>3, <3>1 DEF IsRounded
  <2> QED BY <2>4, <2>5
<1> QED BY <1>2, <1>3

\* Rounding keeps the order, and spreads what are w multiples of d apart by at most one
\* more.
LEMMA RoundedInOrder ==
  ASSUME NEW m \in Int, NEW n \in Int, NEW d \in Nat \ {0}, m <= n,
         NEW r \in Int, NEW s \in Int, IsRounded(m, d, r), IsRounded(n, d, s)
  PROVE  /\ r <= s
         /\ \A w \in Int : n - m <= d * w => s - r <= w + 1
<1>1. PICK x \in Int, y \in Int : x = d * r /\ y = d * s
  OBVIOUS
<1>2. r <= s
  <2>1. CASE m < 0 /\ n >= 0
    <3>1. d * r < d * 0 + d /\ d * 0 < d * s + d
      BY <1>1, <2>1 DEF IsRounded
    <3>2. r <= 0 /\ 0 <= s
      BY <3>1, NextMultiple
    <3> QED BY <3>2
  <2>2. CASE m >= 0 \/ n < 0
    <3>1. d * r < d * s + d
      BY <1>1, <2>2 DEF IsRounded
    <3> QED BY <3>1, NextMultiple
  <2> QED BY <2>1, <2>2
<1>3. ASSUME NEW w \in Int, n - m <= d * w
      PROVE  s - r <= w + 1
  <2>1. PICK z \in Int : z = d * w
    OBVIOUS
  <2>2. y - x <= z + d
    BY <1>1, <1>3, <2>1 DEF IsRounded
  <2>3. d * (s - r) = y - x /\ d * (w + 1) = z + d
    BY <1>1, <2>1
  <2>4. d * (s - r) < d * (w + 1) + d
    BY <2>1, <2>2, <2>3, <1>1
  <2> QED BY <2>4, NextMultiple
<1> QED BY <1>2, <1>3

\* Only one number is what RoundAway returns.
LEMMA RoundedIsUnique ==
  ASSUME NEW num \in Int, NEW d \in Nat \ {0}, NEW r \in Int, IsRounded(num, d, r)
  PROVE  RoundAway(num, d) = r
<1>1. PICK s \in Int : s = RoundAway(num, d) /\ IsRounded(num, d, s)
  BY RoundAwayRounds
<1>2. r <= s /\ s <= r
  BY <1>1, RoundedInOrder
<1> QED BY <1>1, <1>2

\* A fraction is rounded the same in any terms, and a whole number not at all.
LEMMA RoundedInAnyTerms ==
  ASSUME NEW num \in Int, NEW d \in Nat \ {0}, NEW k \in Nat \ {0}
  PROVE  /\ RoundAway(num * k, k * d) = RoundAway(num, d)
         /\ RoundAway(d * num, d) = num
<1>1. PICK r \in Int : r = RoundAway(num, d) /\ IsRounded(num, d, r)
  BY RoundAwayRounds
<1>2. PICK x \in Int : x = d * r
  OBVIOUS
<1>3. k * d \in Nat \ {0} /\ num * k \in Int
  OBVIOUS
<1>4. IsRounded(num * k, k * d, r)
  <2>1. k * d * r = k * x
    BY <1>2
  <2>2. /\ k * (2 * x - d) <= k * (2 * num) /\ k * (2 * num) <= k * (2 * x + d)
        /\ num >= 0 => num * k >= 0 /\ k * (2 * num) < k * (2 * x + d)
        /\ num < 0 => num * k < 0 /\ k * (2 * x - d) < k * (2 * num)
    <3>1. /\ 2 * x - d <= 2 * num /\ 2 * num <= 2 * x + d
          /\ num >= 0 => 2 * num < 2 * x + d
          /\ num < 0 => 2 * x - d < 2 * num
      BY <1>1, <1>2 DEF IsRounded
    <3>2. ASSUME NEW i \in Int, NEW j \in Int
          PROVE  (i <= j => k * i <= k * j) /\ (i < j => k * i < k * j)
      OBVIOUS
    <3>3. num >= 0 => num * k >= 0
      OBVIOUS
    <3>4. num < 0 => num * k < 0
      OBVIOUS
    <3>5. 2 * x - d \in Int /\ 2 * num \in Int /\ 2 * x + d \in Int
      OBVIOUS
    <3> QED BY <3>1, <3>2, <3>3, <3>4, <3>5
  <2>3. k * (2 * x - d) = 2 * (k * x) - k * d /\ k * (2 * x + d) = 2 * (k * x) + k * d
        /\ k * (2 * num) = 2 * (num * k)
    OBVIOUS
  <2>4. k * x \in Int /\ num * k \in Int /\ k * d \in Int
    OBVIOUS
  <2>5. k * d * r = k * x
    BY <2>1
  <2> QED BY <2>2, <2>3, <2>4, <2>5 DEF IsRounded
<1>5. IsRounded(d * num, d, num)
  <2>1. PICK y \in Int : y = d * num
    OBVIOUS
  <2> QED BY <2>1 DEF IsRounded
<1>6. d * num \in Int
  OBVIOUS
<1> QED BY <1>1, <1>3, <1>4, <1>5, <1>6, RoundedIsUnique

\* An axis of a rect, and where corner i of n is on it before it is snapped.
Axis == [lo : Int, len : Nat \ {0}, flip : BOOLEAN]

Num(a, i, n) == a.lo * n + a.len * (IF a.flip THEN n - i ELSE i)

LEMMA NumIsInt ==
  ASSUME NEW a \in Axis, NEW n \in Nat \ {0}, NEW i \in Int
  PROVE  Num(a, i, n) \in Int
<1>1. a.lo \in Int /\ a.len \in Int /\ a.flip \in BOOLEAN
  BY DEF Axis
<1>2. PICK m \in Int : m = IF a.flip THEN n - i ELSE i
  <2>1. n - i \in Int
    OBVIOUS
  <2> QED BY <1>1, <2>1
<1>3. a.lo * n \in Int /\ a.len * m \in Int
  BY <1>1
<1> QED BY <1>2, <1>3 DEF Num

LEMMA PixelFineIsPositive ==
  /\ PixelFine \in Nat \ {0} /\ One \in Nat \ {0} /\ Fine \in Nat \ {0}
  /\ \A n \in Nat \ {0} : PixelFine * n \in Nat \ {0} /\ n * Fine \in Nat \ {0}
<1>1. One \in Nat \ {0} /\ Fine \in Nat \ {0}
  BY CoverAssumption, SplitAssumption
<1>2. \A m, n \in Nat \ {0} : m * n \in Nat \ {0}
  OBVIOUS
<1>3. PixelFine \in Nat \ {0}
  BY <1>1, <1>2 DEF PixelFine
<1> QED BY <1>1, <1>2, <1>3

\* The pixel, of d, that num is snapped to.
IsSnapped(num, d, k) == 2 * (d * k) - d <= 2 * num /\ 2 * num < 2 * (d * k) + d

LEMMA SnappedIsSnapped ==
  ASSUME NEW num \in Int, NEW n \in Nat \ {0}
  PROVE  \E k \in Int : Snapped(num, n) = PixelFine * n * k /\ IsSnapped(num, PixelFine * n, k)
<1>1. PICK d \in Nat \ {0} : d = PixelFine * n
  BY PixelFineIsPositive
<1>2. 2 * d \in Nat \ {0} /\ 2 * num + d \in Int /\ 2 * PixelFine * n = 2 * d
  BY <1>1, PixelFineIsPositive
<1>3. PICK k \in Int : k = (2 * num + d) \div (2 * d)
  BY <1>2, Quotient
<1>4. 2 * d * k <= 2 * num + d /\ 2 * num + d < 2 * d * k + 2 * d
  BY <1>2, <1>3, Quotient
<1>5. Snapped(num, n) = d * k
  BY <1>1, <1>2, <1>3 DEF Snapped
<1>6. PICK x \in Int : x = d * k /\ 2 * d * k = 2 * x
  OBVIOUS
<1>7. IsSnapped(num, d, k)
  BY <1>4, <1>6 DEF IsSnapped
<1> QED BY <1>1, <1>5, <1>7

\* Snapping keeps the order, and spreads what are w pixels apart by at most one more.
LEMMA SnappedInOrder ==
  ASSUME NEW m \in Int, NEW n \in Int, NEW d \in Nat \ {0}, m <= n,
         NEW r \in Int, NEW s \in Int, IsSnapped(m, d, r), IsSnapped(n, d, s)
  PROVE  /\ r <= s
         /\ \A w \in Int : n - m < d * w => s - r <= w
         /\ n - m < d * (s - r) + d
<1>1. PICK x \in Int, y \in Int : x = d * r /\ y = d * s
  OBVIOUS
<1>2. d * r < d * s + d
  BY <1>1 DEF IsSnapped
<1>3. ASSUME NEW w \in Int, n - m < d * w
      PROVE  s - r <= w
  <2>1. PICK z \in Int : z = d * w
    OBVIOUS
  <2>2. y - x < z + d
    BY <1>1, <1>3, <2>1 DEF IsSnapped
  <2>3. d * (s - r) = y - x
    BY <1>1
  <2>4. d * (s - r) < d * w + d
    BY <2>1, <2>2, <2>3
  <2> QED BY <2>4, NextMultiple
<1>4. d * (s - r) = y - x
  BY <1>1
<1>5. n - m < y - x + d
  BY <1>1 DEF IsSnapped
<1>6. r <= s
  BY <1>2, NextMultiple
<1>7. n - m < d * (s - r) + d
  BY <1>4, <1>5
<1> QED BY <1>3, <1>6, <1>7

LEMMA SnappedIsUnique ==
  ASSUME NEW num \in Int, NEW d \in Nat \ {0}, NEW r \in Int, NEW s \in Int,
         IsSnapped(num, d, r), IsSnapped(num, d, s)
  PROVE  r = s
BY SnappedInOrder

\* What Wire returns: a position rounded to a unit, or to a pixel.
IsWired(num, snap, n, r) ==
  IF snap THEN \E k \in Int : r = One * k /\ IsSnapped(num, PixelFine * n, k)
          ELSE IsRounded(num, n * Fine, r)

LEMMA WireIsWired ==
  ASSUME NEW a \in Axis, NEW snap \in BOOLEAN, NEW n \in Nat \ {0}, NEW i \in Int
  PROVE  Wire(a, snap, i, n) \in Int /\ IsWired(Num(a, i, n), snap, n, Wire(a, snap, i, n))
<1>1. PICK num \in Int : num = Num(a, i, n)
  BY NumIsInt
<1>2. PICK d \in Nat \ {0} : d = n * Fine
  BY PixelFineIsPositive
<1>3. Wire(a, snap, i, n) = RoundAway(IF snap THEN Snapped(num, n) ELSE num, d)
  BY <1>1, <1>2 DEF Wire, Corner, Num
<1>4. CASE snap
  <2>1. PICK k \in Int : Snapped(num, n) = PixelFine * n * k /\ IsSnapped(num, PixelFine * n, k)
    BY SnappedIsSnapped
  <2>2. PixelFine * n * k = d * (One * k) /\ One * k \in Int
    BY <1>2, PixelFineIsPositive DEF PixelFine
  <2>3. RoundAway(d * (One * k), d) = One * k
    BY <2>2, RoundedInAnyTerms
  <2> QED BY <1>1, <1>3, <1>4, <2>1, <2>2, <2>3 DEF IsWired
<1>5. CASE ~snap
  BY <1>1, <1>2, <1>3, <1>5, RoundAwayRounds DEF IsWired
<1> QED BY <1>4, <1>5

\* The wire keeps the order of positions.
LEMMA WiredInOrder ==
  ASSUME NEW m \in Int, NEW l \in Int, m <= l, NEW snap \in BOOLEAN, NEW n \in Nat \ {0},
         NEW r \in Int, NEW s \in Int, IsWired(m, snap, n, r), IsWired(l, snap, n, s)
  PROVE  r <= s
<1>1. CASE snap
  <2>1. PICK k \in Int : r = One * k /\ IsSnapped(m, PixelFine * n, k)
    BY <1>1 DEF IsWired
  <2>2. PICK j \in Int : s = One * j /\ IsSnapped(l, PixelFine * n, j)
    BY <1>1 DEF IsWired
  <2>3. k <= j
    BY <2>1, <2>2, PixelFineIsPositive, SnappedInOrder
  <2>4. j - k \in Nat /\ One * j = One * k + One * (j - k) /\ One * (j - k) >= 0
    BY <2>3, PixelFineIsPositive
  <2>5. One * j \in Int /\ One * k \in Int /\ One * (j - k) \in Int
    BY PixelFineIsPositive
  <2> QED BY <2>1, <2>2, <2>4, <2>5
<1>2. CASE ~snap
  BY <1>2, PixelFineIsPositive, RoundedInOrder DEF IsWired
<1> QED BY <1>1, <1>2

\* A corner that cells of any number have has one position on the wire.
LEMMA WiredInAnyTerms ==
  ASSUME NEW num \in Int, NEW snap \in BOOLEAN, NEW n \in Nat \ {0}, NEW r \in Int,
         IsWired(num, snap, 1, r)
  PROVE  IsWired(num * n, snap, n, r)
<1>1. CASE snap
  <2>1. PICK k \in Int : r = One * k /\ IsSnapped(num, PixelFine * 1, k)
    BY <1>1 DEF IsWired
  <2>2. PICK d \in Nat \ {0} : d = PixelFine /\ PixelFine * 1 = d
    BY PixelFineIsPositive
  <2>3. PICK x \in Int : x = d * k
    OBVIOUS
  <2>4. 2 * x - d <= 2 * num /\ 2 * num < 2 * x + d
    BY <2>1, <2>2, <2>3 DEF IsSnapped
  <2>5. n * (2 * x - d) <= n * (2 * num) /\ n * (2 * num) < n * (2 * x + d)
    <3>1. ASSUME NEW i \in Int, NEW j \in Int
          PROVE  (i <= j => n * i <= n * j) /\ (i < j => n * i < n * j)
      OBVIOUS
    <3>2. 2 * x - d \in Int /\ 2 * num \in Int /\ 2 * x + d \in Int
      OBVIOUS
    <3> QED BY <2>4, <3>1, <3>2
  <2>6. /\ n * (2 * x - d) = 2 * (n * x) - d * n /\ n * (2 * x + d) = 2 * (n * x) + d * n
        /\ n * (2 * num) = 2 * (num * n) /\ d * n * k = n * x
        /\ n * x \in Int /\ num * n \in Int /\ d * n \in Int
    BY <2>3
  <2>7. IsSnapped(num * n, d * n, k)
    BY <2>5, <2>6 DEF IsSnapped
  <2> QED BY <1>1, <2>1, <2>2, <2>7 DEF IsWired
<1>2. CASE ~snap
  <2>1. Fine \in Nat \ {0} /\ 1 * Fine = Fine
    BY PixelFineIsPositive
  <2>2. r = RoundAway(num, Fine)
    BY <1>2, <2>1, RoundedIsUnique DEF IsWired
  <2>3. r = RoundAway(num * n, n * Fine)
    BY <2>1, <2>2, RoundedInAnyTerms
  <2>4. num * n \in Int /\ n * Fine \in Nat \ {0}
    BY PixelFineIsPositive
  <2> QED BY <1>2, <2>3, <2>4, RoundAwayRounds DEF IsWired
<1> QED BY <1>1, <1>2

LEMMA SameEnds ==
  ASSUME NEW a \in Axis, NEW snap \in BOOLEAN, NEW n \in Nat \ {0}
  PROVE  /\ Wire(a, snap, 0, n) = Wire(a, snap, 0, 1)
         /\ Wire(a, snap, n, n) = Wire(a, snap, 1, 1)
<1>1. Num(a, 0, n) = Num(a, 0, 1) * n /\ Num(a, n, n) = Num(a, 1, 1) * n
  <2>1. a.lo \in Int /\ a.len \in Int /\ a.flip \in BOOLEAN
    BY DEF Axis
  <2>2. (a.lo * 1 + a.len * 1) * n = a.lo * n + a.len * n /\ (a.lo * 1 + a.len * 0) * n = a.lo * n
    BY <2>1
  <2>3. a.len * 0 = 0 /\ n - 0 = n /\ n - n = 0 /\ 1 - 0 = 1 /\ 1 - 1 = 0
    BY <2>1
  <2>4. a.lo * n \in Int /\ a.lo * n + 0 = a.lo * n
    BY <2>1
  <2>5. CASE a.flip
    BY <2>2, <2>3, <2>4, <2>5 DEF Num
  <2>6. CASE ~a.flip
    BY <2>2, <2>3, <2>4, <2>6 DEF Num
  <2> QED BY <2>1, <2>5, <2>6
<1>2. ASSUME NEW i \in {0, 1}, NEW j \in {0, n}, Num(a, j, n) = Num(a, i, 1) * n
      PROVE  Wire(a, snap, j, n) = Wire(a, snap, i, 1)
  <2>1. PICK num \in Int : num = Num(a, i, 1)
    BY NumIsInt
  <2>2. PICK r \in Int : r = Wire(a, snap, i, 1) /\ IsWired(num, snap, 1, r)
    BY <2>1, WireIsWired
  <2>3. PICK s \in Int : s = Wire(a, snap, j, n) /\ IsWired(num * n, snap, n, s)
    BY <1>2, <2>1, WireIsWired
  <2>4. IsWired(num * n, snap, n, r) /\ num * n \in Int
    BY <2>2, WiredInAnyTerms
  <2>5. r <= s /\ s <= r
    BY <2>3, <2>4, WiredInOrder
  <2> QED BY <2>2, <2>3, <2>5
<1> QED BY <1>1, <1>2

\* The corners of a rect follow each other along an axis, backwards if it is mirrored.
LEMMA WiresInOrder ==
  ASSUME NEW a \in Axis, NEW snap \in BOOLEAN, NEW n \in Nat \ {0}, NEW i \in Int, NEW j \in Int,
         i <= j
  PROVE  IF a.flip THEN Wire(a, snap, j, n) <= Wire(a, snap, i, n)
                   ELSE Wire(a, snap, i, n) <= Wire(a, snap, j, n)
<1>1. a.lo \in Int /\ a.len \in Nat \ {0} /\ a.flip \in BOOLEAN
  BY DEF Axis
<1>2. PICK p \in Int, q \in Int : p = Num(a, i, n) /\ q = Num(a, j, n)
  BY NumIsInt
<1>3. /\ Wire(a, snap, i, n) \in Int /\ IsWired(p, snap, n, Wire(a, snap, i, n))
      /\ Wire(a, snap, j, n) \in Int /\ IsWired(q, snap, n, Wire(a, snap, j, n))
  BY <1>2, WireIsWired
<1>4. a.len * (j - i) >= 0 /\ a.len * (j - i) \in Int
  BY <1>1
<1>5. CASE a.flip
  <2>1. p = a.lo * n + a.len * (n - i) /\ q = a.lo * n + a.len * (n - j)
    BY <1>2, <1>5 DEF Num
  <2>2. a.len * (n - i) = a.len * (n - j) + a.len * (j - i)
    BY <1>1
  <2>3. a.lo * n \in Int /\ a.len * (n - i) \in Int /\ a.len * (n - j) \in Int
    BY <1>1
  <2>4. q <= p
    BY <1>4, <2>1, <2>2, <2>3
  <2> QED BY <1>3, <1>5, <2>4, WiredInOrder
<1>6. CASE ~a.flip
  <2>1. p = a.lo * n + a.len * i /\ q = a.lo * n + a.len * j
    BY <1>2, <1>6 DEF Num
  <2>2. a.len * j = a.len * i + a.len * (j - i)
    BY <1>1
  <2>3. a.lo * n \in Int /\ a.len * i \in Int /\ a.len * j \in Int
    BY <1>1
  <2>4. p <= q
    BY <1>4, <2>1, <2>2, <2>3
  <2> QED BY <1>3, <1>6, <2>4, WiredInOrder
<1> QED BY <1>1, <1>5, <1>6

\* The centres between corners i and i + 1 of n.
InCell(a, snap, i, n, c) ==
  LET p == Wire(a, snap, i, n)   q == Wire(a, snap, i + 1, n)
  IN  Least(p, q) < c /\ c <= Most(p, q)

LEMMA LeastAndMost ==
  ASSUME NEW x \in Int, NEW y \in Int
  PROVE  /\ Least(x, y) = (IF x <= y THEN x ELSE y) /\ Most(x, y) = (IF x <= y THEN y ELSE x)
         /\ Least(x, y) \in Int /\ Most(x, y) \in Int
         /\ Least(x, y) <= x /\ Least(x, y) <= y /\ x <= Most(x, y) /\ y <= Most(x, y)
BY DEF Least, Most

\* Of the numbers from 0 to n, the first not in a set and the last in it, there is one in
\* it that the next after it is not.
LEMMA LastInside ==
  ASSUME NEW n \in Nat, NEW S \in SUBSET (0 .. n), 0 \in S, n \notin S
  PROVE  \E i \in 0 .. n - 1 : i \in S /\ i + 1 \notin S
<1>1. SUFFICES ASSUME \A i \in 0 .. n - 1 : i \in S => i + 1 \in S PROVE FALSE
  OBVIOUS
<1>2. PICK m \in Nat : m \in (0 .. n) \ S /\ \A k \in (0 .. n) \ S : m <= k
  <2>1. n \in (0 .. n) \ S
    OBVIOUS
  <2>2. \E m \in (0 .. n) \ S : \A k \in (0 .. n) \ S : ~ (k < m)
    <3>1. (0 .. n) \ S # {} /\ (0 .. n) \ S \subseteq Nat
      BY <2>1
    <3>2. IsWellFoundedOn(OpToRel(<, Nat), Nat)
      BY NatLessThanWellFounded
    <3>3. PICK m \in (0 .. n) \ S : \A k \in (0 .. n) \ S : <<k, m>> \notin OpToRel(<, Nat)
      BY <3>1, <3>2, WFMin
    <3> QED BY <3>1, <3>3 DEF OpToRel
  <2> QED BY <2>2
<1>3. m # 0 /\ m - 1 \in 0 .. n - 1 /\ m - 1 \notin (0 .. n) \ S
  BY <1>2
<1>4. m - 1 \in S
  BY <1>3
<1>5. m - 1 + 1 = m
  BY <1>2
<1> QED BY <1>1, <1>2, <1>3, <1>4, <1>5

\* A centre between the ends of an axis is in one of the n cells it is cut into, one
\* beyond them in none.
LEMMA OneCellHasIt ==
  ASSUME NEW a \in Axis, NEW snap \in BOOLEAN, NEW n \in Nat \ {0}, NEW c \in Int
  PROVE  /\ InSide(a, snap, c) => \E i \in 0 .. n - 1 : InCell(a, snap, i, n, c)
         /\ \A i \in 0 .. n - 1 : InCell(a, snap, i, n, c) => InSide(a, snap, c)
         /\ \A i, j \in 0 .. n - 1 : InCell(a, snap, i, n, c) /\ InCell(a, snap, j, n, c) => i = j
<1> DEFINE w(i) == Wire(a, snap, i, n)
<1>1. \A i \in Int : w(i) \in Int
  BY WireIsWired
<1>2. /\ InSide(a, snap, c) <=> Least(w(0), w(n)) < c /\ c <= Most(w(0), w(n))
      /\ \A i \in Int : InCell(a, snap, i, n, c) <=>
                          Least(w(i), w(i + 1)) < c /\ c <= Most(w(i), w(i + 1))
  BY SameEnds DEF InSide, InCell
<1>3. \A i, j \in Int : i <= j => IF a.flip THEN w(j) <= w(i) ELSE w(i) <= w(j)
  BY WiresInOrder
<1> HIDE DEF w
<1>4. a.flip \in BOOLEAN
  BY DEF Axis
<1>5. CASE ~a.flip
  <2>1. /\ InSide(a, snap, c) <=> w(0) < c /\ c <= w(n)
        /\ \A i \in Int : InCell(a, snap, i, n, c) <=> w(i) < c /\ c <= w(i + 1)
    <3>1. ASSUME NEW i \in Int, NEW j \in Int, i <= j
          PROVE  Least(w(i), w(j)) = w(i) /\ Most(w(i), w(j)) = w(j)
      BY <1>1, <1>3, <1>5, <3>1, LeastAndMost
    <3> QED BY <1>2, <3>1
  <2>2. ASSUME InSide(a, snap, c)
        PROVE  \E i \in 0 .. n - 1 : InCell(a, snap, i, n, c)
    <3>1. PICK S \in SUBSET (0 .. n) : S = {i \in 0 .. n : w(i) < c}
      OBVIOUS
    <3>2. 0 \in S /\ n \notin S
      BY <1>1, <2>1, <2>2, <3>1
    <3>3. PICK i \in 0 .. n - 1 : i \in S /\ i + 1 \notin S
      BY <3>2, LastInside
    <3>4. w(i) < c /\ c <= w(i + 1)
      BY <1>1, <3>1, <3>3
    <3> QED BY <2>1, <3>4
  <2>3. ASSUME NEW i \in 0 .. n - 1, InCell(a, snap, i, n, c)
        PROVE  InSide(a, snap, c)
    <3>1. w(0) <= w(i) /\ w(i + 1) <= w(n)
      BY <1>3, <1>5
    <3> QED BY <1>1, <2>1, <2>3, <3>1
  <2>4. ASSUME NEW i \in 0 .. n - 1, NEW j \in 0 .. n - 1, i < j,
               InCell(a, snap, i, n, c), InCell(a, snap, j, n, c)
        PROVE  FALSE
    <3>1. w(i + 1) <= w(j)
      BY <1>3, <1>5, <2>4
    <3> QED BY <1>1, <2>1, <2>4, <3>1
  <2>5. \A i, j \in 0 .. n - 1 : i = j \/ i < j \/ j < i
    OBVIOUS
  <2> QED BY <2>2, <2>3, <2>4, <2>5
<1>6. CASE a.flip
  <2>1. /\ InSide(a, snap, c) <=> w(n) < c /\ c <= w(0)
        /\ \A i \in Int : InCell(a, snap, i, n, c) <=> w(i + 1) < c /\ c <= w(i)
    <3>1. ASSUME NEW i \in Int, NEW j \in Int, i <= j
          PROVE  Least(w(i), w(j)) = w(j) /\ Most(w(i), w(j)) = w(i)
      <4>1. w(j) <= w(i) /\ w(i) \in Int /\ w(j) \in Int
        BY <1>1, <1>3, <1>6, <3>1
      <4> QED BY <4>1 DEF Least, Most
    <3> QED BY <1>2, <3>1
  <2>2. ASSUME InSide(a, snap, c)
        PROVE  \E i \in 0 .. n - 1 : InCell(a, snap, i, n, c)
    <3>1. PICK S \in SUBSET (0 .. n) : S = {i \in 0 .. n : c <= w(i)}
      OBVIOUS
    <3>2. 0 \in S /\ n \notin S
      BY <1>1, <2>1, <2>2, <3>1
    <3>3. PICK i \in 0 .. n - 1 : i \in S /\ i + 1 \notin S
      BY <3>2, LastInside
    <3>4. w(i + 1) < c /\ c <= w(i)
      BY <1>1, <3>1, <3>3
    <3> QED BY <2>1, <3>4
  <2>3. ASSUME NEW i \in 0 .. n - 1, InCell(a, snap, i, n, c)
        PROVE  InSide(a, snap, c)
    <3>1. w(i) <= w(0) /\ w(n) <= w(i + 1)
      BY <1>3, <1>6
    <3> QED BY <1>1, <2>1, <2>3, <3>1
  <2>4. ASSUME NEW i \in 0 .. n - 1, NEW j \in 0 .. n - 1, i < j,
               InCell(a, snap, i, n, c), InCell(a, snap, j, n, c)
        PROVE  FALSE
    <3>1. w(j) <= w(i + 1)
      BY <1>3, <1>6, <2>4
    <3> QED BY <1>1, <2>1, <2>4, <3>1
  <2>5. \A i, j \in 0 .. n - 1 : i = j \/ i < j \/ j < i
    OBVIOUS
  <2> QED BY <2>2, <2>3, <2>4, <2>5
<1> QED BY <1>4, <1>5, <1>6

LEMMA CornerIsInt ==
  ASSUME NEW a \in Axis, NEW snap \in BOOLEAN, NEW n \in Nat \ {0}, NEW i \in Int
  PROVE  Corner(a, snap, i, n) \in Int
<1>1. PICK num \in Int : num = Num(a, i, n)
  BY NumIsInt
<1>2. Corner(a, snap, i, n) = IF snap THEN Snapped(num, n) ELSE num
  BY <1>1 DEF Corner, Num
<1>3. \A k \in Int : PixelFine * n * k \in Int
  BY PixelFineIsPositive
<1>4. Snapped(num, n) \in Int
  BY <1>3, SnappedIsSnapped
<1> QED BY <1>1, <1>2, <1>4

\* No centre of the screen is in a cell off it.
LEMMA OffScreenIsEmpty ==
  ASSUME NEW a \in Axis, NEW snap \in BOOLEAN, NEW n \in Nat \ {0}, NEW i \in Int,
         NEW size \in Nat, OffScreen(a, snap, i, n, size),
         NEW c \in Int, 0 < c, c < size * One
  PROVE  ~ InCell(a, snap, i, n, c)
<1>1. PICK p \in Int, q \in Int :
        p = Corner(a, snap, i, n) /\ q = Corner(a, snap, i + 1, n)
  BY CornerIsInt
<1>2. PICK d \in Nat \ {0} : d = n * Fine
  BY PixelFineIsPositive
<1>3. PICK r \in Int, s \in Int :
        /\ r = Wire(a, snap, i, n) /\ IsRounded(p, d, r)
        /\ s = Wire(a, snap, i + 1, n) /\ IsRounded(q, d, s)
  BY <1>1, <1>2, RoundAwayRounds DEF Wire
<1>4. PICK edge \in Int : edge = size * One
  BY PixelFineIsPositive
<1>5. IsRounded(d * 0, d, 0) /\ IsRounded(d * edge, d, edge)
  <2>1. \A m \in Int : d * m \in Int /\ RoundAway(d * m, d) = m
    <3>1. ASSUME NEW m \in Int PROVE RoundAway(d * m, d) = m
      BY RoundedInAnyTerms
    <3> QED BY <3>1
  <2>2. \A m \in Int : IsRounded(d * m, d, m)
    BY <2>1, RoundAwayRounds
  <2> QED BY <2>2
<1>6. d * 0 = 0 /\ d * edge \in Int /\ size * PixelFine * n = d * edge
  BY <1>2, <1>4, PixelFineIsPositive DEF PixelFine
<1>7. CASE Most(p, q) <= 0
  <2>1. p <= 0 /\ q <= 0
    BY <1>7 DEF Most
  <2>2. r <= 0 /\ s <= 0
    BY <1>3, <1>5, <1>6, <2>1, RoundedInOrder
  <2> QED BY <1>3, <2>2 DEF InCell, Most
<1>8. CASE Least(p, q) >= size * PixelFine * n
  <2>1. PICK far \in Int : far = d * edge
    BY <1>6
  <2>2. far <= p /\ far <= q
    BY <1>6, <1>8, <2>1 DEF Least
  <2>3. edge <= r /\ edge <= s
    BY <1>3, <1>5, <2>1, <2>2, RoundedInOrder
  <2> QED BY <1>3, <1>4, <2>3 DEF InCell, Least
<1> QED BY <1>1, <1>7, <1>8 DEF OffScreen

\* An axis is cut into cells of SplitCell pixels, unless that takes more than MaxCells.
LEMMA CellsSpan ==
  ASSUME NEW a \in Axis, NEW snap \in BOOLEAN
  PROVE  /\ Cells(a, snap) \in Nat \ {0}
         /\ Span(a, snap) \in Int
         /\ ~Capped(a, snap) => Span(a, snap) <= SplitCell * PixelFine * Cells(a, snap)
<1>1. PICK d \in Nat \ {0} : d = SplitCell * PixelFine
  <2>1. \A m, n \in Nat \ {0} : m * n \in Nat \ {0}
    OBVIOUS
  <2> QED BY <2>1, PixelFineIsPositive, SplitAssumption
<1>2. PICK span \in Int : span = Span(a, snap)
  <2>1. Corner(a, snap, 0, 1) \in Int /\ Corner(a, snap, 1, 1) \in Int
    BY CornerIsInt
  <2> QED BY <2>1 DEF Span, Least, Most
<1>3. PICK ceil \in Int : ceil = Ceiling(span, d) /\ span <= d * ceil /\ d * ceil < span + d
  <2>1. -span \in Int
    OBVIOUS
  <2>2. PICK q \in Int : q = (-span) \div d /\ d * q <= -span /\ -span < d * q + d
    BY <2>1, Quotient
  <2>3. d * (-q) = -(d * q) /\ d * q \in Int
    OBVIOUS
  <2> QED BY <2>2, <2>3 DEF Ceiling
<1>4. Cells(a, snap) = Least(Most(1, ceil), MaxCells) /\ MaxCells \in Nat \ {0}
  BY <1>1, <1>2, <1>3, SplitAssumption DEF Cells
<1>5. Cells(a, snap) \in Nat \ {0}
  BY <1>4 DEF Least, Most
<1>6. ASSUME ~Capped(a, snap)
      PROVE  span <= d * Cells(a, snap)
  <2>1. PICK most \in Int : most = d * MaxCells /\ MaxCells * SplitCell * PixelFine = most
    BY <1>1, <1>4, PixelFineIsPositive, SplitAssumption
  <2>2. span <= most
    BY <1>2, <1>6, <2>1 DEF Capped
  <2>3. d * ceil < d * MaxCells + d
    <3>1. PICK x \in Int : x = d * ceil
      OBVIOUS
    <3> QED BY <1>3, <2>1, <2>2, <3>1
  <2>4. ceil <= MaxCells
    BY <1>4, <2>3, NextMultiple
  <2>5. PICK k \in Nat : Cells(a, snap) = ceil + k
    <3>1. ceil <= Cells(a, snap)
      BY <1>4, <2>4 DEF Least, Most
    <3>2. Cells(a, snap) - ceil \in Nat /\ Cells(a, snap) = ceil + (Cells(a, snap) - ceil)
      BY <1>5, <3>1
    <3> QED BY <3>2
  <2>6. d * (ceil + k) = d * ceil + d * k /\ d * k >= 0 /\ d * k \in Int /\ d * ceil \in Int
    OBVIOUS
  <2> QED BY <1>3, <2>5, <2>6
<1> QED BY <1>1, <1>2, <1>5, <1>6

\* Two corners of an axis lie the length of a cell apart.
LEMMA NextCorner ==
  ASSUME NEW a \in Axis, NEW n \in Nat \ {0}, NEW i \in Int
  PROVE  \E m \in Int, l \in Int :
           /\ l - m = a.len
           /\ IF a.flip THEN m = Num(a, i + 1, n) /\ l = Num(a, i, n)
                        ELSE m = Num(a, i, n) /\ l = Num(a, i + 1, n)
<1>1. a.lo \in Int /\ a.len \in Int /\ a.flip \in BOOLEAN
  BY DEF Axis
<1>2. Num(a, i, n) \in Int /\ Num(a, i + 1, n) \in Int
  BY NumIsInt
<1>3. CASE a.flip
  <2>1. /\ Num(a, i, n) = a.lo * n + a.len * (n - i)
        /\ Num(a, i + 1, n) = a.lo * n + a.len * (n - (i + 1))
    BY <1>3 DEF Num
  <2>2. a.len * (n - i) = a.len * (n - (i + 1)) + a.len
    BY <1>1
  <2>3. a.lo * n \in Int /\ a.len * (n - (i + 1)) \in Int
    BY <1>1
  <2>4. Num(a, i, n) - Num(a, i + 1, n) = a.len
    BY <1>1, <2>1, <2>2, <2>3
  <2> QED BY <1>2, <1>3, <2>4
<1>4. CASE ~a.flip
  <2>1. Num(a, i, n) = a.lo * n + a.len * i /\ Num(a, i + 1, n) = a.lo * n + a.len * (i + 1)
    BY <1>4 DEF Num
  <2>2. a.len * (i + 1) = a.len * i + a.len
    BY <1>1
  <2>3. a.lo * n \in Int /\ a.len * i \in Int
    BY <1>1
  <2>4. Num(a, i + 1, n) - Num(a, i, n) = a.len
    BY <1>1, <2>1, <2>2, <2>3
  <2> QED BY <1>2, <1>4, <2>4
<1> QED BY <1>1, <1>3, <1>4

\* The length of an axis fits its cells: exactly, or up to less than the pixel that
\* snapping its ends may take off.
LEMMA LengthFits ==
  ASSUME NEW a \in Axis, NEW snap \in BOOLEAN, ~Capped(a, snap)
  PROVE  LET cells == SplitCell * Cells(a, snap)
         IN  IF snap THEN a.len < PixelFine * (cells + 1) ELSE a.len <= PixelFine * cells
<1>1. PICK f \in Nat \ {0} : f = PixelFine
  BY PixelFineIsPositive
<1>2. PICK cells \in Int : cells = SplitCell * Cells(a, snap)
  BY CellsSpan, SplitAssumption
<1>3. PICK span \in Int : span = Span(a, snap) /\ span <= f * cells
  <2>1. SplitCell * PixelFine * Cells(a, snap) = f * cells
    BY <1>1, <1>2, CellsSpan, SplitAssumption
  <2> QED BY <2>1, CellsSpan
<1>4. PICK m \in Int, l \in Int :
        /\ l - m = a.len
        /\ \/ m = Num(a, 0, 1) /\ l = Num(a, 1, 1)
           \/ m = Num(a, 1, 1) /\ l = Num(a, 0, 1)
  <2>1. PICK m \in Int, l \in Int :
          /\ l - m = a.len
          /\ IF a.flip THEN m = Num(a, 0 + 1, 1) /\ l = Num(a, 0, 1)
                       ELSE m = Num(a, 0, 1) /\ l = Num(a, 0 + 1, 1)
    <3>1. 0 \in Int /\ 1 \in Nat \ {0}
      OBVIOUS
    <3> QED BY <3>1, NextCorner
  <2>2. 0 + 1 = 1
    OBVIOUS
  <2> QED BY <2>1, <2>2
<1>5. a.len \in Nat \ {0}
  BY DEF Axis
<1>6. /\ Corner(a, snap, 0, 1) = IF snap THEN Snapped(Num(a, 0, 1), 1) ELSE Num(a, 0, 1)
      /\ Corner(a, snap, 1, 1) = IF snap THEN Snapped(Num(a, 1, 1), 1) ELSE Num(a, 1, 1)
  BY DEF Corner, Num
<1>7. CASE snap
  <2>1. PICK k \in Int : Snapped(m, 1) = f * k /\ IsSnapped(m, f, k)
    <3>1. PixelFine * 1 = f /\ 1 \in Nat \ {0}
      BY <1>1
    <3>2. \E k \in Int : Snapped(m, 1) = PixelFine * 1 * k /\ IsSnapped(m, PixelFine * 1, k)
      BY <3>1, SnappedIsSnapped
    <3> QED BY <3>1, <3>2
  <2>2. PICK j \in Int : Snapped(l, 1) = f * j /\ IsSnapped(l, f, j)
    <3>1. PixelFine * 1 = f /\ 1 \in Nat \ {0}
      BY <1>1
    <3>2. \E j \in Int : Snapped(l, 1) = PixelFine * 1 * j /\ IsSnapped(l, PixelFine * 1, j)
      BY <3>1, SnappedIsSnapped
    <3> QED BY <3>1, <3>2
  <2>3. k <= j /\ l - m < f * (j - k) + f
    BY <1>4, <1>5, <2>1, <2>2, SnappedInOrder
  <2>4. PICK x \in Int, y \in Int : x = f * k /\ y = f * j
    OBVIOUS
  <2>5. f * (j - k) = y - x /\ f * (j - k) >= 0
    BY <2>3, <2>4
  <2>6. span = y - x
    <3>1. /\ Corner(a, snap, 0, 1) = Snapped(Num(a, 0, 1), 1)
          /\ Corner(a, snap, 1, 1) = Snapped(Num(a, 1, 1), 1)
      BY <1>6, <1>7
    <3>2. \/ Corner(a, snap, 0, 1) = x /\ Corner(a, snap, 1, 1) = y
          \/ Corner(a, snap, 1, 1) = x /\ Corner(a, snap, 0, 1) = y
      BY <1>4, <2>1, <2>2, <2>4, <3>1
    <3>3. span = Most(x, y) - Least(x, y) \/ span = Most(y, x) - Least(y, x)
      BY <1>3, <3>2 DEF Span
    <3>4. x <= y
      BY <2>5
    <3> QED BY <3>3, <3>4 DEF Least, Most
  <2>7. PICK z \in Int : z = f * cells
    OBVIOUS
  <2>8. a.len < z + f /\ f * (cells + 1) = z + f
    BY <1>3, <1>4, <2>3, <2>5, <2>6, <2>7
  <2> QED BY <1>1, <1>2, <1>7, <2>8
<1>8. CASE ~snap
  <2>1. span = Most(m, l) - Least(m, l) \/ span = Most(l, m) - Least(l, m)
    BY <1>3, <1>4, <1>6, <1>8 DEF Span
  <2>2. m <= l
    BY <1>4, <1>5
  <2>3. span = a.len
    BY <1>4, <2>1, <2>2 DEF Least, Most
  <2> QED BY <1>1, <1>2, <1>3, <1>8, <2>3
<1> QED BY <1>7, <1>8

\* The ends of a cell are at most a pixel more than SplitCell apart on the wire.
LEMMA CellIsSmall ==
  ASSUME NEW a \in Axis, NEW snap \in BOOLEAN, ~Capped(a, snap), NEW i \in Int
  PROVE  LET n == Cells(a, snap)
             p == Wire(a, snap, i, n)   q == Wire(a, snap, i + 1, n)
         IN  /\ p \in Int /\ q \in Int
             /\ p - q <= (SplitCell + 1) * One /\ q - p <= (SplitCell + 1) * One
<1>1. PICK n \in Nat \ {0} : n = Cells(a, snap)
  BY CellsSpan
<1>2. PICK m \in Int, l \in Int :
        /\ l - m = a.len
        /\ \/ m = Num(a, i, n) /\ l = Num(a, i + 1, n)
           \/ m = Num(a, i + 1, n) /\ l = Num(a, i, n)
  BY NextCorner
<1>3. PICK r \in Int, s \in Int :
        /\ IsWired(m, snap, n, r) /\ IsWired(l, snap, n, s)
        /\ \/ r = Wire(a, snap, i, n) /\ s = Wire(a, snap, i + 1, n)
           \/ r = Wire(a, snap, i + 1, n) /\ s = Wire(a, snap, i, n)
  BY <1>2, WireIsWired
<1>4. PICK f \in Nat \ {0}, o \in Nat \ {0}, S \in Nat \ {0} :
        f = PixelFine /\ o = One /\ S = SplitCell
  BY PixelFineIsPositive, SplitAssumption
<1>5. a.len \in Nat \ {0} /\ m <= l
  BY <1>2 DEF Axis
<1>6. r <= s
  BY <1>3, <1>5, WiredInOrder
<1>7. s - r <= (S + 1) * o
  <2>1. CASE snap
    <3>1. PICK k \in Int, j \in Int :
            r = o * k /\ s = o * j /\ IsSnapped(m, f * n, k) /\ IsSnapped(l, f * n, j)
      BY <1>3, <1>4, <2>1 DEF IsWired
    <3>2. f * n \in Nat \ {0}
      BY <1>4, PixelFineIsPositive
    <3>3. PICK fn \in Nat \ {0}, fns \in Int :
            /\ fn = f * n /\ fns = fn * S /\ f <= fn
            /\ f * (S * n + 1) = fns + f /\ fn * (S + 1) = fns + fn
      <4>1. f * (S * n + 1) = f * n * S + f /\ f * n * (S + 1) = f * n * S + f * n
        OBVIOUS
      <4>2. f * n = f + f * (n - 1) /\ f * (n - 1) >= 0 /\ f * (n - 1) \in Int
        OBVIOUS
      <4>3. f <= f * n
        BY <4>2
      <4>4. f * n * S \in Int
        OBVIOUS
      <4> QED BY <3>2, <4>1, <4>3, <4>4
    <3>4. l - m < fn * (S + 1)
      <4>1. a.len < fns + f
        BY <1>1, <1>4, <2>1, <3>3, LengthFits
      <4> QED BY <1>2, <1>5, <3>3, <4>1
    <3>5. j - k <= S + 1 /\ k <= j
      <4>1. IsSnapped(m, fn, k) /\ IsSnapped(l, fn, j) /\ S + 1 \in Int
        BY <3>1, <3>3
      <4> HIDE <3>3
      <4> QED BY <1>5, <3>4, <4>1, SnappedInOrder
    <3>6. PICK e \in Nat : S + 1 = j - k + e
      <4>1. S + 1 - (j - k) \in Nat /\ S + 1 = j - k + (S + 1 - (j - k))
        BY <3>5
      <4> QED BY <4>1
    <3>7. (j - k + e) * o = o * j - o * k + e * o /\ e * o >= 0
          /\ e * o \in Int /\ o * j \in Int /\ o * k \in Int
      OBVIOUS
    <3> QED BY <3>1, <3>6, <3>7
  <2>2. CASE ~snap
    <3>1. PICK d \in Nat \ {0} : d = n * Fine /\ IsRounded(m, d, r) /\ IsRounded(l, d, s)
      BY <1>3, <2>2, PixelFineIsPositive DEF IsWired
    <3>2. PICK w \in Int : w = S * o /\ d * w = PixelFine * (S * n)
      BY <1>4, <3>1, PixelFineIsPositive DEF PixelFine
    <3>3. l - m <= d * w
      BY <1>1, <1>2, <1>4, <2>2, <3>2, LengthFits
    <3>4. s - r <= w + 1
      BY <1>5, <3>1, <3>3, RoundedInOrder
    <3>5. (S + 1) * o = w + o
      BY <3>2
    <3> QED BY <3>4, <3>5
  <2> QED BY <2>1, <2>2
<1> QED BY <1>1, <1>3, <1>4, <1>6, <1>7

\* Points above or on a line through the origin, i and j along its axes.
LEMMA Slope ==
  ASSUME NEW m \in Nat \ {0}, NEW n \in Nat \ {0}, NEW i \in Int, NEW j \in Int
  PROVE  /\ m * j >= n * i => /\ i >= 0 => j >= 0
                              /\ i > 0 => j > 0
                              /\ j <= n => i <= m
                              /\ j < n => i < m
         /\ m * j > n * i => /\ i >= 0 => j > 0
                             /\ j <= n => i < m
<1>1. ASSUME NEW d \in Nat \ {0}, NEW x \in Int
      PROVE  /\ (x >= 0 => d * x >= 0) /\ (x < 0 => d * x < 0)
             /\ (x > 0 => d * x > 0) /\ (x <= 0 => d * x <= 0)
  OBVIOUS
<1>2. PICK a \in Int, b \in Int : a = m * j /\ b = n * i
  OBVIOUS
<1>3. PICK p \in Int, u \in Int, v \in Int : p = m * n /\ u = m * (j - n) /\ v = n * (i - m)
  OBVIOUS
<1>4. a = u + p /\ b = v + p
  BY <1>2, <1>3
<1>5. /\ (j >= 0 => a >= 0) /\ (j < 0 => a < 0) /\ (j > 0 => a > 0) /\ (j <= 0 => a <= 0)
      /\ (i >= 0 => b >= 0) /\ (i < 0 => b < 0) /\ (i > 0 => b > 0) /\ (i <= 0 => b <= 0)
  BY <1>1, <1>2
<1>6. j - n \in Int /\ i - m \in Int
  OBVIOUS
<1>7. /\ (j - n >= 0 => u >= 0) /\ (j - n < 0 => u < 0)
      /\ (j - n > 0 => u > 0) /\ (j - n <= 0 => u <= 0)
      /\ (i - m >= 0 => v >= 0) /\ (i - m < 0 => v < 0)
      /\ (i - m > 0 => v > 0) /\ (i - m <= 0 => v <= 0)
  BY <1>1, <1>3, <1>6
<1> QED BY <1>2, <1>4, <1>5, <1>7

\* Which side of a vertical and of a horizontal edge has the line itself.
LEMMA SideClaims ==
  ASSUME NEW s \in Int, NEW t \in Int, NEW z \in Int, s # t, NEW c \in Point
  PROVE  /\ Within([x |-> z, y |-> s], [x |-> z, y |-> t], c)
              <=> IF s < t THEN c.x <= z ELSE c.x > z
         /\ Within([x |-> s, y |-> z], [x |-> t, y |-> z], c)
              <=> IF s < t THEN c.y > z ELSE c.y <= z
<1>1. c.x \in Int /\ c.y \in Int
  BY DEF Point
<1>2. PICK d \in Int, i \in Int, j \in Int : d = t - s /\ i = c.x - z /\ j = c.y - z
  BY <1>1
<1>3. /\ Edge([x |-> z, y |-> s], [x |-> z, y |-> t], c) = -(d * i)
      /\ Edge([x |-> s, y |-> z], [x |-> t, y |-> z], c) = d * j
  <2>1. (z - z) * (c.y - s) - d * i = -(d * i) /\ d * j - (z - z) * (c.x - s) = d * j
    BY <1>1
  <2> QED BY <1>2, <2>1 DEF Edge
<1>4. /\ d > 0 => (i > 0 => d * i > 0) /\ (i <= 0 => d * i <= 0)
      /\ d < 0 => (i > 0 => d * i < 0) /\ (i <= 0 => d * i >= 0)
      /\ d > 0 => (j > 0 => d * j > 0) /\ (j <= 0 => d * j <= 0)
      /\ d < 0 => (j > 0 => d * j < 0) /\ (j <= 0 => d * j >= 0)
  OBVIOUS
<1>5. /\ TopLeft([x |-> z, y |-> s], [x |-> z, y |-> t]) <=> s < t
      /\ TopLeft([x |-> s, y |-> z], [x |-> t, y |-> z]) <=> t < s
  BY DEF TopLeft
<1>6. PICK e \in Int, f \in Int : e = d * i /\ f = d * j
  OBVIOUS
<1> QED BY <1>1, <1>2, <1>3, <1>4, <1>5, <1>6 DEF Within

\* The two triangles of a cell share its pixels: those of the lower right half-open
\* rectangle that its corners span.
LEMMA CellIsShared ==
  ASSUME NEW x0 \in Int, NEW x1 \in Int, NEW y0 \in Int, NEW y1 \in Int, NEW p \in Pixels
  PROVE  LET V(x, y) == [x |-> x, y |-> y]
             one == Writes(<<V(x0, y0), V(x0, y1), V(x1, y1)>>, p)
             two == Writes(<<V(x0, y0), V(x1, y1), V(x1, y0)>>, p)
             c   == Center(p)
         IN  /\ one \/ two <=> /\ Least(x0, x1) < c.x /\ c.x <= Most(x0, x1)
                               /\ Least(y0, y1) < c.y /\ c.y <= Most(y0, y1)
             /\ ~(one /\ two)
<1> DEFINE V(x, y) == [x |-> x, y |-> y]
           one == Writes(<<V(x0, y0), V(x0, y1), V(x1, y1)>>, p)
           two == Writes(<<V(x0, y0), V(x1, y1), V(x1, y0)>>, p)
<1>1. PICK A \in Point, B \in Point, C \in Point, D \in Point :
        A = V(x0, y0) /\ B = V(x0, y1) /\ C = V(x1, y1) /\ D = V(x1, y0)
  BY DEF Point
<1>2. PICK c \in Point : c = Center(p)
  BY CentresAreInside
<1>3. c.x \in Int /\ c.y \in Int
  BY DEF Point
<1>4. PICK dx \in Int, dy \in Int, ux \in Int, uy \in Int :
        dx = x1 - x0 /\ dy = y1 - y0 /\ ux = c.x - x0 /\ uy = c.y - y0
  BY <1>3
<1>5. PICK area \in Int : area = dx * dy
  OBVIOUS
<1>6. Edge(A, B, C) = -area /\ Edge(A, C, D) = -area /\ Edge(A, C, B) = area /\ Edge(A, D, C) = area
  <2>1. /\ (x0 - x0) * (y1 - y0) - dy * dx = -area
        /\ dx * (y0 - y0) - dy * dx = -area
        /\ dx * dy - dy * (x0 - x0) = area
        /\ dx * dy - (y0 - y0) * dx = area
    BY <1>5
  <2> QED BY <1>1, <1>4, <2>1 DEF Edge
<1>7. PICK e \in Int : e = Edge(A, C, c) /\ e = dx * uy - dy * ux /\ Edge(C, A, c) = -e
  <2>1. Edge(A, C, c) = dx * uy - dy * ux
    BY <1>1, <1>4 DEF Edge
  <2> QED BY <2>1, EdgeReversed
<1>8. one = Writes(<<A, B, C>>, p) /\ two = Writes(<<A, C, D>>, p)
  BY <1>1
<1> HIDE DEF one, two, V
<1>9. ASSUME dx # 0, dy # 0
      PROVE  /\ Within(A, B, c) <=> IF y0 < y1 THEN c.x <= x0 ELSE c.x > x0
             /\ Within(B, A, c) <=> IF y1 < y0 THEN c.x <= x0 ELSE c.x > x0
             /\ Within(D, C, c) <=> IF y0 < y1 THEN c.x <= x1 ELSE c.x > x1
             /\ Within(C, D, c) <=> IF y1 < y0 THEN c.x <= x1 ELSE c.x > x1
             /\ Within(A, D, c) <=> IF x0 < x1 THEN c.y > y0 ELSE c.y <= y0
             /\ Within(D, A, c) <=> IF x1 < x0 THEN c.y > y0 ELSE c.y <= y0
             /\ Within(B, C, c) <=> IF x0 < x1 THEN c.y > y1 ELSE c.y <= y1
             /\ Within(C, B, c) <=> IF x1 < x0 THEN c.y > y1 ELSE c.y <= y1
  <2>1. x0 # x1 /\ y0 # y1
    BY <1>4, <1>9
  <2>2. ASSUME NEW z \in Int
        PROVE  /\ Within(V(z, y0), V(z, y1), c) <=> IF y0 < y1 THEN c.x <= z ELSE c.x > z
               /\ Within(V(z, y1), V(z, y0), c) <=> IF y1 < y0 THEN c.x <= z ELSE c.x > z
               /\ Within(V(x0, z), V(x1, z), c) <=> IF x0 < x1 THEN c.y > z ELSE c.y <= z
               /\ Within(V(x1, z), V(x0, z), c) <=> IF x1 < x0 THEN c.y > z ELSE c.y <= z
    BY <2>1, SideClaims DEF V
  <2> QED BY <1>1, <2>2
<1>10. CASE dx = 0 \/ dy = 0
  <2>1. area = 0 /\ -area = 0
    <3>1. area = 0
      BY <1>5, <1>10
    <3> QED BY <1>5, <3>1
  <2>2. Edge(A, B, C) = 0 /\ Edge(A, C, D) = 0
    BY <1>6, <2>1
  <2>3. Oriented(<<A, B, C>>) = <<A, B, C>> /\ Oriented(<<A, C, D>>) = <<A, C, D>>
    BY <2>2 DEF Oriented
  <2>4. ~one /\ ~two
    BY <1>8, <2>2, <2>3 DEF Writes
  <2>5. x0 = x1 \/ y0 = y1
    BY <1>4, <1>10
  <2> QED BY <1>2, <1>3, <2>4, <2>5 DEF Least, Most, one, two, V
<1>11. CASE dx < 0 /\ dy > 0
  <2>1. area < 0
    BY <1>5, <1>11
  <2>2. /\ one <=> Within(B, C, c) /\ Within(C, A, c) /\ Within(A, B, c)
        /\ two <=> Within(C, D, c) /\ Within(D, A, c) /\ Within(A, C, c)
    <3>1. Oriented(<<A, B, C>>) = <<A, B, C>> /\ Oriented(<<A, C, D>>) = <<A, C, D>>
      BY <1>6, <2>1 DEF Oriented
    <3> QED BY <1>2, <1>6, <1>8, <2>1, <3>1 DEF Writes
  <2>3. /\ Within(B, C, c) <=> c.y <= y1
        /\ Within(A, B, c) <=> c.x <= x0
        /\ Within(C, D, c) <=> c.x > x1
        /\ Within(D, A, c) <=> c.y > y0
    <3>1. dx # 0 /\ dy # 0 /\ ~(x0 < x1) /\ x1 < x0 /\ y0 < y1
      BY <1>4, <1>11
    <3> QED BY <1>9, <3>1
  <2>4. /\ Within(C, A, c) <=> e < 0
        /\ Within(A, C, c) <=> e >= 0
    <3>1. A.x = x0 /\ A.y = y0 /\ C.x = x1 /\ C.y = y1
      BY <1>1 DEF V
    <3> QED BY <1>4, <1>7, <1>11, <3>1 DEF Within, TopLeft
  <2>5. PICK m \in Nat \ {0}, n \in Nat \ {0}, i \in Int, j \in Int :
          m = -dx /\ n = dy /\ i = -ux /\ j = uy
    BY <1>11
  <2>6. PICK mj \in Int, ni \in Int : mj = m * j /\ ni = n * i /\ e = ni - mj
    BY <1>7, <2>5
  <2>7. /\ mj >= ni => /\ i >= 0 => j >= 0
                       /\ i > 0 => j > 0
                       /\ j <= n => i <= m
                       /\ j < n => i < m
        /\ mj > ni => /\ i >= 0 => j > 0
                      /\ j <= n => i < m
        /\ ni >= mj => /\ j >= 0 => i >= 0
                       /\ j > 0 => i > 0
                       /\ i <= m => j <= n
                       /\ i < m => j < n
        /\ ni > mj => /\ j >= 0 => i > 0
                      /\ i <= m => j < n
    BY <2>6, Slope
  <2>8. one <=> c.y <= y1 /\ c.x <= x0 /\ e < 0
    BY <2>2, <2>3, <2>4
  <2>9. two <=> c.x > x1 /\ c.y > y0 /\ e >= 0
    BY <2>2, <2>3, <2>4
  <2>10. /\ Least(x0, x1) < c.x /\ c.x <= Most(x0, x1) <=> c.x <= x0 /\ c.x > x1
         /\ Least(y0, y1) < c.y /\ c.y <= Most(y0, y1) <=> c.y > y0 /\ c.y <= y1
    BY <1>3, <1>4, <1>11 DEF Least, Most
  <2>11. /\ one => c.x > x1 /\ c.y > y0
         /\ two => c.x <= x0 /\ c.y <= y1
    <3>1. /\ c.x <= x0 <=> i >= 0
          /\ c.x > x1 <=> i < m
          /\ c.y > y0 <=> j > 0
          /\ c.y <= y1 <=> j <= n
      BY <1>3, <1>4, <2>5
    <3> QED BY <2>6, <2>7, <2>8, <2>9, <3>1
  <2> QED BY <1>2, <2>8, <2>9, <2>10, <2>11 DEF one, two, V
<1>12. CASE dx > 0 /\ dy < 0
  <2>1. area < 0
    BY <1>5, <1>12
  <2>2. /\ one <=> Within(B, C, c) /\ Within(C, A, c) /\ Within(A, B, c)
        /\ two <=> Within(C, D, c) /\ Within(D, A, c) /\ Within(A, C, c)
    <3>1. Oriented(<<A, B, C>>) = <<A, B, C>> /\ Oriented(<<A, C, D>>) = <<A, C, D>>
      BY <1>6, <2>1 DEF Oriented
    <3> QED BY <1>2, <1>6, <1>8, <2>1, <3>1 DEF Writes
  <2>3. /\ Within(B, C, c) <=> c.y > y1
        /\ Within(A, B, c) <=> c.x > x0
        /\ Within(C, D, c) <=> c.x <= x1
        /\ Within(D, A, c) <=> c.y <= y0
    <3>1. dx # 0 /\ dy # 0 /\ x0 < x1 /\ ~(y0 < y1) /\ y1 < y0
      BY <1>4, <1>12
    <3> QED BY <1>9, <3>1
  <2>4. /\ Within(C, A, c) <=> e <= 0
        /\ Within(A, C, c) <=> e > 0
    <3>1. A.x = x0 /\ A.y = y0 /\ C.x = x1 /\ C.y = y1
      BY <1>1 DEF V
    <3> QED BY <1>4, <1>7, <1>12, <3>1 DEF Within, TopLeft
  <2>5. PICK m \in Nat \ {0}, n \in Nat \ {0}, i \in Int, j \in Int :
          m = dx /\ n = -dy /\ i = ux /\ j = -uy
    BY <1>12
  <2>6. PICK mj \in Int, ni \in Int : mj = m * j /\ ni = n * i /\ e = ni - mj
    BY <1>7, <2>5
  <2>7. /\ mj >= ni => /\ i >= 0 => j >= 0
                       /\ i > 0 => j > 0
                       /\ j <= n => i <= m
                       /\ j < n => i < m
        /\ mj > ni => /\ i >= 0 => j > 0
                      /\ j <= n => i < m
        /\ ni >= mj => /\ j >= 0 => i >= 0
                       /\ j > 0 => i > 0
                       /\ i <= m => j <= n
                       /\ i < m => j < n
        /\ ni > mj => /\ j >= 0 => i > 0
                      /\ i <= m => j < n
    BY <2>6, Slope
  <2>8. one <=> c.y > y1 /\ c.x > x0 /\ e <= 0
    BY <2>2, <2>3, <2>4
  <2>9. two <=> c.x <= x1 /\ c.y <= y0 /\ e > 0
    BY <2>2, <2>3, <2>4
  <2>10. /\ Least(x0, x1) < c.x /\ c.x <= Most(x0, x1) <=> c.x > x0 /\ c.x <= x1
         /\ Least(y0, y1) < c.y /\ c.y <= Most(y0, y1) <=> c.y <= y0 /\ c.y > y1
    BY <1>3, <1>4, <1>12 DEF Least, Most
  <2>11. /\ one => c.x <= x1 /\ c.y <= y0
         /\ two => c.x > x0 /\ c.y > y1
    <3>1. /\ c.x > x0 <=> i > 0
          /\ c.x <= x1 <=> i <= m
          /\ c.y <= y0 <=> j >= 0
          /\ c.y > y1 <=> j < n
      BY <1>3, <1>4, <2>5
    <3> QED BY <2>6, <2>7, <2>8, <2>9, <3>1
  <2> QED BY <1>2, <2>8, <2>9, <2>10, <2>11 DEF one, two, V
<1>13. CASE dx > 0 /\ dy > 0
  <2>1. area > 0
    BY <1>5, <1>13
  <2>2. /\ one <=> Within(C, B, c) /\ Within(B, A, c) /\ Within(A, C, c)
        /\ two <=> Within(D, C, c) /\ Within(C, A, c) /\ Within(A, D, c)
    <3>1. Oriented(<<A, B, C>>) = <<A, C, B>> /\ Oriented(<<A, C, D>>) = <<A, D, C>>
      BY <1>6, <2>1 DEF Oriented
    <3> QED BY <1>2, <1>6, <1>8, <2>1, <3>1 DEF Writes
  <2>3. /\ Within(C, B, c) <=> c.y <= y1
        /\ Within(B, A, c) <=> c.x > x0
        /\ Within(D, C, c) <=> c.x <= x1
        /\ Within(A, D, c) <=> c.y > y0
    <3>1. dx # 0 /\ dy # 0 /\ x0 < x1 /\ y0 < y1
      BY <1>4, <1>13
    <3> QED BY <1>9, <3>1
  <2>4. /\ Within(A, C, c) <=> e >= 0
        /\ Within(C, A, c) <=> e < 0
    <3>1. A.x = x0 /\ A.y = y0 /\ C.x = x1 /\ C.y = y1
      BY <1>1 DEF V
    <3> QED BY <1>4, <1>7, <1>13, <3>1 DEF Within, TopLeft
  <2>5. PICK m \in Nat \ {0}, n \in Nat \ {0}, i \in Int, j \in Int :
          m = dx /\ n = dy /\ i = ux /\ j = uy
    BY <1>13
  <2>6. PICK mj \in Int, ni \in Int : mj = m * j /\ ni = n * i /\ e = mj - ni
    BY <1>7, <2>5
  <2>7. /\ mj >= ni => /\ i >= 0 => j >= 0
                       /\ i > 0 => j > 0
                       /\ j <= n => i <= m
                       /\ j < n => i < m
        /\ mj > ni => /\ i >= 0 => j > 0
                      /\ j <= n => i < m
        /\ ni >= mj => /\ j >= 0 => i >= 0
                       /\ j > 0 => i > 0
                       /\ i <= m => j <= n
                       /\ i < m => j < n
        /\ ni > mj => /\ j >= 0 => i > 0
                      /\ i <= m => j < n
    BY <2>6, Slope
  <2>8. one <=> c.y <= y1 /\ c.x > x0 /\ e >= 0
    BY <2>2, <2>3, <2>4
  <2>9. two <=> c.x <= x1 /\ c.y > y0 /\ e < 0
    BY <2>2, <2>3, <2>4
  <2>10. /\ Least(x0, x1) < c.x /\ c.x <= Most(x0, x1) <=> c.x > x0 /\ c.x <= x1
         /\ Least(y0, y1) < c.y /\ c.y <= Most(y0, y1) <=> c.y > y0 /\ c.y <= y1
    BY <1>3, <1>4, <1>13 DEF Least, Most
  <2>11. /\ one => c.x <= x1 /\ c.y > y0
         /\ two => c.x > x0 /\ c.y <= y1
    <3>1. /\ c.x > x0 <=> i > 0
          /\ c.x <= x1 <=> i <= m
          /\ c.y > y0 <=> j > 0
          /\ c.y <= y1 <=> j <= n
      BY <1>3, <1>4, <2>5
    <3> QED BY <2>6, <2>7, <2>8, <2>9, <3>1
  <2> QED BY <1>2, <2>8, <2>9, <2>10, <2>11 DEF one, two, V
<1>14. CASE dx < 0 /\ dy < 0
  <2>1. area > 0
    BY <1>5, <1>14
  <2>2. /\ one <=> Within(C, B, c) /\ Within(B, A, c) /\ Within(A, C, c)
        /\ two <=> Within(D, C, c) /\ Within(C, A, c) /\ Within(A, D, c)
    <3>1. Oriented(<<A, B, C>>) = <<A, C, B>> /\ Oriented(<<A, C, D>>) = <<A, D, C>>
      BY <1>6, <2>1 DEF Oriented
    <3> QED BY <1>2, <1>6, <1>8, <2>1, <3>1 DEF Writes
  <2>3. /\ Within(C, B, c) <=> c.y > y1
        /\ Within(B, A, c) <=> c.x <= x0
        /\ Within(D, C, c) <=> c.x > x1
        /\ Within(A, D, c) <=> c.y <= y0
    <3>1. dx # 0 /\ dy # 0 /\ ~(x0 < x1) /\ x1 < x0 /\ ~(y0 < y1) /\ y1 < y0
      BY <1>4, <1>14
    <3> QED BY <1>9, <3>1
  <2>4. /\ Within(A, C, c) <=> e > 0
        /\ Within(C, A, c) <=> e <= 0
    <3>1. A.x = x0 /\ A.y = y0 /\ C.x = x1 /\ C.y = y1
      BY <1>1 DEF V
    <3> QED BY <1>4, <1>7, <1>14, <3>1 DEF Within, TopLeft
  <2>5. PICK m \in Nat \ {0}, n \in Nat \ {0}, i \in Int, j \in Int :
          m = -dx /\ n = -dy /\ i = -ux /\ j = -uy
    BY <1>14
  <2>6. PICK mj \in Int, ni \in Int : mj = m * j /\ ni = n * i /\ e = mj - ni
    BY <1>7, <2>5
  <2>7. /\ mj >= ni => /\ i >= 0 => j >= 0
                       /\ i > 0 => j > 0
                       /\ j <= n => i <= m
                       /\ j < n => i < m
        /\ mj > ni => /\ i >= 0 => j > 0
                      /\ j <= n => i < m
        /\ ni >= mj => /\ j >= 0 => i >= 0
                       /\ j > 0 => i > 0
                       /\ i <= m => j <= n
                       /\ i < m => j < n
        /\ ni > mj => /\ j >= 0 => i > 0
                      /\ i <= m => j < n
    BY <2>6, Slope
  <2>8. one <=> c.y > y1 /\ c.x <= x0 /\ e > 0
    BY <2>2, <2>3, <2>4
  <2>9. two <=> c.x > x1 /\ c.y <= y0 /\ e <= 0
    BY <2>2, <2>3, <2>4
  <2>10. /\ Least(x0, x1) < c.x /\ c.x <= Most(x0, x1) <=> c.x <= x0 /\ c.x > x1
         /\ Least(y0, y1) < c.y /\ c.y <= Most(y0, y1) <=> c.y <= y0 /\ c.y > y1
    BY <1>3, <1>4, <1>14 DEF Least, Most
  <2>11. /\ one => c.x > x1 /\ c.y <= y0
         /\ two => c.x <= x0 /\ c.y > y1
    <3>1. /\ c.x <= x0 <=> i >= 0
          /\ c.x > x1 <=> i < m
          /\ c.y <= y0 <=> j >= 0
          /\ c.y > y1 <=> j < n
      BY <1>3, <1>4, <2>5
    <3> QED BY <2>6, <2>7, <2>8, <2>9, <3>1
  <2> QED BY <1>2, <2>8, <2>9, <2>10, <2>11 DEF one, two, V
<1> QED BY <1>10, <1>11, <1>12, <1>13, <1>14

LEMMA RectIsTyped ==
  ASSUME NEW r \in Rects
  PROVE  r.x \in Axis /\ r.y \in Axis /\ r.snap \in BOOLEAN
<1>1. Axes \subseteq Axis
  BY SplitAssumption DEF Axes, Axis
<1> QED BY <1>1 DEF Rects

\* The triangles of cell c of the rect, by what they share.
LEMMA CellIsDrawn ==
  ASSUME NEW r \in Rects, NEW i \in Int, NEW j \in Int, NEW p \in Pixels
  PROVE  LET t  == CellTris(r, <<i, j>>)
             nx == Cells(r.x, r.snap)   ny == Cells(r.y, r.snap)
         IN  /\ Writes(t[1], p) \/ Writes(t[2], p)
                  <=> /\ InCell(r.x, r.snap, i, nx, Center(p).x)
                      /\ InCell(r.y, r.snap, j, ny, Center(p).y)
             /\ ~(Writes(t[1], p) /\ Writes(t[2], p))
<1>1. r.x \in Axis /\ r.y \in Axis /\ r.snap \in BOOLEAN
  BY RectIsTyped
<1>2. PICK nx \in Nat \ {0}, ny \in Nat \ {0} :
        nx = Cells(r.x, r.snap) /\ ny = Cells(r.y, r.snap)
  BY <1>1, CellsSpan
<1>3. PICK x0 \in Int, x1 \in Int, y0 \in Int, y1 \in Int :
        /\ x0 = Wire(r.x, r.snap, i, nx) /\ x1 = Wire(r.x, r.snap, i + 1, nx)
        /\ y0 = Wire(r.y, r.snap, j, ny) /\ y1 = Wire(r.y, r.snap, j + 1, ny)
  <2>1. i + 1 \in Int /\ j + 1 \in Int
    OBVIOUS
  <2> QED BY <1>1, <2>1, WireIsWired
<1>4. PICK one, two :
        /\ one = <<[x |-> x0, y |-> y0], [x |-> x0, y |-> y1], [x |-> x1, y |-> y1]>>
        /\ two = <<[x |-> x0, y |-> y0], [x |-> x1, y |-> y1], [x |-> x1, y |-> y0]>>
        /\ CellTris(r, <<i, j>>) = <<one, two>>
  <2>1. i + 0 = i /\ j + 0 = j
    OBVIOUS
  <2> QED BY <1>2, <1>3, <2>1 DEF CellTris
<1>5. /\ InCell(r.x, r.snap, i, nx, Center(p).x)
           <=> Least(x0, x1) < Center(p).x /\ Center(p).x <= Most(x0, x1)
      /\ InCell(r.y, r.snap, j, ny, Center(p).y)
           <=> Least(y0, y1) < Center(p).y /\ Center(p).y <= Most(y0, y1)
  BY <1>3 DEF InCell
<1>6. /\ Writes(one, p) \/ Writes(two, p)
           <=> /\ Least(x0, x1) < Center(p).x /\ Center(p).x <= Most(x0, x1)
               /\ Least(y0, y1) < Center(p).y /\ Center(p).y <= Most(y0, y1)
      /\ ~(Writes(one, p) /\ Writes(two, p))
  BY <1>4, CellIsShared
<1>7. CellTris(r, <<i, j>>)[1] = one /\ CellTris(r, <<i, j>>)[2] = two
  BY <1>4
<1> QED BY <1>2, <1>5, <1>6, <1>7

\* What is drawn of a rect writes each pixel of it once, and no other.
LEMMA RectIsDrawn ==
  ASSUME NEW r \in Rects, NEW p \in Pixels
  PROVE  Cardinality({d \in Drawable(r) \X {1, 2} : Writes(CellTris(r, d[1])[d[2]], p)})
           = IF InSide(r.x, r.snap, Center(p).x) /\ InSide(r.y, r.snap, Center(p).y)
               THEN 1 ELSE 0
<1>1. r.x \in Axis /\ r.y \in Axis /\ r.snap \in BOOLEAN
  BY RectIsTyped
<1>2. PICK nx \in Nat \ {0}, ny \in Nat \ {0} :
        nx = Cells(r.x, r.snap) /\ ny = Cells(r.y, r.snap)
  BY <1>1, CellsSpan
<1>3. PICK cx \in Int, cy \in Int :
        /\ cx = Center(p).x /\ 0 < cx /\ cx < W * One
        /\ cy = Center(p).y /\ 0 < cy /\ cy < H * One
  BY CentresAreInside DEF Point
<1>4. PICK Drawers : Drawers = {d \in Drawable(r) \X {1, 2} : Writes(CellTris(r, d[1])[d[2]], p)}
  OBVIOUS
<1>5. ASSUME NEW i \in 0 .. nx - 1, NEW j \in 0 .. ny - 1,
             InCell(r.x, r.snap, i, nx, cx), InCell(r.y, r.snap, j, ny, cy)
      PROVE  <<i, j>> \in Drawable(r)
  <2>1. ~OffScreen(r.x, r.snap, i, nx, W) /\ ~OffScreen(r.y, r.snap, j, ny, H)
    <3>1. W \in Nat /\ H \in Nat
      BY CoverAssumption
    <3> QED BY <1>1, <1>3, <1>5, <3>1, OffScreenIsEmpty
  <2> QED BY <1>2, <2>1 DEF Drawable
<1>6. ASSUME NEW d \in Drawers
      PROVE  \E i \in 0 .. nx - 1, j \in 0 .. ny - 1 :
               /\ d[1] = <<i, j>> /\ d[2] \in {1, 2} /\ d = <<d[1], d[2]>>
               /\ Writes(CellTris(r, <<i, j>>)[d[2]], p)
               /\ InCell(r.x, r.snap, i, nx, cx) /\ InCell(r.y, r.snap, j, ny, cy)
  <2>1. d \in Drawable(r) \X {1, 2} /\ Writes(CellTris(r, d[1])[d[2]], p)
    BY <1>4
  <2>2. d[1] \in (0 .. nx - 1) \X (0 .. ny - 1)
    BY <1>2, <2>1 DEF Drawable
  <2>3. PICK i \in 0 .. nx - 1, j \in 0 .. ny - 1 : d[1] = <<i, j>>
    BY <2>2
  <2>4. Writes(CellTris(r, <<i, j>>)[1], p) \/ Writes(CellTris(r, <<i, j>>)[2], p)
    BY <2>1, <2>3
  <2>5. InCell(r.x, r.snap, i, nx, cx) /\ InCell(r.y, r.snap, j, ny, cy)
    BY <1>2, <1>3, <2>4, CellIsDrawn
  <2> QED BY <2>1, <2>3, <2>5
<1>7. CASE InSide(r.x, r.snap, cx) /\ InSide(r.y, r.snap, cy)
  <2>1. PICK i \in 0 .. nx - 1 : InCell(r.x, r.snap, i, nx, cx)
    BY <1>1, <1>7, OneCellHasIt
  <2>2. PICK j \in 0 .. ny - 1 : InCell(r.y, r.snap, j, ny, cy)
    BY <1>1, <1>7, OneCellHasIt
  <2>3. PICK k \in {1, 2} : /\ Writes(CellTris(r, <<i, j>>)[k], p)
                            /\ \A l \in {1, 2} : Writes(CellTris(r, <<i, j>>)[l], p) => l = k
    <3>1. /\ Writes(CellTris(r, <<i, j>>)[1], p) \/ Writes(CellTris(r, <<i, j>>)[2], p)
          /\ ~(Writes(CellTris(r, <<i, j>>)[1], p) /\ Writes(CellTris(r, <<i, j>>)[2], p))
      BY <1>2, <1>3, <2>1, <2>2, CellIsDrawn
    <3> QED BY <3>1
  <2>4. <<<<i, j>>, k>> \in Drawers
    <3>1. <<i, j>> \in Drawable(r)
      BY <1>5, <2>1, <2>2
    <3> QED BY <1>4, <2>3, <3>1
  <2>5. ASSUME NEW d \in Drawers PROVE d = <<<<i, j>>, k>>
    <3>1. PICK m \in 0 .. nx - 1, l \in 0 .. ny - 1 :
            /\ d[1] = <<m, l>> /\ d[2] \in {1, 2} /\ d = <<d[1], d[2]>>
            /\ Writes(CellTris(r, <<m, l>>)[d[2]], p)
            /\ InCell(r.x, r.snap, m, nx, cx) /\ InCell(r.y, r.snap, l, ny, cy)
      BY <1>6
    <3>2. m = i /\ l = j
      BY <1>1, <2>1, <2>2, <3>1, OneCellHasIt
    <3>3. d[2] = k
      BY <2>3, <3>1, <3>2
    <3> QED BY <3>1, <3>2, <3>3
  <2>6. Drawers = {<<<<i, j>>, k>>}
    BY <2>4, <2>5
  <2> QED BY <1>3, <1>4, <1>7, <2>6, FS_Singleton
<1>8. CASE ~(InSide(r.x, r.snap, cx) /\ InSide(r.y, r.snap, cy))
  <2>1. ASSUME NEW d \in Drawers PROVE FALSE
    <3>1. PICK m \in 0 .. nx - 1, l \in 0 .. ny - 1 :
            InCell(r.x, r.snap, m, nx, cx) /\ InCell(r.y, r.snap, l, ny, cy)
      BY <1>6
    <3> QED BY <1>1, <1>8, <3>1, OneCellHasIt
  <2>2. Drawers = {}
    BY <2>1
  <2> QED BY <1>3, <1>4, <1>8, <2>2, FS_EmptySet
<1> QED BY <1>7, <1>8

LEMMA AreaIsBounded ==
  ASSUME NEW m \in Nat, NEW i \in Int, NEW j \in Int, -m <= i, i <= m, -m <= j, j <= m
  PROVE  i * j <= m * m /\ -(i * j) <= m * m
<1>1. ASSUME NEW x \in Nat, NEW y \in Nat, x <= m, y <= m
      PROVE  x * y <= m * m
  <2>1. PICK u \in Nat, v \in Nat : m = x + u /\ m = y + v
    <3>1. m - x \in Nat /\ m - y \in Nat /\ m = x + (m - x) /\ m = y + (m - y)
      BY <1>1
    <3> QED BY <3>1
  <2>2. m * m = x * y + x * v + u * m
    <3>1. m * m = (x + u) * m /\ (x + u) * m = x * m + u * m
      BY <2>1
    <3>2. x * m = x * (y + v) /\ x * (y + v) = x * y + x * v
      BY <2>1
    <3> QED BY <3>1, <3>2
  <2>3. x * v >= 0 /\ u * m >= 0 /\ x * v \in Int /\ u * m \in Int /\ x * y \in Int
    OBVIOUS
  <2> QED BY <2>2, <2>3
<1>2. m * m \in Nat
  OBVIOUS
<1>3. CASE i >= 0 /\ j >= 0
  <2>1. i * j <= m * m /\ i * j >= 0 /\ i * j \in Int
    BY <1>1, <1>3
  <2> QED BY <1>2, <2>1
<1>4. CASE i < 0 /\ j < 0
  <2>1. (-i) * (-j) <= m * m
    BY <1>1, <1>4
  <2>2. (-i) * (-j) = i * j /\ i * j >= 0 /\ i * j \in Int
    BY <1>4
  <2> QED BY <1>2, <2>1, <2>2
<1>5. CASE i >= 0 /\ j < 0
  <2>1. i * (-j) <= m * m
    BY <1>1, <1>5
  <2>2. i * (-j) = -(i * j) /\ i * j <= 0 /\ i * j \in Int
    BY <1>5
  <2> QED BY <1>2, <2>1, <2>2
<1>6. CASE i < 0 /\ j >= 0
  <2>1. (-i) * j <= m * m
    BY <1>1, <1>6
  <2>2. (-i) * j = -(i * j) /\ i * j <= 0 /\ i * j \in Int
    BY <1>6
  <2> QED BY <1>2, <2>1, <2>2
<1> QED BY <1>3, <1>4, <1>5, <1>6

\* No triangle of a rect that is not capped is larger than a cell and a pixel.
LEMMA TrianglesAreSmall ==
  ASSUME NEW r \in Rects, ~Capped(r.x, r.snap), ~Capped(r.y, r.snap),
         NEW c \in Drawable(r), NEW k \in {1, 2}
  PROVE  LET t    == Oriented(CellTris(r, c)[k])
             side == (SplitCell + 1) * One
         IN  Edge(t[1], t[2], t[3]) <= side * side
<1>1. r.x \in Axis /\ r.y \in Axis /\ r.snap \in BOOLEAN
  BY RectIsTyped
<1>2. PICK nx \in Nat \ {0}, ny \in Nat \ {0} :
        nx = Cells(r.x, r.snap) /\ ny = Cells(r.y, r.snap)
  BY <1>1, CellsSpan
<1>3. PICK i \in Int, j \in Int : c = <<i, j>>
  <2>1. c \in (0 .. nx - 1) \X (0 .. ny - 1)
    BY <1>2 DEF Drawable
  <2> QED BY <2>1
<1>4. PICK side \in Nat : side = (SplitCell + 1) * One
  <2>1. \A m, n \in Nat : (m + 1) * n \in Nat
    OBVIOUS
  <2> QED BY <2>1, SplitAssumption, CoverAssumption
<1>5. PICK x0 \in Int, x1 \in Int, y0 \in Int, y1 \in Int :
        /\ x0 = Wire(r.x, r.snap, i, nx) /\ x1 = Wire(r.x, r.snap, i + 1, nx)
        /\ y0 = Wire(r.y, r.snap, j, ny) /\ y1 = Wire(r.y, r.snap, j + 1, ny)
        /\ x0 - x1 <= side /\ x1 - x0 <= side /\ y0 - y1 <= side /\ y1 - y0 <= side
  <2>1. /\ Wire(r.x, r.snap, i, nx) \in Int /\ Wire(r.x, r.snap, i + 1, nx) \in Int
        /\ Wire(r.x, r.snap, i, nx) - Wire(r.x, r.snap, i + 1, nx) <= side
        /\ Wire(r.x, r.snap, i + 1, nx) - Wire(r.x, r.snap, i, nx) <= side
    BY <1>1, <1>2, <1>4, CellIsSmall
  <2>2. /\ Wire(r.y, r.snap, j, ny) \in Int /\ Wire(r.y, r.snap, j + 1, ny) \in Int
        /\ Wire(r.y, r.snap, j, ny) - Wire(r.y, r.snap, j + 1, ny) <= side
        /\ Wire(r.y, r.snap, j + 1, ny) - Wire(r.y, r.snap, j, ny) <= side
    BY <1>1, <1>2, <1>4, CellIsSmall
  <2>3. PICK x0 \in Int, x1 \in Int :
          x0 = Wire(r.x, r.snap, i, nx) /\ x1 = Wire(r.x, r.snap, i + 1, nx)
    BY <2>1
  <2>4. PICK y0 \in Int, y1 \in Int :
          y0 = Wire(r.y, r.snap, j, ny) /\ y1 = Wire(r.y, r.snap, j + 1, ny)
    BY <2>2
  <2>5. x0 - x1 <= side /\ x1 - x0 <= side /\ y0 - y1 <= side /\ y1 - y0 <= side
    BY <2>1, <2>2, <2>3, <2>4
  <2> QED BY <2>3, <2>4, <2>5
<1>6. PICK A \in Point, B \in Point, C \in Point, D \in Point :
        /\ A = [x |-> x0, y |-> y0] /\ B = [x |-> x0, y |-> y1]
        /\ C = [x |-> x1, y |-> y1] /\ D = [x |-> x1, y |-> y0]
  BY DEF Point
<1>7. CellTris(r, c) = <<<<A, B, C>>, <<A, C, D>>>>
  <2>1. i + 0 = i /\ j + 0 = j
    OBVIOUS
  <2>2. CellTris(r, <<i, j>>) = <<<<A, B, C>>, <<A, C, D>>>>
    BY <1>2, <1>5, <1>6, <2>1 DEF CellTris
  <2> QED BY <1>3, <2>2
<1>8. PICK area \in Int, bound \in Int :
        /\ area = (x1 - x0) * (y1 - y0) /\ bound = side * side
        /\ area <= bound /\ -area <= bound
  <2>1. PICK dx \in Int, dy \in Int : dx = x1 - x0 /\ dy = y1 - y0
    OBVIOUS
  <2>2. dx * dy <= side * side /\ -(dx * dy) <= side * side
    BY <1>5, <2>1, AreaIsBounded
  <2> QED BY <2>1, <2>2
<1>9. Edge(A, B, C) = -area /\ Edge(A, C, D) = -area /\ Edge(A, C, B) = area /\ Edge(A, D, C) = area
  <2>1. PICK dx \in Int, dy \in Int : dx = x1 - x0 /\ dy = y1 - y0 /\ area = dx * dy
    BY <1>8
  <2>2. /\ (x0 - x0) * dy - dy * dx = -area
        /\ dx * (y0 - y0) - dy * dx = -area
        /\ dx * dy - dy * (x0 - x0) = area
        /\ dx * dy - (y0 - y0) * dx = area
    BY <2>1
  <2> QED BY <1>6, <2>1, <2>2 DEF Edge
<1>10. ASSUME NEW u \in Point, NEW v \in Point, NEW w \in Point,
              Edge(u, v, w) <= bound, Edge(u, w, v) <= bound
       PROVE  LET t == Oriented(<<u, v, w>>) IN Edge(t[1], t[2], t[3]) <= bound
  BY <1>10 DEF Oriented
<1>11. CASE k = 1
  <2>1. CellTris(r, c)[k] = <<A, B, C>>
    BY <1>7, <1>11
  <2> QED BY <1>4, <1>8, <1>9, <1>10, <2>1
<1>12. CASE k = 2
  <2>1. CellTris(r, c)[k] = <<A, C, D>>
    BY <1>7, <1>12
  <2> QED BY <1>4, <1>8, <1>9, <1>10, <2>1
<1> QED BY <1>11, <1>12

\* Once a rect is drawn, what the pixels were hit by is it and nothing else.
RectDrawn ==
  rect # NoRect =>
    /\ rect \in Rects
    /\ hits = [p \in Pixels |->
         Cardinality({d \in Drawable(rect) \X {1, 2} : Writes(CellTris(rect, d[1])[d[2]], p)})]

\* "split it into cells of at most SPLIT_CELL_PX on screen and drop cells wholly
\* off-screen" (emit_rect): however a rect is cut, mirrored, snapped and rounded, it
\* writes the pixels of the whole rect, each once, in triangles the blitter can set up.
\* For every size of target and of cells, every scale, and every rect.
THEOREM RectsAreDrawnWhole == SplitSpec => []SplitDrawsTheRect
<1>1. SplitInit => RectDrawn
  BY DEF SplitInit, RectDrawn
<1>2. RectDrawn /\ [SplitNext]_splitVars => RectDrawn'
  <2> SUFFICES ASSUME RectDrawn, [SplitNext]_splitVars, rect' # NoRect PROVE RectDrawn'
    BY DEF RectDrawn
  <2>1. CASE UNCHANGED splitVars
    BY <2>1 DEF splitVars, RectDrawn
  <2>2. CASE SplitNext
    <3>1. PICK r \in Rects : EmitRect(r)
      BY <2>2 DEF SplitNext
    <3> QED BY <3>1 DEF EmitRect, RectDrawn
  <2> QED BY <2>1, <2>2
<1>3. RectDrawn => SplitDrawsTheRect
  <2> SUFFICES ASSUME RectDrawn, rect # NoRect
               PROVE  /\ \A p \in Pixels :
                           hits[p] = IF /\ InSide(rect.x, rect.snap, Center(p).x)
                                        /\ InSide(rect.y, rect.snap, Center(p).y)
                                       THEN 1 ELSE 0
                      /\ ~Capped(rect.x, rect.snap) /\ ~Capped(rect.y, rect.snap) =>
                           \A c \in Drawable(rect), k \in {1, 2} :
                             LET t    == Oriented(CellTris(rect, c)[k])
                                 side == (SplitCell + 1) * One
                             IN  Edge(t[1], t[2], t[3]) <= side * side
    BY DEF SplitDrawsTheRect
  <2>1. PICK r \in Rects :
          /\ r = rect
          /\ hits = [p \in Pixels |->
               Cardinality({d \in Drawable(r) \X {1, 2} : Writes(CellTris(r, d[1])[d[2]], p)})]
    BY DEF RectDrawn
  <2>2. \A p \in Pixels :
          hits[p] = IF InSide(r.x, r.snap, Center(p).x) /\ InSide(r.y, r.snap, Center(p).y)
                      THEN 1 ELSE 0
    BY <2>1, RectIsDrawn
  <2> QED BY <2>1, <2>2, TrianglesAreSmall
<1> QED BY <1>1, <1>2, <1>3, PTL DEF SplitSpec

=============================================================================
