----------------------------- MODULE MCTriCover -----------------------------
(* Two triangles, or a rect cut into cells, over a target of a few pixels.  *)
EXTENDS RectSplit

At(xs, ys) == [x : xs, y : ys]

\* A 2 x 2 target with two units to a pixel: its corners, exactly or overhanging it on
\* the left, and points on the centres of its pixels.
QuadPoints == At({0, 4}, {0, 4}) \union At({1}, {0, 1}) \union At({4}, {1}) \union At({-3}, {0, 4})

\* The corners of a 3 x 3 target, and points far to the right of two of them.
LoosePoints == At({0, 6, 18}, {0, 6})

\* Sides that end on, just before and just behind the edges of the target, within it and
\* far off; of one cell, of some, and of more than are cut.
RectSides == [lo : {-13, -3, 0, 1, 6}, len : {1, 4, 5, 9, 15, 27}]
=============================================================================
