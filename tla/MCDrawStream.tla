---------------------------- MODULE MCDrawStream ----------------------------
(* The draw stream on a handful of draws that differ in what each rewrite  *)
(* looks at: page, blend, coverage, target and what is sampled; and the    *)
(* engine's bridge above it, with the textures the draws name.  A          *)
(* behaviour runs one of the two.                                          *)
EXTENDS DrawStream, FabricBridge

Sprite(dst, page, bl) ==
  [dst |-> dst, src |-> page, full |-> FALSE, keyed |-> FALSE, opaque |-> TRUE, bl |-> bl]
Full(dst, page, keyed, bl) ==
  [dst |-> dst, src |-> page, full |-> TRUE, keyed |-> keyed, opaque |-> TRUE, bl |-> bl]
Composite(opaque) ==
  [dst |-> "work", src |-> "appsurf", full |-> TRUE, keyed |-> FALSE,
   opaque |-> opaque, bl |-> "alpha"]

SceneDraws ==
  {Sprite("appsurf", "p", "alpha"), Sprite("appsurf", "q", "alpha"),
   Full("appsurf", "p", FALSE, "alpha"), Full("appsurf", "p", TRUE, "alpha"),
   Sprite("work", "p", "add"), Composite(TRUE), Composite(FALSE)}

\* A game that draws to the screen only, as this port does.
ScreenDraws ==
  {Sprite("work", "p", "alpha"), Sprite("work", "q", "alpha"), Sprite("work", "p", "add"),
   Full("work", "p", FALSE, "alpha"), Full("work", "p", TRUE, "alpha"),
   Full("work", "q", FALSE, "add")}

GameDraws == SceneDraws \union ScreenDraws

VARIABLE level      \* which runs: "stream" | "bridge"

drawVars == <<level, vars, bridgeVars>>

DrawInit == level \in {"stream", "bridge"} /\ Init /\ BridgeInit

DrawNext ==
  /\ UNCHANGED level
  /\ \/ level = "stream" /\ Next       /\ UNCHANGED bridgeVars
     \/ level = "bridge" /\ BridgeNext /\ UNCHANGED vars

DrawSpec == DrawInit /\ [][DrawNext]_drawVars
=============================================================================
