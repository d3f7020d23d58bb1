---------------------------- MODULE FabricBridge ----------------------------
(***************************************************************************)
(* The textures of mister_fabric_bridge.cpp from GL to the screen: GL names *)
(* with the image uploaded last, the bridge's copies of it (plain, and the *)
(* white flash variant made on first use), the backend's staged copies by  *)
(* key, and the draws of a frame, of which the backend skips one that      *)
(* repeats the draw before it.  Also who clears: a SubViewport and the     *)
(* root viewport draw on one surface, one after the other, and the         *)
(* composite of the first on the second is not drawn at all.               *)
(*                                                                         *)
(* A texture is drawn at a place of its own, and an image stands for its   *)
(* size too.  Frames that overflow, untextured draws (of one constant      *)
(* texel), copied polygons and the splitting of a large rect are left out. *)
(***************************************************************************)
CONSTANTS
  Names,    \* GL texture names
  Images,   \* what can be uploaded
  Packed,   \* the images among them that the bridge cannot read: compressed
  NoImage   \* nothing

ASSUME BridgeAssumption == NoImage \notin Images \union Names /\ Packed \subseteq Images

VARIABLES
  gl,         \* the image GL holds under a name
  textures,   \* textures: TexEntry.rgba and TexEntry.white
  texcache,   \* g_texcache: the copy staged under a key
  view,       \* who draws: "between" frames, "sub", or "root", at first "over" the sub
  cleared,    \* cleared_this_frame
  lostFrame,  \* g_frame_dropped
  lastDraw,   \* g_last_draw: the key drawn, or NoKey
  surface,    \* what the WORK surface shows where a texture is drawn
  asked       \* history: what was drawn there since the frame began, by GL's book

pixels     == <<surface, asked>>
bridgeVars == <<gl, textures, texcache, view, cleared, lostFrame, lastDraw, pixels>>

\* A key is a name with or without FLASH_BIT.
Keys == [name : Names, flash : BOOLEAN]
TexKey(n, f) == [name |-> n, flash |-> f]

NoKey == [name |-> NoImage, flash |-> FALSE]

Look(f, image) == [flash |-> f, image |-> image]
Blank == [n \in Names |-> Look(FALSE, NoImage)]

BridgeInit ==
  /\ gl = [n \in Names |-> NoImage]
  /\ textures = [n \in Names |-> [rgba |-> NoImage, white |-> NoImage]]
  /\ texcache = [k \in Keys |-> NoImage]
  /\ view = "between" /\ cleared = FALSE /\ lostFrame = FALSE /\ lastDraw = NoKey
  /\ surface = Blank /\ asked = Blank

-----------------------------------------------------------------------------
(* Uploads and deletions, between frames.                                  *)

\* Both variants of the name.
Invalidated(n) == {TexKey(n, FALSE), TexKey(n, TRUE)}

InvalidateTex(n) ==
  texcache' = [k \in Keys |-> IF k \in Invalidated(n) THEN NoImage ELSE texcache[k]]

\* A mutant: the white variant of the image before stays.
KeepsWhite(n, image) == [rgba |-> image, white |-> textures[n].white]
Entry(n, image) == [rgba |-> image, white |-> NoImage]

\* A compressed image reaches GL alone: the copies of the one before it stay.
TextureSet(n, image) ==
  /\ view = "between"
  /\ gl' = [gl EXCEPT ![n] = image]
  /\ \/ image \in Packed /\ UNCHANGED <<textures, texcache>>
     \/ /\ image \notin Packed
        /\ textures' = [textures EXCEPT ![n] = Entry(n, image)]
        /\ InvalidateTex(n)
  /\ UNCHANGED <<view, cleared, lostFrame, lastDraw, pixels>>

\* The name may be given to another texture.
TextureFree(n) ==
  /\ view = "between" /\ gl[n] # NoImage
  /\ gl' = [gl EXCEPT ![n] = NoImage]
  /\ textures' = [textures EXCEPT ![n] = [rgba |-> NoImage, white |-> NoImage]]
  /\ InvalidateTex(n)
  /\ UNCHANGED <<view, cleared, lostFrame, lastDraw, pixels>>

\* Room is made for another upload of the backend.
Evict(k) ==
  /\ texcache[k] # NoImage
  /\ texcache' = [texcache EXCEPT ![k] = NoImage]
  /\ UNCHANGED <<gl, textures, view, cleared, lostFrame, lastDraw, pixels>>

-----------------------------------------------------------------------------
(* A frame.                                                                *)

\* target_clear: both viewports ask, the first is served.
Clears == ~cleared

ViewportBegins(v) ==
  /\ view \in (IF v = "sub" THEN {"between"} ELSE {"between", "sub"})
  /\ view' = IF view = "sub" THEN "over" ELSE v
  /\ cleared' = TRUE
  /\ IF Clears /\ ~lostFrame
       THEN surface' = Blank /\ lastDraw' = NoKey ELSE UNCHANGED <<surface, lastDraw>>
  /\ asked' = IF view = "between" /\ ~lostFrame THEN Blank ELSE asked
  /\ UNCHANGED <<gl, textures, texcache, lostFrame>>

\* The root viewport's draw of the SubViewport's output, which fills it and which this
\* game issues first: GL goes on from the picture that is on the surface already, and
\* resolve_source leaves it at that (render_target).
CompositeSkipped ==
  /\ view = "over" /\ view' = "root"
  /\ UNCHANGED <<gl, textures, texcache, cleared, lostFrame, lastDraw, pixels>>

\* resolve_source: a flashing draw makes the white variant if there is none.
Picked(n, f) ==
  IF f /\ textures[n].white # NoImage THEN textures[n].white ELSE textures[n].rgba

Drawable(n) == view \in {"sub", "root"} /\ gl[n] # NoImage

Resolved(n, f) ==
  /\ Drawable(n) /\ textures[n].rgba # NoImage
  /\ textures' = IF f THEN [textures EXCEPT ![n].white = Picked(n, TRUE)] ELSE textures

Asks(n, f) == asked' = [asked EXCEPT ![n] = Look(f, gl[n])]

\* A texture the bridge never saw uploaded: nothing to draw.
DrawMissing(n, f) ==
  /\ Drawable(n) /\ textures[n].rgba = NoImage
  /\ IF lostFrame THEN UNCHANGED asked ELSE Asks(n, f)
  /\ UNCHANGED <<gl, textures, texcache, view, cleared, lostFrame, lastDraw, surface>>

\* A premultiplied blend (MF_BLEND_PREMULT, "unsupported on the fabric: dropped" in
\* mister_fabric.h): not part of what is asked, but it ends a run of repeated draws.
DrawUnsupported(n, f) ==
  /\ Resolved(n, f) /\ ~lostFrame
  /\ lastDraw' = NoKey
  /\ UNCHANGED <<gl, texcache, view, cleared, lostFrame, pixels>>

\* The backend emits nothing into a dropped frame.
DrawLost(n, f) ==
  /\ Resolved(n, f) /\ lostFrame
  /\ UNCHANGED <<gl, texcache, view, cleared, lostFrame, lastDraw, pixels>>

\* The same as the draw before it, and drawing it again changes no pixel.
DrawElided(n, f) ==
  /\ Resolved(n, f) /\ ~lostFrame /\ lastDraw = TexKey(n, f)
  /\ Asks(n, f)
  /\ UNCHANGED <<gl, texcache, view, cleared, lostFrame, lastDraw, surface>>

\* The copy staged under the key, or one staged now.
Sampled(n, f) ==
  IF texcache[TexKey(n, f)] # NoImage THEN texcache[TexKey(n, f)] ELSE Picked(n, f)

Emitted(n, f) ==
  /\ Resolved(n, f) /\ ~lostFrame
  /\ texcache' = [texcache EXCEPT ![TexKey(n, f)] = Sampled(n, f)]
  /\ surface' = [surface EXCEPT ![n] = Look(f, Sampled(n, f))]
  /\ Asks(n, f)
  /\ UNCHANGED <<gl, view, cleared, lostFrame>>

DrawEmitted(n, f) ==
  /\ lastDraw # TexKey(n, f)
  /\ Emitted(n, f) /\ lastDraw' = TexKey(n, f)

\* A draw that is not idempotent, or too long to be compared.
DrawBlended(n, f) == Emitted(n, f) /\ lastDraw' = NoKey

\* present(), which begins the next frame; it may have to drop it.
BridgePresent ==
  /\ view = "root"
  /\ view' = "between" /\ cleared' = FALSE
  /\ lostFrame' \in BOOLEAN
  /\ lastDraw' = IF lostFrame' THEN lastDraw ELSE NoKey
  /\ UNCHANGED <<gl, textures, texcache, pixels>>

BridgeNext ==
  \/ \E n \in Names : TextureFree(n) \/ \E i \in Images : TextureSet(n, i)
  \/ \E k \in Keys : Evict(k)
  \/ \E v \in {"sub", "root"} : ViewportBegins(v)
  \/ CompositeSkipped
  \/ \E n \in Names, f \in BOOLEAN :
       \/ DrawMissing(n, f) \/ DrawUnsupported(n, f)
       \/ DrawLost(n, f) \/ DrawElided(n, f) \/ DrawEmitted(n, f) \/ DrawBlended(n, f)
  \/ BridgePresent

BridgeSpec == BridgeInit /\ [][BridgeNext]_bridgeVars

-----------------------------------------------------------------------------
(* Properties.                                                             *)

BridgeTypeOK ==
  /\ gl \in [Names -> Images \union {NoImage}]
  /\ textures \in [Names -> [rgba : Images \union {NoImage}, white : Images \union {NoImage}]]
  /\ texcache \in [Keys -> Images \union {NoImage}]
  /\ view \in {"between", "sub", "over", "root"} /\ cleared \in BOOLEAN /\ lostFrame \in BOOLEAN
  /\ lastDraw \in Keys \union {NoKey}
  /\ surface \in [Names -> [flash : BOOLEAN, image : Images \union {NoImage}]]
  /\ asked \in [Names -> [flash : BOOLEAN, image : Images \union {NoImage}]]

\* Through the bridge's copy, the staged copy and the elision of repeated draws, the
\* surface shows what GL would: every texture with the image uploaded last, white where it
\* flashes, and what the SubViewport drew is still there after the root viewport.  Only
\* where GL shows an image that the bridge cannot read, it may be another or none.
\* (RasterBackend_MFGPU_InvalidateTex: "so the cache never diverges from SW".)
SurfaceShowsWhatGLWould ==
  BridgeTypeOK /\ \A n \in Names : asked[n].image \notin Packed => surface[n] = asked[n]

=============================================================================
