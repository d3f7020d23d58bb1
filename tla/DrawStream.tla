----------------------------- MODULE DrawStream -----------------------------
(***************************************************************************)
(* The draw stream of one backend_mfgpu frame after another: what the game *)
(* draws, against what the command ring makes the fabric paint.            *)
(*                                                                         *)
(* Between the two stand four rewrites: runs of draws in one state are     *)
(* merged into one TRILIST (g_batch), full clears are deferred until a     *)
(* draw shows whether they can be seen (g_pc), render targets are selected *)
(* only on a change (g_cur_target), and an idempotent draw repeated at     *)
(* once is elided (g_last_draw).  None may change a pixel.                 *)
(*                                                                         *)
(* A draw is one group (mf_draw emits one group per sprite quad, in        *)
(* order), textures do not change within a frame, and only frames whose    *)
(* commands fit are modelled: an emitter failure drops the whole frame.    *)
(***************************************************************************)
EXTENDS Naturals, Sequences, SequencesExt

CONSTANTS
  Draws,      \* the draws the game may issue: see Draw
  Colors,     \* clear colours
  Overlay,    \* the layer the FPS overlay's fills paint
  DeferClear, \* mf_defer_clear_on()
  BatchOn,    \* mf_batch_on()
  PartialClears, \* a surface smaller than the framebuffer may be cleared too
  BatchMax,   \* groups a merged command may hold (MF_BATCH_MAX_TRIS)
  MaxOps      \* bound: operations of the game in a run

Targets == {"work", "appsurf"}   \* MF_TARGET_WORK and MF_TARGET_APPSURF

\* dst: the target; src: a texture page, or "appsurf" for BLT_F_SRC_SURFACE; full:
\* the quad is a cover in the sense of mf_pc_is_cover; keyed, opaque: the staged
\* region has the colorkey, every vertex alpha is 1; bl: the engine's blend.
Draw == [dst : Targets, src : STRING, full : BOOLEAN, keyed : BOOLEAN,
         opaque : BOOLEAN, bl : {"none", "alpha", "add"}]

\* In g_pc: no clear is deferred.
NoClear == "no clear"

ASSUME StreamAssumption ==
  /\ Draws \subseteq Draw
  /\ NoClear \notin Colors
  /\ Overlay \notin Colors /\ \A d \in Draws : d.src \notin Colors \union {Overlay}
  /\ \A d \in Draws : /\ d.src = "appsurf" => d.dst = "work" /\ ~d.keyed
                      /\ d.src # "work"
  /\ DeferClear \in BOOLEAN /\ BatchOn \in BOOLEAN
  /\ PartialClears \in BOOLEAN
  /\ BatchMax \in Nat \ {0} /\ MaxOps \in Nat

VARIABLES
  open,      \* g_frame_active
  em,        \* the emitter: ring, vtx, and the state in front of them
  last,      \* g_last_draw
  intended,  \* history: the surfaces, had every operation been painted at once
  shown,     \* the surfaces the fabric has painted
  ops        \* operations so far

vars == <<open, em, last, intended, shown, ops>>

NoBatch == [key |-> <<>>, base |-> 0, n |-> 0]
NoDraw  == [dst |-> "none"]

-----------------------------------------------------------------------------
(* What the fabric paints.  A surface is the sequence of layers that can   *)
(* still be seen in it: an opaque full one hides everything below.         *)

Hides(layer)   == layer.full /\ layer.blend = "copy"
Settled(layer) == layer.blend \in {"copy", "colorkey"}  \* twice is the same as once

\* A layer over itself, or a fill over a full fill of its colour, cannot be seen.
Absorbs(top, layer) ==
  Settled(layer) /\ \/ top = layer
                    \/ layer.what \in Colors /\ top = [layer EXCEPT !.full = TRUE]

Paint(surface, layer) ==
  IF Hides(layer) THEN <<layer>>
  ELSE IF surface # <<>> /\ Absorbs(Last(surface), layer) THEN surface
  ELSE Append(surface, layer)

Fill(color, full) ==
  [what |-> color, opaque |-> TRUE, full |-> full, blend |-> "copy", from |-> <<>>]

Geometry(d) == [full |-> d.full, opaque |-> d.opaque]

\* A triangle group under a command header: the header says what it samples and how.
Layer(g, src, blend, surf) ==
  [what |-> src, opaque |-> g.opaque, full |-> g.full, blend |-> blend,
   from |-> IF src = "appsurf" THEN surf["appsurf"] ELSE <<>>]

\* The fabric, outside this repository: commands in ring order, each TRILIST's
\* triangles in list order under the header's page, blend and the current target.
Execute(st, cmd) ==
  CASE cmd.op = "target" -> [st EXCEPT !.target = cmd.t]
    [] cmd.op = "fill" -> [st EXCEPT !.surf[st.target] = Paint(@, cmd.layer)]
    [] cmd.op = "tris" ->
         FoldLeft(LAMBDA s, g : [s EXCEPT !.surf[s.target] =
                                   Paint(@, Layer(g, cmd.src, cmd.blend, s.surf))],
                  st, cmd.groups)

Executed(ring, surf) ==
  FoldLeft(Execute, [target |-> "work", surf |-> surf], ring).surf

-----------------------------------------------------------------------------
(* The emitter.  A TRILIST names a run of the vertex buffer: first, count. *)

Reset == [ring |-> <<>>, vtx |-> <<>>, target |-> "work",
          pend |-> [t \in Targets |-> NoClear], batch |-> NoBatch]

Emit(st, cmd) == [st EXCEPT !.ring = Append(@, cmd)]

EmitFill(st, layer) == Emit(st, [op |-> "fill", layer |-> layer])
EmitTarget(st, t) == [Emit(st, [op |-> "target", t |-> t]) EXCEPT !.target = t]
EmitTris(st, key, base, n) ==
  Emit(st, [op |-> "tris", src |-> key.src, blend |-> key.blend,
            groups |-> SubSeq(st.vtx, base, base + n - 1)])

\* mf_batch_flush.
Flush(st) ==
  IF st.batch = NoBatch THEN st
  ELSE EmitTris([st EXCEPT !.batch = NoBatch], st.batch.key, st.batch.base, st.batch.n)

\* mf_select_target; the mutant does not flush before switching.
SelectUnflushed(st, t) == IF st.target = t THEN st ELSE EmitTarget(st, t)
Select(st, t) == IF st.target = t THEN st ELSE EmitTarget(Flush(st), t)

\* Emit target t's pending clear, if any, from whatever target is current: mf_pc_take,
\* then back to the target it found (mf_emit_group) or not (mf_pc_flush_all).
Discharge(st, t) ==
  IF st.pend[t] = NoClear THEN st
  ELSE EmitFill([(IF st.target = t THEN st ELSE EmitTarget(st, t))
                   EXCEPT !.pend[t] = NoClear],
                Fill(st.pend[t], TRUE))
Restore(st, t) == IF st.target = t THEN st ELSE EmitTarget(st, t)

\* mf_pc_flush_all: slot 0, then slot 1.
DischargeAll(st) == Discharge(Discharge(st, "work"), "appsurf")

-----------------------------------------------------------------------------
(* mf_emit_group.                                                          *)

\* The blend the fabric gets: an opaque draw needs no destination read.
BlendOf(d) ==
  CASE d.keyed /\ d.opaque -> "colorkey"
    [] ~(d.keyed /\ d.opaque) /\ (d.bl = "none" \/ (d.bl = "alpha" /\ d.opaque)) -> "copy"
    [] OTHER -> d.bl

Key(d, target) == [src |-> d.src, blend |-> BlendOf(d), target |-> target]

\* mf_batch_clear_relevant.
ClearRelevant(st, d) ==
  \/ st.pend[st.target] # NoClear
  \/ d.src = "appsurf" /\ st.pend["appsurf"] # NoClear

\* blt_push_tris: the group goes into the vertex buffer at once.
Push(st, d) == [st EXCEPT !.vtx = Append(@, Geometry(d))]

Differs(batch, key) == batch.key # key

\* The open command closes before the group's vertices are appended, and again if
\* they did not land right behind its own.
Contiguous(st) == st.batch.base + st.batch.n = Len(st.vtx)
Join(st, key) ==
  LET s == IF st.batch # NoBatch /\ ~Contiguous(st) THEN Flush(st) ELSE st
  IN  IF s.batch = NoBatch
        THEN [s EXCEPT !.batch = [key |-> key, base |-> Len(s.vtx), n |-> 1]]
        ELSE [s EXCEPT !.batch.n = @ + 1]

AtBatchMax(st) == st.batch.n >= BatchMax

Batched(st, d) ==
  LET key    == Key(d, st.target)
      closed == IF st.batch # NoBatch /\ Differs(st.batch, key) THEN Flush(st) ELSE st
      joined == Join(Push(closed, d), key)
  IN  IF AtBatchMax(joined) THEN Flush(joined) ELSE joined

\* The group hides the clear that is pending below it; the mutant looks at its
\* shape but not at its blend.
CoversAnyBlend(d) == d.full
Covers(d) == d.full /\ BlendOf(d) = "copy"

\* The sampled surface's clear first, then the target's own, dropped if covered.
DischargeSource(st, d) ==
  IF d.src = "appsurf" THEN Restore(Discharge(st, "appsurf"), st.target) ELSE st
DischargeTarget(st, d) == IF Covers(d) THEN st ELSE Discharge(st, st.target)

Unbatched(st, d) ==
  LET s == DischargeTarget(DischargeSource(Push(Flush(st), d), d), d)
  IN  [EmitTris(s, Key(d, s.target), Len(s.vtx), 1) EXCEPT !.pend[s.target] = NoClear]

Group(st, d) ==
  IF BatchOn /\ ~ClearRelevant(st, d) THEN Batched(st, d) ELSE Unbatched(st, d)

-----------------------------------------------------------------------------
(* The operations of the game.                                             *)

Init ==
  /\ open = FALSE /\ em = Reset /\ last = NoDraw
  /\ intended = [t \in Targets |-> <<>>] /\ shown = intended
  /\ ops = 0

\* mf_frame_begin: a fresh ring, nothing carried over from the frame before.
FrameBegin ==
  /\ ~open /\ ops < MaxOps
  /\ open' = TRUE /\ em' = Reset /\ last' = NoDraw
  /\ UNCHANGED <<intended, shown, ops>>

Intend(t, layer) == intended' = [intended EXCEPT ![t] = Paint(@, layer)]

\* mf_clear of target t: only a clear of the full extent is deferred.
Clear(t, color, full) ==
  /\ open /\ ops < MaxOps
  /\ last' = NoDraw
  /\ em' = LET s == Select(Flush(em), t)
           IN  IF DeferClear /\ full THEN [s EXCEPT !.pend[t] = color]
                                     ELSE EmitFill(s, Fill(color, full))
  /\ Intend(t, Fill(color, full))
  /\ ops' = ops + 1
  /\ UNCHANGED <<open, shown>>

\* mf_draw_is_idempotent; the mutant admits any blend.
AnyOpaque(d)  == d.opaque
Idempotent(d) == d.opaque /\ d.bl \in {"none", "alpha"}

\* mf_draw.
DrawOp(d) ==
  /\ open /\ ops < MaxOps
  /\ IF Idempotent(d) /\ last = d
       THEN UNCHANGED <<em, last>>
       ELSE /\ last' = IF Idempotent(d) THEN d ELSE NoDraw
            /\ em' = Group(Select(em, d.dst), d)
  /\ Intend(d.dst, Layer(Geometry(d), d.src, BlendOf(d), intended))
  /\ ops' = ops + 1
  /\ UNCHANGED <<open, shown>>

\* A premultiplied draw has no fabric blend ("unsupported on the fabric: dropped",
\* mister_fabric.h).  The software rasterizer puts it on a surface that is never scanned
\* out, so it is no part of what is intended; but it closes the open command, and being
\* not idempotent it breaks a run of duplicates.
SoftwareDraw ==
  /\ open /\ ops < MaxOps
  /\ last' = NoDraw
  /\ em' = Flush(em)
  /\ ops' = ops + 1
  /\ UNCHANGED <<open, intended, shown>>

\* What mf_present and mf_frame_end put in front of END; the mutant discharges the
\* pending clears ahead of the open command.
ClosedClearsFirst(st) == Flush(DischargeAll(st))
Closed(st) == DischargeAll(Flush(st))

OverlayLayer == Fill(Overlay, FALSE)
WithOverlay(st) == EmitFill(Restore(Flush(st), "work"), OverlayLayer)

\* mf_present, with the FPS overlay on or off, and the batch then executed.
Present(overlay) ==
  /\ open
  /\ LET s == IF overlay THEN WithOverlay(Closed(em)) ELSE Closed(em)
     IN  em' = Closed(s)
  /\ shown' = Executed(em'.ring, shown)
  /\ IF overlay THEN Intend("work", OverlayLayer) ELSE UNCHANGED intended
  /\ open' = FALSE
  /\ UNCHANGED <<last, ops>>

Next ==
  \/ FrameBegin
  \/ \E t \in Targets, c \in Colors, full \in {TRUE, ~PartialClears} : Clear(t, c, full)
  \/ \E d \in Draws : DrawOp(d)
  \/ SoftwareDraw
  \/ \E overlay \in BOOLEAN : Present(overlay)

Spec == Init /\ [][Next]_vars

-----------------------------------------------------------------------------
(* Properties.                                                             *)

\* The emitter, the open batch and the surfaces stay in their types, and the open batch
\* never exceeds MF_BATCH_MAX_TRIS.
TypeOK ==
  /\ open \in BOOLEAN
  /\ em.target \in Targets
  /\ em.pend \in [Targets -> Colors \union {NoClear}]
  /\ em.batch.n \in 0 .. BatchMax - 1
  /\ (em.batch # NoBatch) = (em.batch.n > 0)
  /\ last \in Draws \union {NoDraw}
  /\ ops \in 0 .. MaxOps

\* "IT CANNOT CHANGE A PIXEL": after every present both surfaces hold exactly what
\* painting each clear, draw and overlay at once would have left in them; and at no point
\* in a frame has anything been lost or reordered yet: the ring, the open command and the
\* deferred clears together still amount to what was drawn.  What was drawn with a
\* premultiplied blend, which the fabric does not do, is excepted.
FramesShowWhatWasDrawn ==
  /\ TypeOK
  /\ IF open THEN Executed(Closed(em).ring, shown) = intended ELSE shown = intended

=============================================================================
