----------------------------- MODULE FabricSeam -----------------------------
(***************************************************************************)
(* The submit seam of backend_mfgpu: the host frame loop on one side, the  *)
(* FPGA blitter ("the fabric") on the other, and between them one control  *)
(* block and two command rings in shared DDR.                              *)
(*                                                                         *)
(* The host rebuilds one ring (an arena) while the fabric executes the     *)
(* other.  A batch is published by writing the control words and, last,    *)
(* the doorbell C_SUBMIT; the fabric answers in C_DONE.  The host resolves *)
(* the previous batch in the publish barrier, drops whole frames while it  *)
(* cannot, and after dropLimit consecutive drops abandons ("reclaims") the *)
(* batch.  Host statements that the fabric can observe separately are      *)
(* separate actions; the fabric latches its prologue one word at a time.   *)
(***************************************************************************)
EXTENDS Naturals

CONSTANTS
  Commands,   \* what the emitter may put in a ring slot, END aside
  EndCmd,     \* the BLT_OP_END command blt_end_frame appends
  NopCmd,     \* BLT_OP_NOP, opcode 0: what a zeroed ring holds
  RingCap,    \* command slots per arena (ring_cap / BLT_CMD_BYTES)
  DropLimits, \* what mf_drop_limit() may be: GMLOADER_MFGPU_DROP_LIMIT, 60 unset
  SeqMod,     \* modulus of the 32-bit submit sequence
  Wrap        \* FALSE: stop before the sequence wraps (the bound of a run)

ASSUME SeamAssumption ==
  /\ EndCmd \notin Commands /\ NopCmd # EndCmd
  /\ RingCap \in Nat \ {0}
  /\ DropLimits \subseteq Nat \ {0}
  /\ SeqMod \in Nat /\ SeqMod > 1
  /\ Wrap \in BOOLEAN

VARIABLES
  hpc,           \* where the host thread is in its frame loop
  arena,         \* g_arena: the ring this frame is built in
  cmdCount,      \* g_e.cmd_count
  overflow,      \* g_e.overflow
  submitSeq,     \* g_e.submit_seq
  dropped,       \* g_frame_dropped
  pending,       \* g_fabric_pending
  pendingSeq,    \* g_pending_seq
  pendingArena,  \* g_pending_arena
  dropRun,       \* g_drop_run
  dropLimit,     \* mf_drop_limit(): consecutive drops before a reclaim, read once
  publishDepth,  \* g_publish_depth
  waitSeq,       \* want / g_last_awaited_seq in mf_device_await
  ring,          \* the two command rings in DDR
  ctl,           \* host-written control words: C_CMDCOUNT, C_SRCSEL bit 2, C_SUBMIT
  done,          \* C_DONE, written by the fabric only
  fpc,           \* where the fabric is in its frame loop
  lat,           \* what the fabric latched from the control block
  fi,            \* commands of the batch the fabric has executed
  abandoned,     \* history: sequences the host reclaimed
  misses,        \* history: frames dropped against the batch in flight
  awaits         \* history: blocking awaits spent on the batch in flight

frameVars  == <<arena, cmdCount, overflow, submitSeq>>
batchVars  == <<pending, pendingSeq, pendingArena, publishDepth>>
fabricVars == <<done, fpc, lat, fi>>
vars == <<hpc, frameVars, dropped, batchVars, dropRun, dropLimit, waitSeq,
          ring, ctl, fabricVars, abandoned, misses, awaits>>

Arenas == {0, 1}
Seqs   == 0 .. SeqMod - 1
Slots  == 1 .. RingCap
Slot   == [tag : Seqs, cmd : Commands \union {EndCmd, NopCmd}]

HostPoints   == {"idle", "build", "barrier", "await", "resolve",
                 "count", "sel", "doorbell"}
FabricPoints == {"poll", "count", "sel", "exec"}

(***************************************************************************)
(* g_e.submit_seq is a uint32_t: it wraps.  A frame's commands are tagged  *)
(* with the sequence blt_end_frame will give the frame.                    *)
(***************************************************************************)
NextSeq(s) == (s + 1) % SeqMod
FrameTag   == NextSeq(submitSeq)
MayAdvance == Wrap \/ submitSeq + 1 < SeqMod

\* mf_fabric_still_busy: only meaningful while a batch is pending.
BusyBlind == FALSE   \* a mutant: the acknowledgement is never looked at
Busy == done # pendingSeq

(***************************************************************************)
(* Initially bring-up has parked the block on the fabric's own sequence,   *)
(* cleared the rings and had the probe acknowledged.                       *)
(***************************************************************************)
Init ==
  /\ hpc = "idle"
  /\ arena = 0 /\ cmdCount = 0 /\ overflow = FALSE /\ submitSeq = 0
  /\ dropped = FALSE
  /\ pending = FALSE /\ pendingSeq = 0 /\ pendingArena = 0
  /\ dropRun = 0 /\ dropLimit \in DropLimits /\ publishDepth = 0 /\ waitSeq = 0
  /\ ring = [a \in Arenas |-> [i \in Slots |-> [tag |-> 0, cmd |-> NopCmd]]]
  /\ ctl = [count |-> 0, sel |-> 0, submit |-> 0]
  /\ done = 0
  /\ fpc = "poll" /\ lat = [seq |-> 0, count |-> 0, sel |-> 0] /\ fi = 0
  /\ abandoned = {} /\ misses = 0 /\ awaits = 0

-----------------------------------------------------------------------------
(* mf_drop_or_reclaim: one more frame lost to a batch that does not ack.   *)

AtDropLimit == dropRun + 1 >= dropLimit

\* A mutant: a frame is dropped and not counted.
DropsUncounted ==
  /\ ~AtDropLimit
  /\ dropped' = TRUE
  /\ UNCHANGED <<batchVars, dropRun, misses, abandoned>>

DropFrame ==
  /\ ~AtDropLimit
  /\ dropRun' = dropRun + 1
  /\ dropped' = TRUE
  /\ misses' = misses + 1
  /\ UNCHANGED <<batchVars, abandoned>>

\* A mutant: the drop run is left at its limit by a reclaim.
ReclaimKeepsRun ==
  /\ AtDropLimit
  /\ pending' = FALSE /\ publishDepth' = 0
  /\ abandoned' = abandoned \union {pendingSeq}
  /\ UNCHANGED <<pendingSeq, pendingArena, dropRun, misses>>

Reclaim ==
  /\ AtDropLimit
  /\ pending' = FALSE /\ publishDepth' = 0 /\ dropRun' = 0
  /\ abandoned' = abandoned \union {pendingSeq}
  /\ UNCHANGED <<pendingSeq, pendingArena, misses>>

-----------------------------------------------------------------------------
(* mf_frame_begin.                                                         *)

\* The arena this frame would flip into is the one the fabric still reads.
RewindsUnchecked == FALSE   \* a mutant: frame begin has no in-flight guard
RewindsBusyArena == pending /\ 1 - arena = pendingArena /\ Busy

FrameBeginDrop ==
  /\ hpc = "idle" /\ RewindsBusyArena
  /\ DropFrame
  /\ hpc' = "build"
  /\ UNCHANGED <<frameVars, dropLimit, waitSeq, ring, ctl, fabricVars, awaits>>

\* A mutant: the arena is not flipped.
RewindSameArena ==
  /\ arena' = arena
  /\ cmdCount' = 0 /\ overflow' = FALSE
  /\ dropped' = FALSE

\* blt_begin_frame: the other arena, from its first slot.
Rewind ==
  /\ arena' = 1 - arena
  /\ cmdCount' = 0 /\ overflow' = FALSE
  /\ dropped' = FALSE

FrameBeginBuild ==
  /\ hpc = "idle" /\ MayAdvance
  /\ IF RewindsBusyArena
       THEN Reclaim
       ELSE UNCHANGED <<batchVars, dropRun, abandoned, misses>>
  /\ Rewind
  /\ hpc' = "build"
  /\ UNCHANGED <<submitSeq, dropLimit, waitSeq, ring, ctl, fabricVars, awaits>>

-----------------------------------------------------------------------------
(* Building the frame: every emitter call ends in emit().                  *)

Append1(c) ==
  IF cmdCount < RingCap
    THEN /\ ring' = [ring EXCEPT ![arena][cmdCount + 1] =
                       [tag |-> FrameTag, cmd |-> c]]
         /\ cmdCount' = cmdCount + 1
         /\ UNCHANGED overflow
    ELSE /\ overflow' = TRUE
         /\ UNCHANGED <<ring, cmdCount>>

Emit(c) ==
  /\ hpc = "build" /\ ~dropped
  /\ Append1(c)
  /\ UNCHANGED <<hpc, arena, submitSeq, dropped, batchVars, dropRun, dropLimit,
                 waitSeq, ctl, fabricVars, abandoned, misses, awaits>>

\* A page or a vertex run that does not fit sets e->overflow and emits nothing.
Refuse ==
  /\ hpc = "build" /\ ~dropped /\ ~overflow
  /\ overflow' = TRUE
  /\ UNCHANGED <<hpc, arena, cmdCount, submitSeq, dropped, batchVars, dropRun,
                 dropLimit, waitSeq, ring, ctl, fabricVars, abandoned, misses,
                 awaits>>

-----------------------------------------------------------------------------
(* mf_frame_end.                                                           *)

FrameEndDropped ==
  /\ hpc = "build" /\ dropped
  /\ hpc' = "idle"
  /\ UNCHANGED <<frameVars, dropped, batchVars, dropRun, dropLimit, waitSeq,
                 ring, ctl, fabricVars, abandoned, misses, awaits>>

\* blt_end_frame appends END and takes the next sequence even when it overflows.
FrameEnd ==
  /\ hpc = "build" /\ ~dropped
  /\ Append1(EndCmd)
  /\ submitSeq' = FrameTag
  /\ hpc' = IF overflow' THEN "idle" ELSE "barrier"
  /\ UNCHANGED <<arena, dropped, batchVars, dropRun, dropLimit, waitSeq, ctl,
                 fabricVars, abandoned, misses, awaits>>

-----------------------------------------------------------------------------
(* mf_publish_barrier and mf_device_await.                                 *)

BarrierFree ==
  /\ hpc = "barrier" /\ ~pending
  /\ hpc' = "count"
  /\ UNCHANGED <<frameVars, dropped, batchVars, dropRun, dropLimit, waitSeq,
                 ring, ctl, fabricVars, abandoned, misses, awaits>>

\* The blocking poll is entered only on the first attempt against a batch, and
\* polls for the published sequence, not the emitter's own (one ahead by now).
AwaitsAlways == TRUE        \* a mutant
AwaitsNow == dropRun = 0
WaitEmitterSeq == submitSeq \* a mutant
WaitFor == pendingSeq

BarrierAwait ==
  /\ hpc = "barrier" /\ pending /\ AwaitsNow
  /\ hpc' = "await"
  /\ waitSeq' = WaitFor
  /\ awaits' = awaits + 1
  /\ UNCHANGED <<frameVars, dropped, batchVars, dropRun, dropLimit, ring, ctl,
                 fabricVars, abandoned, misses>>

BarrierSkipAwait ==
  /\ hpc = "barrier" /\ pending /\ ~AwaitsNow
  /\ hpc' = "resolve"
  /\ UNCHANGED <<frameVars, dropped, batchVars, dropRun, dropLimit, waitSeq,
                 ring, ctl, fabricVars, abandoned, misses, awaits>>

AwaitAck ==
  /\ hpc = "await" /\ done = waitSeq
  /\ hpc' = "resolve"
  /\ UNCHANGED <<frameVars, dropped, batchVars, dropRun, dropLimit, waitSeq,
                 ring, ctl, fabricVars, abandoned, misses, awaits>>

\* The 200 ms budget runs out: g_fabric_pending is (still) TRUE, nothing else changes.
AwaitTimeout ==
  /\ hpc = "await" /\ done # waitSeq
  /\ hpc' = "resolve"
  /\ pending' = TRUE
  /\ UNCHANGED <<frameVars, dropped, pendingSeq, pendingArena, publishDepth,
                 dropRun, dropLimit, waitSeq, ring, ctl, fabricVars, abandoned,
                 misses, awaits>>

ResolveAcked ==
  /\ hpc = "resolve" /\ ~Busy
  /\ dropRun' = 0 /\ pending' = FALSE /\ publishDepth' = 0
  /\ hpc' = "count"
  /\ UNCHANGED <<frameVars, dropped, pendingSeq, pendingArena, dropLimit,
                 waitSeq, ring, ctl, fabricVars, abandoned, misses, awaits>>

ResolveReclaim ==
  /\ hpc = "resolve" /\ Busy
  /\ Reclaim
  /\ hpc' = "count"
  /\ UNCHANGED <<frameVars, dropped, dropLimit, waitSeq, ring, ctl, fabricVars,
                 awaits>>

ResolveDrop ==
  /\ hpc = "resolve" /\ Busy
  /\ DropFrame
  /\ hpc' = "idle"
  /\ UNCHANGED <<frameVars, dropLimit, waitSeq, ring, ctl, fabricVars, awaits>>

-----------------------------------------------------------------------------
(* mf_device_publish: payload words, ring select, then the doorbell.       *)

PublishWords ==
  /\ hpc = "count"
  /\ ctl' = [ctl EXCEPT !.count = cmdCount]
  /\ hpc' = "sel"
  /\ UNCHANGED <<frameVars, dropped, batchVars, dropRun, dropLimit, waitSeq,
                 ring, fabricVars, abandoned, misses, awaits>>

PublishSel ==
  /\ hpc = "sel"
  /\ ctl' = [ctl EXCEPT !.sel = arena]
  /\ hpc' = "doorbell"
  /\ UNCHANGED <<frameVars, dropped, batchVars, dropRun, dropLimit, waitSeq,
                 ring, fabricVars, abandoned, misses, awaits>>

\* The doorbell, and the batch bookkeeping mf_frame_end does right after it.
PublishDoorbell ==
  /\ hpc = "doorbell"
  /\ ctl' = [ctl EXCEPT !.submit = submitSeq]
  /\ pending' = TRUE /\ pendingSeq' = submitSeq /\ pendingArena' = arena
  /\ publishDepth' = publishDepth + 1
  /\ misses' = 0 /\ awaits' = 0
  /\ hpc' = "idle"
  /\ UNCHANGED <<frameVars, dropped, dropRun, dropLimit, waitSeq, ring,
                 fabricVars, abandoned>>

Host ==
  \/ FrameBeginDrop \/ FrameBeginBuild
  \/ \E c \in Commands : Emit(c)
  \/ Refuse
  \/ FrameEndDropped \/ FrameEnd
  \/ BarrierFree \/ BarrierAwait \/ BarrierSkipAwait
  \/ AwaitAck \/ AwaitTimeout
  \/ ResolveAcked \/ ResolveReclaim \/ ResolveDrop
  \/ PublishWords \/ PublishSel \/ PublishDoorbell

-----------------------------------------------------------------------------
(* The fabric, outside this repository, as the host code describes it: it  *)
(* is idle while C_DONE equals C_SUBMIT, latches the block word by word    *)
(* after the doorbell, walks the ring to END and answers in C_DONE.        *)

hostVars == <<hpc, frameVars, dropped, batchVars, dropRun, dropLimit, waitSeq,
              ring, ctl, abandoned, misses, awaits>>

FabricNotice ==
  /\ fpc = "poll" /\ ctl.submit # done
  /\ lat' = [lat EXCEPT !.seq = ctl.submit]
  /\ fpc' = "count"
  /\ UNCHANGED <<hostVars, done, fi>>

FabricLatchWords ==
  /\ fpc = "count"
  /\ lat' = [lat EXCEPT !.count = ctl.count]
  /\ fpc' = "sel"
  /\ UNCHANGED <<hostVars, done, fi>>

FabricLatchSel ==
  /\ fpc = "sel"
  /\ lat' = [lat EXCEPT !.sel = ctl.sel]
  /\ fi' = 0
  /\ fpc' = "exec"
  /\ UNCHANGED <<hostVars, done>>

\* The slot S_FETCH looks at next, and whether the walk ends there.
NextSlot  == ring[lat.sel][fi + 1]
WalkEnded == fi < lat.count => NextSlot.cmd = EndCmd

FabricExecute ==
  /\ fpc = "exec" /\ ~WalkEnded
  /\ fi' = fi + 1
  /\ UNCHANGED <<hostVars, done, fpc, lat>>

FabricAck ==
  /\ fpc = "exec" /\ WalkEnded
  /\ done' = lat.seq
  /\ fpc' = "poll"
  /\ UNCHANGED <<hostVars, lat, fi>>

Fabric == FabricNotice \/ FabricLatchWords \/ FabricLatchSel
            \/ FabricExecute \/ FabricAck

Next == Host \/ Fabric

Spec == Init /\ [][Next]_vars

-----------------------------------------------------------------------------
(* Fairness.  The engine's main loop keeps rendering: the host always      *)
(* takes its next step, closes the frames it opens, and some frames fit.   *)
(* The fabric has no fairness: a property that needs one says so.           *)

HostStep == FrameBeginDrop \/ FrameBeginBuild \/ FrameEndDropped
              \/ BarrierFree \/ BarrierAwait \/ BarrierSkipAwait
              \/ AwaitAck \/ AwaitTimeout
              \/ ResolveAcked \/ ResolveReclaim \/ ResolveDrop
              \/ PublishWords \/ PublishSel \/ PublishDoorbell

HostFairness == /\ WF_vars(HostStep)
                /\ WF_vars(FrameEnd)
                /\ SF_vars(FrameEnd /\ hpc' = "barrier")

WedgedSpec == Spec /\ HostFairness

-----------------------------------------------------------------------------
(* Properties.                                                             *)

\* Every variable of the seam stays in its type (raster_backend_mfgpu.cpp globals).
TypeOK ==
  /\ hpc \in HostPoints
  /\ arena \in Arenas /\ cmdCount \in 0 .. RingCap /\ overflow \in BOOLEAN
  /\ submitSeq \in Seqs /\ dropped \in BOOLEAN
  /\ pending \in BOOLEAN /\ pendingSeq \in Seqs /\ pendingArena \in Arenas
  /\ dropLimit \in DropLimits /\ dropRun \in 0 .. dropLimit - 1
  /\ publishDepth \in Nat /\ waitSeq \in Seqs
  /\ ring \in [Arenas -> [Slots -> Slot]]
  /\ ctl \in [count : 0 .. RingCap, sel : Arenas, submit : Seqs]
  /\ done \in Seqs
  /\ fpc \in FabricPoints
  /\ lat \in [seq : Seqs, count : 0 .. RingCap, sel : Arenas]
  /\ fi \in 0 .. RingCap
  /\ abandoned \in SUBSET Seqs
  /\ misses \in Nat /\ awaits \in Nat

\* The commands 1..n of arena a are those of the frame that got sequence s.
HoldsBatch(a, n, s) == \A i \in 1 .. n : ring[a][i].tag = s

\* The batch the fabric walks is read from the arena the host filled for that
\* very sequence, command for command, while the host rebuilds the other arena
\* (the double buffering argument at mf_frame_begin): unless it was reclaimed.
ExecutesItsOwnBatch ==
  fpc = "exec" /\ lat.seq \notin abandoned
    => HoldsBatch(lat.sel, lat.count, lat.seq)

\* While mf_device_publish rewrites the shared control block the fabric is not
\* able to latch it: it has acked the doorbell value, or that batch was reclaimed.
ControlBlockQuiet ==
  hpc \in {"count", "sel", "doorbell"}
    => \/ fpc = "poll" /\ ctl.submit = done
       \/ ctl.submit \in abandoned

\* g_publish_depth never exceeds one batch, and the blocking await is paired with
\* a publish and polls for the sequence in the doorbell (g_unpaired_awaits = 0,
\* g_last_awaited_seq = g_last_published_seq).
OneBatchInFlight ==
  /\ publishDepth = IF pending THEN 1 ELSE 0
  /\ hpc = "await" => pending /\ waitSeq = ctl.submit

\* "Once per PUBLISHED BATCH, not once per publish attempt": the 200 ms poll is
\* never entered twice for one batch, however many frames are dropped against it.
OneBlockingAwaitPerBatch == awaits <= 1

\* A wedge settles at frame begin: once a frame was dropped against a batch the
\* barrier never meets that batch busy again, so the run is counted where it can grow.
WedgeSettlesAtFrameBegin == hpc = "resolve" /\ Busy => dropRun = 0

\* A batch is reclaimed only after dropLimit misses against that same batch: no
\* earlier wedge, overflow or reclaim may leave a head start in g_drop_run.
ReclaimOnlyAfterFullRun ==
  [][abandoned' # abandoned => misses = dropLimit - 1]_vars

\* The game keeps rendering: publishes never stop, even against a fabric that
\* never answers again (the deadlock mf_drop_or_reclaim exists to break); unless the
\* model has run out of sequences.
FramesKeepComing == []<>(hpc = "doorbell") \/ <>[]~MayAdvance

\* With a fabric that keeps running, no published batch is lost: each doorbell value is
\* eventually acknowledged, or the host knowingly gave that batch up.
EveryDoorbellAnswered ==
  WF_vars(Fabric) =>
    \A s \in Seqs :
      (pending /\ pendingSeq = s) ~> (done = s \/ s \in abandoned)

\* The seam implements the one-batch-at-a-time handoff: the control block's
\* C_SUBMIT and C_DONE are its doorbell and its acknowledgement.
Handoff == INSTANCE BatchHandoff
             WITH Batches <- Seqs, offered <- ctl.submit, answered <- done,
                  givenUp <- abandoned
ImplementsHandoff == Handoff!HandoffSpec

-----------------------------------------------------------------------------
(* The inductive invariant behind these properties, for as long as the     *)
(* sequence has not wrapped.                                               *)

BuildPoints   == {"build", "barrier", "await", "resolve"}
BarrierPoints == {"barrier", "await", "resolve"}
PublishPoints == {"count", "sel", "doorbell"}

\* The host is filling, or has filled, `arena' with a frame.
Building == hpc \in BuildPoints /\ ~dropped

InFlight == pending /\ Busy

HostControl ==
  /\ publishDepth = IF pending THEN 1 ELSE 0
  /\ hpc \in {"await", "resolve"} => pending
  /\ hpc = "await" => waitSeq = pendingSeq
  /\ hpc \in PublishPoints => ~pending
  /\ dropped => hpc \in {"idle", "build"}

SequenceOrder ==
  /\ pendingSeq = ctl.submit
  /\ ctl.submit <= submitSeq
  /\ hpc \in BarrierPoints \union PublishPoints => ctl.submit < submitSeq
  /\ hpc = "build" /\ ~dropped => submitSeq + 1 < SeqMod
  /\ done <= ctl.submit
  /\ fpc # "poll" => done < lat.seq /\ lat.seq <= ctl.submit
  /\ \A s \in abandoned : s <= ctl.submit
  /\ pending => pendingSeq \notin abandoned

\* The batch last published is pending, acknowledged or given up, and the fabric
\* works on nothing but that batch or one that was given up.
BatchStatus ==
  /\ ~pending => done = ctl.submit \/ ctl.submit \in abandoned
  /\ fpc # "poll" => lat.seq = ctl.submit \/ lat.seq \in abandoned

DropAccounting ==
  /\ ~pending => dropRun = 0
  /\ pending => misses = dropRun
  /\ InFlight /\ dropRun > 0
       => /\ arena # pendingArena
          /\ hpc = "idle" \/ (hpc = "build" /\ dropped)
  /\ hpc = "await" => dropRun = 0
  /\ pending /\ dropRun = 0 /\ hpc \notin {"await", "resolve"} => awaits = 0
  /\ awaits <= 1

ArenaContents ==
  /\ InFlight => /\ HoldsBatch(pendingArena, ctl.count, pendingSeq)
                 /\ ctl.sel = pendingArena
                 /\ Building => arena # pendingArena
  /\ hpc = "build" /\ ~dropped => HoldsBatch(arena, cmdCount, submitSeq + 1)
  /\ hpc \in BarrierPoints \union PublishPoints
       => HoldsBatch(arena, cmdCount, submitSeq)
  /\ hpc \in {"sel", "doorbell"} => ctl.count = cmdCount
  /\ hpc = "doorbell" => ctl.sel = arena

Latched ==
  /\ fpc \in {"sel", "exec"} /\ lat.seq \notin abandoned => lat.count = ctl.count
  /\ fpc = "exec" /\ lat.seq \notin abandoned => lat.sel = ctl.sel

\* What holds in every reachable state of the seam before the sequence wraps.
SeamInv ==
  /\ TypeOK
  /\ HostControl /\ SequenceOrder /\ BatchStatus /\ DropAccounting
  /\ ArenaContents /\ Latched

=============================================================================
