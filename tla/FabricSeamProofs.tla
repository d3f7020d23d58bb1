-------------------------- MODULE FabricSeamProofs --------------------------
(***************************************************************************)
(* The safety properties of the submit seam, for every ring capacity, drop *)
(* limit and sequence modulus, as long as the sequence has not wrapped.    *)
(*                                                                         *)
(* The argument: SeamInv holds initially, every step of the host and of    *)
(* the fabric preserves it, and each property follows from it.             *)
(***************************************************************************)
EXTENDS FabricSeam, TLAPS

USE DEF Arenas, Seqs, Slots, Slot, HostPoints, FabricPoints, BuildPoints,
        BarrierPoints, PublishPoints, vars, frameVars, batchVars, fabricVars,
        hostVars

(***************************************************************************)
(* What the assumption on the constants gives the arithmetic below.        *)
(***************************************************************************)
LEMMA Bounds ==
  /\ RingCap \in Nat /\ RingCap >= 1 /\ 0 \in 0 .. RingCap
  /\ SeqMod \in Nat /\ SeqMod > 1 /\ 0 \in Seqs
  /\ EndCmd \notin Commands /\ NopCmd # EndCmd
BY SeamAssumption

(***************************************************************************)
(* The drop limit of a run, whatever it was set to, leaves room for a run. *)
(***************************************************************************)
LEMMA LimitIsPositive ==
  ASSUME NEW n \in DropLimits
  PROVE  n \in Nat /\ n >= 1 /\ 0 \in 0 .. n - 1
BY SeamAssumption

(***************************************************************************)
(* Below the modulus, taking the next sequence is adding one.              *)
(***************************************************************************)
LEMMA NextSeqIsSuccessor ==
  ASSUME NEW s \in Seqs, s + 1 < SeqMod
  PROVE  NextSeq(s) = s + 1 /\ NextSeq(s) \in Seqs
BY Bounds DEF NextSeq

(***************************************************************************)
(* A frame is only opened where the sequence can still advance.            *)
(***************************************************************************)
LEMMA AdvanceLeavesRoom ==
  ASSUME ~Wrap, MayAdvance
  PROVE  submitSeq + 1 < SeqMod
BY DEF MayAdvance

(***************************************************************************)
(* The tag of the frame being built is the sequence it will be given.      *)
(***************************************************************************)
LEMMA FrameTagIsSuccessor ==
  ASSUME TypeOK, SequenceOrder, hpc = "build", ~dropped
  PROVE  FrameTag = submitSeq + 1 /\ FrameTag \in Seqs
<1>1. submitSeq \in Seqs
  BY DEF TypeOK
<1>2. submitSeq + 1 < SeqMod
  BY DEF SequenceOrder
<1> QED
  BY <1>1, <1>2, NextSeqIsSuccessor DEF FrameTag

(***************************************************************************)
(* Appending a command fills one slot of the arena being built, with the   *)
(* frame's tag, and leaves the other arena alone.                          *)
(***************************************************************************)
LEMMA AppendFillsOneSlot ==
  ASSUME TypeOK, SequenceOrder, hpc = "build", ~dropped,
         NEW c \in Commands \union {EndCmd, NopCmd}, Append1(c)
  PROVE  /\ ring' \in [Arenas -> [Slots -> Slot]]
         /\ cmdCount' \in 0 .. RingCap
         /\ overflow' \in BOOLEAN
         /\ ring'[1 - arena] = ring[1 - arena]
         /\ (\A i \in 1 .. cmdCount : ring[arena][i].tag = submitSeq + 1)
              => \A i \in 1 .. cmdCount' : ring'[arena][i].tag = submitSeq + 1
<1> DEFINE slot == [tag |-> FrameTag, cmd |-> c]
<1>1. slot \in Slot /\ slot.tag = submitSeq + 1
  BY FrameTagIsSuccessor
<1>2. CASE cmdCount < RingCap
  <2>1. /\ ring' = [ring EXCEPT ![arena][cmdCount + 1] = slot]
        /\ cmdCount' = cmdCount + 1 /\ overflow' = overflow
    BY <1>2 DEF Append1
  <2>2. /\ ring \in [Arenas -> [Slots -> Slot]] /\ arena \in Arenas
        /\ cmdCount + 1 \in Slots /\ cmdCount \in Nat /\ overflow \in BOOLEAN
    BY <1>2, Bounds DEF TypeOK
  <2>3. 1 - arena \in Arenas /\ 1 - arena # arena
    BY <2>2
  <2>4. ring' \in [Arenas -> [Slots -> Slot]] /\ ring'[1 - arena] = ring[1 - arena]
    BY <1>1, <2>1, <2>2, <2>3
  <2>5. \A i \in Slots : ring'[arena][i] = IF i = cmdCount + 1 THEN slot
                                                            ELSE ring[arena][i]
    BY <2>1, <2>2
  <2>6. cmdCount' \in 0 .. RingCap /\ overflow' \in BOOLEAN
    BY <1>2, <2>1, <2>2, Bounds
  <2>7. ASSUME \A i \in 1 .. cmdCount : ring[arena][i].tag = submitSeq + 1,
               NEW j \in 1 .. cmdCount'
        PROVE  ring'[arena][j].tag = submitSeq + 1
    BY <1>1, <1>2, <2>1, <2>2, <2>5, <2>7, Bounds
  <2> QED
    BY <2>4, <2>6, <2>7
<1>3. CASE ~(cmdCount < RingCap)
  <2>1. overflow' = TRUE /\ ring' = ring /\ cmdCount' = cmdCount
    BY <1>3 DEF Append1
  <2> QED
    BY <2>1 DEF TypeOK
<1> QED
  BY <1>2, <1>3

(***************************************************************************)
(* Bring-up leaves the seam in a state of the invariant.                   *)
(***************************************************************************)
LEMMA InitEstablishesSeamInv == Init => SeamInv
<1> SUFFICES ASSUME Init PROVE SeamInv
  OBVIOUS
<1>1. TypeOK
  <2>1. dropLimit \in DropLimits /\ dropRun = 0
    BY DEF Init
  <2>2. dropRun \in 0 .. dropLimit - 1
    BY <2>1, LimitIsPositive
  <2> QED
    BY <2>1, <2>2, Bounds DEF Init, TypeOK
<1>2. HostControl /\ SequenceOrder /\ BatchStatus /\ DropAccounting
  BY Bounds DEF Init, HostControl, SequenceOrder, BatchStatus, DropAccounting,
                InFlight, Busy
<1>3. ArenaContents /\ Latched
  BY Bounds DEF Init, ArenaContents, Latched, InFlight, Busy
<1> QED
  BY <1>1, <1>2, <1>3 DEF SeamInv

(***************************************************************************)
(* No step of the host or of the fabric leaves the invariant.              *)
(***************************************************************************)
LEMMA StepPreservesSeamInv ==
  ASSUME ~Wrap, SeamInv, [Next]_vars
  PROVE  SeamInv'
<1>0. dropLimit \in Nat /\ dropLimit >= 1 /\ 0 \in 0 .. dropLimit - 1
  BY LimitIsPositive DEF SeamInv, TypeOK
<1> USE <1>0, Bounds DEF SeamInv, HostControl, SequenceOrder, BatchStatus,
                   DropAccounting, Latched, InFlight, Building, Busy

<1>1. CASE FrameBeginDrop
  BY <1>1 DEF FrameBeginDrop, RewindsBusyArena, DropFrame, AtDropLimit,
     TypeOK, ArenaContents, HoldsBatch
<1>2. CASE FrameBeginBuild
  <2>1. /\ hpc = "idle" /\ hpc' = "build" /\ dropped' = FALSE
        /\ arena \in Arenas /\ arena' = 1 - arena /\ arena' \in Arenas
        /\ cmdCount' = 0 /\ overflow' = FALSE
        /\ UNCHANGED <<submitSeq, dropLimit, waitSeq, ring, ctl, fabricVars,
                       awaits>>
    BY <1>2 DEF FrameBeginBuild, Rewind, TypeOK
  <2>2. submitSeq + 1 < SeqMod
    BY <1>2, AdvanceLeavesRoom DEF FrameBeginBuild
  <2>3. CASE RewindsBusyArena
    <3>1. /\ pending /\ Busy /\ pending' = FALSE /\ publishDepth' = 0 /\ dropRun' = 0
          /\ abandoned' = abandoned \union {pendingSeq}
          /\ UNCHANGED <<pendingSeq, pendingArena, misses>>
      BY <1>2, <2>3 DEF FrameBeginBuild, RewindsBusyArena, Reclaim
    <3>2. TypeOK'
      BY <2>1, <3>1 DEF TypeOK
    <3>3. HostControl' /\ SequenceOrder'
      BY <2>1, <2>2, <3>1 DEF TypeOK
    <3>4. BatchStatus' /\ DropAccounting' /\ Latched'
      BY <2>1, <3>1 DEF TypeOK
    <3>5. ArenaContents'
      BY <2>1, <3>1 DEF TypeOK, ArenaContents, HoldsBatch
    <3> QED
      BY <3>2, <3>3, <3>4, <3>5
  <2>4. CASE ~RewindsBusyArena
    <3>1. /\ InFlight => pendingArena = arena
          /\ UNCHANGED <<batchVars, dropRun, abandoned, misses>>
      BY <1>2, <2>4 DEF FrameBeginBuild, RewindsBusyArena, TypeOK
    <3>2. TypeOK'
      BY <2>1, <3>1 DEF TypeOK
    <3>3. HostControl' /\ SequenceOrder'
      BY <2>1, <2>2, <3>1 DEF TypeOK
    <3>4. BatchStatus' /\ DropAccounting' /\ Latched'
      BY <2>1, <3>1 DEF TypeOK
    <3>5. ArenaContents'
      BY <2>1, <3>1 DEF TypeOK, ArenaContents, HoldsBatch
    <3> QED
      BY <3>2, <3>3, <3>4, <3>5
  <2> QED
    BY <2>3, <2>4
<1>3. ASSUME NEW c \in Commands, Emit(c) PROVE SeamInv'
  <2>1. /\ hpc = "build" /\ ~dropped /\ arena \in Arenas
        /\ UNCHANGED <<arena, dropped, batchVars, dropRun, dropLimit, waitSeq,
                       ctl, fabricVars, abandoned, misses, awaits>>
        /\ UNCHANGED <<hpc, submitSeq>>
    BY <1>3 DEF Emit, TypeOK
  <2>2. /\ ring' \in [Arenas -> [Slots -> Slot]]
        /\ cmdCount' \in 0 .. RingCap /\ overflow' \in BOOLEAN
        /\ ring'[1 - arena] = ring[1 - arena]
        /\ (\A i \in 1 .. cmdCount : ring[arena][i].tag = submitSeq + 1)
             => \A i \in 1 .. cmdCount' : ring'[arena][i].tag = submitSeq + 1
    BY <1>3, <2>1, AppendFillsOneSlot DEF Emit
  <2>3. FrameTag = submitSeq + 1 /\ FrameTag \in Seqs
    BY <2>1, FrameTagIsSuccessor
  <2>4. InFlight => pendingArena = 1 - arena
    BY <2>1 DEF ArenaContents, TypeOK
  <2>5. TypeOK'
    BY <2>1, <2>2, <2>3 DEF TypeOK
  <2>6. HostControl' /\ SequenceOrder'
    BY <2>1, <2>2, <2>3 DEF TypeOK
  <2>7. BatchStatus' /\ DropAccounting' /\ Latched'
    BY <2>1, <2>2, <2>3 DEF TypeOK
  <2>8. ArenaContents'
    BY <2>1, <2>2, <2>3, <2>4 DEF TypeOK, ArenaContents, HoldsBatch
  <2> QED
    BY <2>5, <2>6, <2>7, <2>8
<1>4. CASE Refuse
  BY <1>4 DEF Refuse,
     TypeOK, ArenaContents, HoldsBatch
<1>5. CASE FrameEndDropped
  BY <1>5 DEF FrameEndDropped,
     TypeOK, ArenaContents, HoldsBatch
<1>6. CASE FrameEnd
  <2>1. /\ hpc = "build" /\ ~dropped /\ arena \in Arenas
        /\ UNCHANGED <<arena, dropped, batchVars, dropRun, dropLimit, waitSeq,
                       ctl, fabricVars, abandoned, misses, awaits>>
        /\ hpc' \in {"idle", "barrier"} /\ submitSeq' = FrameTag
    BY <1>6 DEF FrameEnd, TypeOK
  <2>2. /\ ring' \in [Arenas -> [Slots -> Slot]]
        /\ cmdCount' \in 0 .. RingCap /\ overflow' \in BOOLEAN
        /\ ring'[1 - arena] = ring[1 - arena]
        /\ (\A i \in 1 .. cmdCount : ring[arena][i].tag = submitSeq + 1)
             => \A i \in 1 .. cmdCount' : ring'[arena][i].tag = submitSeq + 1
    BY <1>6, <2>1, AppendFillsOneSlot DEF FrameEnd
  <2>3. FrameTag = submitSeq + 1 /\ FrameTag \in Seqs
    BY <2>1, FrameTagIsSuccessor
  <2>4. InFlight => pendingArena = 1 - arena
    BY <2>1, SMTT(30) DEF ArenaContents, TypeOK
  <2>5. TypeOK'
    BY <2>1, <2>2, <2>3 DEF TypeOK
  <2>6. HostControl' /\ SequenceOrder'
    <3>1. HostControl'
      BY <2>1 DEF TypeOK
    <3>2. ctl.submit < submitSeq' /\ ctl.submit <= submitSeq'
      BY <2>1, <2>3 DEF TypeOK
    <3>3. SequenceOrder'
      BY <2>1, <3>2
    <3> QED
      BY <3>1, <3>3
  <2>7. BatchStatus' /\ DropAccounting' /\ Latched'
    BY <2>1, <2>2, <2>3 DEF TypeOK
  <2>8. ArenaContents'
    BY <2>1, <2>2, <2>3, <2>4 DEF TypeOK, ArenaContents, HoldsBatch
  <2> QED
    BY <2>5, <2>6, <2>7, <2>8
<1>7. CASE BarrierFree
  BY <1>7 DEF BarrierFree,
     TypeOK, ArenaContents, HoldsBatch
<1>8. CASE BarrierAwait
  BY <1>8 DEF BarrierAwait, AwaitsNow, WaitFor,
     TypeOK, ArenaContents, HoldsBatch
<1>9. CASE BarrierSkipAwait
  BY <1>9 DEF BarrierSkipAwait, AwaitsNow,
     TypeOK, ArenaContents, HoldsBatch
<1>10. CASE AwaitAck
  BY <1>10, SMTT(30) DEF AwaitAck,
     TypeOK, ArenaContents, HoldsBatch
<1>11. CASE AwaitTimeout
  BY <1>11, SMTT(30) DEF AwaitTimeout,
     TypeOK, ArenaContents, HoldsBatch
<1>12. CASE ResolveAcked
  <2>1. TypeOK'
    BY <1>12 DEF ResolveAcked, TypeOK
  <2>2. (HostControl /\ SequenceOrder)'
    BY <1>12 DEF ResolveAcked, TypeOK
  <2>3. (BatchStatus /\ DropAccounting /\ Latched)'
    BY <1>12 DEF ResolveAcked, TypeOK
  <2>4. ArenaContents'
    BY <1>12 DEF ResolveAcked, TypeOK, ArenaContents, HoldsBatch
  <2> QED
    BY <2>1, <2>2, <2>3, <2>4
<1>13. CASE ResolveReclaim
  <2>1. TypeOK'
    BY <1>13 DEF ResolveReclaim, Reclaim, AtDropLimit, TypeOK
  <2>2. (HostControl /\ SequenceOrder)'
    BY <1>13 DEF ResolveReclaim, Reclaim, AtDropLimit, TypeOK
  <2>3. (BatchStatus /\ DropAccounting /\ Latched)'
    BY <1>13 DEF ResolveReclaim, Reclaim, AtDropLimit, TypeOK
  <2>4. ArenaContents'
    BY <1>13 DEF ResolveReclaim, Reclaim, AtDropLimit, TypeOK, ArenaContents, HoldsBatch
  <2> QED
    BY <2>1, <2>2, <2>3, <2>4
<1>14. CASE ResolveDrop
  BY <1>14 DEF ResolveDrop, DropFrame, AtDropLimit,
     TypeOK, ArenaContents, HoldsBatch
<1>15. CASE PublishWords
  <2>1. TypeOK'
    BY <1>15 DEF PublishWords, TypeOK
  <2>2. (HostControl /\ SequenceOrder)'
    BY <1>15 DEF PublishWords, TypeOK
  <2>3. (BatchStatus /\ DropAccounting /\ Latched)'
    BY <1>15, SMTT(30) DEF PublishWords, TypeOK
  <2>4. ArenaContents'
    BY <1>15 DEF PublishWords, TypeOK, ArenaContents, HoldsBatch
  <2> QED
    BY <2>1, <2>2, <2>3, <2>4
<1>16. CASE PublishSel
  <2>1. TypeOK'
    BY <1>16 DEF PublishSel, TypeOK
  <2>2. (HostControl /\ SequenceOrder)'
    BY <1>16 DEF PublishSel, TypeOK
  <2>3. (BatchStatus /\ DropAccounting /\ Latched)'
    BY <1>16 DEF PublishSel, TypeOK
  <2>4. ArenaContents'
    BY <1>16 DEF PublishSel, TypeOK, ArenaContents, HoldsBatch
  <2> QED
    BY <2>1, <2>2, <2>3, <2>4
<1>17. CASE PublishDoorbell
  <2>1. /\ hpc = "doorbell" /\ hpc' = "idle" /\ pending'
        /\ pendingSeq' = submitSeq /\ pendingArena' = arena
        /\ publishDepth' = publishDepth + 1 /\ misses' = 0 /\ awaits' = 0
        /\ UNCHANGED <<frameVars, dropped, dropRun, dropLimit, waitSeq, ring,
                       fabricVars, abandoned>>
    BY <1>17 DEF PublishDoorbell
  <2>2. /\ ctl' \in [count : 0 .. RingCap, sel : Arenas, submit : Seqs]
        /\ ctl'.count = ctl.count /\ ctl'.sel = ctl.sel
        /\ ctl'.submit = submitSeq
    BY <1>17 DEF PublishDoorbell, TypeOK
  <2>3. TypeOK'
    BY <2>1, <2>2 DEF TypeOK
  <2>4. HostControl' /\ SequenceOrder'
    BY <2>1, <2>2 DEF TypeOK
  <2>5. BatchStatus' /\ DropAccounting' /\ Latched'
    BY <2>1, <2>2 DEF TypeOK
  <2>6. ArenaContents'
    BY <2>1, <2>2 DEF TypeOK, ArenaContents, HoldsBatch
  <2> QED
    BY <2>3, <2>4, <2>5, <2>6
<1>18. CASE FabricNotice
  <2>1. TypeOK'
    BY <1>18 DEF FabricNotice, TypeOK
  <2>2. (HostControl /\ SequenceOrder)'
    BY <1>18, SMTT(30) DEF FabricNotice, TypeOK
  <2>3. (BatchStatus /\ DropAccounting /\ Latched)'
    BY <1>18 DEF FabricNotice, TypeOK
  <2>4. ArenaContents'
    BY <1>18 DEF FabricNotice, TypeOK, ArenaContents, HoldsBatch
  <2> QED
    BY <2>1, <2>2, <2>3, <2>4
<1>19. CASE FabricLatchWords
  <2>1. TypeOK'
    BY <1>19 DEF FabricLatchWords, TypeOK
  <2>2. (HostControl /\ SequenceOrder)'
    BY <1>19 DEF FabricLatchWords, TypeOK
  <2>3. (BatchStatus /\ DropAccounting /\ Latched)'
    BY <1>19 DEF FabricLatchWords, TypeOK
  <2>4. ArenaContents'
    BY <1>19 DEF FabricLatchWords, TypeOK, ArenaContents, HoldsBatch
  <2> QED
    BY <2>1, <2>2, <2>3, <2>4
<1>20. CASE FabricLatchSel
  <2>1. TypeOK'
    BY <1>20 DEF FabricLatchSel, TypeOK
  <2>2. (HostControl /\ SequenceOrder)'
    BY <1>20 DEF FabricLatchSel, TypeOK
  <2>3. (BatchStatus /\ DropAccounting /\ Latched)'
    BY <1>20 DEF FabricLatchSel, TypeOK
  <2>4. ArenaContents'
    BY <1>20 DEF FabricLatchSel, TypeOK, ArenaContents, HoldsBatch
  <2> QED
    BY <2>1, <2>2, <2>3, <2>4
<1>21. CASE FabricExecute
  <2>1. TypeOK'
    BY <1>21, SMTT(30) DEF FabricExecute, WalkEnded, TypeOK
  <2>2. (HostControl /\ SequenceOrder)'
    BY <1>21 DEF FabricExecute, WalkEnded, TypeOK
  <2>3. (BatchStatus /\ DropAccounting /\ Latched)'
    BY <1>21 DEF FabricExecute, WalkEnded, TypeOK
  <2>4. ArenaContents'
    BY <1>21 DEF FabricExecute, WalkEnded, TypeOK, ArenaContents, HoldsBatch
  <2> QED
    BY <2>1, <2>2, <2>3, <2>4
<1>22. CASE FabricAck
  <2>1. TypeOK'
    BY <1>22 DEF FabricAck, WalkEnded, TypeOK
  <2>2. (HostControl /\ SequenceOrder)'
    BY <1>22 DEF FabricAck, WalkEnded, TypeOK
  <2>3. (BatchStatus /\ DropAccounting /\ Latched)'
    BY <1>22 DEF FabricAck, WalkEnded, TypeOK
  <2>4. ArenaContents'
    BY <1>22 DEF FabricAck, WalkEnded, TypeOK, ArenaContents, HoldsBatch
  <2> QED
    BY <2>1, <2>2, <2>3, <2>4
<1>23. CASE UNCHANGED vars
  BY <1>23 DEF TypeOK, ArenaContents, HoldsBatch
<1> QED
  BY <1>1, <1>2, <1>3, <1>4, <1>5, <1>6, <1>7, <1>8, <1>9, <1>10, <1>11,
     <1>12, <1>13, <1>14, <1>15, <1>16, <1>17, <1>18, <1>19, <1>20, <1>21,
     <1>22, <1>23 DEF Next, Host, Fabric

-----------------------------------------------------------------------------

\* The whole invariant of the seam holds in every reachable state, whatever the
\* ring capacity, the drop limit and the modulus, until the sequence wraps.
THEOREM SeamInvariant == ASSUME ~Wrap PROVE Spec => []SeamInv
<1>1. Init => SeamInv
  BY InitEstablishesSeamInv
<1>2. SeamInv /\ [Next]_vars => SeamInv'
  BY StepPreservesSeamInv
<1> QED
  BY <1>1, <1>2, PTL DEF Spec

\* Every variable of the seam keeps its type (g_drop_run stays below the limit,
\* the control block and the latched copy stay within the ring).
THEOREM TypesHold == ASSUME ~Wrap PROVE Spec => []TypeOK
<1>1. SeamInv => TypeOK
  BY DEF SeamInv
<1> QED
  BY <1>1, SeamInvariant, PTL

\* The fabric never reads a command of another frame than the one whose sequence
\* it latched, unless that batch was reclaimed: the arena mf_frame_begin flips
\* into is never the one being read.
THEOREM FabricExecutesItsOwnBatch ==
  ASSUME ~Wrap PROVE Spec => []ExecutesItsOwnBatch
<1>1. SeamInv => ExecutesItsOwnBatch
  <2> SUFFICES ASSUME SeamInv, fpc = "exec", lat.seq \notin abandoned
               PROVE  HoldsBatch(lat.sel, lat.count, lat.seq)
    BY DEF ExecutesItsOwnBatch
  <2>1. lat.seq = ctl.submit /\ done < lat.seq
    BY DEF SeamInv, BatchStatus, SequenceOrder
  <2>2. done # pendingSeq /\ pendingSeq = lat.seq
    BY <2>1 DEF SeamInv, SequenceOrder, TypeOK
  <2>3. InFlight
    BY <2>1, <2>2 DEF SeamInv, BatchStatus, InFlight, Busy
  <2>4. lat.count = ctl.count /\ lat.sel = pendingArena
    BY <2>3 DEF SeamInv, Latched, ArenaContents
  <2> QED
    BY <2>2, <2>3, <2>4 DEF SeamInv, ArenaContents
<1> QED
  BY <1>1, SeamInvariant, PTL

\* mf_device_publish never rewrites the control block under a fabric that could
\* still latch it, unless the batch it reads was reclaimed.
THEOREM ControlBlockStaysQuiet == ASSUME ~Wrap PROVE Spec => []ControlBlockQuiet
<1>1. SeamInv => ControlBlockQuiet
  <2> SUFFICES ASSUME SeamInv, hpc \in PublishPoints, ctl.submit \notin abandoned
               PROVE  fpc = "poll" /\ ctl.submit = done
    BY DEF ControlBlockQuiet
  <2>1. ~pending /\ ctl.submit = done
    BY DEF SeamInv, HostControl, BatchStatus
  <2>2. ASSUME fpc # "poll" PROVE FALSE
    <3>1. done < lat.seq /\ lat.seq = ctl.submit
      BY <2>2, <2>1 DEF SeamInv, SequenceOrder, BatchStatus, TypeOK
    <3> QED
      BY <3>1, <2>1 DEF SeamInv, TypeOK
  <2> QED
    BY <2>1, <2>2
<1> QED
  BY <1>1, SeamInvariant, PTL

\* g_publish_depth never exceeds one batch, and a blocking await always has its
\* publish and waits for the sequence in the doorbell.
THEOREM AtMostOneBatchInFlight == ASSUME ~Wrap PROVE Spec => []OneBatchInFlight
<1>1. SeamInv => OneBatchInFlight
  BY DEF SeamInv, HostControl, SequenceOrder, OneBatchInFlight
<1> QED
  BY <1>1, SeamInvariant, PTL

\* The 200 ms poll is spent at most once on a batch, however long it stays stuck.
THEOREM AwaitsOncePerBatch == ASSUME ~Wrap PROVE Spec => []OneBlockingAwaitPerBatch
<1>1. SeamInv => OneBlockingAwaitPerBatch
  BY DEF SeamInv, DropAccounting, OneBlockingAwaitPerBatch
<1> QED
  BY <1>1, SeamInvariant, PTL

\* After the first dropped frame of a wedge the barrier never meets the stuck
\* batch again: the drop run only grows at mf_frame_begin.
THEOREM WedgesSettleAtFrameBegin ==
  ASSUME ~Wrap PROVE Spec => []WedgeSettlesAtFrameBegin
<1>1. SeamInv => WedgeSettlesAtFrameBegin
  <2> SUFFICES ASSUME SeamInv, hpc = "resolve", Busy, dropRun # 0 PROVE FALSE
    BY DEF WedgeSettlesAtFrameBegin
  <2>1. InFlight /\ dropRun > 0
    BY Bounds DEF SeamInv, HostControl, InFlight, TypeOK
  <2> QED
    BY <2>1 DEF SeamInv, DropAccounting
<1> QED
  BY <1>1, SeamInvariant, PTL

\* A reclaim follows exactly dropLimit - 1 frames dropped against that same batch
\* and the one more that reclaims it: no head start in g_drop_run survives.
THEOREM ReclaimsOnlyAfterFullRun ==
  ASSUME ~Wrap PROVE Spec => ReclaimOnlyAfterFullRun
<1>1. SeamInv /\ [Next]_vars => [abandoned' # abandoned => misses = dropLimit - 1]_vars
  <2> SUFFICES ASSUME SeamInv, Next, abandoned' # abandoned
               PROVE  misses = dropLimit - 1
    OBVIOUS
  <2>1. pending /\ AtDropLimit
    <3>1. CASE FrameBeginBuild
      BY <3>1 DEF FrameBeginBuild, Reclaim, RewindsBusyArena
    <3>2. CASE ResolveReclaim
      BY <3>2 DEF ResolveReclaim, Reclaim, SeamInv, HostControl
    <3>3. ASSUME ~FrameBeginBuild, ~ResolveReclaim PROVE abandoned' = abandoned
      BY <3>3 DEF Next, Host, Fabric, FrameBeginDrop, Emit, Refuse,
         FrameEndDropped, FrameEnd, BarrierFree, BarrierAwait,
         BarrierSkipAwait, AwaitAck, AwaitTimeout, ResolveAcked, ResolveDrop,
         DropFrame, PublishWords, PublishSel, PublishDoorbell, FabricNotice,
         FabricLatchWords, FabricLatchSel, FabricExecute, FabricAck
    <3> QED
      BY <3>1, <3>2, <3>3
  <2>2. misses = dropRun /\ dropRun \in 0 .. dropLimit - 1
    BY <2>1 DEF SeamInv, DropAccounting, TypeOK
  <2>3. dropLimit \in Nat
    BY LimitIsPositive DEF SeamInv, TypeOK
  <2> QED
    BY <2>1, <2>2, <2>3 DEF AtDropLimit
<1> QED
  BY <1>1, SeamInvariant, PTL DEF Spec, ReclaimOnlyAfterFullRun

\* The seam implements the handoff: a doorbell is rung only once the batch before
\* it is answered or given up, with a higher sequence, and C_DONE only moves up to
\* the batch offered or to one that was given up.
THEOREM SeamImplementsHandoff == ASSUME ~Wrap PROVE Spec => ImplementsHandoff
<1>1. Init => Handoff!HandoffInit
  BY DEF Init, Handoff!HandoffInit
<1>2. SeamInv /\ [Next]_vars => [Handoff!HandoffNext]_(Handoff!handoffVars)
  <2> SUFFICES ASSUME SeamInv, [Next]_vars
               PROVE  [Handoff!HandoffNext]_(Handoff!handoffVars)
    OBVIOUS
  <2> USE DEF Handoff!HandoffNext, Handoff!handoffVars
  <2>1. CASE PublishDoorbell
    <3>1. /\ done = ctl.submit \/ ctl.submit \in abandoned
          /\ ctl.submit < submitSeq /\ submitSeq \in Seqs
      BY <2>1 DEF PublishDoorbell, SeamInv, HostControl, BatchStatus,
                  SequenceOrder, TypeOK
    <3>2. ctl'.submit = submitSeq /\ done' = done /\ abandoned' = abandoned
      BY <2>1 DEF PublishDoorbell, SeamInv, TypeOK
    <3>3. submitSeq > ctl.submit
      BY <3>1 DEF SeamInv, TypeOK
    <3>4. Handoff!Offer
      BY <3>1, <3>2, <3>3 DEF Handoff!Offer, Handoff!Settled
    <3> QED
      BY <3>4
  <2>2. CASE FabricAck
    <3>1. /\ lat.seq = ctl.submit \/ lat.seq \in abandoned
          /\ lat.seq > done
      BY <2>2 DEF FabricAck, SeamInv, BatchStatus, SequenceOrder, TypeOK
    <3>2. done' = lat.seq /\ ctl' = ctl /\ abandoned' = abandoned
      BY <2>2 DEF FabricAck
    <3>3. Handoff!Answer
      BY <3>1, <3>2 DEF Handoff!Answer
    <3> QED
      BY <3>3
  <2>3. ASSUME Reclaim, pending, Busy, UNCHANGED <<ctl, done>>
        PROVE  Handoff!GiveUp
    <3>1. pendingSeq = ctl.submit /\ done # ctl.submit
      BY <2>3 DEF SeamInv, SequenceOrder, Busy
    <3>2. abandoned' = abandoned \union {ctl.submit}
      BY <2>3, <3>1 DEF Reclaim
    <3> QED
      BY <2>3, <3>1, <3>2 DEF Handoff!GiveUp
  <2>4. CASE FrameBeginBuild
    <3>1. CASE RewindsBusyArena
      BY <2>3, <2>4, <3>1 DEF FrameBeginBuild, RewindsBusyArena
    <3>2. CASE ~RewindsBusyArena
      BY <2>4, <3>2 DEF FrameBeginBuild
    <3> QED
      BY <3>1, <3>2
  <2>5. CASE ResolveReclaim
    BY <2>3, <2>5 DEF ResolveReclaim, SeamInv, HostControl
  <2>6. CASE PublishWords
    <3>1. ctl'.submit = ctl.submit /\ UNCHANGED <<done, abandoned>>
      BY <2>6 DEF PublishWords, SeamInv, TypeOK
    <3> QED
      BY <3>1
  <2>7. CASE PublishSel
    <3>1. ctl'.submit = ctl.submit /\ UNCHANGED <<done, abandoned>>
      BY <2>7 DEF PublishSel, SeamInv, TypeOK
    <3> QED
      BY <3>1
  <2>8. ASSUME ~PublishDoorbell, ~FabricAck, ~FrameBeginBuild, ~ResolveReclaim,
               ~PublishWords, ~PublishSel
        PROVE  UNCHANGED <<ctl, done, abandoned>>
    BY <2>8 DEF Next, Host, Fabric, FrameBeginDrop, DropFrame, Emit, Refuse,
       FrameEndDropped, FrameEnd, BarrierFree, BarrierAwait, BarrierSkipAwait,
       AwaitAck, AwaitTimeout, ResolveAcked, ResolveDrop, FabricNotice,
       FabricLatchWords, FabricLatchSel, FabricExecute
  <2> QED
    BY <2>1, <2>2, <2>4, <2>5, <2>6, <2>7, <2>8
<1> QED
  BY <1>1, <1>2, SeamInvariant, PTL DEF Spec, ImplementsHandoff,
     Handoff!HandoffSpec

=============================================================================
