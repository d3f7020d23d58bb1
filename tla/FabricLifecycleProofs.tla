------------------------ MODULE FabricLifecycleProofs ------------------------
(***************************************************************************)
(* For any number of processes, frames and bring-up attempts: nobody runs  *)
(* a dead process's commands, and as long as every wait was answered in    *)
(* time the fabric runs the batch that was published, an acknowledgement   *)
(* means what it says, and a parked block stays idle.                      *)
(***************************************************************************)
EXTENDS FabricLifecycle, TLAPS

Publishing == {"count", "sel", "doorbell"}
Emitted    == {"barrier"} \union Publishing

\* Where the wait and the park are, on the main thread or beside it.
Where == IF other = "none" THEN hpc ELSE other

\* Who may be where: a handler beside the frame loop only in a teardown, and what has
\* been parked is not parked again.
Control ==
  /\ down <=> why # "boot"
  /\ other # "none" => hpc \in RunPoints /\ why = "signal"
  /\ hpc \in {"probe", "probewait"} => ~down
  /\ hpc \in BringUpPoints /\ ~down => ~batch.pending
  /\ parked => down /\ other = "none" /\ hpc \in {"off"} \union RunPoints

RingsAreOwn == Cleared => \A a \in Arenas : ring[a] = Zeroed \/ ring[a].life = life

\* The words are only written under a fabric that has answered.
FabricTracks ==
  /\ fpc # "poll" => lat.seq = ctl.submit /\ done # ctl.submit
  /\ fpc \in {"sel", "exec"} => lat.count = ctl.count
  /\ fpc = "exec" => lat.sel = ctl.sel

Answered == done = ctl.submit

QuietWhileParking ==
  /\ Where \in {"clear", "park", "parksel", "parkring"} => Answered /\ base = done
  /\ Where \in {"parksel", "parkring"} => ctl.count = 0
  /\ hpc = "probe" => Answered /\ base = done /\ ctl.count = 0
  /\ hpc = "probewait" => ctl.submit = base + 1 /\ ctl.count = 0

\* The frame loop while no teardown has begun: what was built, and what is published.
SequencesRise ==
  /\ ctl.submit <= seq
  /\ hpc \in Emitted => ctl.submit < seq /\ ~dropped /\ ring[arena] = FrameOf(seq)

PublishesInTurn ==
  /\ hpc \in Publishing => Answered
  /\ hpc \in {"sel", "doorbell"} => ctl.count = 1
  /\ hpc = "doorbell" => ctl.sel = arena

BatchInFlight ==
  /\ ~batch.pending => Answered
  /\ batch.pending => batch.seq = ctl.submit
  /\ batch.pending /\ Answered => batch.seq \in ran
  /\ ~Answered => /\ ctl.count = 1 /\ ctl.sel = batch.arena
                  /\ ring[batch.arena] = FrameOf(batch.seq)
                  /\ hpc \in {"build", "barrier"} /\ ~dropped => batch.arena # arena

FrameLoop == hpc \in RunPoints /\ ~down => SequencesRise /\ PublishesInTurn /\ BatchInFlight

\* Once the teardown has begun nothing is published.
StaysParked ==
  /\ down /\ hpc \in RunPoints => hpc \in {"idle", "build"}
  /\ parked => Answered /\ ctl.count = 0

InTime == ~astray => FabricTracks /\ QuietWhileParking /\ FrameLoop /\ StaysParked

LifeInv == TypeOK /\ Control /\ RingsAreOwn /\ InTime

-----------------------------------------------------------------------------
(* Types and control.                                                      *)

USE DEF Arenas, NoBatch, Zeroed, Junk, FrameOf

LEMMA InitInv == Init => LifeInv
<1> SUFFICES ASSUME Init PROVE LifeInv
  OBVIOUS
<1>1. TypeOK
  <2>1. ring \in [Arenas -> [life : 0 .. life, seq : Nat]]
    BY DEF Init
  <2>2. ctl \in [count : 0 .. 1, sel : Arenas, submit : Nat] /\ done \in Nat
    BY DEF Init
  <2>3. batch \in [pending : BOOLEAN, seq : Nat, arena : Arenas]
    BY DEF Init
  <2>4. life \in 0 .. MaxLives /\ frames \in 0 .. MaxFrames /\ tries \in 0 .. Tries - 1
    BY LifecycleAssumption DEF LifecycleAssumption, Init
  <2>5. lat \in [seq : Nat, count : 0 .. 1, sel : Arenas] /\ ran \subseteq Nat
    BY DEF Init
  <2> QED BY <2>1, <2>2, <2>3, <2>4, <2>5 DEF Init, TypeOK, HostPoints
<1>2. Control /\ RingsAreOwn /\ InTime
  BY DEF Init, Control, RingsAreOwn, Cleared, RunPoints, BringUpPoints, InTime, FabricTracks,
         QuietWhileParking, Where, FrameLoop, StaysParked
<1> QED BY <1>1, <1>2 DEF LifeInv

LEMMA TypesKept ==
  ASSUME TypeOK, Next PROVE TypeOK'
<1> USE LifecycleAssumption
    DEF LifecycleAssumption, TypeOK, HostPoints, BringUpPoints, RunPoints
<1>1. CASE Start
  <2>1. ring' \in [Arenas -> [life : 0 .. life', seq : Nat]] /\ life' \in 0 .. MaxLives
    BY <1>1 DEF Start
  <2>2. batch' \in [pending : BOOLEAN, seq : Nat, arena : Arenas]
    BY <1>1 DEF Start
  <2>3. frames' \in 0 .. MaxFrames /\ tries' \in 0 .. Tries - 1 /\ ran' \subseteq Nat
    BY <1>1 DEF Start
  <2>4. ctl' \in [count : 0 .. 1, sel : Arenas, submit : Nat] /\ done' \in Nat
        /\ lat' \in [seq : Nat, count : 0 .. 1, sel : Arenas] /\ fpc' = fpc /\ astray' \in BOOLEAN
    BY <1>1 DEF Start, fabricVars
  <2>5. /\ hpc' = "wait" /\ other' = "none" /\ why' = "boot" /\ base' = 0 /\ seq' = 0
        /\ arena' = 0 /\ ~dropped' /\ ~down' /\ ~parked'
        /\ dropped' \in BOOLEAN /\ down' \in BOOLEAN /\ parked' \in BOOLEAN
    BY <1>1 DEF Start
  <2> QED BY <2>1, <2>2, <2>3, <2>4, <2>5
<1>2. CASE Kill
  BY <1>2 DEF Kill, frameVars, fabricVars
<1>3. CASE TeardownCall
  BY <1>3 DEF TeardownCall, Teardown, OnMain, frameVars, fabricVars
<1>4. CASE TeardownSignal
  BY <1>4 DEF TeardownSignal, Teardown, OnMain, frameVars, fabricVars
<1>5. CASE TeardownBeside
  BY <1>5 DEF TeardownBeside, Teardown, frameVars, fabricVars
<1>6. CASE WaitIdle
  BY <1>6 DEF WaitIdle, At, GoTo, frameVars, fabricVars
<1>7. CASE WaitTimeout
  BY <1>7 DEF WaitTimeout, At, GoTo, frameVars, fabricVars
<1>8. CASE ClearStaleDram
  BY <1>8 DEF ClearStaleDram, ClearRings, At, GoTo, parkVars, frameVars, fabricVars
<1>9. CASE ParkWords
  BY <1>9 DEF ParkWords, At, GoTo, parkVars, frameVars, fabricVars
<1>10. CASE ParkSel
  BY <1>10 DEF ParkSel, At, GoTo, parkVars, frameVars, fabricVars
<1>11. CASE ParkDoorbell
  BY <1>11 DEF ParkDoorbell, At, parkVars, frameVars, fabricVars
<1>12. CASE ProbeDoorbell
  BY <1>12 DEF ProbeDoorbell, ProbeSeq, processVars, parkVars, frameVars, fabricVars
<1>13. CASE ProbeAcked
  BY <1>13 DEF ProbeAcked, AdoptedSeq, hooks, fabricVars
<1>14. CASE ProbeRetry
  BY <1>14 DEF ProbeRetry, LastTry, frameVars, hooks, fabricVars
<1>15. CASE SoftFail
  BY <1>15 DEF SoftFail, AdoptedSeq, hooks, fabricVars
<1>16. CASE FrameBeginDrop
  BY <1>16 DEF FrameBeginDrop, hooks, fabricVars
<1>17. CASE FrameBegin
  <2>1. arena' \in Arenas /\ frames' \in 0 .. MaxFrames
    BY <1>17 DEF FrameBegin
  <2>2. UNCHANGED <<life, why, tries, base, astray, seq, batch, down, other, ring, ctl, done, fpc,
                    lat, ran, parked>>
    BY <1>17 DEF FrameBegin, hooks, fabricVars
  <2>3. hpc' = "build" /\ dropped' \in BOOLEAN
    BY <1>17 DEF FrameBegin
  <2> QED BY <2>1, <2>2, <2>3
<1>18. CASE FrameEndDropped
  BY <1>18 DEF FrameEndDropped, processVars, parkVars, frameVars, fabricVars
<1>19. CASE FrameEnd
  BY <1>19 DEF FrameEnd, ShutDown, hooks, fabricVars
<1>20. CASE BarrierOpen
  <2>1. batch' \in [pending : BOOLEAN, seq : Nat, arena : Arenas]
    BY <1>20 DEF BarrierOpen
  <2> QED BY <1>20, <2>1 DEF BarrierOpen, frameVars, hooks, fabricVars
<1>21. CASE BarrierDrop
  BY <1>21 DEF BarrierDrop, hooks, fabricVars
<1>22. CASE PublishWords
  BY <1>22 DEF PublishWords, processVars, parkVars, frameVars, fabricVars
<1>23. CASE PublishSel
  BY <1>23 DEF PublishSel, processVars, parkVars, frameVars, fabricVars
<1>24. CASE PublishDoorbell
  BY <1>24 DEF PublishDoorbell, frameVars, hooks, fabricVars
<1>25. CASE FabricNotice
  BY <1>25 DEF FabricNotice, hostVars, processVars, parkVars, frameVars
<1>26. CASE FabricLatchWords
  BY <1>26 DEF FabricLatchWords, hostVars, processVars, parkVars, frameVars
<1>27. CASE FabricLatchSel
  BY <1>27 DEF FabricLatchSel, hostVars, processVars, parkVars, frameVars
<1>28. CASE FabricAck
  <2>1. ring[lat.sel].seq \in Nat /\ lat.seq \in Nat
    OBVIOUS
  <2>2. ran' \subseteq Nat /\ done' \in Nat
    BY <1>28, <2>1 DEF FabricAck
  <2> QED BY <1>28, <2>2 DEF FabricAck, hostVars, processVars, parkVars, frameVars
<1> QED BY <1>1, <1>2, <1>3, <1>4, <1>5, <1>6, <1>7, <1>8, <1>9, <1>10, <1>11, <1>12,
           <1>13, <1>14, <1>15, <1>16, <1>17, <1>18, <1>19, <1>20, <1>21, <1>22, <1>23,
           <1>24, <1>25, <1>26, <1>27, <1>28
     DEF Next, OutOfTime, Host, Fabric

LEMMA ControlKept ==
  ASSUME LifeInv, Next
  PROVE  Control' /\ RingsAreOwn'
<1> USE DEF LifeInv, TypeOK, Control, RingsAreOwn, Cleared, HostPoints, BringUpPoints, RunPoints
<1>1. CASE Start
  BY <1>1 DEF Start, fabricVars
<1>2. CASE Kill
  BY <1>2 DEF Kill, frameVars, fabricVars
<1>3. CASE TeardownCall
  BY <1>3 DEF TeardownCall, Teardown, OnMain, frameVars, fabricVars
<1>4. CASE TeardownSignal
  BY <1>4 DEF TeardownSignal, Teardown, OnMain, frameVars, fabricVars
<1>5. CASE TeardownBeside
  BY <1>5 DEF TeardownBeside, Teardown, frameVars, fabricVars
<1>6. CASE WaitIdle
  BY <1>6 DEF WaitIdle, At, GoTo, frameVars, fabricVars
<1>7. CASE WaitTimeout
  BY <1>7 DEF WaitTimeout, At, GoTo, frameVars, fabricVars
<1>8. CASE ClearStaleDram
  BY <1>8 DEF ClearStaleDram, ClearRings, At, GoTo, parkVars, frameVars, fabricVars
<1>9. CASE ParkWords
  BY <1>9 DEF ParkWords, At, GoTo, parkVars, frameVars, fabricVars
<1>10. CASE ParkSel
  BY <1>10 DEF ParkSel, At, GoTo, parkVars, frameVars, fabricVars
<1>11. CASE ParkDoorbell
  BY <1>11 DEF ParkDoorbell, At, parkVars, frameVars, fabricVars
<1>12. CASE ProbeDoorbell
  BY <1>12 DEF ProbeDoorbell, ProbeSeq, processVars, parkVars, frameVars, fabricVars
<1>13. CASE ProbeAcked
  BY <1>13 DEF ProbeAcked, AdoptedSeq, hooks, fabricVars
<1>14. CASE ProbeRetry
  BY <1>14 DEF ProbeRetry, LastTry, frameVars, hooks, fabricVars
<1>15. CASE SoftFail
  BY <1>15 DEF SoftFail, AdoptedSeq, hooks, fabricVars
<1>16. CASE FrameBeginDrop
  BY <1>16 DEF FrameBeginDrop, hooks, fabricVars
<1>17. CASE FrameBegin
  BY <1>17 DEF FrameBegin, hooks, fabricVars
<1>18. CASE FrameEndDropped
  BY <1>18 DEF FrameEndDropped, processVars, parkVars, frameVars, fabricVars
<1>19. CASE FrameEnd
  BY <1>19 DEF FrameEnd, ShutDown, hooks, fabricVars
<1>20. CASE BarrierOpen
  BY <1>20 DEF BarrierOpen, frameVars, hooks, fabricVars
<1>21. CASE BarrierDrop
  BY <1>21 DEF BarrierDrop, hooks, fabricVars
<1>22. CASE PublishWords
  BY <1>22 DEF PublishWords, processVars, parkVars, frameVars, fabricVars
<1>23. CASE PublishSel
  BY <1>23 DEF PublishSel, processVars, parkVars, frameVars, fabricVars
<1>24. CASE PublishDoorbell
  BY <1>24 DEF PublishDoorbell, frameVars, hooks, fabricVars
<1>25. CASE FabricNotice
  BY <1>25 DEF FabricNotice, hostVars, processVars, parkVars, frameVars
<1>26. CASE FabricLatchWords
  BY <1>26 DEF FabricLatchWords, hostVars, processVars, parkVars, frameVars
<1>27. CASE FabricLatchSel
  BY <1>27 DEF FabricLatchSel, hostVars, processVars, parkVars, frameVars
<1>28. CASE FabricAck
  BY <1>28 DEF FabricAck, hostVars, processVars, parkVars, frameVars
<1> QED BY <1>1, <1>2, <1>3, <1>4, <1>5, <1>6, <1>7, <1>8, <1>9, <1>10, <1>11, <1>12,
           <1>13, <1>14, <1>15, <1>16, <1>17, <1>18, <1>19, <1>20, <1>21, <1>22, <1>23,
           <1>24, <1>25, <1>26, <1>27, <1>28
     DEF Next, OutOfTime, Host, Fabric

-----------------------------------------------------------------------------
(* As long as everything was answered in time.                             *)

\* The words are quiet: for the fabric, while they are parked, and after that.
LEMMA WordsKept ==
  ASSUME LifeInv, Next, ~astray'
  PROVE  FabricTracks' /\ QuietWhileParking' /\ StaysParked'
<1> USE DEF LifeInv, TypeOK, Control, InTime, FabricTracks, QuietWhileParking, Where, FrameLoop, StaysParked,
             PublishesInTurn, Publishing, Answered, RunPoints
<1>1. CASE Start
  BY <1>1 DEF Start, fabricVars
<1>2. CASE Kill
  BY <1>2 DEF Kill, frameVars, fabricVars
<1>3. CASE TeardownCall
  BY <1>3 DEF TeardownCall, Teardown, OnMain, frameVars, fabricVars
<1>4. CASE TeardownSignal
  BY <1>4 DEF TeardownSignal, Teardown, OnMain, frameVars, fabricVars
<1>5. CASE TeardownBeside
  BY <1>5 DEF TeardownBeside, Teardown, frameVars, fabricVars
<1>6. CASE WaitIdle
  BY <1>6 DEF WaitIdle, At, GoTo, frameVars, fabricVars
<1>7. CASE WaitTimeout
  BY <1>7 DEF WaitTimeout, At, GoTo, frameVars, fabricVars
<1>8. CASE ClearStaleDram
  BY <1>8 DEF ClearStaleDram, ClearRings, At, GoTo, parkVars, frameVars, fabricVars
<1>9. CASE ParkWords
  BY <1>9 DEF ParkWords, At, GoTo, parkVars, frameVars, fabricVars
<1>10. CASE ParkSel
  BY <1>10 DEF ParkSel, At, GoTo, parkVars, frameVars, fabricVars
<1>11. CASE ParkDoorbell
  BY <1>11 DEF ParkDoorbell, At, parkVars, frameVars, fabricVars
<1>12. CASE ProbeDoorbell
  BY <1>12 DEF ProbeDoorbell, ProbeSeq, processVars, parkVars, frameVars, fabricVars
<1>13. CASE ProbeAcked
  BY <1>13 DEF ProbeAcked, AdoptedSeq, hooks, fabricVars
<1>14. CASE ProbeRetry
  BY <1>14 DEF ProbeRetry, LastTry, frameVars, hooks, fabricVars
<1>15. CASE SoftFail
  BY <1>15 DEF SoftFail, AdoptedSeq, hooks, fabricVars
<1>16. CASE FrameBeginDrop
  BY <1>16 DEF FrameBeginDrop, hooks, fabricVars
<1>17. CASE FrameBegin
  BY <1>17 DEF FrameBegin, hooks, fabricVars
<1>18. CASE FrameEndDropped
  BY <1>18 DEF FrameEndDropped, processVars, parkVars, frameVars, fabricVars
<1>19. CASE FrameEnd
  BY <1>19 DEF FrameEnd, ShutDown, hooks, fabricVars
<1>20. CASE BarrierOpen
  BY <1>20 DEF BarrierOpen, frameVars, hooks, fabricVars
<1>21. CASE BarrierDrop
  BY <1>21 DEF BarrierDrop, hooks, fabricVars
<1>22. CASE PublishWords
  BY <1>22 DEF PublishWords, processVars, parkVars, frameVars, fabricVars
<1>23. CASE PublishSel
  BY <1>23 DEF PublishSel, processVars, parkVars, frameVars, fabricVars
<1>24. CASE PublishDoorbell
  BY <1>24 DEF PublishDoorbell, frameVars, hooks, fabricVars
<1>25. CASE FabricNotice
  BY <1>25 DEF FabricNotice, hostVars, processVars, parkVars, frameVars
<1>26. CASE FabricLatchWords
  BY <1>26 DEF FabricLatchWords, hostVars, processVars, parkVars, frameVars
<1>27. CASE FabricLatchSel
  BY <1>27 DEF FabricLatchSel, hostVars, processVars, parkVars, frameVars
<1>28. CASE FabricAck
  BY <1>28 DEF FabricAck, hostVars, processVars, parkVars, frameVars
<1> QED BY <1>1, <1>2, <1>3, <1>4, <1>5, <1>6, <1>7, <1>8, <1>9, <1>10, <1>11, <1>12,
           <1>13, <1>14, <1>15, <1>16, <1>17, <1>18, <1>19, <1>20, <1>21, <1>22, <1>23,
           <1>24, <1>25, <1>26, <1>27, <1>28
     DEF Next, OutOfTime, Host, Fabric

LEMMA LoopKept ==
  ASSUME LifeInv, Next, ~astray', hpc' \in RunPoints, ~down'
  PROVE  SequencesRise' /\ PublishesInTurn' /\ BatchInFlight'
<1> USE DEF LifeInv, TypeOK, Control, InTime, FabricTracks, QuietWhileParking, Where, FrameLoop,
             SequencesRise, PublishesInTurn, BatchInFlight, Emitted, Publishing, Answered,
             RunPoints, BringUpPoints, Busy, RewindsBusyArena
<1>1. CASE Start
  BY <1>1 DEF Start, fabricVars
<1>2. CASE Kill
  BY <1>2 DEF Kill, frameVars, fabricVars
<1>3. CASE TeardownCall
  BY <1>3 DEF TeardownCall, Teardown, OnMain, frameVars, fabricVars
<1>4. CASE TeardownSignal
  BY <1>4 DEF TeardownSignal, Teardown, OnMain, frameVars, fabricVars
<1>5. CASE TeardownBeside
  BY <1>5 DEF TeardownBeside, Teardown, frameVars, fabricVars
<1>6. CASE WaitIdle
  BY <1>6 DEF WaitIdle, At, GoTo, frameVars, fabricVars
<1>7. CASE WaitTimeout
  BY <1>7 DEF WaitTimeout, At, GoTo, frameVars, fabricVars
<1>8. CASE ClearStaleDram
  BY <1>8 DEF ClearStaleDram, ClearRings, At, GoTo, parkVars, frameVars, fabricVars
<1>9. CASE ParkWords
  BY <1>9 DEF ParkWords, At, GoTo, parkVars, frameVars, fabricVars
<1>10. CASE ParkSel
  BY <1>10 DEF ParkSel, At, GoTo, parkVars, frameVars, fabricVars
<1>11. CASE ParkDoorbell
  BY <1>11 DEF ParkDoorbell, At, parkVars, frameVars, fabricVars
<1>12. CASE ProbeDoorbell
  BY <1>12 DEF ProbeDoorbell, ProbeSeq, processVars, parkVars, frameVars, fabricVars
<1>13. CASE ProbeAcked
  BY <1>13 DEF ProbeAcked, AdoptedSeq, hooks, fabricVars
<1>14. CASE ProbeRetry
  BY <1>14 DEF ProbeRetry, LastTry, frameVars, hooks, fabricVars
<1>15. CASE SoftFail
  BY <1>15 DEF SoftFail, AdoptedSeq, hooks, fabricVars
<1>16. CASE FrameBeginDrop
  BY <1>16 DEF FrameBeginDrop, hooks, fabricVars
<1>17. CASE FrameBegin
  BY <1>17 DEF FrameBegin, hooks, fabricVars
<1>18. CASE FrameEndDropped
  BY <1>18 DEF FrameEndDropped, processVars, parkVars, frameVars, fabricVars
<1>19. CASE FrameEnd
  BY <1>19 DEF FrameEnd, ShutDown, hooks, fabricVars
<1>20. CASE BarrierOpen
  BY <1>20 DEF BarrierOpen, frameVars, hooks, fabricVars
<1>21. CASE BarrierDrop
  BY <1>21 DEF BarrierDrop, hooks, fabricVars
<1>22. CASE PublishWords
  BY <1>22 DEF PublishWords, processVars, parkVars, frameVars, fabricVars
<1>23. CASE PublishSel
  BY <1>23 DEF PublishSel, processVars, parkVars, frameVars, fabricVars
<1>24. CASE PublishDoorbell
  BY <1>24 DEF PublishDoorbell, frameVars, hooks, fabricVars
<1>25. CASE FabricNotice
  BY <1>25 DEF FabricNotice, hostVars, processVars, parkVars, frameVars
<1>26. CASE FabricLatchWords
  BY <1>26 DEF FabricLatchWords, hostVars, processVars, parkVars, frameVars
<1>27. CASE FabricLatchSel
  BY <1>27 DEF FabricLatchSel, hostVars, processVars, parkVars, frameVars
<1>28. CASE FabricAck
  BY <1>28 DEF FabricAck, hostVars, processVars, parkVars, frameVars
<1> QED BY <1>1, <1>2, <1>3, <1>4, <1>5, <1>6, <1>7, <1>8, <1>9, <1>10, <1>11, <1>12,
           <1>13, <1>14, <1>15, <1>16, <1>17, <1>18, <1>19, <1>20, <1>21, <1>22, <1>23,
           <1>24, <1>25, <1>26, <1>27, <1>28
     DEF Next, OutOfTime, Host, Fabric

-----------------------------------------------------------------------------
(* The theorems.                                                           *)

LEMMA StepKeeps == LifeInv /\ [Next]_vars => LifeInv'
<1> SUFFICES ASSUME LifeInv, [Next]_vars PROVE LifeInv'
  OBVIOUS
<1>1. CASE Next
  <2>1. TypeOK' /\ Control' /\ RingsAreOwn'
    BY <1>1, TypesKept, ControlKept DEF LifeInv
  <2>2. ASSUME ~astray' PROVE FabricTracks' /\ QuietWhileParking' /\ FrameLoop' /\ StaysParked'
    BY <1>1, <2>2, WordsKept, LoopKept DEF FrameLoop
  <2> QED BY <2>1, <2>2 DEF LifeInv, InTime
<1>2. CASE UNCHANGED vars
  BY <1>2 DEF vars, processVars, parkVars, frameVars, fabricVars, LifeInv, TypeOK, Control,
              RingsAreOwn, Cleared, InTime, FabricTracks, QuietWhileParking, Where, Answered,
              FrameLoop, SequencesRise, PublishesInTurn, BatchInFlight, StaysParked
<1> QED BY <1>1, <1>2

\* The invariant, for any number of processes, frames and attempts.
THEOREM LifeInvariant == Spec => []LifeInv
  BY InitInv, StepKeeps, PTL DEF Spec

\* Nobody executes a dead process's commands, whatever two threads left in the block; and
\* in time, what the fabric executes is the batch that was published, from a ring that the
\* host is not building in.
THEOREM FabricRunsOnlyItsBatch == Spec => []RunsOnlyItsBatch
<1>1. LifeInv => RunsOnlyItsBatch
  <2> SUFFICES ASSUME LifeInv PROVE RunsOnlyItsBatch
    OBVIOUS
  <2>1. NoGhostCommands
    BY DEF LifeInv, TypeOK, RingsAreOwn, NoGhostCommands
  <2>2. ASSUME ~astray, fpc = "exec", lat.count > 0, hpc \in RunPoints, ~down
        PROVE  ring[lat.sel] = FrameOf(lat.seq) /\ ~(hpc = "build" /\ ~dropped /\ arena = lat.sel)
    BY <2>2 DEF LifeInv, InTime, FabricTracks, FrameLoop, BatchInFlight, Answered
  <2> QED BY <2>1, <2>2 DEF LifeInv, RunsOnlyItsBatch
<1> QED BY <1>1, LifeInvariant, PTL

\* In time, what the host takes for an acknowledgement of its batch is one.
THEOREM AckedMeansExecuted == Spec => []AckMeansExecutedInTime
<1>1. LifeInv => AckMeansExecutedInTime
  BY DEF LifeInv, TypeOK, InTime, FrameLoop, BatchInFlight, Answered, AckMeansExecutedInTime, Acked, Busy
<1> QED BY <1>1, LifeInvariant, PTL

\* In time, a teardown that found the block idle leaves it so, whatever is rendered after.
THEOREM ParkedIsIdle == Spec => []ParkedStaysIdle
<1>1. LifeInv => ParkedStaysIdle
  BY DEF LifeInv, TypeOK, InTime, FabricTracks, StaysParked, Answered, ParkedStaysIdle
<1> QED BY <1>1, LifeInvariant, PTL

=============================================================================
