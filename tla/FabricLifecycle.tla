--------------------------- MODULE FabricLifecycle ---------------------------
(***************************************************************************)
(* Engine processes that start, die and start again on one control block:  *)
(* the bring-up (quiesce, clear, park, probe) and the teardown (quiesce,   *)
(* clear, park) of backend_mfgpu around a coarse frame loop.  The block,   *)
(* the rings and the fabric outlive every process; a process can be killed *)
(* between any two of its writes, and a catchable signal runs the teardown *)
(* in the middle of a publish, on the thread it interrupts or on another   *)
(* one beside the frame loop.                                              *)
(*                                                                         *)
(* A ring is one unit (whose frame it holds), a batch has no command or    *)
(* one, the texture heap is cleared with the rings, and the drop limit is  *)
(* out of reach: FabricSeam has those in detail.                           *)
(***************************************************************************)
EXTENDS Naturals

CONSTANTS
  Tries,     \* mf_bringup_tries()
  MaxLives,  \* bound: processes in a run
  MaxFrames  \* bound: frames a process builds

ASSUME LifecycleAssumption ==
  /\ Tries \in Nat \ {0}
  /\ MaxLives \in Nat /\ MaxFrames \in Nat

VARIABLES
  life,       \* which process runs, or ran last
  hpc,        \* where it is
  why,        \* "boot", "signal" or "call": what the wait and the park are for
  tries,      \* bring-up attempts so far
  base,       \* g_boot_seq_base
  astray,     \* history: in this life or before, a budget ran out before the fabric
              \* answered, or a teardown began beside a publish that was past its check
  seq,        \* g_e.submit_seq
  arena,      \* g_arena
  dropped,    \* g_frame_dropped
  batch,      \* g_fabric_pending, g_pending_seq, g_pending_arena
  down,       \* g_teardown_ran, and with it g_fabric_shutdown
  other,      \* where a handler on another thread is, or "none"
  frames,     \* frames built by this process
  ring,       \* the two rings in DDR
  ctl,        \* host-written control words: C_CMDCOUNT, C_SRCSEL bit 2, C_SUBMIT
  done,       \* C_DONE
  fpc,        \* where the fabric is in its frame loop
  lat,        \* what it latched
  ran,        \* history: batches of this process the fabric executed
  parked      \* history: a teardown parked the block, having found it idle

frameVars   == <<seq, arena, dropped, frames>>
hooks       == <<down, other>>
parkVars    == <<why, tries, base, astray, frameVars, batch, down>>
processVars == <<parkVars, other>>
fabricVars  == <<done, fpc, lat>>
vars == <<life, hpc, processVars, ring, ctl, fabricVars, ran, parked>>

Arenas == {0, 1}

\* What a ring holds: nothing, what was in DDR at power-up, or a process's frame.
Zeroed == [life |-> 0, seq |-> 0]
Junk   == [life |-> 0, seq |-> 1]
FrameOf(s) == [life |-> life, seq |-> s]

NoBatch == [pending |-> FALSE, seq |-> 0, arena |-> 0]

BringUpPoints == {"wait", "clear", "park", "parksel", "parkring", "probe", "probewait"}
RunPoints     == {"idle", "build", "barrier", "count", "sel", "doorbell"}
HostPoints    == {"off"} \union BringUpPoints \union RunPoints

\* The window as the last power-up or a process nobody knows of left it.
Init ==
  /\ life = 0 /\ hpc = "off"
  /\ why = "boot" /\ tries = 0 /\ base = 0 /\ astray = FALSE /\ seq = 0 /\ arena = 0 /\ dropped = FALSE
  /\ batch = NoBatch /\ down = FALSE /\ other = "none" /\ frames = 0
  /\ ring \in [Arenas -> {Zeroed, Junk}]
  /\ ctl \in [count : 0 .. 1, sel : Arenas, submit : 0 .. 1]
  /\ done \in 0 .. 1
  /\ fpc = "poll" /\ lat = [seq |-> 0, count |-> 0, sel |-> 0]
  /\ ran = {} /\ parked = FALSE

-----------------------------------------------------------------------------
(* A process starts, and may die at any point.                             *)

Start ==
  /\ hpc = "off" /\ life < MaxLives
  /\ life' = life + 1 /\ hpc' = "wait"
  /\ why' = "boot" /\ tries' = 0 /\ base' = 0 /\ seq' = 0 /\ arena' = 0 /\ dropped' = FALSE
  /\ batch' = NoBatch /\ down' = FALSE /\ other' = "none" /\ frames' = 0
  /\ ran' = {} /\ parked' = FALSE
  /\ UNCHANGED <<astray, ring, ctl, fabricVars>>

\* SIGKILL, a power cut, or any signal while the hooks are not installed or the
\* teardown has begun.
Kill ==
  /\ hpc # "off"
  /\ hpc' = "off" /\ other' = "none"
  /\ UNCHANGED <<life, why, tries, base, astray, frameVars, batch, down, ring, ctl,
                 fabricVars, ran, parked>>

-----------------------------------------------------------------------------
(* mf_wait_fabric_idle, mf_clear_stale_dram and mf_park_ctrl_idle, as both *)
(* the bring-up and the teardown call them, in this order.                 *)

\* The frame loop goes on while a handler on another thread is in these.
At(p)   == p \in {hpc, other}
GoTo(p) == IF other = "none" THEN hpc' = p /\ other' = other ELSE other' = p /\ hpc' = hpc

WaitIdle ==
  /\ At("wait") /\ done = ctl.submit
  /\ base' = done /\ GoTo("clear")
  /\ UNCHANGED <<life, why, tries, astray, frameVars, batch, down, ring, ctl,
                 fabricVars, ran, parked>>

WaitTimeout ==
  /\ At("wait") /\ done # ctl.submit
  /\ astray' = TRUE /\ base' = done /\ GoTo("clear")
  /\ UNCHANGED <<life, why, tries, frameVars, batch, down, ring, ctl, fabricVars,
                 ran, parked>>

ClearsNothing == UNCHANGED ring    \* a mutant: the rings keep the dead engine's frames
ClearRings == ring' = [a \in Arenas |-> Zeroed]

ClearStaleDram ==
  /\ At("clear")
  /\ ClearRings
  /\ GoTo("park")
  /\ UNCHANGED <<life, parkVars, ctl, fabricVars, ran, parked>>

ParkWords ==
  /\ At("park")
  /\ ctl' = [ctl EXCEPT !.count = 0]
  /\ GoTo("parksel")
  /\ UNCHANGED <<life, parkVars, ring, fabricVars, ran, parked>>

ParkSel ==
  /\ At("parksel")
  /\ ctl' = [ctl EXCEPT !.sel = 0]
  /\ GoTo("parkring")
  /\ UNCHANGED <<life, parkVars, ring, fabricVars, ran, parked>>

\* The doorbell; the bring-up goes on to the probe, a handler re-raises its signal
\* and the process dies, a call of RasterBackend_MFGPU_Shutdown returns.
ParkDoorbell ==
  /\ At("parkring")
  /\ ctl' = [ctl EXCEPT !.submit = base]
  /\ hpc' = CASE why = "boot" -> "probe" [] why = "signal" -> "off" [] why = "call" -> "idle"
  /\ other' = "none"
  /\ parked' = (why # "boot" /\ done = ctl.submit /\ ctl.submit = base)
  /\ UNCHANGED <<life, parkVars, ring, fabricVars, ran>>

-----------------------------------------------------------------------------
(* mf_fabric_probe and the retry loop of mf_fabric_bringup.                *)

\* A mutant: the probe rings the bell with the sequence the block is parked on.
ProbeSameSeq == base
ProbeSeq == base + 1

\* C_CMDCOUNT and C_FLAGS are written once more; the park has left them 0.
ProbeDoorbell ==
  /\ hpc = "probe"
  /\ ctl' = [ctl EXCEPT !.submit = ProbeSeq]
  /\ hpc' = "probewait"
  /\ UNCHANGED <<life, processVars, ring, fabricVars, ran, parked>>

\* mf_init_once: the emitter counts up from the base.
CountsFromZero(b) == 0   \* a mutant: the emitter's own zero
AdoptedSeq(b) == b

ProbeAcked ==
  /\ hpc = "probewait" /\ done = base + 1
  /\ base' = base + 1 /\ seq' = AdoptedSeq(base + 1)
  /\ hpc' = "idle"
  /\ UNCHANGED <<life, why, tries, astray, arena, dropped, frames, batch, hooks, ring,
                 ctl, fabricVars, ran, parked>>

LastTry == tries + 1 = Tries

ProbeRetry ==
  /\ hpc = "probewait" /\ done # base + 1
  /\ ~LastTry
  /\ tries' = tries + 1 /\ astray' = TRUE /\ hpc' = "wait"
  /\ UNCHANGED <<life, why, base, frameVars, batch, hooks, ring, ctl, fabricVars,
                 ran, parked>>

\* The last attempt failed: not fatal, the engine runs on the base it has.
SoftFail ==
  /\ hpc = "probewait" /\ done # base + 1
  /\ LastTry
  /\ seq' = AdoptedSeq(base) /\ astray' = TRUE /\ hpc' = "idle"
  /\ UNCHANGED <<life, why, tries, base, arena, dropped, frames, batch, hooks, ring,
                 ctl, fabricVars, ran, parked>>

-----------------------------------------------------------------------------
(* The frame loop.                                                         *)

Busy == done # batch.seq
RewindsBusyArena == batch.pending /\ batch.arena = 1 - arena /\ Busy

FrameBeginDrop ==
  /\ hpc = "idle" /\ RewindsBusyArena
  /\ dropped' = TRUE /\ hpc' = "build"
  /\ UNCHANGED <<life, why, tries, base, astray, seq, arena, frames, batch, hooks,
                 ring, ctl, fabricVars, ran, parked>>

FrameBegin ==
  /\ hpc = "idle" /\ ~RewindsBusyArena /\ frames < MaxFrames
  /\ arena' = 1 - arena /\ dropped' = FALSE /\ frames' = frames + 1
  /\ hpc' = "build"
  /\ UNCHANGED <<life, why, tries, base, astray, seq, batch, hooks, ring, ctl,
                 fabricVars, ran, parked>>

FrameEndDropped ==
  /\ hpc = "build" /\ dropped
  /\ hpc' = "idle"
  /\ UNCHANGED <<life, processVars, ring, ctl, fabricVars, ran, parked>>

\* Once the teardown owns the rings a frame is dropped here.
NeverDown == FALSE   \* a mutant: mf_frame_end does not look at g_fabric_shutdown
ShutDown == down

FrameEnd ==
  /\ hpc = "build" /\ ~dropped
  /\ ring' = [ring EXCEPT ![arena] = FrameOf(seq + 1)]
  /\ seq' = seq + 1
  /\ dropped' = ShutDown
  /\ hpc' = IF ShutDown THEN "idle" ELSE "barrier"
  /\ UNCHANGED <<life, why, tries, base, astray, arena, frames, batch, hooks, ctl,
                 fabricVars, ran, parked>>

BarrierOpen ==
  /\ hpc = "barrier" /\ (batch.pending => ~Busy)
  /\ batch' = [batch EXCEPT !.pending = FALSE]
  /\ hpc' = "count"
  /\ UNCHANGED <<life, why, tries, base, astray, frameVars, hooks, ring, ctl,
                 fabricVars, ran, parked>>

BarrierDrop ==
  /\ hpc = "barrier" /\ batch.pending /\ Busy
  /\ dropped' = TRUE /\ hpc' = "idle"
  /\ UNCHANGED <<life, why, tries, base, astray, seq, arena, frames, batch, hooks,
                 ring, ctl, fabricVars, ran, parked>>

PublishWords ==
  /\ hpc = "count"
  /\ ctl' = [ctl EXCEPT !.count = 1]
  /\ hpc' = "sel"
  /\ UNCHANGED <<life, processVars, ring, fabricVars, ran, parked>>

PublishSel ==
  /\ hpc = "sel"
  /\ ctl' = [ctl EXCEPT !.sel = arena]
  /\ hpc' = "doorbell"
  /\ UNCHANGED <<life, processVars, ring, fabricVars, ran, parked>>

PublishDoorbell ==
  /\ hpc = "doorbell"
  /\ ctl' = [ctl EXCEPT !.submit = seq]
  /\ batch' = [pending |-> TRUE, seq |-> seq, arena |-> arena]
  /\ hpc' = "idle"
  /\ UNCHANGED <<life, why, tries, base, astray, frameVars, hooks, ring, fabricVars,
                 ran, parked>>

-----------------------------------------------------------------------------
(* mf_fabric_teardown, at most once per process: called between frames, or *)
(* from a signal handler at any point of the frame loop.                   *)

Teardown(reason) ==
  /\ ~down
  /\ down' = TRUE /\ why' = reason
  /\ UNCHANGED <<life, tries, base, frameVars, batch, ring, ctl, fabricVars, ran, parked>>

OnMain == hpc' = "wait" /\ UNCHANGED <<other, astray>>

TeardownCall   == hpc = "idle" /\ Teardown("call") /\ OnMain
TeardownSignal == hpc \in RunPoints /\ Teardown("signal") /\ OnMain

\* The kernel picked another thread, the audio mixer's: the frame loop goes on.
TeardownBeside ==
  /\ hpc \in RunPoints /\ Teardown("signal")
  /\ other' = "wait" /\ hpc' = hpc
  /\ astray' = (astray \/ hpc \in {"barrier", "count", "sel", "doorbell"})

OutOfTime == WaitTimeout \/ ProbeRetry \/ SoftFail

Host ==
  \/ WaitIdle \/ ClearStaleDram \/ ParkWords \/ ParkSel \/ ParkDoorbell
  \/ ProbeDoorbell \/ ProbeAcked
  \/ FrameBeginDrop \/ FrameBegin \/ FrameEndDropped \/ FrameEnd
  \/ BarrierOpen \/ BarrierDrop \/ PublishWords \/ PublishSel \/ PublishDoorbell

-----------------------------------------------------------------------------
(* The fabric, outside this repository, as the host code describes it.     *)

hostVars == <<life, hpc, processVars, ring, ctl, parked>>

FabricNotice ==
  /\ fpc = "poll" /\ ctl.submit # done
  /\ lat' = [lat EXCEPT !.seq = ctl.submit] /\ fpc' = "count"
  /\ UNCHANGED <<hostVars, done, ran>>

FabricLatchWords ==
  /\ fpc = "count"
  /\ lat' = [lat EXCEPT !.count = ctl.count] /\ fpc' = "sel"
  /\ UNCHANGED <<hostVars, done, ran>>

FabricLatchSel ==
  /\ fpc = "sel"
  /\ lat' = [lat EXCEPT !.sel = ctl.sel] /\ fpc' = "exec"
  /\ UNCHANGED <<hostVars, done, ran>>

FabricAck ==
  /\ fpc = "exec"
  /\ ran' = IF lat.count > 0 /\ ring[lat.sel].life = life
              THEN ran \union {ring[lat.sel].seq} ELSE ran
  /\ done' = lat.seq /\ fpc' = "poll"
  /\ UNCHANGED <<hostVars, lat>>

Fabric == FabricNotice \/ FabricLatchWords \/ FabricLatchSel \/ FabricAck

Next ==
  \/ Start \/ Kill
  \/ TeardownCall \/ TeardownSignal \/ TeardownBeside
  \/ OutOfTime \/ Host \/ Fabric

Spec == Init /\ [][Next]_vars

\* The process takes its steps and the fabric answers; nothing makes a process die, nor
\* a budget run out.
LiveSpec == Spec /\ WF_vars(Host) /\ WF_vars(Fabric)

-----------------------------------------------------------------------------
(* Properties.                                                             *)

\* The control block, the rings and both sides stay in their types, and the probe is
\* tried at most Tries times (mf_bringup_tries).
TypeOK ==
  /\ life \in 0 .. MaxLives /\ hpc \in HostPoints
  /\ other \in {"none", "wait", "clear", "park", "parksel", "parkring"}
  /\ why \in {"boot", "signal", "call"}
  /\ tries \in 0 .. Tries - 1 /\ base \in Nat /\ seq \in Nat
  /\ arena \in Arenas /\ dropped \in BOOLEAN /\ down \in BOOLEAN
  /\ frames \in 0 .. MaxFrames /\ astray \in BOOLEAN
  /\ batch \in [pending : BOOLEAN, seq : Nat, arena : Arenas]
  /\ ring \in [Arenas -> [life : 0 .. life, seq : Nat]]
  /\ ctl \in [count : 0 .. 1, sel : Arenas, submit : Nat] /\ done \in Nat
  /\ fpc \in {"poll", "count", "sel", "exec"}
  /\ lat \in [seq : Nat, count : 0 .. 1, sel : Arenas]
  /\ ran \subseteq Nat /\ parked \in BOOLEAN

\* The rings hold nothing but this process's frames once it has cleared them.
Cleared == hpc \in RunPoints \/ (hpc \in BringUpPoints \ {"wait", "clear"})

\* "by then the ring is zeroed": once a process has cleared the rings the fabric
\* executes no command of a dead one, also where the block was not idle in time.
NoGhostCommands ==
  fpc = "exec" /\ lat.count > 0 /\ Cleared => ring[lat.sel] = Zeroed \/ ring[lat.sel].life = life

\* No ghosts, whatever two threads left in the block; and as long as every wait was
\* answered in time: what the fabric executes while the frame loop runs is the batch that
\* was published under the sequence it latched, in a ring the host is not building in.
RunsOnlyItsBatch ==
  /\ TypeOK /\ NoGhostCommands
  /\ ~astray /\ fpc = "exec" /\ lat.count > 0 /\ hpc \in RunPoints /\ ~down
       => ring[lat.sel] = FrameOf(lat.seq) /\ ~(hpc = "build" /\ ~dropped /\ arena = lat.sel)

Acked == hpc \in RunPoints /\ ~down /\ batch.pending /\ ~Busy

\* "fabric consumed the PUBLISHED batch": what the host takes for an acknowledgement
\* of its batch is one, whatever sequence the processes before it left behind.
AckMeansExecuted == Acked => batch.seq \in ran

\* As far as the code gets it: as long as every wait was answered in time.
AckMeansExecutedInTime == ~astray /\ Acked => batch.seq \in ran

\* A teardown that found the block idle leaves it idle, also if more frames are
\* rendered after it: there is no batch for the fabric, or for the next engine.
\* Again as long as every wait was answered in time.  (Beside the frame loop a handler
\* promises that too, as long as no publish is past its check.)
ParkedStaysIdle ==
  ~astray /\ parked /\ hpc \in {"off"} \union RunPoints
    => done = ctl.submit /\ ctl.count = 0 /\ fpc = "poll"

\* With a fabric that runs, every bring-up ends in a frame loop or with the process,
\* whatever the last process left in the block (the "frame-1 wedge"), and without the
\* help of a budget that runs out.
HandshakeCompletes == hpc = "wait" /\ why = "boot" ~> hpc \in {"idle", "off"}

=============================================================================
