------------------------------ MODULE AudioRing ------------------------------
(***************************************************************************)
(* AudioDriverMister: the mixer thread, the thread that opens and closes   *)
(* the driver, and the core's gm_audio, which drains the DDR ring.  The    *)
(* two pointers are the only synchronisation: the CPU owns wr, the FPGA    *)
(* owns rd, and neither waits for the other.                               *)
(*                                                                         *)
(* The unit is a stereo frame of 4 bytes.  A mixed frame is stamped with   *)
(* its position in the stream, modulo Stamps.  Processes come and go on    *)
(* one ring and one pair of pointers.                                      *)
(***************************************************************************)
EXTENDS Integers

CONSTANTS
  Ring,       \* MA_RING_BYTES
  Period,     \* period_frames
  Targets,    \* what period_frames * target_periods may be: the environment sets it
  Stamps      \* bound: stamps in use before they repeat

ASSUME AudioAssumption ==
  /\ Ring \in Nat /\ Period \in Nat \ {0} /\ Period + 1 < Ring
  /\ Targets \subseteq Nat \ {0}
  /\ Stamps \in Nat /\ Stamps > 2 * Ring

VARIABLES
  hpc,      \* the opening and closing thread: see MainPoints
  tpc,      \* the mixer thread
  active,   \* start() was called
  exit,     \* exit_thread
  target,   \* target_frames of this process
  mutex,    \* who holds the driver's mutex
  localWr,  \* local_wr
  seen,     \* the read pointer finish() read
  copied,   \* frames of this period already in the ring
  ring, wr, rd,  \* the DDR ring and its pointer words
  sent,     \* history: the stamp of the last frame published
  fresh     \* history: frames this driver has published, up to Ring

mainVars == <<hpc, exit, active, target>>
mixVars  == <<tpc, localWr, copied>>
ringVars == <<ring, wr, rd>>
history  == <<sent, fresh>>
vars == <<mainVars, mixVars, mutex, seen, ringVars, history>>

MainPoints == {"closed", "opening", "running", "joining", "joined", "closing"}
Frames  == 0 .. Ring - 1
Silence == 0
Stale   == -1        \* what an earlier process left in the ring
Stamp   == 1 .. Stamps

Advance(p, n) == (p + n) % Ring
After(s, n) == ((s + n - 1) % Stamps) + 1

\* Any pointers a process that was killed left behind.
Init ==
  /\ hpc = "closed" /\ tpc = "none" /\ active = FALSE /\ exit = FALSE
  /\ target \in Targets
  /\ mutex = "none"
  /\ ring = [i \in Frames |-> Stale]
  /\ wr \in Frames /\ rd \in Frames
  /\ localWr = 0 /\ seen = 0 /\ copied = 0
  /\ sent = Stamps /\ fresh = 0

Depth == (wr - rd) % Ring

-----------------------------------------------------------------------------
(* init(), start(), lock(), unlock() and finish().                         *)

\* The ring is zeroed and the read pointer read; a new process starts clean.
Open ==
  /\ hpc = "closed"
  /\ hpc' = "opening" /\ exit' = FALSE /\ active' = FALSE
  /\ target' \in Targets
  /\ tpc' = "none" /\ copied' = 0 /\ mutex' = "none"
  /\ ring' = [i \in Frames |-> Silence]
  /\ localWr' = rd
  /\ sent' = Stamps /\ fresh' = 0
  /\ UNCHANGED <<seen, wr, rd>>

\* The write pointer follows and the mixer thread starts.
OpenPointer ==
  /\ hpc = "opening"
  /\ wr' = localWr
  /\ hpc' = "running" /\ tpc' = "poll"
  /\ UNCHANGED <<active, exit, target, mutex, localWr, seen, copied, ring, rd, history>>

StartMixing ==
  /\ hpc = "running" /\ ~active /\ active' = TRUE
  /\ UNCHANGED <<hpc, exit, target, mixVars, mutex, seen, ringVars, history>>

Lock ==
  /\ hpc = "running" /\ mutex = "none" /\ mutex' = "main"
  /\ UNCHANGED <<mainVars, mixVars, seen, ringVars, history>>

Unlock ==
  /\ mutex = "main" /\ mutex' = "none"
  /\ UNCHANGED <<mainVars, mixVars, seen, ringVars, history>>

\* finish(): ask the mixer to stop, wait for it, leave wr = rd.
Finish ==
  /\ hpc = "running" /\ mutex # "main"
  /\ exit' = TRUE /\ hpc' = "joining"
  /\ UNCHANGED <<active, target, mixVars, mutex, seen, ringVars, history>>

FinishJoin ==
  /\ hpc = "joining" /\ tpc = "none"
  /\ seen' = rd /\ hpc' = "joined"
  /\ UNCHANGED <<active, exit, target, mixVars, mutex, ringVars, history>>

FinishPointer ==
  /\ hpc = "joined"
  /\ wr' = seen /\ hpc' = "closing"
  /\ UNCHANGED <<active, exit, target, mixVars, mutex, seen, ring, rd, history>>

\* The process is gone, after finish() or killed at any point.
Exit ==
  /\ hpc # "closed"
  /\ hpc' = "closed" /\ tpc' = "none" /\ mutex' = "none"
  /\ UNCHANGED <<active, exit, target, localWr, seen, copied, ringVars, history>>

-----------------------------------------------------------------------------
(* thread_func.                                                            *)

Used == (localWr - rd) % Ring

MaxUsedNow == Ring - 1          \* a mutant: the period about to be written is not counted
MaxUsed == Ring - 1 - Period

TooDeep == Used > target

ExitAsked == exit

MixerExits ==
  /\ tpc = "poll" /\ ExitAsked
  /\ tpc' = "none"
  /\ UNCHANGED <<mainVars, localWr, copied, mutex, seen, ringVars, history>>

\* Otherwise it naps and looks again.
MixerPolls ==
  /\ tpc = "poll" /\ ~ExitAsked
  /\ ~TooDeep /\ Used <= MaxUsed
  /\ tpc' = "mix"
  /\ UNCHANGED <<mainVars, localWr, copied, mutex, seen, ringVars, history>>

\* audio_server_process under the mutex, or silence before start().
MixerLocks ==
  /\ tpc = "mix" /\ active /\ mutex = "none"
  /\ mutex' = "mixer" /\ tpc' = "mixing"
  /\ UNCHANGED <<mainVars, localWr, copied, seen, ringVars, history>>

MixerMixed ==
  /\ \/ tpc = "mixing" /\ mutex' = "none"
     \/ tpc = "mix" /\ ~active /\ UNCHANGED mutex
  /\ tpc' = "copy" /\ copied' = 0
  /\ UNCHANGED <<mainVars, localWr, seen, ringVars, history>>

Slot(n) == Advance(localWr, n)

\* _write: frame after frame, around the end of the ring, and then the pointer.
MixerCopies ==
  /\ tpc = "copy" /\ copied < Period
  /\ ring' = [ring EXCEPT ![Slot(copied)] = After(sent, copied + 1)]
  /\ copied' = copied + 1
  /\ UNCHANGED <<mainVars, tpc, localWr, mutex, seen, wr, rd, history>>

KeepsPointer == wr             \* a mutant: only local_wr advances
PublishedPointer == Advance(localWr, Period)

MixerPublishes ==
  /\ tpc = "copy" /\ copied = Period
  /\ localWr' = Advance(localWr, Period) /\ wr' = PublishedPointer
  /\ sent' = After(sent, Period)
  /\ fresh' = IF fresh + Period < Ring THEN fresh + Period ELSE Ring
  /\ tpc' = "poll"
  /\ UNCHANGED <<mainVars, copied, mutex, seen, ring, rd>>

Mixer == \/ MixerExits \/ MixerPolls \/ MixerLocks \/ MixerMixed
         \/ MixerCopies \/ MixerPublishes

-----------------------------------------------------------------------------
(* gm_audio, outside this repository: it plays the frame at rd and moves   *)
(* on while the pointers differ.                                           *)

CorePlays ==
  /\ rd # wr
  /\ rd' = Advance(rd, 1)
  /\ UNCHANGED <<mainVars, mixVars, mutex, seen, ring, wr, history>>

Next ==
  \/ Open \/ OpenPointer \/ StartMixing \/ Lock \/ Unlock
  \/ Finish \/ FinishJoin \/ FinishPointer \/ Exit
  \/ Mixer \/ CorePlays

Spec == Init /\ [][Next]_vars

\* The kernel runs the mixer and wakes the thread that joins it, the core drains the
\* ring, the game gives the mutex back, and the mixer gets it sooner or later.
LiveSpec == /\ Spec /\ WF_vars(Mixer) /\ WF_vars(FinishJoin)
            /\ WF_vars(CorePlays) /\ WF_vars(Unlock) /\ SF_vars(MixerLocks)

-----------------------------------------------------------------------------
(* Properties.                                                             *)

\* Pointers, ring and thread points stay in their types.
TypeOK ==
  /\ hpc \in MainPoints /\ tpc \in {"none", "poll", "mix", "mixing", "copy"}
  /\ active \in BOOLEAN /\ exit \in BOOLEAN /\ mutex \in {"none", "main", "mixer"}
  /\ target \in Targets
  /\ localWr \in Frames /\ seen \in Frames /\ wr \in Frames /\ rd \in Frames
  /\ copied \in 0 .. Period
  /\ ring \in [Frames -> Stamp \union {Silence, Stale}]
  /\ sent \in Stamp /\ fresh \in 0 .. Ring

\* What the core will play next is what was mixed, in order and complete, while the
\* mixer fills the ring beside it: no frame is overwritten before it was played.
PlaysWhatWasMixed ==
  /\ TypeOK
  /\ hpc \in {"running", "joining"} =>
       \A k \in 0 .. Depth - 1 :
         LET back == Depth - k    \* 1 is the last frame published
         IN  ring[Advance(rd, k)] =
               IF back <= fresh THEN After(sent + Stamps, 1 - back) ELSE Silence

\* A published period joins what the core still has to play: the ring is never filled
\* to the point where its pointers meet and a whole lap of sound disappears.
PeriodsQueued == [][localWr' # localWr /\ tpc = "copy" => Depth' = Depth + Period]_vars

\* "Start from wherever the FPGA's read pointer is: the ring is then empty, whatever
\* a previous process left behind."
StartsEmpty == hpc = "running" /\ tpc = "poll" /\ fresh = 0 => Depth = 0

\* "Leave an empty ring behind: wr = rd."
LeavesEmpty == hpc = "closing" => wr = rd

\* While the driver runs, periods keep coming, whatever depth it started from; and
\* finish() does not hang on a mixer that naps, mixes or waits for the mutex.
MixerNeverStuck ==
  /\ hpc = "running" ~> (tpc = "copy" \/ hpc # "running")
  /\ hpc = "joining" ~> hpc # "joining"

\* The sound goes on: the mixer is never stuck, and every period it publishes joins what
\* is still to be played.
SoundGoesOn == MixerNeverStuck /\ PeriodsQueued

=============================================================================
