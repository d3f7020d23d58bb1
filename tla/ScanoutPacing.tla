---------------------------- MODULE ScanoutPacing ----------------------------
(***************************************************************************)
(* libmisterfabric's frame pacer against the core's scanout.               *)
(*                                                                         *)
(* The core copies the surface the fabric draws on to the screen at every  *)
(* boundary, one Period apart, and counts boundaries in a word.  A publish *)
(* starts the fabric on the next frame, over the one before it; a frame    *)
(* that is still being drawn, or already overdrawn, at a boundary is not   *)
(* shown.  The pacer only sees the counter, when it looks.                 *)
(*                                                                         *)
(* Time is in ticks.  Steps of the program take none: its CPU work, its    *)
(* naps and the fabric's work are durations chosen when they begin.        *)
(***************************************************************************)
EXTENDS Integers, FiniteSetsExt

CONSTANTS
  Period,      \* g_period_ns and the timer's interval
  Margin,      \* g_margin_ns: publish to fabric done, worst case
  Poll,        \* SCAN_POLL_NS
  Stall,       \* SCAN_STALL_NS
  FabricTimes, \* how long the fabric may take with a batch
  WorkTimes,   \* how long the engine may take between two presents
  Naps,        \* how long one poll's nanosleep may last, preemption included
  Wrap,        \* bound: the counter's width, an even number
  Horizon,     \* bound: the last tick
  Modes,       \* what the engine's V-Sync mode may select; {} when the environment did
  Warm,        \* the counter was seen to change before the first frame
  CanFreeze    \* the core may stop publishing the counter

ASSUME PacingAssumption ==
  /\ {Period, Poll, Stall, Wrap, Horizon} \subseteq Nat \ {0} /\ Margin \in Nat
  /\ FabricTimes \subseteq 1 .. Margin /\ FabricTimes # {}
  /\ WorkTimes \subseteq Nat \ {0}
  /\ Naps \subseteq Nat \ {0} /\ \E longest \in Naps : \A d \in Naps : d <= longest
  /\ Modes \subseteq {"scanout", "timer", "off"}
  /\ Warm \in BOOLEAN /\ CanFreeze \in BOOLEAN

\* 50 ms against 3 ms and a period of 16.7 ms, unless MISTER_FABRIC_MARGIN_US says more.
ASSUME StallAssumption == Margin + Period <= Stall

\* The clock stops before the counter has gone half the way round: 2^31 boundaries are
\* more than a year.
ASSUME WrapAssumption ==
  /\ Period <= Horizon
  /\ Horizon + Margin + Period < Period * (Wrap \div 2)

VARIABLES
  now,
  boundary, count, frozen,     \* the core: its last boundary, the counter word
  mapped,                      \* g_dev_ok: the process could map the fabric's window
  fabDone,                     \* when the running batch will be done, 0 when idle
  shown,                       \* the core has put the frame published last on the screen
  pc, wake,                    \* the main thread, and when what it does now ends
  t0,                          \* when the wait began, 0 outside one
  mode,                        \* g_pace_mode
  haveRef, refCnt, refAt,      \* boundary refCnt was seen, and is thought to be at refAt
  haveTarget, target,          \* the boundary the previous frame is shown at
  nextAt,                      \* g_next_ns
  since,                       \* history: publishes since the last boundary, up to 3
  timed                        \* history: the reference was good enough for the target

core   == <<boundary, count, frozen, mapped>>
thread == <<pc, wake, t0>>
ref    == <<haveRef, refCnt, refAt>>
goal   == <<haveTarget, target>>
frames == <<since, timed>>
vars   == <<now, core, fabDone, shown, thread, mode, ref, goal, nextAt, frames>>

\* (int32_t)(a - b)
Signed(a, b) == LET d == (a - b) % Wrap IN IF d < Wrap \div 2 THEN d ELSE d - Wrap

Init ==
  /\ now = Period
  /\ boundary \in IF Warm THEN {Period} ELSE 1 .. Period
  /\ count = Wrap - 2 /\ frozen = FALSE /\ mapped \in BOOLEAN
  /\ fabDone = 0 /\ shown = TRUE
  /\ pc = "work" /\ wake \in {now + d : d \in WorkTimes} /\ t0 = 0
  /\ mode = "scanout"
  /\ haveRef = (Warm /\ mapped) /\ refCnt = count /\ refAt = boundary
  /\ haveTarget = FALSE /\ target = 0
  /\ nextAt = 0
  /\ since = 0 /\ timed = FALSE

-----------------------------------------------------------------------------
(* Time, the core and the fabric.                                          *)

Idle == fabDone = 0

\* Nothing is due: what is due at a tick happens, in some order, before the next.
Tick ==
  /\ now < Horizon
  /\ now < boundary + Period
  /\ Idle \/ now < fabDone
  /\ IF pc = "present" THEN ~Idle ELSE now < wake
  /\ now' = now + 1
  /\ UNCHANGED <<core, fabDone, shown, thread, mode, ref, goal, nextAt, frames>>

Boundary ==
  /\ now = boundary + Period
  /\ boundary' = now
  /\ count' = IF frozen THEN count ELSE (count + 1) % Wrap
  /\ shown' = (Idle \/ shown)
  /\ since' = 0
  /\ UNCHANGED <<now, frozen, mapped, fabDone, thread, mode, ref, goal, nextAt, timed>>

FabricFinishes ==
  /\ ~Idle /\ now = fabDone /\ fabDone' = 0
  /\ UNCHANGED <<now, core, shown, thread, mode, ref, goal, nextAt, frames>>

Freeze ==
  /\ CanFreeze /\ ~frozen /\ frozen' = TRUE
  /\ UNCHANGED <<now, boundary, count, mapped, fabDone, shown, thread, mode, ref, goal>>
  /\ UNCHANGED <<nextAt, frames>>

-----------------------------------------------------------------------------
(* The boundary model.                                                     *)

AdoptsAny(predicted) == predicted        \* a mutant: a prediction still to come is adopted
SeenAt(predicted) ==
  LET age == now - predicted
  IN  IF age < 0 \/ age < 2 * Poll THEN now ELSE predicted

\* scan_observe: a change just seen, or one extrapolated from the old reference.
Observe ==
  /\ mapped /\ haveRef' = TRUE /\ refCnt' = count
  /\ refAt' = IF haveRef /\ count = refCnt THEN refAt
              ELSE IF haveRef /\ Signed(count, refCnt) > 0
                   THEN SeenAt(refAt + Signed(count, refCnt) * Period)
                   ELSE now

\* It fails: ScanoutRead has no window to read the counter in.
ObserveFails == ~mapped /\ UNCHANGED ref

\* The first boundary at least a margin after t, by the reference.
NoMargin(cnt, at) == cnt + (now - at) \div Period + 1          \* a mutant
FirstAfter(cnt, at) == cnt + (now + Margin - at) \div Period + 1

Unsigned == count >= target              \* a mutant: no wrap
Reached == Signed(count, target) >= 0

StalledFor == now - t0 > Stall

-----------------------------------------------------------------------------
(* mf_present, from the pacing wait before the publish to the one after it. *)

\* pace_scanout_before_publish up to its first sleep.
BeginPresent ==
  /\ pc = "work" /\ now = wake
  /\ \/ /\ \/ (mode # "scanout" \/ ~haveTarget) /\ UNCHANGED ref
           \/ mode = "scanout" /\ haveTarget /\ ObserveFails
        /\ pc' = "present" /\ UNCHANGED <<wake, t0>>
     \/ /\ mode = "scanout" /\ haveTarget /\ Observe
        /\ \/ /\ Reached
              /\ pc' = "present" /\ UNCHANGED <<wake, t0>>
           \/ /\ ~Reached
              /\ pc' = "nap" /\ t0' = now /\ wake' \in {now + d : d \in Naps}
  /\ UNCHANGED <<now, core, fabDone, shown, mode, goal, nextAt, frames>>

\* One turn of its polling loop.
WakeUp ==
  /\ pc = "nap" /\ now = wake
  /\ \/ /\ ObserveFails \/ (Observe /\ Reached)
        /\ pc' = "present" /\ t0' = 0 /\ UNCHANGED <<wake, mode>>
     \/ /\ Observe /\ ~Reached /\ StalledFor
        /\ pc' = "present" /\ t0' = 0 /\ mode' = "timer" /\ UNCHANGED wake
     \/ /\ Observe /\ ~Reached /\ ~StalledFor
        /\ wake' \in {now + d : d \in Naps} /\ UNCHANGED <<pc, t0, mode>>
  /\ UNCHANGED <<now, core, fabDone, shown, goal, nextAt, frames>>

Work == pc' = "work" /\ wake' \in {now + d : d \in WorkTimes}

\* pace_scanout_after_publish.
AfterPublish ==
  /\ \/ ObserveFails /\ haveTarget' = FALSE /\ UNCHANGED <<target, timed>>
     \/ /\ Observe
        /\ haveTarget' = TRUE /\ target' = FirstAfter(refCnt', refAt') % Wrap
        /\ timed' = (refAt' - boundary <= Margin - Max(FabricTimes))
  /\ Work /\ UNCHANGED nextAt

FarBehind == nextAt = 0 \/ now > nextAt + 4 * Period

\* pace_timer.
PaceTimer ==
  /\ \/ /\ FarBehind
        /\ nextAt' = now + Period /\ Work
     \/ /\ ~FarBehind /\ nextAt > now
        /\ nextAt' = nextAt + Period /\ pc' = "timer" /\ wake' = nextAt
     \/ /\ ~FarBehind /\ nextAt <= now
        /\ nextAt' = nextAt + Period /\ Work
  /\ UNCHANGED <<ref, goal, timed>>

\* The backend awaits the previous batch, publishes this frame and begins the next; with
\* no window to the fabric, it drops the frame.
Publish ==
  IF mapped THEN /\ fabDone' \in {now + d : d \in FabricTimes}
                 /\ shown' = FALSE /\ since' = Min({since + 1, 3})
            ELSE UNCHANGED <<fabDone, shown, since>>

Present ==
  /\ pc = "present" /\ Idle
  /\ Publish
  /\ \/ mode = "scanout" /\ AfterPublish
     \/ mode = "timer" /\ PaceTimer
     \/ mode = "off" /\ Work /\ UNCHANGED <<ref, goal, nextAt, timed>>
  /\ UNCHANGED <<now, core, t0, mode>>

TimerEnds ==
  /\ pc = "timer" /\ now = wake
  /\ Work
  /\ UNCHANGED <<now, core, fabDone, shown, t0, mode, ref, goal, nextAt, frames>>

\* mf_set_pacing, from the engine between two presents.  What it stores is first read
\* by the next of them: when in between it is called makes no difference.
SetPacing ==
  /\ pc = "work" /\ now = wake /\ mode' \in Modes
  /\ haveTarget' = FALSE /\ nextAt' = 0
  /\ UNCHANGED <<now, core, fabDone, shown, thread, ref, target, frames>>

Next ==
  \/ Tick \/ Boundary \/ FabricFinishes \/ Freeze
  \/ BeginPresent \/ WakeUp \/ Present \/ TimerEnds \/ SetPacing

Spec == Init /\ [][Next]_vars

-----------------------------------------------------------------------------
(* Properties.                                                             *)

\* The clock, the counter words and the pacer's state stay in their types; the waits
\* are bounded, the fabric's by the margin and the poll loop's by SCAN_STALL_NS.
TypeOK ==
  /\ now \in Period .. Horizon /\ boundary \in 1 .. now
  /\ {count, refCnt, target} \subseteq 0 .. Wrap - 1 /\ frozen \in BOOLEAN /\ mapped \in BOOLEAN
  /\ Idle \/ fabDone - now \in 0 .. Margin
  /\ shown \in BOOLEAN /\ since \in 0 .. 3
  /\ pc \in {"work", "nap", "present", "timer"} /\ wake \in Nat
  /\ pc = "nap" => wake - t0 \in 0 .. Stall + Max(Naps)
  /\ mode \in {"scanout", "timer", "off"}
  /\ haveRef \in BOOLEAN /\ haveTarget \in BOOLEAN /\ timed \in BOOLEAN
  /\ t0 \in 0 .. now /\ nextAt \in Nat

Publishes == Idle /\ fabDone' # 0
Paced == haveTarget /\ ~frozen

\* The comment on g_pace_mode: "a frame is never published twice within one boundary,
\* so frames published == frames displayed".
EveryFrameShown == [][Publishes /\ Paced => shown]_vars

\* The same, for the frames whose boundary reference was late by no more than the
\* fabric left of the margin: the target arithmetic, the wrap of the counter and the
\* waits are right whenever the reference is.
TimedFramesShown == []TypeOK /\ [][Publishes /\ Paced /\ timed => shown]_vars

\* However late the reference, two frames are never published between two boundaries.
NeverTwiceInABoundary == [][Publishes /\ Paced => since = 0]_vars

\* The wall clock takes over for good only from a counter that stopped: a slow frame,
\* a long preemption or a wrapped counter does not look like a stall.
FallsBackOnlyWhenStalled ==
  [][pc = "nap" /\ mode = "scanout" /\ mode' = "timer" => frozen]_vars

\* mf_set_pacing on the wall clock: "never faster than scanout, which would starve the
\* snapshot".  Two publishes may fall between two boundaries by jitter; not three.
NeverFasterThanScanout == mode = "timer" /\ nextAt # 0 => since <= 2

=============================================================================
