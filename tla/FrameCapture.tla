---------------------------- MODULE FrameCapture ----------------------------
(***************************************************************************)
(* scripts/stutter/frames.py and the frame records it reads: windows of    *)
(* presented frames per second of play, and of frames the display really   *)
(* showed per 60 scanout periods.  The engine publishes a frame, waits for *)
(* the next ring to be free, and only then reads the scanout counter into  *)
(* the record (MisterFabricBridge::present): the core may display the      *)
(* frame in between.                                                       *)
(***************************************************************************)
EXTENDS Integers, Sequences, FiniteSetsExt

CONSTANTS
  Second,       \* ticks of a window of presents
  Sixty,        \* scanout periods of a window of displayed frames
  MaxNow,       \* bound: ticks of a capture
  MaxScans      \* bound: scanout periods of a capture

ASSUME CaptureAssumption == {Second, Sixty, MaxNow, MaxScans} \subseteq Nat \ {0}

VARIABLES
  now,        \* clock
  scanned,    \* the core's scanout counter
  queued,     \* a frame was published since the last boundary
  newAt,      \* boundaries at which a new frame appeared
  presenting, \* a frame is published, its counter not yet read
  published,  \* the counter when it was published
  playing,    \* game_state is one of ACTIVE
  frames,     \* the records: [tpres, scan, play], and `pub`, which no record has
  saved       \* the capture is over

captureVars == <<now, scanned, queued, newAt, presenting, published, playing, frames, saved>>

CaptureInit ==
  /\ now = 0 /\ scanned = 1 /\ queued = FALSE /\ newAt = {}
  /\ presenting = FALSE /\ published = 0 /\ playing \in BOOLEAN
  /\ frames = <<>> /\ saved = FALSE

Boundary ==
  /\ ~saved /\ scanned < MaxScans
  /\ scanned' = scanned + 1
  /\ newAt' = IF queued THEN newAt \union {scanned + 1} ELSE newAt
  /\ queued' = FALSE
  /\ UNCHANGED <<now, presenting, published, playing, frames, saved>>

CaptureTick ==
  /\ ~saved /\ now < MaxNow
  /\ now' = now + 1
  /\ UNCHANGED <<scanned, queued, newAt, presenting, published, playing, frames, saved>>

\* Two frames are never presented in one tick.
Publish ==
  /\ ~saved /\ ~presenting
  /\ frames # <<>> => frames[Len(frames)].tpres < now
  /\ queued' = TRUE /\ presenting' = TRUE /\ published' = scanned
  /\ UNCHANGED <<now, scanned, newAt, playing, frames, saved>>

Record ==
  /\ ~saved /\ presenting
  /\ frames' = Append(frames, [tpres |-> now, scan |-> scanned, play |-> playing, pub |-> published])
  /\ presenting' = FALSE
  /\ UNCHANGED <<now, scanned, queued, newAt, published, playing, saved>>

\* At most one change of the game's state per frame.
StateChange ==
  /\ ~saved /\ ~presenting
  /\ frames # <<>> => frames[Len(frames)].play = playing
  /\ playing' = ~playing
  /\ UNCHANGED <<now, scanned, queued, newAt, presenting, published, frames, saved>>

Save ==
  /\ ~saved /\ now = MaxNow /\ ~presenting
  /\ saved' = TRUE
  /\ UNCHANGED <<now, scanned, queued, newAt, presenting, published, playing, frames>>

CaptureNext == Boundary \/ CaptureTick \/ Publish \/ Record \/ StateChange \/ Save

CaptureSpec == CaptureInit /\ [][CaptureNext]_captureVars

-----------------------------------------------------------------------------
(* main(): segments of play, a record [first, last] of frames each.        *)

Segments ==
  {s \in [first : DOMAIN frames, last : DOMAIN frames] :
     /\ s.first <= s.last
     /\ \A i \in s.first..s.last : frames[i].play
     /\ s.first > 1 => ~frames[s.first - 1].play
     /\ s.last < Len(frames) => ~frames[s.last + 1].play}

\* Windows of presents, tiled from the start of the segment; the last part is dropped.
WindowStarts(s) ==
  LET t0 == frames[s.first].tpres
  IN {t \in t0..MaxNow : (t - t0) % Second = 0 /\ t + Second <= frames[s.last].tpres}

PresentsIn(s, t) ==
  Cardinality({i \in s.first..s.last : t <= frames[i].tpres /\ frames[i].tpres < t + Second})

\* The window that ends with frame j, as far as the segment has a whole one.
HasWindow(s, j) == frames[j].tpres - Second >= frames[s.first].tpres
PresentsUpTo(s, j) ==
  Cardinality({i \in s.first..j : frames[i].tpres > frames[j].tpres - Second})

SlidingCounts(s) == {PresentsUpTo(s, j) : j \in {k \in s.first..s.last : HasWindow(s, k)}}

\* A frame is shown at the first boundary after it, unless another was presented before that.
ShownNow(k) == frames[k].scan            \* a mutant: the period of the read, not the next one
ShownAt(k) == frames[k].scan + 1

Shown(s) ==
  {ShownAt(k) : k \in {i \in s.first..(s.last - 1) : frames[i + 1].scan > frames[i].scan}}

ScanWindows(s) ==
  LET b0 == frames[s.first].scan + 1
      b1 == frames[s.last].scan
  IN {w \in b0..(b1 - Sixty) : (w - b0) % Sixty = 0}

DisplayedIn(s, w) == Cardinality(Shown(s) \intersect w..(w + Sixty - 1))

-----------------------------------------------------------------------------
CaptureTypeOK ==
  /\ now \in 0..MaxNow /\ scanned \in 1..MaxScans /\ newAt \subseteq 2..MaxScans
  /\ \A i \in DOMAIN frames : frames[i].pub <= frames[i].scan /\ frames[i].scan <= scanned
  /\ \A i \in 1..(Len(frames) - 1) : frames[i].tpres < frames[i + 1].tpres

\* Frames of s whose counter was read after a boundary, which moved them into the window,
\* out of it or within it.
LateIn(s, w) ==
  {i \in s.first..s.last : /\ frames[i].pub # frames[i].scan
                           /\ {frames[i].pub, frames[i].scan} \intersect (w - 1)..(w + Sixty - 2) # {}}

\* A window of displayed frames counts the new frames the display showed, but for one per
\* frame whose counter was read late: exactly when none was.
DisplayedWithinLate ==
  /\ CaptureTypeOK
  /\ saved =>
       \A s \in Segments : \A w \in ScanWindows(s) :
         LET real == Cardinality(newAt \intersect w..(w + Sixty - 1))
             late == Cardinality(LateIn(s, w))
         IN DisplayedIn(s, w) \in (real - late)..(real + late)

\* The worst sliding window is a bound on the tiled ones: no tiled window is worse by
\* more than the frame that ends the sliding one.
SlidingIsWorst ==
  saved => \A s \in Segments : \A t \in WindowStarts(s) :
             \E c \in SlidingCounts(s) : c <= PresentsIn(s, t) + 1

\* Both windows of a capture say what it was: the displayed one and the presented one.
WindowsCountRight == DisplayedWithinLate /\ SlidingIsWorst

\* What frames.py says of the boundaries it counts: a new frame appeared there.  (It did
\* not where the counter was read a boundary late: the frame had appeared before.)
CountedIsShown ==
  saved => \A s \in Segments : \A w \in ScanWindows(s) :
             Shown(s) \intersect w..(w + Sixty - 1) \subseteq newAt
=============================================================================
