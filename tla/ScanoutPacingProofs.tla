------------------------- MODULE ScanoutPacingProofs -------------------------
(***************************************************************************)
(* The pacer against the core's scanout, for every period, margin, stall   *)
(* time and work of the engine.  The argument is one of time: a boundary   *)
(* that the pacer knows only by its number, modulo the counter's width,    *)
(* has a time at which it happens, and that time does not move while the   *)
(* core counts.  The reference is never earlier than the boundary it is    *)
(* for, so the target is late enough; and the target is at most a margin   *)
(* and a period away, so a live counter reaches it before the stall time.  *)
(***************************************************************************)
EXTENDS ScanoutPacing, WellFoundedInduction, TLAPS

-----------------------------------------------------------------------------
(* Arithmetic.                                                             *)

\* Remainders of a number within one turn of the divisor.
LEMMA Turns ==
  ASSUME NEW n \in Nat \ {0}, NEW a \in Int
  PROVE  /\ a \in 0 .. n - 1 => a % n = a
         /\ a \in n .. 2 * n - 1 => a % n = a - n
         /\ a \in -n .. -1 => a % n = a + n
  OBVIOUS

\* A quotient is what is left below a number by less than one divisor.
LEMMA Quotient ==
  ASSUME NEW n \in Nat \ {0}, NEW a \in Nat
  PROVE  /\ a \div n \in Nat
         /\ n * (a \div n) <= a /\ a < n * (a \div n) + n
  OBVIOUS

\* Products with the period are ordered as the factors are.
LEMMA Periods ==
  ASSUME NEW k \in Int, NEW m \in Int
  PROVE  /\ Period * k \in Int
         /\ k < m => Period * k + Period <= Period * m
         /\ Period * (k + 1) = Period * k + Period
         /\ Period * (-k) = -(Period * k)
         /\ Period * 0 = 0
<1>1. Period \in Nat \ {0}
  BY PacingAssumption
<1>2. k < m => Period * k + Period <= Period * m
  <2> SUFFICES ASSUME k < m PROVE Period * k + Period <= Period * m
    OBVIOUS
  <2>1. PICK e \in Nat : m = k + 1 + e
    <3>1. m - k - 1 \in Nat /\ m = k + 1 + (m - k - 1)
      OBVIOUS
    <3> QED BY <3>1
  <2>2. Period * m = Period * k + Period + Period * e /\ Period * e \in Nat
    BY <1>1, <2>1
  <2> QED BY <1>1, <2>2
<1> QED BY <1>1, <1>2

Half == Wrap \div 2

LEMMA HalfTurn == /\ Wrap \in Nat \ {0} /\ Half \in Nat \ {0}
                  /\ 2 * Half <= Wrap /\ Wrap <= 2 * Half + 1
                  /\ Period * Half \in Nat
<1>1. Wrap \in Nat \ {0} /\ Half \in Nat /\ 2 * Half <= Wrap /\ Wrap <= 2 * Half + 1
  BY PacingAssumption DEF Half
<1>2. Half # 0
  BY <1>1, PacingAssumption, WrapAssumption DEF Half
<1> QED BY <1>1, <1>2, PacingAssumption

\* What (int32_t)(a - b) says: the difference, unless it is half a turn or more.
LEMMA SignedIs ==
  ASSUME NEW a \in 0 .. Wrap - 1, NEW b \in 0 .. Wrap - 1
  PROVE  Signed(a, b) = IF a - b >= Half THEN a - b - Wrap
                        ELSE IF a - b < Half - Wrap THEN a - b + Wrap ELSE a - b
<1>1. PICK d \in Int : d = a - b
  BY HalfTurn
<1>2. d \in -Wrap .. Wrap - 1
  BY <1>1, HalfTurn
<1>3. /\ d \in 0 .. Wrap - 1 => d % Wrap = d
      /\ d \in -Wrap .. -1 => d % Wrap = d + Wrap
  BY Turns, HalfTurn
<1>4. Signed(a, b) = IF d % Wrap < Half THEN d % Wrap ELSE (d % Wrap) - Wrap
  BY <1>1 DEF Signed, Half
<1> QED BY <1>1, <1>2, <1>3, <1>4, HalfTurn

\* The next boundary is one further from any that is less than half a turn behind.
LEMMA SignedNext ==
  ASSUME NEW a \in 0 .. Wrap - 1, NEW b \in 0 .. Wrap - 1, Signed(a, b) + 1 < Half
  PROVE  /\ (a + 1) % Wrap \in 0 .. Wrap - 1
         /\ Signed((a + 1) % Wrap, b) = Signed(a, b) + 1
<1>1. (a + 1) % Wrap = IF a + 1 < Wrap THEN a + 1 ELSE 0
  <2>1. PICK d \in Int : d = a + 1
    BY HalfTurn
  <2>2. d \in 0 .. Wrap - 1 \/ d = Wrap
    BY <2>1, HalfTurn
  <2>3. /\ d \in 0 .. Wrap - 1 => d % Wrap = d
        /\ d \in Wrap .. 2 * Wrap - 1 => d % Wrap = d - Wrap
    BY Turns, HalfTurn
  <2> QED BY <2>1, <2>2, <2>3, HalfTurn
<1>2. PICK e \in 0 .. Wrap - 1 : e = (a + 1) % Wrap
  BY <1>1, HalfTurn
<1>3. Signed(e, b) = IF e - b >= Half THEN e - b - Wrap
                     ELSE IF e - b < Half - Wrap THEN e - b + Wrap ELSE e - b
  BY SignedIs
<1>4. Signed(a, b) = IF a - b >= Half THEN a - b - Wrap
                     ELSE IF a - b < Half - Wrap THEN a - b + Wrap ELSE a - b
  BY SignedIs
<1>5. Signed(e, b) = Signed(a, b) + 1
  BY <1>1, <1>2, <1>3, <1>4, HalfTurn
<1> QED BY <1>2, <1>5

\* A boundary up to half a turn ahead is that much ahead.
LEMMA SignedAhead ==
  ASSUME NEW a \in 0 .. Wrap - 1, NEW j \in 1 .. Half
  PROVE  /\ (a + j) % Wrap \in 0 .. Wrap - 1
         /\ Signed(a, (a + j) % Wrap) = -j
<1>1. (a + j) % Wrap = IF a + j < Wrap THEN a + j ELSE a + j - Wrap
  <2>1. PICK d \in Int : d = a + j
    BY HalfTurn
  <2>2. d \in 0 .. Wrap - 1 \/ d \in Wrap .. 2 * Wrap - 1
    BY <2>1, HalfTurn
  <2>3. /\ d \in 0 .. Wrap - 1 => d % Wrap = d
        /\ d \in Wrap .. 2 * Wrap - 1 => d % Wrap = d - Wrap
    BY Turns, HalfTurn
  <2> QED BY <2>1, <2>2, <2>3, HalfTurn
<1>2. PICK e \in 0 .. Wrap - 1 : e = (a + j) % Wrap
  BY <1>1, HalfTurn
<1>3. Signed(a, e) = IF a - e >= Half THEN a - e - Wrap
                     ELSE IF a - e < Half - Wrap THEN a - e + Wrap ELSE a - e
  BY SignedIs
<1>4. Signed(a, e) = -j
  BY <1>1, <1>2, <1>3, HalfTurn
<1> QED BY <1>2, <1>4

-----------------------------------------------------------------------------
(* The inductive invariant.                                                *)

\* When boundary number b happens, or happened, while the core counts.
At(b) == boundary - Period * Signed(count, b)

\* The wait for the boundary due next never runs past it.
ClockTrue == now <= boundary + Period /\ refAt \in Int /\ fabDone \in Nat

\* The reference is never thought earlier than it was.
RefTrue == haveRef /\ ~frozen =>
  /\ At(refCnt) >= 1
  /\ At(refCnt) <= refAt /\ refAt <= now

\* The target is ahead, but no further than the wait allows for; only its boundary ends
\* the wait, and a frame timed by it is drawn before it.
GoalTrue == haveTarget /\ ~frozen =>
  /\ mode = "scanout"
  /\ At(target) >= 1
  /\ At(target) <= now + Margin + Period
  /\ since # 0 => At(target) > boundary
  /\ pc = "present" => At(target) <= boundary
  /\ pc = "nap" => At(target) <= t0 + Margin + Period
  /\ timed /\ ~shown => At(target) > boundary /\ (Idle \/ fabDone < At(target))

\* Only a frame with a target is waited for, and only a counter that can be read sets one:
\* the loop's exit for a read that fails is never taken.
NapsForTarget ==
  /\ pc = "nap" => haveTarget
  /\ haveTarget => mapped

PaceInv ==
  /\ TypeOK
  /\ ClockTrue
  /\ RefTrue
  /\ GoalTrue
  /\ NapsForTarget

-----------------------------------------------------------------------------
(* The longest nap, and how long the fabric takes at most.                 *)

LEMMA Greatest ==
  ASSUME NEW top \in Nat, NEW S \in SUBSET (1 .. top), S # {}
  PROVE  \E m \in S : \A n \in S : n <= m
<1> DEFINE R == {ss \in Nat \X Nat : ss[1] < ss[2]}
           T == {top - n : n \in S}
<1>1. IsWellFoundedOn(R, Nat)
  BY NatLessThanWellFounded, Zenon DEF OpToRel
<1>2. T \in SUBSET Nat /\ T # {}
  <2>1. \A n \in S : top - n \in Nat
    OBVIOUS
  <2> QED BY <2>1
<1>3. PICK x \in T : \A y \in T : ~ (<<y, x>> \in R)
  <2> HIDE DEF R, T
  <2> QED BY <1>1, <1>2, WFMin
<1>4. \A y \in T : ~ (y < x)
  BY <1>2, <1>3
<1>5. PICK m \in S : x = top - m
  BY <1>3
<1>6. ASSUME NEW n \in S PROVE n <= m
  <2>1. ~ (top - n < top - m)
    BY <1>4, <1>5
  <2>2. n \in 1 .. top /\ m \in 1 .. top
    OBVIOUS
  <2> QED BY <2>1, <2>2
<1> QED BY <1>5, <1>6

LEMMA LongestTimes ==
  /\ Max(Naps) \in Nat \ {0} /\ \A d \in Naps : d <= Max(Naps)
  /\ Max(FabricTimes) \in 1 .. Margin /\ \A d \in FabricTimes : d <= Max(FabricTimes)
<1>1. /\ Naps \subseteq Nat \ {0} /\ \E longest \in Naps : \A d \in Naps : d <= longest
      /\ FabricTimes \subseteq 1 .. Margin /\ FabricTimes # {} /\ Margin \in Nat
  BY PacingAssumption
<1>2. \E longest \in Naps : \A d \in Naps : longest >= d
  BY <1>1
<1>3. Max(Naps) \in Naps /\ \A d \in Naps : Max(Naps) >= d
  BY <1>2 DEF Max
<1>4. \E longest \in FabricTimes : \A d \in FabricTimes : d <= longest
  BY <1>1, Greatest
<1>5. \E longest \in FabricTimes : \A d \in FabricTimes : longest >= d
  BY <1>1, <1>4
<1>6. Max(FabricTimes) \in FabricTimes /\ \A d \in FabricTimes : Max(FabricTimes) >= d
  BY <1>5 DEF Max
<1> QED BY <1>1, <1>3, <1>6

LEMMA LeastOfTwo ==
  ASSUME NEW n \in Nat
  PROVE  Min({n, 3}) = IF n <= 3 THEN n ELSE 3
<1>1. PICK m \in {n, 3} : m = IF n <= 3 THEN n ELSE 3
  OBVIOUS
<1>2. \A x \in {n, 3} : m <= x
  BY <1>1
<1>3. \A x \in {n, 3} : (\A y \in {n, 3} : x <= y) => x = m
  BY <1>1
<1> QED BY <1>1, <1>2, <1>3 DEF Min

-----------------------------------------------------------------------------
(* Boundaries and the times at which they happen.                          *)

LEMMA SignedInt ==
  ASSUME NEW a \in 0 .. Wrap - 1, NEW b \in 0 .. Wrap - 1
  PROVE  Signed(a, b) \in Int
<1>1. Signed(a, b) = IF a - b >= Half THEN a - b - Wrap
                     ELSE IF a - b < Half - Wrap THEN a - b + Wrap ELSE a - b
  BY SignedIs
<1> QED BY <1>1, HalfTurn

\* A boundary that happens does not change when any other did, or will.
LEMMA BoundaryKeepsAt ==
  ASSUME TypeOK, Boundary, ~frozen, NEW b \in 0 .. Wrap - 1, At(b) >= 1
  PROVE  At(b)' = At(b)
<1>1. /\ boundary \in Int /\ now \in Int /\ now <= Horizon /\ Horizon \in Int
      /\ count \in 0 .. Wrap - 1 /\ Period \in Int
  BY PacingAssumption, HalfTurn DEF TypeOK
<1>2. boundary' = now /\ now = boundary + Period /\ count' = (count + 1) % Wrap
  BY DEF Boundary
<1>3. PICK k \in Int : k = Signed(count, b)
  BY <1>1, SignedInt
<1>4. Period * k \in Int /\ Period * (k + 1) = Period * k + Period
  BY Periods
<1>5. k + 1 < Half
  <2> SUFFICES ASSUME ~ (k + 1 < Half) PROVE FALSE
    OBVIOUS
  <2>1. Half = k + 1 \/ Half < k + 1
    BY HalfTurn
  <2>2. Period * Half <= Period * (k + 1)
    <3>1. CASE Half = k + 1
      BY <3>1, HalfTurn
    <3>2. CASE Half < k + 1
      <4>1. Period * Half + Period <= Period * (k + 1)
        BY <3>2, Periods, HalfTurn
      <4> QED BY <4>1, <1>1, <1>4, PacingAssumption, HalfTurn
    <3> QED BY <2>1, <3>1, <3>2
  <2>3. Period * k + Period < now
    BY <1>1, <1>2, <1>3, <1>4 DEF At
  <2>4. Horizon < Period * Half
    BY WrapAssumption, PacingAssumption, HalfTurn DEF Half
  <2> QED BY <1>1, <1>4, <2>2, <2>3, <2>4, HalfTurn
<1>6. Signed(count', b) = k + 1
  BY <1>1, <1>2, <1>3, <1>5, SignedNext
<1> QED BY <1>1, <1>2, <1>3, <1>4, <1>6 DEF At

\* The target is reached when its boundary has happened; until then it is a period away
\* at least from the boundary before.
LEMMA ReachedIs ==
  ASSUME TypeOK
  PROVE  /\ At(target) \in Int
         /\ Reached <=> At(target) <= boundary
         /\ ~Reached => At(target) >= boundary + Period
<1>1. PICK k \in Int : k = Signed(count, target)
  BY SignedInt DEF TypeOK
<1>2. boundary \in Int /\ Period \in Nat \ {0} /\ Period * k \in Int /\ Period * 0 = 0
  BY PacingAssumption, Periods DEF TypeOK
<1>3. k >= 0 => Period * k >= 0
  <2>1. k > 0 => Period * 0 + Period <= Period * k
    BY Periods
  <2> QED BY <1>2, <2>1
<1>4. k < 0 => Period * k + Period <= 0
  BY <1>2, Periods
<1> QED BY <1>1, <1>2, <1>3, <1>4 DEF Reached, At

\* What scan_observe makes of a live counter is the last boundary, not too early.
LEMMA ObservesTheLast ==
  ASSUME PaceInv, Observe
  PROVE  /\ refCnt' = count /\ haveRef' = TRUE /\ refAt' \in Int
         /\ ~frozen => boundary <= refAt' /\ refAt' <= now
<1>1. /\ boundary \in Int /\ now \in Int /\ boundary <= now /\ refAt \in Int
      /\ count \in 0 .. Wrap - 1 /\ refCnt \in 0 .. Wrap - 1 /\ Poll \in Nat /\ Period \in Nat
  BY PacingAssumption, HalfTurn DEF PaceInv, TypeOK, ClockTrue
<1>2. PICK k \in Int : k = Signed(count, refCnt)
  BY <1>1, SignedInt
<1>3. Period * k \in Int /\ k * Period = Period * k /\ Period * 0 = 0
  BY <1>1, <1>2
<1>4. refCnt' = count /\ haveRef' = TRUE
  BY DEF Observe
<1>5. CASE haveRef /\ count = refCnt
  <2>1. k = 0
    <3>1. Signed(count, count) = IF count - count >= Half THEN count - count - Wrap
                                 ELSE IF count - count < Half - Wrap THEN count - count + Wrap
                                      ELSE count - count
      BY <1>1, SignedIs
    <3> QED BY <1>1, <1>2, <1>5, <3>1, HalfTurn
  <2>2. refAt' = refAt
    BY <1>5 DEF Observe
  <2>3. ~frozen => boundary <= refAt /\ refAt <= now
    BY <1>1, <1>2, <1>3, <1>5, <2>1 DEF PaceInv, RefTrue, At
  <2> QED BY <1>1, <1>4, <2>2, <2>3
<1>6. CASE haveRef /\ count # refCnt /\ k > 0
  <2>1. refAt' = SeenAt(refAt + k * Period)
    BY <1>2, <1>6 DEF Observe
  <2>2. refAt' = now \/ (refAt' = refAt + Period * k /\ refAt' <= now)
    BY <1>1, <1>3, <2>1 DEF SeenAt
  <2>3. ~frozen => boundary <= refAt + Period * k
    BY <1>1, <1>2, <1>3, <1>6 DEF PaceInv, RefTrue, At
  <2> QED BY <1>1, <1>3, <1>4, <2>2, <2>3
<1>7. CASE ~haveRef \/ (count # refCnt /\ ~ (k > 0))
  BY <1>1, <1>2, <1>4, <1>7 DEF Observe
<1> QED BY <1>5, <1>6, <1>7

-----------------------------------------------------------------------------
(* Types.                                                                  *)

LEMMA PaceInit == Init => PaceInv
<1> SUFFICES ASSUME Init PROVE PaceInv
  OBVIOUS
<1>1. /\ {Period, Poll, Stall, Wrap, Horizon} \subseteq Nat \ {0} /\ Period <= Horizon
      /\ Wrap - 2 \in 0 .. Wrap - 1
  <2>1. Wrap # 1
    BY HalfTurn
  <2> QED BY <2>1, PacingAssumption, WrapAssumption
<1>2. now = Period /\ boundary \in 1 .. Period /\ (haveRef => boundary = Period)
  BY <1>1, PacingAssumption DEF Init
<1>3. wake \in Nat
  BY <1>1, PacingAssumption DEF Init
<1>4. TypeOK
  <2>1. now \in Period .. Horizon /\ boundary \in 1 .. now /\ t0 \in 0 .. now
    BY <1>1, <1>2 DEF Init
  <2>2. {count, refCnt, target} \subseteq 0 .. Wrap - 1
    BY <1>1 DEF Init
  <2>3. /\ haveRef \in BOOLEAN /\ haveTarget = FALSE /\ timed = FALSE /\ frozen = FALSE
        /\ shown = TRUE /\ pc = "work" /\ mode = "scanout" /\ fabDone = 0 /\ since = 0
        /\ nextAt = 0 /\ mapped \in BOOLEAN
    BY PacingAssumption DEF Init
  <2>4. Idle /\ since \in 0 .. 3 /\ nextAt \in Nat
    BY <2>3 DEF Idle
  <2>5. haveTarget \in BOOLEAN /\ timed \in BOOLEAN /\ frozen \in BOOLEAN /\ shown \in BOOLEAN
    BY <2>3
  <2> QED BY <1>3, <2>1, <2>2, <2>3, <2>4, <2>5 DEF TypeOK
<1>5. ClockTrue /\ NapsForTarget /\ GoalTrue
  BY <1>1, <1>2 DEF Init, ClockTrue, NapsForTarget, GoalTrue
<1>6. RefTrue
  <2>1. Signed(count, count) = 0
    <3>1. Signed(count, count) = IF count - count >= Half THEN count - count - Wrap
                                 ELSE IF count - count < Half - Wrap THEN count - count + Wrap
                                      ELSE count - count
      BY <1>1, SignedIs DEF Init
    <3> QED BY <1>1, <3>1, HalfTurn DEF Init
  <2> QED BY <1>1, <1>2, <2>1 DEF Init, RefTrue, At
<1> QED BY <1>4, <1>5, <1>6 DEF PaceInv

LEMMA TypeKept == PaceInv /\ [Next]_vars => TypeOK' /\ ClockTrue'
<1> SUFFICES ASSUME PaceInv, [Next]_vars PROVE TypeOK' /\ ClockTrue'
  OBVIOUS
<1> USE DEF TypeOK, ClockTrue
<1>0. TypeOK /\ ClockTrue /\ {Period, Poll, Stall, Wrap, Horizon} \subseteq Nat \ {0} /\ Margin \in Nat
  BY PacingAssumption DEF PaceInv
<1>1. CASE Tick
  <2>1. now' = now + 1 /\ now + 1 \in Period .. Horizon /\ boundary \in 1 .. now + 1
         /\ now + 1 <= boundary + Period /\ t0 \in 0 .. now + 1
    BY <1>0, <1>1 DEF Tick
  <2>2. Idle' \/ fabDone' - now' \in 0 .. Margin
    BY <1>0, <1>1, <2>1 DEF Tick, Idle
  <2>3. UNCHANGED <<core, fabDone, shown, thread, mode, ref, goal, nextAt, frames>>
    BY <1>1 DEF Tick
  <2> QED
    BY <1>0, <2>1, <2>2, <2>3 DEF core, thread, ref, goal, frames
<1>2. CASE Boundary
  <2>1. (count + 1) % Wrap \in 0 .. Wrap - 1
    BY <1>0
  <2> QED BY <1>0, <1>2, <2>1 DEF Boundary, Idle, thread, ref, goal
<1>3. CASE FabricFinishes
  BY <1>0, <1>3 DEF FabricFinishes, Idle, core, thread, ref, goal, frames
<1>4. CASE Freeze
  BY <1>0, <1>4 DEF Freeze, Idle, thread, ref, goal, frames
<1>5. CASE BeginPresent
  <2>1. /\ UNCHANGED <<now, core, fabDone, shown, mode, goal, nextAt, frames>>
        /\ pc' \in {"nap", "present"} /\ haveRef' \in BOOLEAN
        /\ refCnt' \in 0 .. Wrap - 1 /\ refAt' \in Int
    BY <1>0, <1>5, ObservesTheLast DEF BeginPresent, ObserveFails, ref
  <2>2. wake' \in Nat /\ t0' \in 0 .. now /\ (pc' = "nap" => wake' - t0' \in 0 .. Stall + Max(Naps))
    BY <1>0, <1>5, LongestTimes, PacingAssumption DEF BeginPresent
  <2> QED BY <1>0, <2>1, <2>2 DEF core, goal, frames, Idle
<1>6. CASE WakeUp
  <2>1. /\ UNCHANGED <<now, core, fabDone, shown, goal, nextAt, frames>>
        /\ pc' \in {"nap", "present"} /\ haveRef' \in BOOLEAN /\ mode' \in {mode, "timer"}
        /\ refCnt' \in 0 .. Wrap - 1 /\ refAt' \in Int
    BY <1>0, <1>6, ObservesTheLast DEF WakeUp, ObserveFails, ref
  <2>2. wake' \in Nat /\ t0' \in 0 .. now /\ (pc' = "nap" => wake' - t0' \in 0 .. Stall + Max(Naps))
    BY <1>0, <1>6, LongestTimes, PacingAssumption DEF WakeUp, StalledFor
  <2> QED BY <1>0, <2>1, <2>2 DEF core, goal, frames, Idle
<1>7. CASE Present
  <2>1. UNCHANGED <<now, core, t0, mode>> /\ Publish /\ Idle
    BY <1>7 DEF Present
  <2>2. fabDone' \in Nat /\ (Idle' \/ fabDone' - now \in 0 .. Margin)
    <3>1. CASE mapped
      <4>1. \E d \in FabricTimes : fabDone' = now + d
        BY <2>1, <3>1 DEF Publish
      <4> QED BY <1>0, <4>1, LongestTimes, PacingAssumption
    <3>2. CASE ~mapped
      BY <2>1, <3>2 DEF Publish, Idle
    <3> QED BY <3>1, <3>2
  <2>3. since' \in 0 .. 3 /\ shown' \in BOOLEAN
    <3>1. CASE mapped
      <4>1. shown' = FALSE /\ since' = Min({since + 1, 3})
        BY <2>1, <3>1 DEF Publish
      <4>2. Min({since + 1, 3}) = IF since + 1 <= 3 THEN since + 1 ELSE 3
        BY <1>0, LeastOfTwo
      <4>3. since' \in 0 .. 3
        BY <1>0, <4>1, <4>2
      <4>4. shown' \in BOOLEAN
        BY <4>1, Zenon
      <4> QED BY <4>3, <4>4
    <3>2. CASE ~mapped
      BY <1>0, <2>1, <3>2 DEF Publish
    <3> QED BY <3>1, <3>2
  <2>4. CASE mode = "scanout" /\ AfterPublish
    <3>1. target' \in 0 .. Wrap - 1
      <4>1. CASE Observe
        <5>1. refCnt' \in Int /\ refAt' \in Int
          BY <1>0, <4>1, ObservesTheLast
        <5>2. PICK q \in Int : q = FirstAfter(refCnt', refAt')
          BY <1>0, <5>1 DEF FirstAfter
        <5>3. target' = q % Wrap
          BY <2>4, <4>1, <5>2 DEF AfterPublish, Observe, ObserveFails
        <5> QED BY <1>0, <5>3
      <4>2. CASE ObserveFails
        <5>1. target' = target
          BY <2>4, <4>2 DEF AfterPublish, Observe, ObserveFails
        <5> QED BY <1>0, <5>1
      <4> QED BY <2>4, <4>1, <4>2 DEF AfterPublish
    <3>2. pc' = "work" /\ wake' \in Nat /\ haveTarget' \in BOOLEAN /\ nextAt' = nextAt
      <4>1. /\ pc' = "work" /\ nextAt' = nextAt
            /\ wake' \in {now + d : d \in WorkTimes}
        BY <2>4 DEF AfterPublish, Work
      <4>2. now \in Nat /\ WorkTimes \subseteq Nat
        BY <1>0, PacingAssumption
      <4>3. haveTarget' = TRUE \/ haveTarget' = FALSE
        BY <2>4, Zenon DEF AfterPublish
      <4>4. haveTarget' \in BOOLEAN
        BY <4>3, Zenon
      <4>5. wake' \in Nat
        BY <4>1, <4>2
      <4> QED BY <4>1, <4>4, <4>5
    <3>4. timed' \in BOOLEAN
      <4>1. timed' = timed \/ timed' = (refAt' - boundary <= Margin - Max(FabricTimes))
        BY <2>4 DEF AfterPublish
      <4>2. (refAt' - boundary <= Margin - Max(FabricTimes)) \in BOOLEAN
        OBVIOUS
      <4> QED BY <1>0, <4>1, <4>2
    <3>3. refCnt' \in 0 .. Wrap - 1 /\ haveRef' \in BOOLEAN /\ refAt' \in Int
      BY <1>0, <2>4, ObservesTheLast DEF AfterPublish, ObserveFails, ref
    <3> QED BY <1>0, <2>1, <2>2, <2>3, <3>1, <3>2, <3>3, <3>4 DEF core, Idle
  <2>5. CASE mode = "timer" /\ PaceTimer
    <3>1. /\ pc' \in {"work", "timer"} /\ wake' \in Nat /\ nextAt' \in Nat
          /\ UNCHANGED <<ref, goal, timed>>
      <4>1. now \in Nat /\ nextAt \in Nat /\ Period \in Nat /\ WorkTimes \subseteq Nat
        BY <1>0, PacingAssumption
      <4>2. /\ nextAt' \in {now + Period, nextAt + Period} /\ UNCHANGED <<ref, goal, timed>>
            /\ \/ pc' = "work" /\ wake' \in {now + d : d \in WorkTimes}
               \/ pc' = "timer" /\ wake' = nextAt
        BY <2>5 DEF PaceTimer, Work
      <4> QED BY <4>1, <4>2
    <3> QED BY <1>0, <2>1, <2>2, <2>3, <3>1 DEF core, ref, goal, Idle
  <2>6. CASE mode = "off" /\ Work /\ UNCHANGED <<ref, goal, nextAt, timed>>
    <3>1. pc' = "work" /\ wake' \in Nat
      BY <1>0, <2>6, PacingAssumption DEF Work
    <3> QED BY <1>0, <2>1, <2>2, <2>3, <2>6, <3>1 DEF core, ref, goal, Idle
  <2> QED BY <1>7, <2>4, <2>5, <2>6 DEF Present
<1>8. CASE TimerEnds
  <2>1. pc' = "work" /\ wake' \in Nat
    BY <1>0, <1>8, PacingAssumption DEF TimerEnds, Work
  <2> QED BY <1>0, <1>8, <2>1 DEF TimerEnds, Idle, core, ref, goal, frames
<1>9. CASE SetPacing
  BY <1>0, <1>9, PacingAssumption DEF SetPacing, Idle, core, thread, ref, frames
<1>10. CASE UNCHANGED vars
  BY <1>0, <1>10 DEF vars, Idle, core, thread, ref, goal, frames
<1> QED
  BY <1>1, <1>2, <1>3, <1>4, <1>5, <1>6, <1>7, <1>8, <1>9, <1>10 DEF Next

-----------------------------------------------------------------------------
(* The reference and the target, step by step.                             *)

LEMMA LastIsNow ==
  ASSUME TypeOK PROVE boundary - Period * Signed(count, count) = boundary
<1>1. Signed(count, count) = IF count - count >= Half THEN count - count - Wrap
                             ELSE IF count - count < Half - Wrap THEN count - count + Wrap
                                  ELSE count - count
  BY SignedIs DEF TypeOK
<1>2. Signed(count, count) = 0 /\ Period * 0 = 0
  BY <1>1, HalfTurn, Periods DEF TypeOK
<1> QED BY <1>2 DEF TypeOK

\* A wait that has lasted the stall time has seen the target of a live counter.
LEMMA StallsOnlyFrozen ==
  ASSUME PaceInv, pc = "nap", ~frozen, ~Reached
  PROVE  ~StalledFor
<1>1. At(target) \in Int /\ At(target) >= boundary + Period
  BY ReachedIs DEF PaceInv
<1>2. At(target) <= t0 + Margin + Period
  BY DEF PaceInv, GoalTrue, NapsForTarget
<1> QED
  BY <1>1, <1>2, PacingAssumption, StallAssumption DEF PaceInv, TypeOK, ClockTrue, StalledFor

\* What is published is timed by a target that is ahead, and not too far ahead.
LEMMA TargetAhead ==
  ASSUME PaceInv, AfterPublish, haveTarget', ~frozen, boundary' = boundary, count' = count
  PROVE  LET due == At(target)'
         IN  /\ due \in Int /\ due > boundary /\ due >= 1
             /\ due <= now + Margin + Period
             /\ timed' => now + Max(FabricTimes) < due
<1>1. /\ boundary \in Int /\ now \in Int /\ boundary >= 1 /\ now <= boundary + Period
      /\ now <= Horizon /\ Horizon \in Nat /\ Margin \in Nat /\ Period \in Nat \ {0}
      /\ count \in 0 .. Wrap - 1
  BY PacingAssumption, HalfTurn DEF PaceInv, TypeOK, ClockTrue
<1>2. refCnt' = count /\ boundary <= refAt' /\ refAt' <= now /\ refAt' \in Int
  BY ObservesTheLast DEF AfterPublish
<1>14. PICK at \in Int : at = refAt' /\ boundary <= at /\ at <= now
  BY <1>2
<1>3. PICK x \in Nat : x = now + Margin - at
  <2>1. now \in Int /\ Margin \in Nat /\ at <= now
    BY <1>1, <1>14
  <2>2. now + Margin - at \in Nat
    BY <2>1
  <2> QED BY <2>2
<1>4. PICK q \in Nat : q = x \div Period /\ Period * q <= x /\ x < Period * q + Period
  BY <1>1, Quotient
<1>5. Period * (q + 1) = Period * q + Period /\ Period * q \in Int /\ Period * (q + 1) \in Int
  BY <1>1, <1>4, Periods
<1>6. target' = (count + (q + 1)) % Wrap
  <2>1. FirstAfter(refCnt', refAt') = count + q + 1
    BY <1>2, <1>14, <1>3, <1>4 DEF FirstAfter
  <2>2. count + q + 1 = count + (q + 1)
    BY <1>1, <1>4
  <2> QED BY <2>1, <2>2 DEF AfterPublish
<1>7. q + 1 \in 1 .. Half
  <2> SUFFICES ASSUME Half < q + 1 PROVE FALSE
    BY <1>4, HalfTurn
  <2>1. Period * Half + Period <= Period * (q + 1)
    BY <1>4, HalfTurn, Periods
  <2>2. Period <= Horizon /\ Horizon + Margin + Period < Period * Half
    BY WrapAssumption DEF Half
  <2> QED BY <1>1, <1>14, <1>3, <1>4, <1>5, <2>1, <2>2, HalfTurn
<1>8. Signed(count, target') = -(q + 1)
  BY <1>1, <1>6, <1>7, SignedAhead
<1>9. At(target)' = boundary + Period * (q + 1)
  <2>1. Period * (-(q + 1)) = -(Period * (q + 1))
    BY <1>4, Periods
  <2> QED BY <1>1, <1>5, <1>8, <2>1 DEF At
<1>10. timed' => refAt' - boundary <= Margin - Max(FabricTimes)
  BY DEF AfterPublish
<1>11. PICK m \in Int : m = Max(FabricTimes)
  BY LongestTimes, <1>1
<1>12. PICK due \in Int : due = boundary + Period * (q + 1)
  BY <1>1, <1>5
<1>13. /\ due > boundary /\ due >= 1 /\ due <= now + Margin + Period
       /\ at - boundary <= Margin - m => now + m < due
  <2>1. PICK p \in Int : p = Period * q
    BY <1>5
  <2>2. p <= x /\ x < p + Period /\ p >= 0 /\ due = boundary + p + Period
    BY <1>1, <1>4, <1>5, <1>12, <2>1
  <2>3. /\ now \in Int /\ boundary \in Int /\ Period \in Nat \ {0} /\ Margin \in Nat
        /\ boundary >= 1 /\ boundary <= at
    BY <1>1, <1>14
  <2> QED BY <1>3, <2>2, <2>3
<1> QED BY <1>14, <1>9, <1>10, <1>11, <1>12, <1>13

LEMMA RefKept ==
  ASSUME PaceInv, [Next]_vars, ~frozen' PROVE RefTrue'
<1>1. TypeOK /\ ClockTrue /\ boundary >= 1 /\ {boundary, now, refAt, Period} \subseteq Int
  BY PacingAssumption DEF PaceInv, TypeOK, ClockTrue
<1>2. CASE Observe /\ UNCHANGED <<now, boundary, count, frozen>>
  <2>1. refCnt' = count /\ boundary <= refAt' /\ refAt' <= now
    BY <1>2, ObservesTheLast
  <2>2. At(refCnt)' = boundary
    BY <1>1, <1>2, <2>1, LastIsNow DEF At
  <2> QED BY <1>1, <1>2, <2>1, <2>2 DEF RefTrue
<1>3. CASE Boundary
  <2>1. /\ frozen' = frozen /\ UNCHANGED <<now, ref>>
    BY <1>3 DEF Boundary
  <2>2. CASE haveRef
    <3>1. At(refCnt) >= 1 /\ At(refCnt) <= refAt /\ refAt <= now
      BY <2>1, <2>2 DEF PaceInv, RefTrue
    <3>2. PICK b \in 0 .. Wrap - 1 : b = refCnt
      BY <1>1 DEF TypeOK
    <3>3. At(b)' = At(b)
      BY <1>1, <1>3, <2>1, <3>1, <3>2, BoundaryKeepsAt
    <3>4. At(refCnt)' = At(refCnt)
      BY <2>1, <3>2, <3>3 DEF At, ref
    <3> QED BY <2>1, <3>1, <3>4 DEF RefTrue, ref
  <2>3. CASE ~haveRef
    BY <2>1, <2>3 DEF RefTrue, ref
  <2> QED BY <2>2, <2>3
<1>4. CASE UNCHANGED <<boundary, count, frozen, ref>> /\ now' \in {now, now + 1}
  <2>1. At(refCnt)' = At(refCnt)
    BY <1>4 DEF At, ref
  <2> QED BY <1>1, <1>4, <2>1 DEF PaceInv, RefTrue, ref
<1>5. [Next]_vars =>
        \/ Observe /\ UNCHANGED <<now, boundary, count, frozen>>
        \/ Boundary
        \/ UNCHANGED <<boundary, count, frozen, ref>> /\ now' \in {now, now + 1}
        \/ frozen'
  BY DEF Next, Tick, FabricFinishes, Freeze, BeginPresent, WakeUp, Present, AfterPublish,
         ObserveFails, PaceTimer, TimerEnds, SetPacing, vars, core, ref
<1> QED BY <1>2, <1>3, <1>4, <1>5

LEMMA GoalKept ==
  ASSUME PaceInv, [Next]_vars, TypeOK', haveTarget', ~frozen' PROVE GoalTrue'
<1> USE DEF PaceInv
<1>1. /\ TypeOK /\ ClockTrue
      /\ boundary \in Int /\ now \in Int /\ fabDone \in Int /\ t0 \in Int
      /\ Period \in Nat \ {0} /\ Margin \in Nat /\ At(target) \in Int
  BY PacingAssumption, ReachedIs DEF TypeOK, ClockTrue
<1>2. CASE Tick \/ FabricFinishes \/ TimerEnds \/ UNCHANGED vars
  <2>1. /\ UNCHANGED <<core, shown, t0, mode, goal, frames>> /\ now' \in {now, now + 1}
        /\ pc' = pc \/ pc' = "work"
        /\ fabDone' = fabDone \/ fabDone' = 0
    BY <1>2 DEF Tick, FabricFinishes, TimerEnds, Work, vars, thread
  <2>2. At(target)' = At(target)
    BY <2>1 DEF At, core, goal
  <2> QED BY <1>1, <2>1, <2>2 DEF GoalTrue, Idle, core, goal, frames
<1>3. CASE Boundary
  <2>1. /\ boundary' = now /\ now = boundary + Period /\ shown' = (Idle \/ shown) /\ since' = 0
        /\ UNCHANGED <<now, frozen, fabDone, thread, mode, goal, timed>>
    BY <1>3 DEF Boundary
  <2>2. haveTarget /\ ~frozen
    BY <2>1 DEF goal
  <2>3. PICK b \in 0 .. Wrap - 1 : b = target
    BY <1>1 DEF TypeOK
  <2>4. At(b)' = At(b)
    BY <1>1, <1>3, <2>2, <2>3, BoundaryKeepsAt DEF GoalTrue
  <2>5. At(target)' = At(target)
    BY <2>1, <2>3, <2>4 DEF At, goal
  <2>6. Idle \/ fabDone >= now
    BY <1>1 DEF TypeOK
  <2>7. ~shown' => ~Idle /\ ~shown
    BY <2>1
  <2> QED
    BY <1>1, <2>1, <2>2, <2>5, <2>6, <2>7 DEF GoalTrue, Idle, thread, goal
<1>4. CASE BeginPresent
  <2>1. /\ UNCHANGED <<now, core, fabDone, shown, mode, goal, frames>>
        /\ haveTarget /\ ~frozen
    BY <1>4 DEF BeginPresent, core, goal
  <2>2. At(target)' = At(target)
    BY <2>1 DEF At, core, goal
  <2>3. \/ Reached /\ pc' = "present"
        \/ pc' = "nap" /\ t0' = now
    BY <1>4, <2>1 DEF BeginPresent, ObserveFails, GoalTrue, NapsForTarget
  <2> QED
    BY <1>1, <2>1, <2>2, <2>3, ReachedIs DEF GoalTrue, Idle, core, goal, frames
<1>5. CASE WakeUp
  <2>1. /\ UNCHANGED <<now, core, fabDone, shown, goal, frames>> /\ pc = "nap"
        /\ haveTarget /\ ~frozen
    BY <1>5 DEF WakeUp, core, goal
  <2>2. At(target)' = At(target)
    BY <2>1 DEF At, core, goal
  <2>3. \/ Reached /\ pc' = "present" /\ mode' = mode
        \/ pc' = "nap" /\ t0' = t0 /\ mode' = mode
    BY <1>5, <2>1, StallsOnlyFrozen DEF WakeUp, ObserveFails, NapsForTarget
  <2> QED
    BY <1>1, <2>1, <2>2, <2>3, ReachedIs DEF GoalTrue, Idle, core, goal, frames
<1>6. CASE Present
  <2>1. UNCHANGED <<now, boundary, count, frozen, mode>>
    BY <1>6 DEF Present, core
  <2>2. mode = "scanout" /\ AfterPublish
    BY <1>6, <2>1 DEF Present, PaceTimer, GoalTrue, goal
  <2>7. \E d \in FabricTimes : fabDone' = now + d
    <3>1. mapped
      BY <2>2 DEF AfterPublish, Observe
    <3>2. fabDone' \in {now + d : d \in FabricTimes}
      BY <1>6, <3>1 DEF Present, Publish
    <3> QED BY <3>2
  <2>3. PICK due \in Int : due = At(target)'
    BY <2>1, <2>2, TargetAhead
  <2>4. /\ due > boundary /\ due >= 1 /\ due <= now + Margin + Period
        /\ timed' => now + Max(FabricTimes) < due
    BY <2>1, <2>2, <2>3, TargetAhead
  <2>5. fabDone' \in Int /\ fabDone' <= now + Max(FabricTimes) /\ Max(FabricTimes) \in Int
    BY <1>1, <2>7, LongestTimes, PacingAssumption
  <2>6. pc' = "work"
    BY <2>2 DEF AfterPublish, Work
  <2> QED
    BY <1>1, <2>1, <2>2, <2>3, <2>4, <2>5, <2>6 DEF GoalTrue
<1>7. CASE Freeze \/ SetPacing
  BY <1>7 DEF Freeze, SetPacing
<1> QED
  BY <1>2, <1>3, <1>4, <1>5, <1>6, <1>7 DEF Next

LEMMA PaceStep == PaceInv /\ [Next]_vars => PaceInv'
<1> SUFFICES ASSUME PaceInv, [Next]_vars PROVE PaceInv'
  OBVIOUS
<1>1. TypeOK' /\ ClockTrue'
  BY TypeKept
<1>2. RefTrue'
  BY RefKept DEF RefTrue
<1>3. GoalTrue'
  BY <1>1, GoalKept DEF GoalTrue
<1>4. NapsForTarget'
  BY DEF PaceInv, NapsForTarget, Next, Tick, Boundary, FabricFinishes, Freeze, BeginPresent,
         WakeUp, Present, AfterPublish, Observe, ObserveFails, PaceTimer, Work, TimerEnds,
         SetPacing, vars, core, thread, goal
<1> QED BY <1>1, <1>2, <1>3, <1>4 DEF PaceInv

-----------------------------------------------------------------------------
(* Theorems.                                                               *)

\* The pacer's invariant: its reference and its target are true to the core's time.
THEOREM PaceInvariant == Spec => []PaceInv
<1> QED BY PaceInit, PaceStep, PTL DEF Spec

\* A publish that is paced finds the target reached: whatever was published before has
\* had its boundary.
LEMMA PublishesWhenReached ==
  ASSUME PaceInv, [Next]_vars, Publishes, Paced
  PROVE  /\ At(target) \in Int /\ At(target) <= boundary /\ boundary \in Int
         /\ since # 0 => At(target) > boundary
         /\ timed /\ ~shown => At(target) > boundary
<1>1. Present
  BY DEF PaceInv, TypeOK, ClockTrue, Publishes, Idle, Next, Tick, Boundary, FabricFinishes,
         Freeze, BeginPresent, WakeUp, TimerEnds, SetPacing, vars
<1>2. pc = "present" /\ haveTarget /\ ~frozen
  BY <1>1 DEF Present, Paced
<1>3. At(target) \in Int /\ boundary \in Int
  BY ReachedIs DEF PaceInv, TypeOK
<1> QED BY <1>2, <1>3 DEF PaceInv, GoalTrue

\* However late the reference, two frames are never published between two boundaries
\* (pace_scanout_before_publish and _after_publish with a live counter).
THEOREM OnePublishPerBoundary == Spec => NeverTwiceInABoundary
<1>1. PaceInv /\ [Next]_vars => [Publishes /\ Paced => since = 0]_vars
  <2> SUFFICES ASSUME PaceInv, [Next]_vars, Publishes, Paced PROVE since = 0
    OBVIOUS
  <2>1. PICK due \in Int : due = At(target) /\ due <= boundary /\ boundary \in Int
    BY PublishesWhenReached
  <2>2. since # 0 => due > boundary
    BY <2>1, PublishesWhenReached
  <2> QED BY <2>1, <2>2
<1> QED BY <1>1, PaceInvariant, PTL DEF Spec, NeverTwiceInABoundary

\* A frame published against a good enough reference is on the screen before the next one
\* is published, and every wait of the pacer is bounded.
THEOREM TimedFramesAreShown == Spec => TimedFramesShown
<1>1. PaceInv => TypeOK
  BY DEF PaceInv
<1>2. PaceInv /\ [Next]_vars => [Publishes /\ Paced /\ timed => shown]_vars
  <2> SUFFICES ASSUME PaceInv, [Next]_vars, Publishes, Paced, timed PROVE shown
    OBVIOUS
  <2>1. PICK due \in Int : due = At(target) /\ due <= boundary /\ boundary \in Int
    BY PublishesWhenReached
  <2>2. ~shown => due > boundary
    BY <2>1, PublishesWhenReached
  <2> QED BY <2>1, <2>2
<1> QED BY <1>1, <1>2, PaceInvariant, PTL DEF Spec, TimedFramesShown

\* The wall clock takes over from the counter only when the counter has stopped.
THEOREM FallsBackFromAStoppedCounter == Spec => FallsBackOnlyWhenStalled
<1>1. PaceInv /\ [Next]_vars
        => [pc = "nap" /\ mode = "scanout" /\ mode' = "timer" => frozen]_vars
  <2> SUFFICES ASSUME PaceInv, [Next]_vars, pc = "nap", mode = "scanout", mode' = "timer",
                      ~frozen
               PROVE  FALSE
    OBVIOUS
  <2>1. WakeUp
    BY DEF Next, Tick, Boundary, FabricFinishes, Freeze, BeginPresent, Present, TimerEnds,
           SetPacing, vars
  <2>2. ~Reached /\ StalledFor
    BY <2>1 DEF WakeUp
  <2> QED BY <2>2, StallsOnlyFrozen
<1> QED BY <1>1, PaceInvariant, PTL DEF Spec, FallsBackOnlyWhenStalled
=============================================================================
