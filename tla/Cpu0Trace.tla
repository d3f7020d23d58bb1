------------------------------ MODULE Cpu0Trace ------------------------------
(***************************************************************************)
(* scripts/stutter/frames.py and the perf trace of CPU0 it reads: task     *)
(* switches and entries and exits of hard and soft interrupts, recorded    *)
(* from some moment on.  load_cpu0 makes intervals of them, overlap sums   *)
(* them over a frame, and main() blames the frame's excess on the CPU      *)
(* work, a task, an interrupt or a wait.                                   *)
(*                                                                         *)
(* `ran` and `took` are the truth, tick by tick; the report is right when  *)
(* it says the same.                                                       *)
(***************************************************************************)
EXTENDS Integers, Sequences, SequencesExt

CONSTANTS
  Tasks,        \* what runs on CPU0, "main" (the engine's main thread) and "idle" among them
  Shell,        \* those of them that LAUNCHER puts under one name, "shell-forks"
  Ticks,        \* bound: length of the trace
  MaxEvents,    \* bound: its events
  FramePeriod,  \* PERIOD in ticks
  MinOthers,    \* the 1000 us under which no task is blamed
  MinIrq        \* the 2000 us under which no interrupt is blamed

\* What else a frame can be laid to; the report says "preempted:" before a task's name.
Verdicts == {"cpu", "present", "irq", "blocked"}

ASSUME TraceAssumption ==
  /\ IsFiniteSet(Tasks) /\ Tasks \intersect Verdicts = {}
  /\ {"main", "idle"} \subseteq Tasks /\ Shell \subseteq Tasks \ {"main", "idle"}
  /\ {Ticks, MaxEvents, FramePeriod, MinOthers, MinIrq} \subseteq Nat

VARIABLES
  clock,      \* ticks since the trace began
  onCpu,      \* the task on CPU0
  inIrq,      \* interrupts being handled, a subset of {"hard", "soft"}
  nested,     \* a hard interrupt came during a soft one
  trace,      \* the events perf wrote
  ran, took,  \* per tick: the task, the interrupts
  ended       \* perf has stopped

traceVars == <<clock, onCpu, inIrq, nested, trace, ran, took, ended>>

TraceInit ==
  /\ clock = 0 /\ onCpu = "main"
  /\ inIrq \in {{}, {"hard"}, {"soft"}}
  /\ nested = FALSE /\ trace = <<>> /\ ran = <<>> /\ took = <<>> /\ ended = FALSE

Log(e) == trace' = Append(trace, e)

Recording == ~ended /\ Len(trace) < MaxEvents

Switch ==
  /\ Recording /\ inIrq = {}
  /\ \E next_comm \in Tasks \ {onCpu} :
       /\ Log([t |-> clock, ev |-> "switch", prev |-> onCpu, next |-> next_comm])
       /\ onCpu' = next_comm
  /\ UNCHANGED <<clock, inIrq, nested, ran, took, ended>>

\* Interrupts are off in a hard handler; a soft one runs with them on.
Enter(kind) ==
  /\ Recording /\ "hard" \notin inIrq /\ kind \notin inIrq
  /\ Log([t |-> clock, ev |-> "entry", irq |-> kind])
  /\ inIrq' = inIrq \union {kind}
  /\ nested' = (nested \/ inIrq # {})
  /\ UNCHANGED <<clock, onCpu, ran, took, ended>>

Leave(kind) ==
  /\ Recording /\ kind \in inIrq /\ (kind = "soft" => "hard" \notin inIrq)
  /\ Log([t |-> clock, ev |-> "exit", irq |-> kind])
  /\ inIrq' = inIrq \ {kind}
  /\ UNCHANGED <<clock, onCpu, nested, ran, took, ended>>

TraceTick ==
  /\ ~ended /\ clock < Ticks
  /\ clock' = clock + 1
  /\ ran' = Append(ran, onCpu) /\ took' = Append(took, inIrq)
  /\ UNCHANGED <<onCpu, inIrq, nested, trace, ended>>

TraceEnds ==
  /\ ~ended /\ clock = Ticks
  /\ ended' = TRUE
  /\ UNCHANGED <<clock, onCpu, inIrq, nested, trace, ran, took>>

TraceNext ==
  \/ Switch \/ (\E kind \in {"hard", "soft"} : Enter(kind) \/ Leave(kind))
  \/ TraceTick \/ TraceEnds

TraceSpec == TraceInit /\ [][TraceNext]_traceVars

-----------------------------------------------------------------------------
(* load_cpu0: the lines in order, with what is open between them.          *)

Interval(from, to, key) == [from |-> from, to |-> to, key |-> key]

\* sched_switch ends the interval of the task the last one began; the first has none.
SwitchLine(acc, e) ==
  [acc EXCEPT !.tasks = Append(@, IF acc.cur = {} THEN Interval(e.t, e.t, e.prev)
                                  ELSE Interval(acc.since, e.t, CHOOSE c \in acc.cur : TRUE)),
              !.cur = {e.next}, !.since = e.t]

\* One entry is open per kind; an exit without one is dropped.
EntryLine(acc, e) ==
  [acc EXCEPT !.open = [k \in DOMAIN acc.open \union {e.irq} |->
                          IF k = e.irq THEN e.t ELSE acc.open[k]]]
ExitLine(acc, e) ==
  [acc EXCEPT !.irqs = Append(@, Interval(acc.open[e.irq], e.t, e.irq)),
              !.open = [k \in DOMAIN acc.open \ {e.irq} |-> acc.open[k]]]

TraceLine(acc, e) ==
  CASE e.ev = "switch" -> SwitchLine(acc, e)
    [] e.ev = "entry" -> EntryLine(acc, e)
    [] e.ev = "exit" /\ e.irq \in DOMAIN acc.open -> ExitLine(acc, e)
    [] OTHER -> acc

NoLine == [tasks |-> <<>>, cur |-> {}, since |-> 0, irqs |-> <<>>, open |-> <<>>]
LoadCpu0 == FoldLeft(TraceLine, NoLine, trace)

TaskIntervals == LoadCpu0.tasks
IrqIntervals  == LoadCpu0.irqs

-----------------------------------------------------------------------------
(* overlap(): bisect finds the first interval, the loop stops at the first *)
(* that starts after the window.                                           *)

BisectLeft(ivs, a) ==
  LET in[w \in (0..Len(ivs)) \X (0..Len(ivs))] ==     \* between w[1] and w[2]
        LET mid == (w[1] + w[2]) \div 2
        IN IF w[1] >= w[2] THEN w[1]
           ELSE IF ivs[mid + 1].from < a THEN in[<<mid + 1, w[2]>>] ELSE in[<<w[1], mid>>]
  IN in[<<0, Len(ivs)>>]

NoStepBack(ivs, a) == BisectLeft(ivs, a) + 1     \* a mutant: the interval the window begins in is lost
FirstIndex(ivs, a) == BisectLeft(ivs, a)         \* one before the bisect, counting from 1

Common(iv, a, b) == Min({iv.to, b}) - Max({iv.from, a})

Overlap(ivs, key, a, b) ==
  LET first == Max({1, FirstIndex(ivs, a)})
      stops == {i \in first..Len(ivs) : ivs[i].from >= b}
      last  == IF stops = {} THEN Len(ivs) ELSE Min(stops) - 1
      takes == {i \in first..last : ivs[i].key = key /\ Common(ivs[i], a, b) > 0}
  IN SumFunction([i \in takes |-> Common(ivs[i], a, b)])

-----------------------------------------------------------------------------
(* main(): why a frame [a, b) was long.                                    *)

Group(task) == IF task \in Shell THEN "shell-forks" ELSE task

Others(ivs, g, a, b) ==
  SumFunction([k \in {k \in Tasks \ {"main", "idle"} : Group(k) = g} |-> Overlap(ivs, k, a, b)])

OtherGroups == {Group(k) : k \in Tasks \ {"main", "idle"}}
AllOthers(ivs, a, b) == SumFunction([g \in OtherGroups |-> Others(ivs, g, a, b)])
AllIrq(ivs, a, b) == SumFunction([k \in {"hard", "soft"} |-> Overlap(ivs, k, a, b)])

Largest(ivs, a, b) ==
  CHOOSE g \in OtherGroups : \A h \in OtherGroups : Others(ivs, h, a, b) <= Others(ivs, g, a, b)

\* A frame: its window, the gap before it, its main-thread CPU and its present time.
Cause(f, tasks, irqs) ==
  LET excess == (f.b - f.a) - FramePeriod
      offcpu == Max({0, (f.b - f.a) - f.gap - f.cpu})
      others == AllOthers(tasks, f.a, f.b)
      irq    == AllIrq(irqs, f.a, f.b)
      most   == Largest(tasks, f.a, f.b)
      verdicts == <<[of |-> f.cpu >= FramePeriod,                  is |-> "cpu"],
                    [of |-> 2 * f.present >= excess,               is |-> "present"],
                    [of |-> 2 * others >= Max({excess, 2 * MinOthers}), is |-> most],
                    [of |-> 2 * irq >= Max({excess, 2 * MinIrq}),  is |-> "irq"],
                    [of |-> 2 * offcpu > excess,                   is |-> "blocked"],
                    [of |-> TRUE,                                  is |-> "cpu"]>>
  IN verdicts[Min({i \in DOMAIN verdicts : verdicts[i].of})].is

-----------------------------------------------------------------------------
TraceTypeOK ==
  /\ clock \in 0..Ticks /\ Len(ran) = clock /\ Len(took) = clock
  /\ onCpu \in Tasks /\ inIrq \subseteq {"hard", "soft"} /\ nested \in BOOLEAN
  /\ Len(trace) <= MaxEvents /\ ended \in BOOLEAN

RanIn(S, a, b) == Cardinality({k \in (a + 1)..b : ran[k] \in S})
TookIn(kind, a, b) == Cardinality({k \in (a + 1)..b : kind \in took[k]})

\* Frames the trace covers: from its first switch to its last, and after the exit of
\* an interrupt it has no entry of, before the entry of one it has no exit of.
Covered(kind) ==
  {k \in 1..Ticks : kind \in took[k] =>
      \E i, j \in DOMAIN trace : /\ i < j /\ trace[i].t < k /\ k <= trace[j].t
                                 /\ trace[i].ev = "entry" /\ trace[i].irq = kind
                                 /\ trace[j].ev = "exit" /\ trace[j].irq = kind}
Windows(ivs) ==
  {w \in (0..Ticks) \X (0..Ticks) : w[1] < w[2] /\ ivs # <<>> /\ ivs[1].from <= w[1]
                                    /\ w[2] <= ivs[Len(ivs)].to}

\* The time a frame is said to have lost to each task and each interrupt is the time it
\* lost, wherever the frame begins and ends in the intervals, and whatever was open when
\* the trace began or ended; for interrupts, as long as none came during another.
Cpu0TimeIsExact ==
  /\ TraceTypeOK
  /\ ended =>
       /\ LET ivs == TaskIntervals
          IN \A w \in Windows(ivs), k \in Tasks :
               Overlap(ivs, k, w[1], w[2]) = RanIn({k}, w[1], w[2])
       /\ ~nested =>
            LET ivs == IrqIntervals
            IN \A a \in 0..(Ticks - 1), kind \in {"hard", "soft"} : \A b \in (a + 1)..Ticks :
                 (a + 1)..b \subseteq Covered(kind) =>
                   Overlap(ivs, kind, a, b) = TookIn(kind, a, b)

\* The blame of a long frame is earned: a frame laid to its own work kept CPU0 (or the
\* gap before it) for a whole period, one laid to other processes lost more of it to
\* those than to any others, and one laid to a wait found CPU0 idle or taken in pieces
\* too small to blame.
BlameIsEarned ==
  ended /\ ~nested =>
    LET tasks == TaskIntervals  irqs == IrqIntervals
    IN \A w \in Windows(tasks) : \A gap \in 0..(w[2] - w[1]), present \in {0, w[2] - w[1]} :
         LET cpu == RanIn({"main"}, w[1] + gap, w[2])
             f   == [a |-> w[1], b |-> w[2], gap |-> gap, cpu |-> cpu, present |-> present]
             lost(g) == RanIn({k \in Tasks : Group(k) = g}, w[1], w[2])
             by  == Cause(f, tasks, irqs)
         IN w[2] - w[1] > FramePeriod =>
              /\ by = "cpu" => gap + cpu >= FramePeriod
              /\ by \in OtherGroups => lost(by) > 0 /\ \A g \in OtherGroups : lost(g) <= lost(by)
              /\ by = "blocked" =>
                   RanIn({"idle"}, w[1] + gap, w[2]) > 0
                     \/ RanIn(Tasks \ {"main", "idle"}, w[1], w[2]) < MinOthers

\* The report of a long frame is true: the times it lists and the cause it names.
AttributionIsTrue == Cpu0TimeIsExact /\ BlameIsEarned

\* What overlap() says of its intervals, "sorted", holds of those of the interrupts too.
\* (It does not: one is entered in the list when it ends, and a soft one ends after the
\* hard ones that came during it.)
IrqTimeIsExact ==
  ended => LET ivs == IrqIntervals
           IN \A a \in 0..(Ticks - 1), kind \in {"hard", "soft"} : \A b \in (a + 1)..Ticks :
                (a + 1)..b \subseteq Covered(kind) =>
                  Overlap(ivs, kind, a, b) = TookIn(kind, a, b)
=============================================================================
