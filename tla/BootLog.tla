------------------------------- MODULE BootLog -------------------------------
(***************************************************************************)
(* The boot log (MISTER_BOOTLOG) and the two scripts that read it.         *)
(* ResourceLoader::_load logs a line when a load ends, with its nesting    *)
(* depth and its inclusive time; MisterProfScope (core/os/mister_prof.cpp) *)
(* keeps exclusive times per category of work of the main thread, dumped   *)
(* after every startup phase and every top-level load.  load_self.py makes *)
(* exclusive times of the first, prof_phases.py phases of the second.      *)
(*                                                                         *)
(* `alone` and `outside` are the truth, counted tick by tick.              *)
(***************************************************************************)
EXTENDS Integers, Sequences, SequencesExt

CONSTANTS
  Loaders,     \* threads that load, "main" among them
  BootTicks,   \* bound: length of the log
  MaxBegun,    \* bound: loads and other scopes
  MaxPhases,   \* bound: startup phases
  MaxScopes    \* bound: depth of open scopes

ASSUME BootAssumption ==
  "main" \in Loaders /\ {BootTicks, MaxBegun, MaxPhases, MaxScopes} \subseteq Nat

Categories == {"res_load", "gd_parse"}

VARIABLES
  bootClock,
  loads,     \* [Loaders -> the loads open, outermost first: [id, at]]
  scopes,    \* the open MisterProfScopes of the main thread, innermost first: [cat, t0, child]
  self,      \* mf_prof_self
  log,       \* the lines of the log
  begun,     \* loads and other scopes begun
  phases,    \* startup phases ended
  alone,     \* per load: ticks it was the innermost of its thread
  outside    \* per phase: ticks with no scope open

bootVars == <<bootClock, loads, scopes, self, log, begun, phases, alone, outside>>

BootInit ==
  /\ bootClock = 0
  /\ loads = [t \in Loaders |-> <<>>] /\ scopes = <<>> /\ self = [c \in Categories |-> 0]
  /\ log = <<>> /\ begun = 0 /\ phases = 0
  /\ alone = [n \in 1..MaxBegun |-> 0] /\ outside = [n \in 1..(MaxPhases + 1) |-> 0]

-----------------------------------------------------------------------------
(* The engine.                                                             *)

OpenScope(cat) == scopes' = <<[cat |-> cat, t0 |-> bootClock, child |-> 0]>> \o scopes

\* ~MisterProfScope: the time of the scopes within is theirs.
BookedSelf(scope, elapsed) == [self EXCEPT ![scope.cat] = @ + (elapsed - scope.child)]

CloseScope ==
  LET top == Head(scopes)
      elapsed == bootClock - top.t0
      outer == Tail(scopes)
  IN /\ self' = BookedSelf(top, elapsed)
     /\ scopes' = IF outer = <<>> THEN <<>>
                  ELSE <<[outer[1] EXCEPT !.child = @ + elapsed]>> \o Tail(outer)

Snapshot == [ev |-> "prof", at |-> bootClock, self |-> self]

BeginLoad(t) ==
  /\ begun < MaxBegun /\ bootClock < BootTicks
  /\ t = "main" => Len(scopes) < MaxScopes
  /\ begun' = begun + 1
  /\ loads' = [loads EXCEPT ![t] = Append(@, [id |-> begun', at |-> bootClock])]
  /\ IF t = "main" THEN OpenScope("res_load") ELSE UNCHANGED scopes
  /\ UNCHANGED <<bootClock, self, log, phases, alone, outside>>

\* The line, and for a top-level load the dump, come before the load's own scope closes.
EndLoad(t) ==
  /\ loads[t] # <<>>
  /\ t = "main" => scopes[1].cat = "res_load"
  /\ LET last == loads[t][Len(loads[t])]
         depth == Len(loads[t]) - 1
         line == [ev |-> "load", at |-> bootClock, depth |-> depth, id |-> last.id,
                  ms |-> bootClock - last.at]
     IN log' = IF depth = 0 /\ t = "main" THEN log \o <<line, Snapshot>> ELSE Append(log, line)
  /\ loads' = [loads EXCEPT ![t] = SubSeq(@, 1, Len(@) - 1)]
  /\ IF t = "main" THEN CloseScope ELSE UNCHANGED <<scopes, self>>
  /\ UNCHANGED <<bootClock, begun, phases, alone, outside>>

\* Work of another category, in a load or outside.
BeginWork ==
  /\ begun < MaxBegun /\ Len(scopes) < MaxScopes /\ bootClock < BootTicks
  /\ begun' = begun + 1
  /\ OpenScope("gd_parse")
  /\ UNCHANGED <<bootClock, loads, self, log, phases, alone, outside>>

EndWork ==
  /\ scopes # <<>> /\ scopes[1].cat = "gd_parse"
  /\ CloseScope
  /\ UNCHANGED <<bootClock, loads, log, begun, phases, alone, outside>>

\* OS::benchmark_end_measure, which Main calls outside of every load and scope.
PhaseEnds ==
  /\ phases < MaxPhases /\ scopes = <<>>
  /\ phases' = phases + 1
  /\ log' = log \o <<[ev |-> "end", at |-> bootClock, phase |-> phases'], Snapshot>>
  /\ UNCHANGED <<bootClock, loads, scopes, self, begun, alone, outside>>

BootTick ==
  /\ bootClock < BootTicks
  /\ bootClock' = bootClock + 1
  /\ alone' = [n \in DOMAIN alone |->
                 alone[n] + IF \E t \in Loaders : loads[t] # <<>> /\ loads[t][Len(loads[t])].id = n
                            THEN 1 ELSE 0]
  /\ outside' = IF scopes = <<>> THEN [outside EXCEPT ![phases + 1] = @ + 1] ELSE outside
  /\ UNCHANGED <<loads, scopes, self, log, begun, phases>>

BootNext ==
  \/ \E t \in Loaders : BeginLoad(t) \/ EndLoad(t)
  \/ BeginWork \/ EndWork \/ PhaseEnds \/ BootTick

BootSpec == BootInit /\ [][BootNext]_bootVars

-----------------------------------------------------------------------------
(* load_self.py: a load's children are the deeper lines since the last     *)
(* line at its depth or above.                                             *)

Pending(acc, d) == IF d \in DOMAIN acc.pending THEN acc.pending[d] ELSE 0

Kept(acc, d) == acc.pending                \* a mutant: read without pop
Popped(acc, d) == [k \in DOMAIN acc.pending \ {d} |-> acc.pending[k]]

Set(f, k, v) == [x \in DOMAIN f \union {k} |-> IF x = k THEN v ELSE f[x]]

SelfLine(acc, line) ==
  IF line.ev # "load" THEN acc
  ELSE LET d == line.depth
       IN [self    |-> Set(acc.self, line.id, line.ms - Pending(acc, d + 1)),
           pending |-> Set(Popped(acc, d + 1), d, Pending(acc, d) + line.ms)]

LoadSelf == FoldLeft(SelfLine, [self |-> <<>>, pending |-> <<>>], log).self

-----------------------------------------------------------------------------
(* prof_phases.py: the first dump under each label of interest, and the    *)
(* differences between them.                                               *)

\* A dump belongs to the last phase end or top-level load before it.
IsLabel(line) == line.ev = "end" \/ (line.ev = "load" /\ line.depth = 0)
LabelOf(i) == log[CHOOSE j \in 1..(i - 1) :
                    IsLabel(log[j]) /\ \A k \in (j + 1)..(i - 1) : ~IsLabel(log[k])]

Dumps == {i \in DOMAIN log : log[i].ev = "prof"}

DumpsAt(cut) ==
  {i \in Dumps : \/ cut.ev = "end" /\ LabelOf(i).ev = "end" /\ LabelOf(i).phase = cut.n
                 \/ cut.ev = "load" /\ LabelOf(i).ev = "load" /\ LabelOf(i).id = cut.n}

\* CUTS: the phases, then one load after the last of them.
Cuts == [ev : {"end"}, n : 1..phases]
Time(cut) == log[Min(DumpsAt(cut))].at
SelfAt(cut) == log[Min(DumpsAt(cut))].self

Booked(was, is) == FoldSet(LAMBDA c, sum : sum + (is[c] - was[c]), 0, Categories)
NoTime == [c \in Categories |-> 0]

\* The "other" column of phase n.
Other(n) ==
  LET cut == [ev |-> "end", n |-> n]
      before == [ev |-> "end", n |-> n - 1]
      since == IF n = 1 THEN 0 ELSE Time(before)
      was == IF n = 1 THEN NoTime ELSE SelfAt(before)
  IN (Time(cut) - since) - Booked(was, SelfAt(cut))

\* The same for the last cut, a top-level load after the phases.
OtherBefore(id) ==
  LET cut == [ev |-> "load", n |-> id]
      before == [ev |-> "end", n |-> phases]
      since == IF phases = 0 THEN 0 ELSE Time(before)
      was == IF phases = 0 THEN NoTime ELSE SelfAt(before)
  IN (Time(cut) - since) - Booked(was, SelfAt(cut))

-----------------------------------------------------------------------------
BootTypeOK ==
  /\ bootClock \in 0..BootTicks /\ begun \in 0..MaxBegun /\ phases \in 0..MaxPhases
  /\ Len(scopes) <= MaxScopes /\ self \in [Categories -> 0..BootTicks]
  /\ \A t \in Loaders : \A i \in DOMAIN loads[t] : loads[t][i].id <= begun

\* load_self.py gives each load the time it spent itself, at every length of the log: no
\* child's time is left in its parent, or taken from another load, however loads nest,
\* follow each other and are cut off.  (The lines come when loads end, children first.)
SelfTimesExact ==
  BootTypeOK /\ \A id \in DOMAIN LoadSelf : LoadSelf[id] = alone[id]

\* "other" is the time outside every scope: no time of a scope is booked twice, in the
\* wrong phase or to its parent too.  At the last cut, a load whose own scope has not
\* closed, it is at least that, and never more than the phase.
PhasesAddUp ==
  /\ \A n \in 1..phases : Other(n) = outside[n]
  /\ \A i \in DOMAIN log :
       log[i].ev = "load" /\ log[i].depth = 0 /\ DumpsAt([ev |-> "load", n |-> log[i].id]) # {}
         /\ (\A j \in i..Len(log) : log[j].ev # "end") =>
           OtherBefore(log[i].id) >= 0

\* No time of the boot is counted twice, nor lost: by loads and by phases.
BootTimesAddUp == SelfTimesExact /\ PhasesAddUp
=============================================================================
