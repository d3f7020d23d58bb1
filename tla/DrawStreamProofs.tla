--------------------------- MODULE DrawStreamProofs ---------------------------
(***************************************************************************)
(* For every set of draws, clear colours and batch sizes, over any number  *)
(* of frames: the four rewrites of the draw stream change no pixel.  What  *)
(* the ring, the open command and the deferred clears amount to            *)
(* (Amounts) is at every point what painting each operation at once left.  *)
(***************************************************************************)
EXTENDS DrawStream, SequenceTheorems, WellFoundedInduction, TLAPS

-----------------------------------------------------------------------------
(* Folds.  Of two kinds: commands, and the groups under one header.        *)

\* A triangle group painted under the header of command cmd.
PaintGroup(cmd, st, g) ==
  [st EXCEPT !.surf[st.target] = Paint(@, Layer(g, cmd.src, cmd.blend, st.surf))]

\* One step of the fold of commands (kind.op = "ring") or of the groups of a header.
FoldStep(kind, st, x) ==
  IF kind.op = "ring" THEN Execute(st, x) ELSE PaintGroup(kind, st, x)

\* f is the value of the fold over each set of positions up to n.
FoldsUpTo(f, kind, base, list, n) ==
  f = [s \in SUBSET (1 .. n) |->
         IF s = {} THEN base ELSE FoldStep(kind, f[s \ {Max(s)}], list[Max(s)])]

LEMMA Smallest ==
  ASSUME NEW T \in SUBSET Nat, T # {}
  PROVE  \E x \in T : \A y \in T : ~ (y < x)
<1> DEFINE R == {ss \in Nat \X Nat : ss[1] < ss[2]}
<1>1. IsWellFoundedOn(R, Nat)
  BY NatLessThanWellFounded, Zenon DEF OpToRel
<1>2. PICK x \in T : \A y \in T : ~ (<<y, x>> \in R)
  <2> HIDE DEF R
  <2> QED BY <1>1, WFMin
<1> QED BY <1>2

LEMMA Largest ==
  ASSUME NEW n \in Nat, NEW s \in SUBSET (1 .. n), s # {}
  PROVE  Max(s) \in s
<1> DEFINE T == {n - i : i \in s}
<1>1. T \in SUBSET Nat /\ T # {}
  <2>1. \A i \in s : n - i \in Nat
    OBVIOUS
  <2> QED BY <2>1
<1>2. PICK x \in T : \A y \in T : ~ (y < x)
  <2> HIDE DEF T
  <2> QED BY <1>1, Smallest
<1>3. PICK m \in s : x = n - m
  OBVIOUS
<1>4. ASSUME NEW i \in s PROVE m >= i
  <2>1. ~ (n - i < n - m)
    BY <1>2, <1>3
  <2>2. i \in 1 .. n /\ m \in 1 .. n
    OBVIOUS
  <2> QED BY <2>1, <2>2
<1> QED BY <1>4 DEF Max

LEMMA LargestIs ==
  ASSUME NEW n \in Nat, NEW s \in SUBSET (1 .. n), n \in s
  PROVE  Max(s) = n
<1>1. \A y \in s : n >= y
  OBVIOUS
<1>2. \A x \in s : (\A y \in s : x >= y) => x = n
  OBVIOUS
<1> QED BY <1>1, <1>2 DEF Max

LEMMA FoldExists ==
  ASSUME NEW kind, NEW base, NEW list, NEW len \in Nat
  PROVE  \E f : FoldsUpTo(f, kind, base, list, len)
<1> DEFINE Bad == {n \in Nat : ~ \E f : FoldsUpTo(f, kind, base, list, n)}
<1> SUFFICES ASSUME Bad # {} PROVE FALSE
  OBVIOUS
<1>1. PICK m \in Bad : \A n \in Bad : ~ (n < m)
  <2>1. Bad \in SUBSET Nat
    OBVIOUS
  <2> HIDE DEF Bad
  <2> QED BY <2>1, Smallest
<1>2. CASE m = 0
  <2> DEFINE f == [s \in SUBSET (1 .. 0) |-> base]
  <2>1. \A s \in SUBSET (1 .. 0) : s = {}
    OBVIOUS
  <2>2. FoldsUpTo(f, kind, base, list, 0)
    BY <2>1 DEF FoldsUpTo
  <2> QED BY <1>2, <2>2
<1>3. CASE m # 0
  <2>1. m - 1 \in Nat /\ m - 1 \notin Bad
    BY <1>1, <1>3
  <2>2. PICK f : FoldsUpTo(f, kind, base, list, m - 1)
    BY <2>1
  <2> DEFINE g == [s \in SUBSET (1 .. m) |->
                     IF m \in s THEN FoldStep(kind, f[s \ {m}], list[m]) ELSE f[s]]
  <2>3. \A s \in SUBSET (1 .. m) : m \notin s => s \in SUBSET (1 .. m - 1)
    OBVIOUS
  <2>4. ASSUME NEW s \in SUBSET (1 .. m)
        PROVE  g[s] = IF s = {} THEN base ELSE FoldStep(kind, g[s \ {Max(s)}], list[Max(s)])
    <3>1. CASE s = {}
      <4>1. g[s] = f[s] /\ s \in SUBSET (1 .. m - 1)
        BY <3>1
      <4> HIDE DEF g
      <4> QED BY <2>2, <3>1, <4>1 DEF FoldsUpTo
    <3>2. CASE m \in s
      <4>1. Max(s) = m
        BY <3>2, LargestIs
      <4>2. s \ {m} \in SUBSET (1 .. m) /\ m \notin s \ {m}
        OBVIOUS
      <4>3. g[s \ {m}] = f[s \ {m}] /\ g[s] = FoldStep(kind, f[s \ {m}], list[m]) /\ s # {}
        BY <3>2, <4>2
      <4> HIDE DEF g
      <4> QED BY <4>1, <4>3
    <3>3. CASE s # {} /\ m \notin s
      <4>1. s \in SUBSET (1 .. m - 1)
        BY <2>3, <3>3
      <4>2. Max(s) \in s
        BY <3>3, Largest
      <4>3. s \ {Max(s)} \in SUBSET (1 .. m) /\ m \notin s \ {Max(s)}
        BY <3>3
      <4>4. g[s] = f[s] /\ g[s \ {Max(s)}] = f[s \ {Max(s)}]
        BY <3>3, <4>3
      <4> HIDE DEF g
      <4> QED BY <2>2, <3>3, <4>1, <4>4 DEF FoldsUpTo
    <3> QED BY <3>1, <3>2, <3>3
  <2>5. g = [s \in SUBSET (1 .. m) |-> g[s]]
    OBVIOUS
  <2>6. FoldsUpTo(g, kind, base, list, m)
    <3> HIDE DEF g
    <3> QED BY <2>4, <2>5 DEF FoldsUpTo
  <2> QED BY <2>6
<1> QED BY <1>2, <1>3

\* Two lists that agree up to n have the same fold up to n.
LEMMA FoldsAgree ==
  ASSUME NEW kind, NEW base, NEW list, NEW other, NEW n \in Nat, NEW len \in Nat, n <= len,
         NEW f, FoldsUpTo(f, kind, base, list, n),
         NEW g, FoldsUpTo(g, kind, base, other, len),
         \A i \in 1 .. n : list[i] = other[i]
  PROVE  f[1 .. n] = g[1 .. n]
<1> DEFINE Bad == {k \in 0 .. n : f[1 .. k] # g[1 .. k]}
<1> SUFFICES ASSUME Bad # {} PROVE FALSE
  OBVIOUS
<1>1. PICK m \in Bad : \A k \in Bad : ~ (k < m)
  <2>1. Bad \in SUBSET Nat
    OBVIOUS
  <2> HIDE DEF Bad
  <2> QED BY <2>1, Smallest
<1>2. m \in 0 .. n /\ f[1 .. m] # g[1 .. m]
  OBVIOUS
<1>3. 1 .. m \in SUBSET (1 .. n) /\ 1 .. m \in SUBSET (1 .. len)
  BY <1>2
<1>4. CASE m = 0
  <2>1. 1 .. m = {}
    BY <1>4
  <2> HIDE DEF Bad
  <2> QED BY <1>2, <1>3, <2>1 DEF FoldsUpTo
<1>5. CASE m # 0
  <2>0. m \in 1 .. n
    BY <1>2, <1>5
  <2>1. m \in Nat /\ m \in 1 .. m /\ 1 .. m # {} /\ m \in 1 .. n /\ m - 1 \in 0 .. n
    <3>1. m \in Nat /\ m \in 1 .. m /\ m - 1 \in 0 .. n
      BY <2>0
    <3>2. 1 .. m # {}
      BY <3>1
    <3> QED BY <2>0, <3>1, <3>2
  <2>2. Max(1 .. m) = m
    BY <2>1, LargestIs
  <2>3. (1 .. m) \ {m} = 1 .. m - 1
    BY <2>1
  <2>4. f[1 .. m - 1] = g[1 .. m - 1]
    BY <1>1, <2>1
  <2> HIDE DEF Bad
  <2>5. f[1 .. m] = FoldStep(kind, f[1 .. m - 1], list[m])
    BY <1>3, <2>1, <2>2, <2>3 DEF FoldsUpTo
  <2>6. g[1 .. m] = FoldStep(kind, g[1 .. m - 1], other[m])
    BY <1>3, <2>1, <2>2, <2>3 DEF FoldsUpTo
  <2> QED BY <1>2, <2>1, <2>4, <2>5, <2>6
<1> QED BY <1>4, <1>5

\* The fold of a list with one more element.
LEMMA FoldAppended ==
  ASSUME NEW kind, NEW base, NEW list, NEW other, NEW n \in Nat,
         NEW f, FoldsUpTo(f, kind, base, list, n),
         NEW g, FoldsUpTo(g, kind, base, other, n + 1),
         \A i \in 1 .. n : list[i] = other[i]
  PROVE  g[1 .. n + 1] = FoldStep(kind, f[1 .. n], other[n + 1])
<1>1. f[1 .. n] = g[1 .. n]
  BY FoldsAgree
<1>2. n + 1 \in Nat /\ n + 1 \in 1 .. n + 1 /\ 1 .. n + 1 # {}
  OBVIOUS
<1>3. Max(1 .. n + 1) = n + 1
  BY <1>2, LargestIs
<1>4. (1 .. n + 1) \ {n + 1} = 1 .. n
  OBVIOUS
<1>5. 1 .. n + 1 \in SUBSET (1 .. n + 1)
  OBVIOUS
<1>6. g[1 .. n + 1] = FoldStep(kind, g[(1 .. n + 1) \ {Max(1 .. n + 1)}], other[Max(1 .. n + 1)])
  BY <1>2, <1>5 DEF FoldsUpTo
<1> QED BY <1>1, <1>3, <1>4, <1>6

RingKind == [op |-> "ring"]
HeaderOf(cmd) == [op |-> "tris", src |-> cmd.src, blend |-> cmd.blend]

\* FoldLeft of the commands, as a fold of this section.
LEMMA RunIsFold ==
  ASSUME NEW S, NEW ring \in Seq(S), NEW base
  PROVE  \E f : /\ FoldsUpTo(f, RingKind, base, ring, Len(ring))
                /\ FoldLeft(Execute, base, ring) = f[1 .. Len(ring)]
<1> DEFINE P(f) == f = [s \in SUBSET DOMAIN ring |->
                         IF s = {} THEN base ELSE Execute(f[s \ {Max(s)}], ring[Max(s)])]
<1>1. DOMAIN ring = 1 .. Len(ring) /\ Len(ring) \in Nat
  BY LenProperties
<1>2. \A f : P(f) <=> FoldsUpTo(f, RingKind, base, ring, Len(ring))
  BY <1>1 DEF FoldsUpTo, FoldStep, RingKind
<1>3. \E f : P(f)
  <2>1. PICK f : FoldsUpTo(f, RingKind, base, ring, Len(ring))
    BY <1>1, FoldExists
  <2> HIDE DEF P
  <2> QED BY <1>2, <2>1
<1>4. FoldLeft(Execute, base, ring) = (CHOOSE f : P(f))[DOMAIN ring]
  BY DEF FoldLeft, MapThenFoldSet
<1> HIDE DEF P
<1>5. P(CHOOSE f : P(f))
  BY <1>3, Zenon
<1> QED BY <1>1, <1>2, <1>4, <1>5

LEMMA RunNothing ==
  ASSUME NEW base
  PROVE  FoldLeft(Execute, base, <<>>) = base
<1>1. <<>> \in Seq({}) /\ Len(<<>>) = 0 /\ 1 .. 0 = {}
  OBVIOUS
<1>2. PICK f : /\ FoldsUpTo(f, RingKind, base, <<>>, 0)
               /\ FoldLeft(Execute, base, <<>>) = f[1 .. 0]
  BY <1>1, RunIsFold
<1>3. f[{}] = base
  BY <1>2 DEF FoldsUpTo
<1> QED BY <1>1, <1>2, <1>3

LEMMA RunOneMore ==
  ASSUME NEW S, NEW ring \in Seq(S), NEW cmd \in S, NEW base
  PROVE  FoldLeft(Execute, base, Append(ring, cmd))
           = Execute(FoldLeft(Execute, base, ring), cmd)
<1>1. PICK longer \in Seq(S) : longer = Append(ring, cmd)
  BY AppendProperties
<1>2. PICK n \in Nat : n = Len(ring)
  BY LenProperties
<1>3. /\ Len(longer) = n + 1 /\ longer[n + 1] = cmd
      /\ \A i \in 1 .. n : ring[i] = longer[i]
  BY <1>1, <1>2, AppendProperties
<1>4. PICK f : /\ FoldsUpTo(f, RingKind, base, ring, n)
               /\ FoldLeft(Execute, base, ring) = f[1 .. n]
  BY <1>2, RunIsFold
<1>5. PICK g : /\ FoldsUpTo(g, RingKind, base, longer, n + 1)
               /\ FoldLeft(Execute, base, longer) = g[1 .. n + 1]
  BY <1>3, RunIsFold
<1>6. g[1 .. n + 1] = FoldStep(RingKind, f[1 .. n], cmd)
  BY <1>3, <1>4, <1>5, FoldAppended
<1>7. FoldStep(RingKind, f[1 .. n], cmd) = Execute(f[1 .. n], cmd)
  BY DEF FoldStep, RingKind
<1> QED BY <1>1, <1>4, <1>5, <1>6, <1>7

\* The same for the groups of a TRILIST.
LEMMA TrisAreFold ==
  ASSUME NEW S, NEW cmd, cmd.op = "tris", cmd.groups \in Seq(S), NEW base
  PROVE  \E f : /\ FoldsUpTo(f, HeaderOf(cmd), base, cmd.groups, Len(cmd.groups))
                /\ Execute(base, cmd) = f[1 .. Len(cmd.groups)]
<1> DEFINE P(f) == f = [s \in SUBSET DOMAIN cmd.groups |->
       IF s = {} THEN base
       ELSE [f[s \ {Max(s)}] EXCEPT !.surf[f[s \ {Max(s)}].target] =
               Paint(@, Layer(cmd.groups[Max(s)], cmd.src, cmd.blend, f[s \ {Max(s)}].surf))]]
<1>1. DOMAIN cmd.groups = 1 .. Len(cmd.groups) /\ Len(cmd.groups) \in Nat
  BY LenProperties
<1>2. \A f : P(f) <=> FoldsUpTo(f, HeaderOf(cmd), base, cmd.groups, Len(cmd.groups))
  BY <1>1 DEF FoldsUpTo, FoldStep, HeaderOf, PaintGroup
<1>3. \E f : P(f)
  <2>1. PICK f : FoldsUpTo(f, HeaderOf(cmd), base, cmd.groups, Len(cmd.groups))
    BY <1>1, FoldExists
  <2> HIDE DEF P
  <2> QED BY <1>2, <2>1
<1>4. Execute(base, cmd) = (CHOOSE f : P(f))[DOMAIN cmd.groups]
  BY DEF FoldLeft, MapThenFoldSet, Execute
<1> HIDE DEF P
<1>5. P(CHOOSE f : P(f))
  BY <1>3, Zenon
<1> QED BY <1>1, <1>2, <1>4, <1>5

LEMMA PaintNoGroup ==
  ASSUME NEW cmd, cmd.op = "tris", cmd.groups = <<>>, NEW base
  PROVE  Execute(base, cmd) = base
<1>1. cmd.groups \in Seq({}) /\ Len(cmd.groups) = 0 /\ 1 .. 0 = {}
  OBVIOUS
<1>2. PICK f : /\ FoldsUpTo(f, HeaderOf(cmd), base, cmd.groups, 0)
               /\ Execute(base, cmd) = f[1 .. 0]
  BY <1>1, TrisAreFold
<1>3. f[{}] = base
  BY <1>2 DEF FoldsUpTo
<1> QED BY <1>1, <1>2, <1>3

LEMMA PaintOneMore ==
  ASSUME NEW S, NEW cmd, cmd.op = "tris", cmd.groups \in Seq(S), NEW g \in S, NEW base,
         NEW longer, longer.op = "tris", longer.groups = Append(cmd.groups, g),
         longer.src = cmd.src, longer.blend = cmd.blend
  PROVE  Execute(base, longer) = PaintGroup(cmd, Execute(base, cmd), g)
<1>1. longer.groups \in Seq(S)
  BY AppendProperties
<1>2. PICK n \in Nat : n = Len(cmd.groups)
  BY LenProperties
<1>3. /\ Len(longer.groups) = n + 1 /\ longer.groups[n + 1] = g
      /\ \A i \in 1 .. n : cmd.groups[i] = longer.groups[i]
  BY <1>1, <1>2, AppendProperties
<1>4. PICK f : /\ FoldsUpTo(f, HeaderOf(cmd), base, cmd.groups, n)
               /\ Execute(base, cmd) = f[1 .. n]
  BY <1>2, TrisAreFold
<1>5. HeaderOf(longer) = HeaderOf(cmd)
  BY DEF HeaderOf
<1>6. PICK h : /\ FoldsUpTo(h, HeaderOf(cmd), base, longer.groups, n + 1)
               /\ Execute(base, longer) = h[1 .. n + 1]
  <2>1. PICK h : /\ FoldsUpTo(h, HeaderOf(longer), base, longer.groups, Len(longer.groups))
                 /\ Execute(base, longer) = h[1 .. Len(longer.groups)]
    BY <1>1, TrisAreFold
  <2> QED BY <1>3, <1>5, <2>1
<1>7. h[1 .. n + 1] = FoldStep(HeaderOf(cmd), f[1 .. n], g)
  <2>1. PICK kind, few, many :
          kind = HeaderOf(cmd) /\ few = cmd.groups /\ many = longer.groups
    OBVIOUS
  <2>2. /\ FoldsUpTo(f, kind, base, few, n) /\ FoldsUpTo(h, kind, base, many, n + 1)
        /\ \A i \in 1 .. n : few[i] = many[i]
    BY <1>3, <1>4, <1>6, <2>1
  <2>3. h[1 .. n + 1] = FoldStep(kind, f[1 .. n], many[n + 1])
    BY <2>2, FoldAppended
  <2> QED BY <1>3, <2>1, <2>3
<1>8. FoldStep(HeaderOf(cmd), f[1 .. n], g) = PaintGroup(cmd, f[1 .. n], g)
  BY DEF FoldStep, HeaderOf, PaintGroup
<1> QED BY <1>4, <1>6, <1>7, <1>8

-----------------------------------------------------------------------------
(* Sequences and layers.                                                   *)

IsSeq(s) == \E S : s \in Seq(S)

LEMMA SeqGrows ==
  ASSUME NEW s, IsSeq(s), NEW e
  PROVE  \E S : s \in Seq(S) /\ e \in S
<1>1. PICK S : s \in Seq(S)
  BY DEF IsSeq
<1>2. s \in [1 .. Len(s) -> S] /\ Len(s) \in Nat
  BY <1>1, LenProperties
<1>3. s \in [1 .. Len(s) -> S \union {e}]
  BY <1>2
<1>4. s \in Seq(S \union {e})
  BY <1>2, <1>3, SeqDef
<1> QED BY <1>4

LEMMA AppendIsSeq ==
  ASSUME NEW s, IsSeq(s), NEW e
  PROVE  IsSeq(Append(s, e)) /\ Append(s, e) # <<>> /\ Last(Append(s, e)) = e
<1>1. PICK S : s \in Seq(S) /\ e \in S
  BY SeqGrows
<1> QED BY <1>1, AppendProperties, LenProperties DEF IsSeq, Last

LEMMA PaintedIsSeq ==
  ASSUME NEW s, IsSeq(s), NEW layer
  PROVE  IsSeq(Paint(s, layer))
<1>1. IsSeq(<<layer>>)
  <2>1. <<layer>> \in Seq({layer})
    OBVIOUS
  <2> QED BY <2>1 DEF IsSeq
<1> QED BY <1>1, AppendIsSeq DEF Paint

\* A layer that settles is not seen a second time.
LEMMA PaintedTwice ==
  ASSUME NEW s, IsSeq(s), NEW layer, Settled(layer)
  PROVE  Paint(Paint(s, layer), layer) = Paint(s, layer)
<1>1. CASE Hides(layer)
  BY <1>1 DEF Paint
<1>2. CASE ~Hides(layer) /\ s # <<>> /\ Absorbs(Last(s), layer)
  BY <1>2 DEF Paint
<1>3. CASE ~Hides(layer) /\ ~(s # <<>> /\ Absorbs(Last(s), layer))
  <2>1. Paint(s, layer) = Append(s, layer)
    BY <1>3 DEF Paint
  <2>2. Absorbs(layer, layer)
    BY DEF Absorbs
  <2>3. Paint(Append(s, layer), layer) = Append(s, layer)
    BY <1>3, <2>2, AppendIsSeq DEF Paint
  <2> QED BY <2>1, <2>3
<1> QED BY <1>1, <1>2, <1>3

LEMMA FullFillHides ==
  ASSUME NEW s, NEW c
  PROVE  Paint(s, Fill(c, TRUE)) = <<Fill(c, TRUE)>>
BY DEF Paint, Hides, Fill

-----------------------------------------------------------------------------
(* What the emitter's state amounts to.                                    *)

Groups  == [full : BOOLEAN, opaque : BOOLEAN]
Blends  == {"copy", "colorkey", "alpha", "add"}
Headers == [src : STRING, blend : Blends, target : Targets]
Batches == [key : Headers, base : Nat \ {0}, n : Nat \ {0}]
Pending == [Targets -> Colors \union {NoClear}]

Emitter(r, v, t, p, b) == [ring |-> r, vtx |-> v, target |-> t, pend |-> p, batch |-> b]
Fabric(t, f) == [target |-> t, surf |-> f]
Surfaces(f)  == f = [t \in Targets |-> f[t]]

\* Where the ring leaves the fabric, which starts with the surfaces on screen.
Ran(ring, surf) == FoldLeft(Execute, Fabric("work", surf), ring)

\* The surfaces h with the deferred clears p painted over them.
Due(p, h) == [t \in Targets |-> IF p[t] = NoClear THEN h[t] ELSE <<Fill(p[t], TRUE)>>]

Parts(r, v, t, p, h) ==
  /\ IsSeq(r) /\ v \in Seq(Groups) /\ t \in Targets /\ p \in Pending /\ Surfaces(h)

\* No command is open, and the ring paints h.
Shut(st, v, t, p, surf, h) ==
  \E r : /\ Parts(r, v, t, p, h)
         /\ st = Emitter(r, v, t, p, NoBatch)
         /\ Ran(r, surf) = Fabric(t, h)

\* Command b is open, ends with the last vertex pushed, and behind the ring paints h.
TrisOf(key, groups) == [op |-> "tris", src |-> key.src, blend |-> key.blend, groups |-> groups]
GroupsOf(v, b) == SubSeq(v, b.base, b.base + b.n - 1)
Ajar(st, v, t, p, b, surf, h) ==
  \E r, f : /\ Parts(r, v, t, p, h) /\ Surfaces(f)
            /\ b \in Batches /\ b.base + b.n = Len(v) + 1
            /\ st = Emitter(r, v, t, p, b)
            /\ Ran(r, surf) = Fabric(t, f)
            /\ Execute(Fabric(t, f), TrisOf(b.key, GroupsOf(v, b))) = Fabric(t, h)

-----------------------------------------------------------------------------
(* The emitter's own operations.                                           *)

LEMMA RingGrows ==
  ASSUME NEW r, IsSeq(r), NEW surf, NEW cmd
  PROVE  IsSeq(Append(r, cmd)) /\ Ran(Append(r, cmd), surf) = Execute(Ran(r, surf), cmd)
<1>1. PICK S : r \in Seq(S) /\ cmd \in S
  BY SeqGrows
<1>2. Ran(Append(r, cmd), surf) = Execute(Ran(r, surf), cmd)
  BY <1>1, RunOneMore DEF Ran
<1> QED BY <1>2, AppendIsSeq

LEMMA EmitterEmits ==
  ASSUME NEW r, NEW v, NEW t, NEW p, NEW b, NEW cmd
  PROVE  Emit(Emitter(r, v, t, p, b), cmd) = Emitter(Append(r, cmd), v, t, p, b)
<1>1. PICK st : st = Emitter(r, v, t, p, b)
  OBVIOUS
<1>2. st.ring = r
  BY <1>1 DEF Emitter
<1>3. Emit(st, cmd) = [st EXCEPT !.ring = Append(r, cmd)]
  BY <1>2 DEF Emit
<1>4. PICK ring : ring = Append(r, cmd)
  OBVIOUS
<1>5. [st EXCEPT !.ring = ring] = Emitter(ring, v, t, p, b)
  BY <1>1, SMTT(30) DEF Emitter
<1> QED BY <1>1, <1>3, <1>4, <1>5

LEMMA TargetEmitted ==
  ASSUME NEW st, NEW v, NEW t, NEW p, NEW surf, NEW h, Shut(st, v, t, p, surf, h),
         NEW u \in Targets
  PROVE  Shut(EmitTarget(st, u), v, u, p, surf, h)
<1>1. PICK r : /\ Parts(r, v, t, p, h)
               /\ st = Emitter(r, v, t, p, NoBatch)
               /\ Ran(r, surf) = Fabric(t, h)
  BY DEF Shut
<1>2. PICK cmd : cmd = [op |-> "target", t |-> u]
  OBVIOUS
<1>3. Emit(st, cmd) = Emitter(Append(r, cmd), v, t, p, NoBatch)
  BY <1>1, EmitterEmits
<1>4. PICK ring : ring = Append(r, cmd)
  OBVIOUS
<1>5. EmitTarget(st, u) = Emitter(ring, v, u, p, NoBatch)
  <2>1. EmitTarget(st, u) = [Emitter(ring, v, t, p, NoBatch) EXCEPT !.target = u]
    BY <1>2, <1>3, <1>4, Zenon DEF EmitTarget
  <2>2. @ = Emitter(ring, v, u, p, NoBatch)
    BY DEF Emitter
  <2> QED BY <2>1, <2>2
<1>6. Execute(Fabric(t, h), cmd) = Fabric(u, h)
  BY <1>2 DEF Execute, Fabric
<1>7. IsSeq(Append(r, cmd)) /\ Ran(Append(r, cmd), surf) = Fabric(u, h)
  BY <1>1, <1>6, RingGrows DEF Parts
<1> QED BY <1>1, <1>4, <1>5, <1>7 DEF Shut, Parts

LEMMA FillEmitted ==
  ASSUME NEW st, NEW v, NEW t, NEW p, NEW surf, NEW h, Shut(st, v, t, p, surf, h),
         NEW layer
  PROVE  Shut(EmitFill(st, layer), v, t, p, surf, [h EXCEPT ![t] = Paint(@, layer)])
<1>1. PICK r : /\ Parts(r, v, t, p, h)
               /\ st = Emitter(r, v, t, p, NoBatch)
               /\ Ran(r, surf) = Fabric(t, h)
  BY DEF Shut
<1>2. PICK cmd : cmd = [op |-> "fill", layer |-> layer]
  OBVIOUS
<1>3. EmitFill(st, layer) = Emitter(Append(r, cmd), v, t, p, NoBatch)
  BY <1>1, <1>2, EmitterEmits DEF EmitFill
<1>4. PICK k : k = [h EXCEPT ![t] = Paint(@, layer)]
  OBVIOUS
<1>5. Execute(Fabric(t, h), cmd) = Fabric(t, k)
  BY <1>2, <1>4 DEF Execute, Fabric
<1>6. Surfaces(k)
  BY <1>1, <1>4 DEF Parts, Surfaces
<1>7. IsSeq(Append(r, cmd)) /\ Ran(Append(r, cmd), surf) = Fabric(t, k)
  BY <1>1, <1>5, RingGrows DEF Parts
<1> QED BY <1>1, <1>3, <1>4, <1>6, <1>7 DEF Shut, Parts

LEMMA PendSet ==
  ASSUME NEW st, NEW v, NEW t, NEW p, NEW surf, NEW h, Shut(st, v, t, p, surf, h),
         NEW u \in Targets, NEW c \in Colors \union {NoClear}
  PROVE  Shut([st EXCEPT !.pend[u] = c], v, t, [p EXCEPT ![u] = c], surf, h)
<1>1. PICK r : /\ Parts(r, v, t, p, h)
               /\ st = Emitter(r, v, t, p, NoBatch)
               /\ Ran(r, surf) = Fabric(t, h)
  BY DEF Shut
<1>2. PICK q : q = [p EXCEPT ![u] = c]
  OBVIOUS
<1>3. [st EXCEPT !.pend[u] = c] = Emitter(r, v, t, q, NoBatch)
  BY <1>1, <1>2 DEF Emitter
<1>4. q \in Pending
  BY <1>1, <1>2 DEF Parts, Pending
<1> QED BY <1>1, <1>2, <1>3, <1>4 DEF Shut, Parts

LEMMA FieldsOfShut ==
  ASSUME NEW st, NEW v, NEW t, NEW p, NEW surf, NEW h, Shut(st, v, t, p, surf, h)
  PROVE  /\ st.vtx = v /\ st.target = t /\ st.pend = p /\ st.batch = NoBatch
         /\ v \in Seq(Groups) /\ t \in Targets /\ p \in Pending /\ Surfaces(h)
BY DEF Shut, Emitter, Parts

LEMMA Restored ==
  ASSUME NEW st, NEW v, NEW t, NEW p, NEW surf, NEW h, Shut(st, v, t, p, surf, h),
         NEW u \in Targets
  PROVE  Shut(Restore(st, u), v, u, p, surf, h)
BY TargetEmitted, FieldsOfShut DEF Restore

\* The clear of one target is painted where it stands, and no longer due.
LEMMA Discharged ==
  ASSUME NEW st, NEW v, NEW t, NEW p, NEW surf, NEW h, Shut(st, v, t, p, surf, h),
         NEW u \in Targets
  PROVE  Shut(Discharge(st, u), v, IF p[u] = NoClear THEN t ELSE u,
              [p EXCEPT ![u] = NoClear], surf, [h EXCEPT ![u] = Due(p, h)[u]])
<1>0. st.target = t /\ st.pend = p /\ t \in Targets /\ p \in Pending /\ Surfaces(h)
  BY FieldsOfShut
<1>1. CASE p[u] = NoClear
  <2>1. [p EXCEPT ![u] = NoClear] = p
    BY <1>0, <1>1 DEF Pending
  <2>2. [h EXCEPT ![u] = Due(p, h)[u]] = h
    BY <1>0, <1>1 DEF Due, Surfaces
  <2>3. Discharge(st, u) = st
    BY <1>0, <1>1 DEF Discharge
  <2> QED BY <1>1, <2>1, <2>2, <2>3
<1>2. CASE p[u] # NoClear
  <2>1. PICK s : s = IF st.target = u THEN st ELSE EmitTarget(st, u)
    OBVIOUS
  <2>2. Shut(s, v, u, p, surf, h)
    BY <1>0, <2>1, TargetEmitted
  <2>3. PICK s2 : s2 = [s EXCEPT !.pend[u] = NoClear]
    OBVIOUS
  <2>4. PICK q : q = [p EXCEPT ![u] = NoClear]
    OBVIOUS
  <2>5. Shut(s2, v, u, q, surf, h)
    BY <2>2, <2>3, <2>4, PendSet
  <2>6. Shut(EmitFill(s2, Fill(p[u], TRUE)), v, u, q, surf,
             [h EXCEPT ![u] = Paint(@, Fill(p[u], TRUE))])
    BY <2>5, FillEmitted
  <2>7. [h EXCEPT ![u] = Paint(@, Fill(p[u], TRUE))] = [h EXCEPT ![u] = Due(p, h)[u]]
    BY <1>0, <1>2, FullFillHides DEF Due, Surfaces
  <2>8. Discharge(st, u) = EmitFill(s2, Fill(p[u], TRUE))
    BY <1>0, <1>2, <2>1, <2>3 DEF Discharge
  <2> QED BY <1>2, <2>4, <2>6, <2>7, <2>8
<1> QED BY <1>1, <1>2

NoneDue == [t \in Targets |-> NoClear]

LEMMA NothingDue ==
  ASSUME NEW h, Surfaces(h)
  PROVE  Due(NoneDue, h) = h
BY DEF Due, NoneDue, Surfaces

LEMMA AllDischarged ==
  ASSUME NEW st, NEW v, NEW t, NEW p, NEW surf, NEW h, Shut(st, v, t, p, surf, h)
  PROVE  \E w \in Targets : Shut(DischargeAll(st), v, w, NoneDue, surf, Due(p, h))
<1>0. p \in Pending /\ Surfaces(h) /\ t \in Targets /\ "work" \in Targets /\ "appsurf" \in Targets
  BY FieldsOfShut DEF Targets
<1>1. PICK q, k : /\ q = [p EXCEPT !["work"] = NoClear]
                  /\ k = [h EXCEPT !["work"] = Due(p, h)["work"]]
  OBVIOUS
<1>2. PICK s : s = Discharge(st, "work")
  OBVIOUS
<1>3. PICK w \in Targets : Shut(s, v, w, q, surf, k)
  <2>1. PICK w \in Targets : w = IF p["work"] = NoClear THEN t ELSE "work"
    BY <1>0
  <2>2. Shut(s, v, w, q, surf, k)
    BY <1>0, <1>1, <1>2, <2>1, Discharged
  <2> QED BY <2>2
<1>4. [q EXCEPT !["appsurf"] = NoClear] = NoneDue
  BY <1>0, <1>1 DEF Pending, NoneDue, Targets
<1>5. [k EXCEPT !["appsurf"] = Due(q, k)["appsurf"]] = Due(p, h)
  BY <1>0, <1>1 DEF Due, Surfaces, Targets, Pending
<1>6. DischargeAll(st) = Discharge(s, "appsurf")
  BY <1>2 DEF DischargeAll
<1>7. PICK u \in Targets : u = IF q["appsurf"] = NoClear THEN w ELSE "appsurf"
  BY <1>0
<1>8. Shut(DischargeAll(st), v, u, NoneDue, surf, Due(p, h))
  BY <1>0, <1>3, <1>4, <1>5, <1>6, <1>7, Discharged
<1> QED BY <1>8

-----------------------------------------------------------------------------
(* The open command.                                                       *)

Grouped(h, t, g, key) == [h EXCEPT ![t] = Paint(@, Layer(g, key.src, key.blend, h))]

\* The run of vertices from base on, after one more vertex.
LEMMA RunGrows ==
  ASSUME NEW v \in Seq(Groups), NEW g \in Groups, NEW base \in 1 .. Len(v) + 1
  PROVE  /\ SubSeq(v, base, Len(v)) \in Seq(Groups)
         /\ SubSeq(Append(v, g), base, Len(v) + 1) = Append(SubSeq(v, base, Len(v)), g)
         /\ Append(v, g) \in Seq(Groups) /\ Len(Append(v, g)) = Len(v) + 1
         /\ Len(v) \in Nat
<1>1. PICK n \in Nat : n = Len(v)
  BY LenProperties
<1>2. PICK w \in Seq(Groups) : w = Append(v, g)
  BY AppendProperties
<1>3. /\ Len(w) = n + 1 /\ w[n + 1] = g
      /\ \A i \in 1 .. n : w[i] = v[i]
  BY <1>1, <1>2, AppendProperties
<1>4. /\ \A i \in base .. n : v[i] \in Groups
      /\ \A i \in base .. n + 1 : w[i] \in Groups
  <2>1. \A i \in 1 .. n : v[i] \in Groups
    BY <1>1, ElementOfSeq
  <2>2. \A i \in 1 .. n + 1 : w[i] \in Groups
    BY <1>3, ElementOfSeq
  <2> QED BY <1>1, <2>1, <2>2
<1>5. base \in Int /\ n \in Int /\ n + 1 \in Int /\ base \in 1 .. n + 1
  BY <1>1
<1>6. PICK few, many : few = SubSeq(v, base, n) /\ many = SubSeq(w, base, n + 1)
  OBVIOUS
<1>7. /\ few \in Seq(Groups) /\ Len(few) = n - base + 1
      /\ \A i \in 1 .. n - base + 1 : few[i] = v[base + i - 1]
  <2>1. Len(few) = IF base <= n THEN n - base + 1 ELSE 0
    BY <1>4, <1>5, <1>6, SubSeqProperties
  <2>2. Len(few) = n - base + 1
    BY <1>5, <2>1
  <2> QED BY <1>4, <1>5, <1>6, <2>2, SubSeqProperties
<1>8. /\ many \in Seq(Groups) /\ Len(many) = n - base + 2
      /\ \A i \in 1 .. n - base + 2 : many[i] = w[base + i - 1]
  <2>1. /\ many \in Seq(Groups)
        /\ Len(many) = IF base <= n + 1 THEN n + 1 - base + 1 ELSE 0
        /\ \A i \in 1 .. n + 1 - base + 1 : many[i] = w[base + i - 1]
    BY <1>4, <1>5, <1>6, SubSeqProperties
  <2>2. base <= n + 1 /\ n + 1 - base + 1 = n - base + 2
    BY <1>5
  <2> QED BY <2>1, <2>2
<1>9. PICK both : both = Append(few, g)
  OBVIOUS
<1>10. /\ both \in Seq(Groups) /\ Len(both) = n - base + 2
       /\ \A i \in 1 .. n - base + 1 : both[i] = few[i]
       /\ both[n - base + 2] = g
  <2>1. /\ both \in Seq(Groups) /\ Len(both) = Len(few) + 1
        /\ \A i \in 1 .. Len(few) : both[i] = few[i]
        /\ both[Len(few) + 1] = g
    <3>1. few \in Seq(Groups) /\ g \in Groups
      BY <1>7
    <3> QED BY <3>1, <1>9, AppendProperties
  <2>2. n - base + 1 + 1 = n - base + 2
    BY <1>5
  <2> QED BY <1>7, <2>1, <2>2
<1>11. many = both
  <2>1. ASSUME NEW i \in 1 .. n - base + 2 PROVE many[i] = both[i]
    <3>1. CASE i = n - base + 2
      <4>1. base + i - 1 = n + 1
        BY <1>5, <3>1
      <4> QED BY <1>3, <1>8, <1>10, <3>1, <4>1
    <3>2. CASE i # n - base + 2
      <4>1. i \in 1 .. n - base + 1 /\ base + i - 1 \in 1 .. n
        BY <1>5, <3>2
      <4> QED BY <1>3, <1>7, <1>8, <1>10, <4>1
    <3> QED BY <3>1, <3>2
  <2> QED BY <1>8, <1>10, <2>1, SeqEqual
<1> QED BY <1>1, <1>2, <1>3, <1>6, <1>7, <1>9, <1>11

\* One more group under a header.
LEMMA OneMoreGroup ==
  ASSUME NEW key, NEW groups \in Seq(Groups), NEW g \in Groups, NEW base,
         NEW t \in Targets, NEW h, Execute(base, TrisOf(key, groups)) = Fabric(t, h)
  PROVE  Execute(base, TrisOf(key, Append(groups, g))) = Fabric(t, Grouped(h, t, g, key))
<1>1. PICK cmd, longer : cmd = TrisOf(key, groups) /\ longer = TrisOf(key, Append(groups, g))
  OBVIOUS
<1>2. /\ cmd.op = "tris" /\ cmd.groups = groups /\ longer.op = "tris"
      /\ longer.groups = Append(cmd.groups, g)
      /\ longer.src = cmd.src /\ longer.blend = cmd.blend
      /\ cmd.src = key.src /\ cmd.blend = key.blend
  BY <1>1 DEF TrisOf
<1>3. Execute(base, longer) = PaintGroup(cmd, Fabric(t, h), g)
  <2>1. cmd.groups \in Seq(Groups)
    BY <1>2
  <2>2. Execute(base, longer) = PaintGroup(cmd, Execute(base, cmd), g)
    BY <1>2, <2>1, PaintOneMore
  <2> QED BY <1>1, <2>2
<1>4. PaintGroup(cmd, Fabric(t, h), g) = Fabric(t, Grouped(h, t, g, key))
  <2>1. PICK fab : fab = Fabric(t, h)
    OBVIOUS
  <2>2. fab.target = t /\ fab.surf = h
    BY <2>1 DEF Fabric
  <2>3. PICK layer : layer = Layer(g, key.src, key.blend, h)
    OBVIOUS
  <2>4. PaintGroup(cmd, fab, g) = [fab EXCEPT !.surf[t] = Paint(@, layer)]
    BY <1>2, <2>2, <2>3, Zenon DEF PaintGroup
  <2>5. @ = Fabric(t, [h EXCEPT ![t] = Paint(@, layer)])
    BY <2>1 DEF Fabric
  <2> QED BY <2>1, <2>3, <2>4, <2>5 DEF Grouped
<1> QED BY <1>1, <1>3, <1>4

LEMMA GroupedSurfaces ==
  ASSUME NEW h, Surfaces(h), NEW t \in Targets, NEW g, NEW key
  PROVE  Surfaces(Grouped(h, t, g, key))
BY DEF Surfaces, Grouped

LEMMA Flushed ==
  ASSUME NEW st, NEW v, NEW t, NEW p, NEW b, NEW surf, NEW h, Ajar(st, v, t, p, b, surf, h)
  PROVE  Shut(Flush(st), v, t, p, surf, h)
<1>1. PICK r, f : /\ Parts(r, v, t, p, h) /\ Surfaces(f)
                  /\ b \in Batches /\ b.base + b.n = Len(v) + 1
                  /\ st = Emitter(r, v, t, p, b)
                  /\ Ran(r, surf) = Fabric(t, f)
                  /\ Execute(Fabric(t, f), TrisOf(b.key, GroupsOf(v, b))) = Fabric(t, h)
  BY DEF Ajar
<1>2. st.batch = b /\ b # NoBatch
  BY <1>1 DEF Emitter, Batches, NoBatch
<1>3. [st EXCEPT !.batch = NoBatch] = Emitter(r, v, t, p, NoBatch)
  BY <1>1 DEF Emitter
<1>4. PICK cmd : cmd = TrisOf(b.key, GroupsOf(v, b))
  OBVIOUS
<1>5. Flush(st) = EmitTris(Emitter(r, v, t, p, NoBatch), b.key, b.base, b.n)
  BY <1>2, <1>3 DEF Flush
<1>6. EmitTris(Emitter(r, v, t, p, NoBatch), b.key, b.base, b.n)
      = Emit(Emitter(r, v, t, p, NoBatch), cmd)
  BY <1>4 DEF EmitTris, TrisOf, GroupsOf, Emitter
<1>7. Flush(st) = Emitter(Append(r, cmd), v, t, p, NoBatch)
  BY <1>5, <1>6, EmitterEmits
<1>8. IsSeq(Append(r, cmd)) /\ Ran(Append(r, cmd), surf) = Fabric(t, h)
  BY <1>1, <1>4, RingGrows DEF Parts
<1> QED BY <1>1, <1>7, <1>8 DEF Shut, Parts

LEMMA NothingToFlush ==
  ASSUME NEW st, NEW v, NEW t, NEW p, NEW surf, NEW h, Shut(st, v, t, p, surf, h)
  PROVE  Flush(st) = st
BY FieldsOfShut DEF Flush

LEMMA VertexPushed ==
  ASSUME NEW r, NEW v, NEW t, NEW p, NEW b, NEW d
  PROVE  Push(Emitter(r, v, t, p, b), d) = Emitter(r, Append(v, Geometry(d)), t, p, b)
BY DEF Push, Emitter

LEMMA Pushed ==
  ASSUME NEW st, NEW v, NEW t, NEW p, NEW surf, NEW h, Shut(st, v, t, p, surf, h),
         NEW d, Geometry(d) \in Groups
  PROVE  Shut(Push(st, d), Append(v, Geometry(d)), t, p, surf, h)
<1>1. PICK r : /\ Parts(r, v, t, p, h)
               /\ st = Emitter(r, v, t, p, NoBatch)
               /\ Ran(r, surf) = Fabric(t, h)
  BY DEF Shut
<1>2. Append(v, Geometry(d)) \in Seq(Groups)
  BY <1>1, AppendProperties DEF Parts
<1>3. Push(st, d) = Emitter(r, Append(v, Geometry(d)), t, p, NoBatch)
  BY <1>1, VertexPushed
<1> QED BY <1>1, <1>2, <1>3 DEF Shut, Parts

\* A command of its own for the last vertex pushed.
LEMMA AloneUnderItsHeader ==
  ASSUME NEW v \in Seq(Groups), NEW g \in Groups, NEW key, NEW t \in Targets, NEW h
  PROVE  /\ SubSeq(Append(v, g), Len(v) + 1, Len(v) + 1) = Append(<<>>, g)
         /\ Execute(Fabric(t, h), TrisOf(key, Append(<<>>, g))) = Fabric(t, Grouped(h, t, g, key))
<1>1. Len(v) \in Nat
  BY LenProperties
<1>2. SubSeq(v, Len(v) + 1, Len(v)) = <<>>
  BY <1>1, SubSeqEmpty
<1>3. Len(v) + 1 \in 1 .. Len(v) + 1
  BY <1>1
<1>4. SubSeq(Append(v, g), Len(v) + 1, Len(v) + 1) = Append(<<>>, g)
  BY <1>2, <1>3, RunGrows
<1>5. Execute(Fabric(t, h), TrisOf(key, <<>>)) = Fabric(t, h)
  BY PaintNoGroup DEF TrisOf
<1>6. PICK none : none \in Seq(Groups) /\ none = <<>>
  <2>1. <<>> \in Seq(Groups)
    OBVIOUS
  <2> QED BY <2>1
<1>7. Execute(Fabric(t, h), TrisOf(key, Append(none, g))) = Fabric(t, Grouped(h, t, g, key))
  <2>1. PICK base : base = Fabric(t, h)
    OBVIOUS
  <2>2. Execute(base, TrisOf(key, none)) = Fabric(t, h)
    BY <1>5, <1>6, <2>1
  <2>3. none \in Seq(Groups)
    BY <1>6
  <2>4. Execute(base, TrisOf(key, Append(none, g))) = Fabric(t, Grouped(h, t, g, key))
    BY <2>2, <2>3, OneMoreGroup
  <2> QED BY <2>1, <2>4
<1> QED BY <1>4, <1>6, <1>7

LEMMA GroupEmitted ==
  ASSUME NEW st, NEW v \in Seq(Groups), NEW g \in Groups, NEW t, NEW p, NEW surf, NEW h,
         Shut(st, Append(v, g), t, p, surf, h), NEW key
  PROVE  Shut(EmitTris(st, key, Len(st.vtx), 1), Append(v, g), t, p, surf, Grouped(h, t, g, key))
<1>1. PICK r : /\ Parts(r, Append(v, g), t, p, h)
               /\ st = Emitter(r, Append(v, g), t, p, NoBatch)
               /\ Ran(r, surf) = Fabric(t, h)
  BY DEF Shut
<1>2. PICK w \in Seq(Groups) : w = Append(v, g)
  BY AppendProperties
<1>3. Len(w) = Len(v) + 1 /\ Len(v) \in Nat
  BY <1>2, AppendProperties, LenProperties
<1>4. st.vtx = w
  BY <1>1, <1>2 DEF Emitter
<1>5. PICK cmd : cmd = TrisOf(key, SubSeq(w, Len(w), Len(w)))
  OBVIOUS
<1>6. EmitTris(st, key, Len(st.vtx), 1) = Emit(st, cmd)
  <2>1. Len(w) + 1 - 1 = Len(w)
    BY <1>3
  <2> QED BY <1>4, <1>5, <2>1 DEF EmitTris, TrisOf
<1>7. EmitTris(st, key, Len(st.vtx), 1) = Emitter(Append(r, cmd), Append(v, g), t, p, NoBatch)
  BY <1>1, <1>6, EmitterEmits
<1>8. t \in Targets
  BY <1>1 DEF Parts
<1>9. Execute(Fabric(t, h), cmd) = Fabric(t, Grouped(h, t, g, key))
  <2>1. SubSeq(w, Len(w), Len(w)) = Append(<<>>, g)
    BY <1>2, <1>3, <1>8, AloneUnderItsHeader
  <2> QED BY <1>5, <1>8, <2>1, AloneUnderItsHeader
<1>10. IsSeq(Append(r, cmd)) /\ Ran(Append(r, cmd), surf) = Fabric(t, Grouped(h, t, g, key))
  BY <1>1, <1>9, RingGrows DEF Parts
<1>11. Surfaces(Grouped(h, t, g, key))
  BY <1>1, <1>8, GroupedSurfaces DEF Parts
<1> QED BY <1>1, <1>7, <1>10, <1>11 DEF Shut, Parts

\* The first group of a merged command, and each further one, right behind it.
LEMMA Opened ==
  ASSUME NEW st, NEW v, NEW t, NEW p, NEW surf, NEW h, Shut(st, v, t, p, surf, h),
         NEW d, Geometry(d) \in Groups, NEW key \in Headers
  PROVE  Ajar(Join(Push(st, d), key), Append(v, Geometry(d)), t, p,
              [key |-> key, base |-> Len(v) + 1, n |-> 1], surf,
              Grouped(h, t, Geometry(d), key))
<1>1. PICK r : /\ Parts(r, v, t, p, h)
               /\ st = Emitter(r, v, t, p, NoBatch)
               /\ Ran(r, surf) = Fabric(t, h)
  BY DEF Shut
<1>2. PICK g \in Groups : g = Geometry(d)
  OBVIOUS
<1>3. v \in Seq(Groups) /\ t \in Targets /\ Surfaces(h)
  BY <1>1 DEF Parts
<1>4. PICK w \in Seq(Groups) : w = Append(v, g)
  BY <1>3, AppendProperties
<1>5. Len(w) = Len(v) + 1 /\ Len(v) \in Nat
  BY <1>3, <1>4, AppendProperties, LenProperties
<1>6. PICK b : b = [key |-> key, base |-> Len(v) + 1, n |-> 1]
  OBVIOUS
<1>7. b \in Batches /\ b.base + b.n = Len(w) + 1 /\ b.key = key
  BY <1>5, <1>6 DEF Batches
<1>8. Join(Push(st, d), key) = Emitter(r, w, t, p, b)
  <2>1. Push(st, d) = Emitter(r, w, t, p, NoBatch)
    BY <1>1, <1>2, <1>4, VertexPushed
  <2>2. PICK s : s = Emitter(r, w, t, p, NoBatch)
    OBVIOUS
  <2>3. s.batch = NoBatch /\ s.vtx = w
    BY <2>2 DEF Emitter
  <2>4. Join(s, key) = [s EXCEPT !.batch = [key |-> key, base |-> Len(w), n |-> 1]]
    BY <2>3, Zenon DEF Join
  <2>5. @ = Emitter(r, w, t, p, b)
    BY <1>5, <1>6, <2>2 DEF Emitter
  <2> QED BY <2>1, <2>2, <2>4, <2>5
<1>9. GroupsOf(w, b) = Append(<<>>, g)
  <2>1. b.base = Len(v) + 1 /\ b.base + b.n - 1 = Len(v) + 1
    BY <1>5, <1>6
  <2> QED BY <1>3, <1>4, <2>1, AloneUnderItsHeader DEF GroupsOf
<1>10. Execute(Fabric(t, h), TrisOf(b.key, GroupsOf(w, b))) = Fabric(t, Grouped(h, t, g, key))
  BY <1>3, <1>7, <1>9, AloneUnderItsHeader
<1>11. Parts(r, w, t, p, Grouped(h, t, g, key))
  BY <1>1, <1>3, GroupedSurfaces DEF Parts
<1> QED BY <1>1, <1>2, <1>3, <1>4, <1>6, <1>7, <1>8, <1>10, <1>11 DEF Ajar

LEMMA Extended ==
  ASSUME NEW st, NEW v, NEW t, NEW p, NEW b, NEW surf, NEW h, Ajar(st, v, t, p, b, surf, h),
         NEW d, Geometry(d) \in Groups
  PROVE  Ajar(Join(Push(st, d), b.key), Append(v, Geometry(d)), t, p,
              [b EXCEPT !.n = b.n + 1], surf, Grouped(h, t, Geometry(d), b.key))
<1>1. PICK r, f : /\ Parts(r, v, t, p, h) /\ Surfaces(f)
                  /\ b \in Batches /\ b.base + b.n = Len(v) + 1
                  /\ st = Emitter(r, v, t, p, b)
                  /\ Ran(r, surf) = Fabric(t, f)
                  /\ Execute(Fabric(t, f), TrisOf(b.key, GroupsOf(v, b))) = Fabric(t, h)
  BY DEF Ajar
<1>2. PICK g \in Groups : g = Geometry(d)
  OBVIOUS
<1>3. v \in Seq(Groups) /\ t \in Targets /\ Surfaces(h)
  BY <1>1 DEF Parts
<1>4. PICK w \in Seq(Groups) : w = Append(v, g)
  BY <1>3, AppendProperties
<1>5. Len(w) = Len(v) + 1 /\ Len(v) \in Nat
  BY <1>3, <1>4, AppendProperties, LenProperties
<1>6. PICK c : c = [b EXCEPT !.n = b.n + 1]
  OBVIOUS
<1>7. /\ b.base \in Nat \ {0} /\ b.n \in Nat \ {0} /\ b # NoBatch
      /\ c.key = b.key /\ c.base = b.base /\ c.n = b.n + 1 /\ c \in Batches
  BY <1>1, <1>6 DEF Batches, NoBatch
<1>8. c.base + c.n = Len(w) + 1
  BY <1>1, <1>5, <1>7
<1>9. Join(Push(st, d), b.key) = Emitter(r, w, t, p, c)
  <2>1. Push(st, d) = Emitter(r, w, t, p, b)
    BY <1>1, <1>2, <1>4, VertexPushed
  <2>2. PICK s : s = Emitter(r, w, t, p, b)
    OBVIOUS
  <2>3. s.batch = b /\ s.vtx = w
    BY <2>2 DEF Emitter
  <2>4. Contiguous(s)
    BY <1>1, <1>5, <2>3 DEF Contiguous
  <2>5. Join(s, b.key) = [s EXCEPT !.batch.n = @ + 1]
    BY <1>7, <2>3, <2>4, Zenon DEF Join
  <2>6. @ = Emitter(r, w, t, p, c)
    BY <1>6, <2>2 DEF Emitter
  <2> QED BY <2>1, <2>2, <2>5, <2>6
<1>10. GroupsOf(v, b) \in Seq(Groups) /\ GroupsOf(w, c) = Append(GroupsOf(v, b), g)
  <2>1. /\ b.base \in 1 .. Len(v) + 1 /\ b.base + b.n - 1 = Len(v)
        /\ c.base + c.n - 1 = Len(v) + 1
    BY <1>1, <1>5, <1>7, <1>8, SMTT(30)
  <2>2. /\ SubSeq(v, b.base, Len(v)) \in Seq(Groups)
        /\ SubSeq(w, b.base, Len(v) + 1) = Append(SubSeq(v, b.base, Len(v)), g)
    BY <1>3, <1>4, <2>1, RunGrows
  <2> QED BY <1>7, <2>1, <2>2 DEF GroupsOf
<1>11. Execute(Fabric(t, f), TrisOf(c.key, GroupsOf(w, c)))
       = Fabric(t, Grouped(h, t, g, b.key))
  BY <1>1, <1>3, <1>7, <1>10, OneMoreGroup
<1>12. Parts(r, w, t, p, Grouped(h, t, g, b.key))
  BY <1>1, <1>3, GroupedSurfaces DEF Parts
<1> QED BY <1>1, <1>2, <1>4, <1>6, <1>7, <1>8, <1>9, <1>11, <1>12 DEF Ajar

-----------------------------------------------------------------------------
(* One draw.                                                               *)

\* The surfaces after draw d, painted at once.
Painted(F, d) == [F EXCEPT ![d.dst] = Paint(@, Layer(Geometry(d), d.src, BlendOf(d), F))]

\* The emitter at target t, with clears p deferred, amounts to the surfaces F.
Amounts(st, t, p, surf, F) ==
  \E v, h : /\ F = Due(p, h)
            /\ \/ Shut(st, v, t, p, surf, h)
               \/ \E b : b.n < BatchMax /\ Ajar(st, v, t, p, b, surf, h)

LEMMA FieldsOfAjar ==
  ASSUME NEW st, NEW v, NEW t, NEW p, NEW b, NEW surf, NEW h, Ajar(st, v, t, p, b, surf, h)
  PROVE  /\ st.vtx = v /\ st.target = t /\ st.pend = p /\ st.batch = b
         /\ v \in Seq(Groups) /\ t \in Targets /\ p \in Pending /\ Surfaces(h)
         /\ b # NoBatch /\ b.n \in Nat \ {0} /\ b.key \in Headers
<1>1. b \in Batches
  BY DEF Ajar
<1>2. b # NoBatch /\ b.n \in Nat \ {0} /\ b.key \in Headers
  BY <1>1 DEF Batches, NoBatch
<1> QED BY <1>2 DEF Ajar, Emitter, Parts

LEMMA FieldsOfEmitter ==
  ASSUME NEW st, NEW t, NEW p, NEW surf, NEW F, Amounts(st, t, p, surf, F)
  PROVE  /\ st.target = t /\ st.pend = p /\ t \in Targets /\ p \in Pending /\ Surfaces(F)
         /\ st.batch.n \in Nat /\ st.batch.n < BatchMax
         /\ (st.batch # NoBatch) <=> (st.batch.n > 0)
<1>1. PICK v, h : /\ F = Due(p, h)
                  /\ \/ Shut(st, v, t, p, surf, h)
                     \/ \E b : b.n < BatchMax /\ Ajar(st, v, t, p, b, surf, h)
  BY DEF Amounts
<1>2. Surfaces(F)
  BY <1>1 DEF Surfaces, Due
<1>3. CASE Shut(st, v, t, p, surf, h)
  <2>1. NoBatch.n = 0 /\ 0 < BatchMax
    BY StreamAssumption DEF NoBatch
  <2> QED BY <1>2, <1>3, <2>1, FieldsOfShut
<1>4. ASSUME NEW b, b.n < BatchMax, Ajar(st, v, t, p, b, surf, h)
      PROVE  /\ st.target = t /\ st.pend = p /\ t \in Targets /\ p \in Pending
             /\ st.batch.n \in Nat /\ st.batch.n < BatchMax
             /\ st.batch # NoBatch /\ st.batch.n > 0
  BY <1>4, FieldsOfAjar
<1> QED BY <1>1, <1>2, <1>3, <1>4

LEMMA EmitterFlushed ==
  ASSUME NEW st, NEW t, NEW p, NEW surf, NEW F, Amounts(st, t, p, surf, F)
  PROVE  \E v, h : F = Due(p, h) /\ Shut(Flush(st), v, t, p, surf, h)
<1>1. PICK v, h : /\ F = Due(p, h)
                  /\ \/ Shut(st, v, t, p, surf, h)
                     \/ \E b : b.n < BatchMax /\ Ajar(st, v, t, p, b, surf, h)
  BY DEF Amounts
<1>2. Shut(Flush(st), v, t, p, surf, h)
  BY <1>1, Flushed, NothingToFlush
<1> QED BY <1>1, <1>2

LEMMA Selected ==
  ASSUME NEW st, NEW t, NEW p, NEW surf, NEW F, Amounts(st, t, p, surf, F), NEW u \in Targets
  PROVE  Amounts(Select(st, u), u, p, surf, F)
<1>1. CASE st.target = u
  BY <1>1, FieldsOfEmitter DEF Select
<1>2. CASE st.target # u
  <2>1. PICK v, h : F = Due(p, h) /\ Shut(Flush(st), v, t, p, surf, h)
    BY EmitterFlushed
  <2>2. Shut(EmitTarget(Flush(st), u), v, u, p, surf, h)
    BY <2>1, TargetEmitted
  <2> QED BY <1>2, <2>1, <2>2 DEF Select, Amounts
<1> QED BY <1>1, <1>2

LEMMA DrawsAre ==
  ASSUME NEW d \in Draws
  PROVE  /\ Geometry(d) \in Groups /\ d.dst \in Targets
         /\ d.src = "appsurf" => d.dst = "work"
         /\ BlendOf(d) \in Blends /\ \A t \in Targets : Key(d, t) \in Headers
         /\ d.opaque \in BOOLEAN /\ d.full \in BOOLEAN
<1>1. d \in Draw /\ (d.src = "appsurf" => d.dst = "work")
  BY StreamAssumption
<1>2. /\ d.bl \in {"none", "alpha", "add"} /\ d.src \in STRING /\ d.dst \in Targets
      /\ d.opaque \in BOOLEAN /\ d.full \in BOOLEAN
  BY <1>1 DEF Draw
<1>3. BlendOf(d) \in Blends
  BY <1>2 DEF BlendOf, Blends
<1>4. \A t \in Targets : Key(d, t) \in Headers
  BY <1>2, <1>3 DEF Key, Headers
<1>5. Geometry(d) \in Groups
  BY <1>2 DEF Geometry, Groups
<1> QED BY <1>1, <1>2, <1>3, <1>4, <1>5

\* A group at its place in the list of the open command.
LEMMA BatchedDraw ==
  ASSUME NEW d \in Draws, NEW st, NEW p, NEW surf, NEW F, Amounts(st, d.dst, p, surf, F),
         ~ClearRelevant(st, d)
  PROVE  Amounts(Batched(st, d), d.dst, p, surf, Painted(F, d))
<1>1. PICK t, g, key : t = d.dst /\ g = Geometry(d) /\ key = Key(d, t)
  OBVIOUS
<1>2. PICK v, h : /\ F = Due(p, h)
                  /\ \/ Shut(st, v, t, p, surf, h)
                     \/ \E b : b.n < BatchMax /\ Ajar(st, v, t, p, b, surf, h)
  BY <1>1 DEF Amounts
<1>3. t \in Targets /\ g \in Groups /\ key \in Headers /\ key.src = d.src /\ key.blend = BlendOf(d)
  <2>1. key.src = d.src /\ key.blend = BlendOf(d)
    BY <1>1 DEF Key
  <2>2. t \in Targets /\ g \in Groups
    BY <1>1, DrawsAre
  <2>3. Key(d, t) \in Headers
    BY <2>2, DrawsAre
  <2> QED BY <1>1, <2>1, <2>2, <2>3
<1>4. st.target = t /\ st.pend = p /\ p \in Pending
  BY <1>1, FieldsOfEmitter
<1>5. PICK closed : closed = IF st.batch # NoBatch /\ Differs(st.batch, key) THEN Flush(st) ELSE st
  OBVIOUS
<1>6. PICK joined : joined = Join(Push(closed, d), key)
  OBVIOUS
<1>7. PICK k : k = Grouped(h, t, g, key)
  OBVIOUS
<1>8. \E w, c : c.n \in Nat /\ Ajar(joined, w, t, p, c, surf, k)
  <2>1. CASE Shut(closed, v, t, p, surf, h)
    <3>1. PICK c : c = [key |-> key, base |-> Len(v) + 1, n |-> 1]
      OBVIOUS
    <3>2. Ajar(joined, Append(v, g), t, p, c, surf, k)
      BY <1>1, <1>3, <1>6, <1>7, <2>1, <3>1, Opened
    <3>3. c.n \in Nat
      BY <3>1
    <3> QED BY <3>2, <3>3
  <2>2. ASSUME NEW b, Ajar(st, v, t, p, b, surf, h), b.key = key
        PROVE  \E w, c : c.n \in Nat /\ Ajar(joined, w, t, p, c, surf, k)
    <3>1. closed = st
      BY <1>5, <2>2, FieldsOfAjar DEF Differs
    <3>2. PICK c : c = [b EXCEPT !.n = b.n + 1]
      OBVIOUS
    <3>3. Ajar(joined, Append(v, g), t, p, c, surf, k)
      BY <1>1, <1>3, <1>6, <1>7, <2>2, <3>1, <3>2, Extended
    <3>4. c.n \in Nat
      BY <3>3, FieldsOfAjar
    <3> QED BY <3>3, <3>4
  <2>3. ASSUME NEW b, Ajar(st, v, t, p, b, surf, h), b.key # key
        PROVE  Shut(closed, v, t, p, surf, h)
    BY <1>5, <2>3, FieldsOfAjar, Flushed DEF Differs
  <2>4. ASSUME Shut(st, v, t, p, surf, h)
        PROVE  Shut(closed, v, t, p, surf, h)
    BY <1>5, <2>4, FieldsOfShut
  <2> QED BY <1>2, <2>1, <2>2, <2>3, <2>4
<1>9. Due(p, k) = Painted(F, d)
  <2>1. p[t] = NoClear /\ (d.src = "appsurf" => p["appsurf"] = NoClear)
    BY <1>4 DEF ClearRelevant
  <2>2. F[t] = h[t] /\ (d.src = "appsurf" => F["appsurf"] = h["appsurf"])
    BY <1>2, <1>3, <2>1 DEF Due, Targets
  <2>3. PICK layer : layer = Layer(g, d.src, BlendOf(d), F)
    OBVIOUS
  <2>4. layer = Layer(g, key.src, key.blend, h)
    BY <1>3, <2>2, <2>3 DEF Layer
  <2>5. k = [h EXCEPT ![t] = Paint(@, layer)]
    BY <1>7, <2>4 DEF Grouped
  <2>6. Painted(F, d) = [F EXCEPT ![t] = Paint(@, layer)]
    BY <1>1, <2>3 DEF Painted
  <2>7. Surfaces(h)
    BY <1>2, FieldsOfShut, FieldsOfAjar
  <2> QED BY <1>2, <1>3, <2>1, <2>2, <2>5, <2>6, <2>7 DEF Due, Surfaces
<1>10. Batched(st, d) = IF AtBatchMax(joined) THEN Flush(joined) ELSE joined
  BY <1>1, <1>4, <1>5, <1>6 DEF Batched
<1>11. PICK w, c : c.n \in Nat /\ Ajar(joined, w, t, p, c, surf, k)
  BY <1>8
<1>12. CASE AtBatchMax(joined)
  <2>1. Shut(Flush(joined), w, t, p, surf, k)
    BY <1>11, Flushed
  <2> QED BY <1>1, <1>9, <1>10, <1>12, <2>1 DEF Amounts
<1>13. CASE ~AtBatchMax(joined)
  <2>1. c.n < BatchMax
    BY <1>11, <1>13, FieldsOfAjar, StreamAssumption DEF AtBatchMax
  <2> QED BY <1>1, <1>9, <1>10, <1>11, <1>13, <2>1 DEF Amounts
<1> QED BY <1>12, <1>13

\* A group under a header of its own, the clears it shows discharged before it and the
\* one it covers dropped.
LEMMA SourceDischarged ==
  ASSUME NEW d \in Draws, NEW st, NEW v, NEW p, NEW surf, NEW h,
         Shut(st, v, d.dst, p, surf, h)
  PROVE  \E q, k : /\ Shut(DischargeSource(st, d), v, d.dst, q, surf, k)
                   /\ Due(q, k) = Due(p, h)
                   /\ d.src = "appsurf" => k["appsurf"] = Due(p, h)["appsurf"]
                   /\ p = NoneDue => q = NoneDue
<1>1. CASE d.src # "appsurf"
  BY <1>1 DEF DischargeSource
<1>2. CASE d.src = "appsurf"
  <2>0. "appsurf" \in Targets /\ d.dst \in Targets
    BY DrawsAre DEF Targets
  <2>1. st.target = d.dst /\ p \in Pending /\ Surfaces(h)
    BY FieldsOfShut
  <2>2. PICK q, k : q = [p EXCEPT !["appsurf"] = NoClear]
                    /\ k = [h EXCEPT !["appsurf"] = Due(p, h)["appsurf"]]
    OBVIOUS
  <2>3. PICK w : Shut(Discharge(st, "appsurf"), v, w, q, surf, k)
    BY <2>0, <2>2, Discharged
  <2>4. Shut(DischargeSource(st, d), v, d.dst, q, surf, k)
    BY <1>2, <2>0, <2>1, <2>3, Restored DEF DischargeSource
  <2>5. Due(q, k) = Due(p, h) /\ k["appsurf"] = Due(p, h)["appsurf"]
    BY <2>0, <2>1, <2>2 DEF Due, Pending, Surfaces
  <2>6. p = NoneDue => q = NoneDue
    BY <2>2 DEF NoneDue
  <2> QED BY <2>4, <2>5, <2>6
<1> QED BY <1>1, <1>2

LEMMA TargetDischarged ==
  ASSUME NEW d \in Draws, NEW st, NEW v, NEW p, NEW surf, NEW h,
         Shut(st, v, d.dst, p, surf, h),
         d.src = "appsurf" => h["appsurf"] = Due(p, h)["appsurf"]
  PROVE  \E q, k : /\ Shut(DischargeTarget(st, d), v, d.dst, q, surf, k)
                   /\ Due(q, k) = Due(p, h)
                   /\ d.src = "appsurf" => k["appsurf"] = Due(p, h)["appsurf"]
                   /\ Covers(d) \/ k[d.dst] = Due(p, h)[d.dst]
                   /\ p = NoneDue => q = NoneDue
<1>1. CASE Covers(d)
  BY <1>1 DEF DischargeTarget
<1>2. CASE ~Covers(d)
  <2>0. d.dst \in Targets /\ (d.src = "appsurf" => d.dst = "work") /\ "appsurf" # "work"
    BY DrawsAre
  <2>1. st.target = d.dst /\ p \in Pending /\ Surfaces(h)
    BY FieldsOfShut
  <2>2. PICK q, k : q = [p EXCEPT ![d.dst] = NoClear]
                    /\ k = [h EXCEPT ![d.dst] = Due(p, h)[d.dst]]
    OBVIOUS
  <2>3. Shut(Discharge(st, d.dst), v, d.dst, q, surf, k)
    <3>1. PICK t \in Targets : t = d.dst
      BY <2>0
    <3>2. Shut(Discharge(st, t), v, IF p[t] = NoClear THEN t ELSE t,
               [p EXCEPT ![t] = NoClear], surf, [h EXCEPT ![t] = Due(p, h)[t]])
      BY <3>1, Discharged
    <3> QED BY <2>2, <3>1, <3>2
  <2>4. Shut(DischargeTarget(st, d), v, d.dst, q, surf, k)
    BY <1>2, <2>1, <2>3 DEF DischargeTarget
  <2>5. Due(q, k) = Due(p, h) /\ k[d.dst] = Due(p, h)[d.dst]
    BY <2>0, <2>1, <2>2 DEF Due, Pending, Surfaces
  <2>6. d.src = "appsurf" => k["appsurf"] = Due(p, h)["appsurf"]
    BY <2>0, <2>1, <2>2 DEF Surfaces
  <2>7. p = NoneDue => q = NoneDue
    BY <2>2 DEF NoneDue
  <2> QED BY <2>4, <2>5, <2>6, <2>7
<1> QED BY <1>1, <1>2

LEMMA UnbatchedDraw ==
  ASSUME NEW d \in Draws, NEW st, NEW p, NEW surf, NEW F, Amounts(st, d.dst, p, surf, F)
  PROVE  \E q : /\ Amounts(Unbatched(st, d), d.dst, q, surf, Painted(F, d))
                /\ p = NoneDue => q = NoneDue
<1>1. PICK t, g, key : t = d.dst /\ g = Geometry(d) /\ key = Key(d, t)
  OBVIOUS
<1>2. PICK v, h : F = Due(p, h) /\ Shut(Flush(st), v, t, p, surf, h)
  BY <1>1, EmitterFlushed
<1>3. t \in Targets /\ g \in Groups /\ key.src = d.src /\ key.blend = BlendOf(d) /\ v \in Seq(Groups)
  BY <1>1, <1>2, DrawsAre, FieldsOfShut DEF Key
<1>4. PICK w : w = Append(v, g)
  OBVIOUS
<1>5. Shut(Push(Flush(st), d), w, t, p, surf, h)
  BY <1>1, <1>2, <1>3, <1>4, Pushed
<1>6. PICK s1, q1, k1 : /\ s1 = DischargeSource(Push(Flush(st), d), d)
                        /\ Shut(s1, w, t, q1, surf, k1) /\ Due(q1, k1) = F
                        /\ d.src = "appsurf" => k1["appsurf"] = F["appsurf"]
                        /\ p = NoneDue => q1 = NoneDue
  BY <1>1, <1>2, <1>5, SourceDischarged
<1>7. PICK s, q, k : /\ s = DischargeTarget(s1, d)
                     /\ Shut(s, w, t, q, surf, k) /\ Due(q, k) = F
                     /\ d.src = "appsurf" => k["appsurf"] = F["appsurf"]
                     /\ Covers(d) \/ k[t] = F[t]
                     /\ q1 = NoneDue => q = NoneDue
  BY <1>1, <1>6, TargetDischarged
<1>8. s.target = t /\ Surfaces(k) /\ q \in Pending
  BY <1>7, FieldsOfShut
<1>9. PICK s2, k2 : s2 = EmitTris(s, key, Len(s.vtx), 1) /\ k2 = Grouped(k, t, g, key)
  OBVIOUS
<1>10. Shut(s2, w, t, q, surf, k2)
  BY <1>3, <1>4, <1>7, <1>9, GroupEmitted
<1>11. Unbatched(st, d) = [s2 EXCEPT !.pend[t] = NoClear]
  BY <1>1, <1>6, <1>7, <1>8, <1>9 DEF Unbatched
<1>12. PICK q2 : q2 = [q EXCEPT ![t] = NoClear]
  OBVIOUS
<1>13. Shut(Unbatched(st, d), w, t, q2, surf, k2)
  <2>1. PICK c \in Colors \union {NoClear} : c = NoClear
    OBVIOUS
  <2>2. Shut([s2 EXCEPT !.pend[t] = c], w, t, [q EXCEPT ![t] = c], surf, k2)
    BY <1>3, <1>10, PendSet
  <2> QED BY <1>11, <1>12, <2>1, <2>2
<1>14. Due(q2, k2) = Painted(F, d)
  <2>1. PICK layer : layer = Layer(g, d.src, BlendOf(d), F)
    OBVIOUS
  <2>2. layer = Layer(g, key.src, key.blend, k)
    BY <1>3, <1>7, <2>1 DEF Layer
  <2>3. k2 = [k EXCEPT ![t] = Paint(@, layer)]
    BY <1>9, <2>2 DEF Grouped
  <2>4. Painted(F, d) = [F EXCEPT ![t] = Paint(@, layer)]
    BY <1>1, <2>1 DEF Painted
  <2>5. Paint(k[t], layer) = Paint(F[t], layer)
    <3>1. CASE Covers(d)
      <4>1. Hides(layer)
        BY <1>1, <2>1, <3>1 DEF Covers, Hides, Layer, Geometry
      <4> QED BY <4>1 DEF Paint
    <3>2. CASE k[t] = F[t]
      BY <3>2
    <3> QED BY <1>7, <3>1, <3>2
  <2>6. F = Due(q, k)
    BY <1>7
  <2> QED BY <1>3, <1>8, <1>12, <2>3, <2>4, <2>5, <2>6 DEF Due, Surfaces, Pending
<1>15. p = NoneDue => q2 = NoneDue
  BY <1>6, <1>7, <1>12 DEF NoneDue
<1> QED BY <1>1, <1>13, <1>14, <1>15 DEF Amounts

LEMMA GroupDraws ==
  ASSUME NEW d \in Draws, NEW st, NEW p, NEW surf, NEW F, Amounts(st, d.dst, p, surf, F)
  PROVE  \E q : /\ Amounts(Group(st, d), d.dst, q, surf, Painted(F, d))
                /\ p = NoneDue => q = NoneDue
<1>1. CASE BatchOn /\ ~ClearRelevant(st, d)
  BY <1>1, BatchedDraw DEF Group
<1>2. CASE ~(BatchOn /\ ~ClearRelevant(st, d))
  BY <1>2, UnbatchedDraw DEF Group
<1> QED BY <1>1, <1>2

\* Closing the frame emits what was still held back, and nothing else.
LEMMA FrameClosed ==
  ASSUME NEW st, NEW t, NEW p, NEW surf, NEW F, Amounts(st, t, p, surf, F)
  PROVE  /\ \E v, u : u \in Targets /\ Shut(Closed(st), v, u, NoneDue, surf, F)
         /\ Executed(Closed(st).ring, surf) = F
<1>1. PICK v, h : F = Due(p, h) /\ Shut(Flush(st), v, t, p, surf, h)
  BY EmitterFlushed
<1>2. PICK u \in Targets : Shut(Closed(st), v, u, NoneDue, surf, F)
  BY <1>1, AllDischarged DEF Closed
<1>3. PICK r : Closed(st) = Emitter(r, v, u, NoneDue, NoBatch) /\ Ran(r, surf) = Fabric(u, F)
  BY <1>2 DEF Shut
<1>4. Closed(st).ring = r /\ Ran(r, surf).surf = F
  BY <1>3 DEF Emitter, Fabric
<1>5. Executed(r, surf) = Ran(r, surf).surf
  BY DEF Executed, Ran, Fabric
<1> QED BY <1>2, <1>4, <1>5

-----------------------------------------------------------------------------
(* The frames.                                                             *)

\* No full clear is deferred in a game that also clears in part.
WholeClears == ~ (DeferClear /\ PartialClears)

EmitterTyped(st) ==
  /\ st.target \in Targets
  /\ st.pend \in [Targets -> Colors \union {NoClear}]
  /\ st.batch.n \in 0 .. BatchMax - 1
  /\ (st.batch # NoBatch) = (st.batch.n > 0)

StreamTyped ==
  /\ open \in BOOLEAN /\ last \in Draws \union {NoDraw} /\ ops \in 0 .. MaxOps
  /\ EmitterTyped(em)
  /\ Surfaces(intended) /\ Surfaces(shown)
  /\ \A t \in Targets : IsSeq(intended[t])

\* In a frame the emitter amounts to what was drawn, and a repeat of the last draw
\* would not be seen.
StreamInv ==
  /\ StreamTyped
  /\ open => Amounts(em, em.target, em.pend, shown, intended)
  /\ open /\ ~DeferClear => em.pend = NoneDue
  /\ open /\ last # NoDraw => Idempotent(last) /\ Painted(intended, last) = intended
  /\ ~open => shown = intended

LEMMA TypedEmitter ==
  ASSUME NEW st, NEW t, NEW p, NEW surf, NEW F, Amounts(st, t, p, surf, F)
  PROVE  EmitterTyped(st)
<1>1. BatchMax \in Nat
  BY StreamAssumption
<1>2. st.batch.n \in 0 .. BatchMax - 1
  BY <1>1, FieldsOfEmitter
<1>3. (st.batch # NoBatch) = (st.batch.n > 0)
  BY FieldsOfEmitter
<1> QED BY <1>2, <1>3, FieldsOfEmitter DEF EmitterTyped, Pending

LEMMA FreshRing ==
  ASSUME NEW surf, Surfaces(surf)
  PROVE  /\ Amounts(Reset, "work", NoneDue, surf, surf)
         /\ Reset.target = "work" /\ Reset.pend = NoneDue
<1>1. <<>> \in Seq(Groups) /\ IsSeq(<<>>)
  <2>1. <<>> \in Seq(Groups) /\ <<>> \in Seq({})
    OBVIOUS
  <2> QED BY <2>1 DEF IsSeq
<1>2. NoneDue \in Pending /\ "work" \in Targets
  BY DEF NoneDue, Pending, Targets
<1>3. Parts(<<>>, <<>>, "work", NoneDue, surf)
  BY <1>1, <1>2 DEF Parts
<1>4. Ran(<<>>, surf) = Fabric("work", surf)
  BY RunNothing DEF Ran
<1>5. Reset = Emitter(<<>>, <<>>, "work", NoneDue, NoBatch)
  BY DEF Reset, Emitter, NoneDue
<1>6. Shut(Reset, <<>>, "work", NoneDue, surf, surf)
  BY <1>3, <1>4, <1>5 DEF Shut
<1>7. Reset.target = "work" /\ Reset.pend = NoneDue
  BY <1>6, FieldsOfShut
<1> QED BY <1>6, <1>7, NothingDue DEF Amounts

\* A draw the elision admits is not seen a second time.
LEMMA DrawnTwice ==
  ASSUME NEW d \in Draws, Idempotent(d), NEW F, Surfaces(F), \A t \in Targets : IsSeq(F[t])
  PROVE  Painted(Painted(F, d), d) = Painted(F, d)
<1>1. d.dst \in Targets /\ (d.src = "appsurf" => d.dst = "work") /\ "appsurf" # "work"
  BY DrawsAre
<1>2. PICK layer : layer = Layer(Geometry(d), d.src, BlendOf(d), F)
  OBVIOUS
<1>3. PICK G : G = Painted(F, d)
  OBVIOUS
<1>4. G = [F EXCEPT ![d.dst] = Paint(@, layer)]
  BY <1>2, <1>3 DEF Painted
<1>5. layer = Layer(Geometry(d), d.src, BlendOf(d), G)
  BY <1>1, <1>2, <1>4 DEF Layer, Surfaces
<1>6. Settled(layer)
  <2>1. BlendOf(d) \in {"copy", "colorkey"}
    BY DEF Idempotent, BlendOf
  <2> QED BY <1>2, <2>1 DEF Settled, Layer
<1>7. G[d.dst] = Paint(F[d.dst], layer)
  BY <1>1, <1>4 DEF Surfaces
<1>8. Paint(G[d.dst], layer) = G[d.dst]
  BY <1>1, <1>6, <1>7, PaintedTwice
<1>9. Surfaces(G)
  BY <1>4 DEF Surfaces
<1>10. Painted(G, d) = [G EXCEPT ![d.dst] = Paint(@, layer)]
  BY <1>5 DEF Painted
<1> QED BY <1>3, <1>8, <1>9, <1>10 DEF Surfaces

LEMMA PaintedIsTyped ==
  ASSUME NEW F, Surfaces(F), \A t \in Targets : IsSeq(F[t]), NEW u \in Targets, NEW layer
  PROVE  LET G == [F EXCEPT ![u] = Paint(@, layer)]
         IN  Surfaces(G) /\ \A t \in Targets : IsSeq(G[t])
<1>1. PICK s : s = Paint(F[u], layer)
  OBVIOUS
<1>2. IsSeq(s)
  BY <1>1, PaintedIsSeq
<1>3. PICK G : G = [F EXCEPT ![u] = s]
  OBVIOUS
<1>4. Surfaces(G) /\ \A t \in Targets : G[t] = IF t = u THEN s ELSE F[t]
  BY <1>3 DEF Surfaces
<1>5. \A t \in Targets : IsSeq(G[t])
  BY <1>2, <1>4
<1> QED BY <1>1, <1>3, <1>4, <1>5

LEMMA StreamInit ==
  Init => StreamInv
<1> SUFFICES ASSUME Init PROVE StreamInv
  OBVIOUS
<1>1. intended = [t \in Targets |-> <<>>] /\ shown = intended /\ em = Reset /\ open = FALSE
      /\ last = NoDraw /\ ops = 0
  BY DEF Init
<1>2. Surfaces(intended)
  BY <1>1 DEF Surfaces
<1>3. \A t \in Targets : IsSeq(intended[t])
  <2>1. <<>> \in Seq({})
    OBVIOUS
  <2> QED BY <1>1, <2>1 DEF IsSeq
<1>4. EmitterTyped(em)
  BY <1>1, <1>2, FreshRing, TypedEmitter
<1>5. StreamTyped
  <2>1. open \in BOOLEAN /\ last \in Draws \union {NoDraw} /\ ops \in 0 .. MaxOps
    <3>1. MaxOps \in Nat
      BY StreamAssumption
    <3>2. 0 \in 0 .. MaxOps
      BY <3>1
    <3> QED BY <1>1, <3>2
  <2>2. Surfaces(shown)
    BY <1>1, <1>2
  <2> QED BY <1>2, <1>3, <1>4, <2>1, <2>2, Zenon DEF StreamTyped
<1> QED BY <1>1, <1>5 DEF StreamInv

LEMMA BeginStep ==
  ASSUME StreamInv, FrameBegin
  PROVE  StreamInv'
<1>1. /\ open' = TRUE /\ em' = Reset /\ last' = NoDraw /\ shown = intended
      /\ intended' = intended /\ shown' = shown /\ ops' = ops
  BY DEF FrameBegin, StreamInv
<1>2. StreamTyped
  BY DEF StreamInv
<1>3. Amounts(Reset, "work", NoneDue, shown, shown) /\ Reset.target = "work"
      /\ Reset.pend = NoneDue
  BY <1>2, FreshRing DEF StreamTyped
<1>4. Amounts(em', em'.target, em'.pend, shown', intended') /\ em'.pend = NoneDue
  BY <1>1, <1>3
<1>5. EmitterTyped(em')
  BY <1>4, TypedEmitter
<1>6. StreamTyped'
  BY <1>1, <1>2, <1>5 DEF StreamTyped
<1> QED BY <1>1, <1>4, <1>6 DEF StreamInv

\* What a frame's operations have in common: the emitter ends with amounting to what was
\* drawn, and nothing is repeated unseen.
LEMMA OperationStep ==
  ASSUME StreamInv, open, open' = open, shown' = shown,
         ops < MaxOps, ops' = ops + 1,
         NEW t, NEW p, Amounts(em', t, p, shown, intended'), ~DeferClear => p = NoneDue,
         \A u \in Targets : IsSeq(intended'[u]),
         last' = NoDraw \/ (last' \in Draws /\ Idempotent(last')
                            /\ Painted(intended', last') = intended')
  PROVE  StreamInv'
<1>1. StreamTyped
  BY DEF StreamInv
<1>2. em'.target = t /\ em'.pend = p /\ Surfaces(intended')
  BY FieldsOfEmitter
<1>3. EmitterTyped(em')
  BY TypedEmitter
<1>4. last' \in Draws \union {NoDraw}
  OBVIOUS
<1>5. ops' \in 0 .. MaxOps
  <2>1. MaxOps \in Nat /\ ops \in 0 .. MaxOps
    BY <1>1, StreamAssumption DEF StreamTyped
  <2> QED BY <2>1
<1>6. StreamTyped'
  <2>1. open' \in BOOLEAN /\ Surfaces(shown')
    BY <1>1 DEF StreamTyped
  <2> QED BY <1>2, <1>3, <1>4, <1>5, <2>1 DEF StreamTyped
<1>7. Amounts(em', em'.target, em'.pend, shown', intended')
  BY <1>2
<1>8. last' # NoDraw => Idempotent(last') /\ Painted(intended', last') = intended'
  OBVIOUS
<1> QED BY <1>2, <1>6, <1>7, <1>8 DEF StreamInv

LEMMA ShutAmounts ==
  ASSUME NEW st, NEW v, NEW t, NEW p, NEW surf, NEW h, Shut(st, v, t, p, surf, h)
  PROVE  Amounts(st, t, p, surf, Due(p, h))
BY DEF Amounts

LEMMA ClearStep ==
  ASSUME StreamInv, WholeClears, NEW t \in Targets, NEW c \in Colors,
         NEW full \in {TRUE, ~PartialClears}, Clear(t, c, full)
  PROVE  StreamInv'
<1>1. StreamTyped /\ open
  BY DEF StreamInv, Clear
<1>2. Amounts(em, em.target, em.pend, shown, intended) /\ (~DeferClear => em.pend = NoneDue)
  BY <1>1 DEF StreamInv
<1>3. PICK p, F, surf : p = em.pend /\ F = intended /\ surf = shown
  OBVIOUS
<1>4. PICK v, h, w : F = Due(p, h) /\ Shut(Flush(em), v, w, p, surf, h)
  BY <1>2, <1>3, EmitterFlushed
<1>5. PICK s : s = Select(Flush(em), t)
  OBVIOUS
<1>6. Shut(s, v, t, p, surf, h)
  <2>1. Flush(em).target = w /\ Flush(Flush(em)) = Flush(em)
    BY <1>4, FieldsOfShut, NothingToFlush
  <2> QED BY <1>4, <1>5, <2>1, TargetEmitted DEF Select
<1>7. Surfaces(h) /\ p \in Pending
  BY <1>6, FieldsOfShut
<1>8. PICK layer, G : layer = Fill(c, full) /\ G = [F EXCEPT ![t] = Paint(@, layer)]
  OBVIOUS
<1>9. intended' = G
  BY <1>3, <1>8 DEF Clear, Intend
<1>10. \A u \in Targets : IsSeq(G[u])
  BY <1>1, <1>3, <1>8, PaintedIsTyped DEF StreamTyped
<1>11. \E q : Amounts(em', t, q, surf, G) /\ (~DeferClear => q = NoneDue)
  <2>1. CASE DeferClear /\ full
    <3>1. em' = [s EXCEPT !.pend[t] = c]
      BY <1>5, <2>1 DEF Clear
    <3>2. PICK q : q = [p EXCEPT ![t] = c]
      OBVIOUS
    <3>3. Shut(em', v, t, q, surf, h)
      BY <1>6, <3>1, <3>2, PendSet
    <3>4. c # NoClear
      BY StreamAssumption
    <3>5. layer = Fill(c, TRUE)
      BY <1>8, <2>1
    <3>6. Due(q, h) = G
      <4>1. PICK s1 : s1 = <<layer>>
        OBVIOUS
      <4>2. Paint(F[t], layer) = s1
        BY <3>5, <4>1, FullFillHides
      <4>3. G = [F EXCEPT ![t] = s1]
        BY <1>8, <4>2
      <4>4. Due(q, h) = [u \in Targets |-> IF u = t THEN s1 ELSE Due(p, h)[u]]
        BY <1>7, <3>2, <3>4, <3>5, <4>1 DEF Due, Pending
      <4> QED BY <1>4, <4>3, <4>4 DEF Due
    <3> QED BY <2>1, <3>3, <3>6, ShutAmounts
  <2>2. CASE ~(DeferClear /\ full)
    <3>1. ~DeferClear
      BY <2>2 DEF WholeClears
    <3>2. em' = EmitFill(s, layer)
      BY <1>5, <1>8, <2>2 DEF Clear
    <3>3. p = NoneDue /\ F = h
      BY <1>2, <1>3, <1>4, <1>7, <3>1, NothingDue
    <3>4. Shut(em', v, t, NoneDue, surf, G)
      BY <1>6, <1>8, <3>2, <3>3, FillEmitted
    <3>5. Due(NoneDue, G) = G
      BY <3>4, FieldsOfShut, NothingDue
    <3> QED BY <3>4, <3>5, ShutAmounts
  <2> QED BY <2>1, <2>2
<1>12. /\ open' = open /\ shown' = shown /\ ops < MaxOps /\ ops' = ops + 1 /\ last' = NoDraw
  BY DEF Clear
<1> QED BY <1>1, <1>3, <1>9, <1>10, <1>11, <1>12, OperationStep

LEMMA SoftwareStep ==
  ASSUME StreamInv, SoftwareDraw
  PROVE  StreamInv'
<1>1. StreamTyped /\ open
  BY DEF StreamInv, SoftwareDraw
<1>2. Amounts(em, em.target, em.pend, shown, intended) /\ (~DeferClear => em.pend = NoneDue)
  BY <1>1 DEF StreamInv
<1>3. PICK p, t, F, surf : p = em.pend /\ t = em.target /\ F = intended /\ surf = shown
  OBVIOUS
<1>4. PICK v, h : F = Due(p, h) /\ Shut(Flush(em), v, t, p, surf, h)
  BY <1>2, <1>3, EmitterFlushed
<1>5. em' = Flush(em) /\ intended' = F
  BY <1>3 DEF SoftwareDraw
<1>6. Amounts(em', t, p, surf, F)
  BY <1>4, <1>5, ShutAmounts
<1>7. \A u \in Targets : IsSeq(F[u])
  BY <1>1, <1>3 DEF StreamTyped
<1>8. /\ open' = open /\ shown' = shown /\ ops < MaxOps /\ ops' = ops + 1 /\ last' = NoDraw
  BY DEF SoftwareDraw
<1>9. ~DeferClear => p = NoneDue
  BY <1>2, <1>3
<1> QED BY <1>1, <1>3, <1>5, <1>6, <1>7, <1>8, <1>9, OperationStep

LEMMA DrawStep ==
  ASSUME StreamInv, NEW d \in Draws, DrawOp(d)
  PROVE  StreamInv'
<1>1. StreamTyped /\ open
  BY DEF StreamInv, DrawOp
<1>2. Amounts(em, em.target, em.pend, shown, intended) /\ (~DeferClear => em.pend = NoneDue)
  BY <1>1 DEF StreamInv
<1>3. PICK p, t, F, surf : p = em.pend /\ t = em.target /\ F = intended /\ surf = shown
  OBVIOUS
<1>4. PICK G : G = Painted(F, d)
  OBVIOUS
<1>5. intended' = G
  BY <1>3, <1>4 DEF DrawOp, Intend, Painted
<1>6. d.dst \in Targets
  BY DrawsAre
<1>7. Surfaces(F) /\ \A u \in Targets : IsSeq(F[u])
  BY <1>1, <1>3 DEF StreamTyped
<1>8. \A u \in Targets : IsSeq(G[u])
  <2>1. PICK layer : layer = Layer(Geometry(d), d.src, BlendOf(d), F)
    OBVIOUS
  <2>2. G = [F EXCEPT ![d.dst] = Paint(@, layer)]
    BY <1>4, <2>1 DEF Painted
  <2> QED BY <1>6, <1>7, <2>2, PaintedIsTyped
<1>9. /\ open' = open /\ shown' = shown /\ ops < MaxOps /\ ops' = ops + 1
  BY DEF DrawOp
<1>10. d # NoDraw
  BY <1>6 DEF NoDraw, Targets
<1>11. CASE Idempotent(d) /\ last = d
  <2>1. em' = em /\ last' = last
    BY <1>11 DEF DrawOp
  <2>2. Painted(F, d) = F
    BY <1>1, <1>3, <1>10, <1>11 DEF StreamInv
  <2>3. Amounts(em', t, p, surf, G) /\ (~DeferClear => p = NoneDue)
    BY <1>2, <1>3, <1>4, <2>1, <2>2
  <2>4. last' \in Draws /\ Idempotent(last') /\ Painted(G, last') = G
    BY <1>4, <1>11, <2>1, <2>2
  <2> QED BY <1>1, <1>3, <1>5, <1>8, <1>9, <2>3, <2>4, OperationStep
<1>12. CASE ~(Idempotent(d) /\ last = d)
  <2>1. em' = Group(Select(em, d.dst), d) /\ last' = IF Idempotent(d) THEN d ELSE NoDraw
    BY <1>12 DEF DrawOp
  <2>2. Amounts(Select(em, d.dst), d.dst, p, surf, F)
    BY <1>2, <1>3, <1>6, Selected
  <2>3. PICK q : Amounts(em', d.dst, q, surf, G) /\ (p = NoneDue => q = NoneDue)
    BY <1>4, <2>1, <2>2, GroupDraws
  <2>4. ~DeferClear => q = NoneDue
    BY <1>2, <1>3, <2>3
  <2>5. CASE Idempotent(d)
    <3>1. Painted(G, d) = G
      BY <1>4, <1>7, <2>5, DrawnTwice
    <3>2. last' \in Draws /\ Idempotent(last') /\ Painted(G, last') = G
      BY <2>1, <2>5, <3>1
    <3> QED BY <1>1, <1>3, <1>5, <1>8, <1>9, <2>3, <2>4, <3>2, OperationStep
  <2>6. CASE ~Idempotent(d)
    <3>1. last' = NoDraw
      BY <2>1, <2>6
    <3> QED BY <1>1, <1>3, <1>5, <1>8, <1>9, <2>3, <2>4, <3>1, OperationStep
  <2> QED BY <2>5, <2>6
<1> QED BY <1>11, <1>12

\* The overlay's fill, from wherever the emitter stands to the work surface.
LEMMA OverlayPainted ==
  ASSUME NEW st, NEW v, NEW t, NEW surf, NEW F, Shut(st, v, t, NoneDue, surf, F)
  PROVE  Amounts(WithOverlay(st), "work", NoneDue, surf,
                 [F EXCEPT !["work"] = Paint(@, OverlayLayer)])
<1>1. "work" \in Targets
  BY DEF Targets
<1>2. Shut(Restore(Flush(st), "work"), v, "work", NoneDue, surf, F)
  BY <1>1, NothingToFlush, Restored
<1>3. PICK G : G = [F EXCEPT !["work"] = Paint(@, OverlayLayer)]
  OBVIOUS
<1>4. Shut(WithOverlay(st), v, "work", NoneDue, surf, G)
  BY <1>2, <1>3, FillEmitted DEF WithOverlay
<1>5. Due(NoneDue, G) = G
  BY <1>4, FieldsOfShut, NothingDue
<1> QED BY <1>3, <1>4, <1>5, ShutAmounts

LEMMA PresentStep ==
  ASSUME StreamInv, NEW overlay \in BOOLEAN, Present(overlay)
  PROVE  StreamInv'
<1>1. StreamTyped /\ open
  BY DEF StreamInv, Present
<1>2. PICK p, t, F, surf : p = em.pend /\ t = em.target /\ F = intended /\ surf = shown
  OBVIOUS
<1>3. Amounts(em, t, p, surf, F)
  BY <1>1, <1>2 DEF StreamInv
<1>4. PICK st : st = Closed(em)
  OBVIOUS
<1>5. PICK v, u : u \in Targets /\ Shut(st, v, u, NoneDue, surf, F)
  BY <1>3, <1>4, FrameClosed
<1>6. PICK G : G = IF overlay THEN [F EXCEPT !["work"] = Paint(@, OverlayLayer)] ELSE F
  OBVIOUS
<1>7. intended' = G
  BY <1>2, <1>6 DEF Present, Intend
<1>8. PICK s : s = IF overlay THEN WithOverlay(st) ELSE st
  OBVIOUS
<1>9. PICK w : Amounts(s, w, NoneDue, surf, G)
  <2>1. CASE overlay
    BY <1>5, <1>6, <1>8, <2>1, OverlayPainted
  <2>2. CASE ~overlay
    <3>1. Due(NoneDue, F) = F
      BY <1>5, FieldsOfShut, NothingDue
    <3> QED BY <1>5, <1>6, <1>8, <2>2, <3>1, ShutAmounts
  <2> QED BY <2>1, <2>2
<1>10. em' = Closed(s) /\ shown' = Executed(em'.ring, surf)
  BY <1>2, <1>4, <1>8 DEF Present
<1>11. shown' = G /\ \E x, y : Shut(em', x, y, NoneDue, surf, G)
  BY <1>9, <1>10, FrameClosed
<1>12. EmitterTyped(em') /\ Surfaces(G)
  <2>1. PICK x, y : Shut(em', x, y, NoneDue, surf, G)
    BY <1>11
  <2> QED BY <2>1, ShutAmounts, TypedEmitter, FieldsOfShut
<1>13. \A x \in Targets : IsSeq(G[x])
  <2>1. \A x \in Targets : IsSeq(F[x])
    BY <1>1, <1>2 DEF StreamTyped
  <2>2. Surfaces(F) /\ "work" \in Targets
    BY <1>5, FieldsOfShut DEF Targets
  <2> QED BY <1>6, <2>1, <2>2, PaintedIsTyped
<1>14. open' = FALSE /\ last' = last /\ ops' = ops
  BY DEF Present
<1>15. StreamTyped'
  <2>1. Surfaces(intended') /\ Surfaces(shown') /\ \A x \in Targets : IsSeq(intended'[x])
    BY <1>7, <1>11, <1>12, <1>13
  <2>2. open' \in BOOLEAN /\ last' \in Draws \union {NoDraw} /\ ops' \in 0 .. MaxOps
    BY <1>1, <1>14 DEF StreamTyped
  <2> QED BY <1>12, <2>1, <2>2, Zenon DEF StreamTyped
<1> QED BY <1>7, <1>11, <1>14, <1>15 DEF StreamInv

-----------------------------------------------------------------------------
(* Theorems.                                                               *)

\* In every frame, at every point, the ring, the open command and the deferred clears
\* amount to what was drawn: the inductive invariant of the draw stream.
THEOREM StreamInvariant ==
  ASSUME WholeClears
  PROVE  Spec => []StreamInv
<1>1. Init => StreamInv
  BY StreamInit
<1>2. StreamInv /\ [Next]_vars => StreamInv'
  <2> SUFFICES ASSUME StreamInv, [Next]_vars PROVE StreamInv'
    OBVIOUS
  <2>1. CASE FrameBegin
    BY <2>1, BeginStep
  <2>2. ASSUME NEW t \in Targets, NEW c \in Colors, NEW full \in {TRUE, ~PartialClears},
               Clear(t, c, full)
        PROVE  StreamInv'
    BY <2>2, ClearStep
  <2>3. ASSUME NEW d \in Draws, DrawOp(d) PROVE StreamInv'
    BY <2>3, DrawStep
  <2>4. CASE SoftwareDraw
    BY <2>4, SoftwareStep
  <2>5. ASSUME NEW overlay \in BOOLEAN, Present(overlay) PROVE StreamInv'
    BY <2>5, PresentStep
  <2>6. CASE UNCHANGED vars
    BY <2>6 DEF vars, StreamInv, StreamTyped
  <2> QED BY <2>1, <2>2, <2>3, <2>4, <2>5, <2>6 DEF Next
<1> QED BY <1>1, <1>2, PTL DEF Spec

\* "IT CANNOT CHANGE A PIXEL" (raster_backend_mfgpu.cpp): for any draws, colours and batch
\* size, with or without the batch and the deferral, every present shows exactly what
\* painting each operation at once would have, and nothing is lost on the way there.
THEOREM NoPixelChanges ==
  ASSUME WholeClears
  PROVE  Spec => []FramesShowWhatWasDrawn
<1>1. StreamInv => FramesShowWhatWasDrawn
  <2> SUFFICES ASSUME StreamInv PROVE FramesShowWhatWasDrawn
    OBVIOUS
  <2>1. TypeOK
    BY DEF StreamInv, StreamTyped, EmitterTyped, TypeOK
  <2>2. open => Executed(Closed(em).ring, shown) = intended
    BY FrameClosed DEF StreamInv
  <2>3. ~open => shown = intended
    BY DEF StreamInv
  <2> QED BY <2>1, <2>2, <2>3 DEF FramesShowWhatWasDrawn
<1> QED BY <1>1, StreamInvariant, PTL
===============================================================================
