---------------------------- MODULE TexMemoryProofs ----------------------------
(***************************************************************************)
(* Proofs about the memory textures live in: the cache and its pages       *)
(* (TexResidency), and the allocator of the source heap (BltAlloc), which  *)
(* share no state.                                                         *)
(***************************************************************************)
EXTENDS TexResidency, BltAlloc, FunctionTheorems, SequenceTheorems, FiniteSetTheorems,
        WellFoundedInduction, TLAPS

-----------------------------------------------------------------------------
(***************************************************************************)
(* THE CACHE, for any number of textures, slots, pages and ring entries:   *)
(* every page has one owner; and, for as long as the game leaves a texture *)
(* alone, what two frames need of it stays pinned and a wrong texel is     *)
(* only sampled in its place where a STAGE was lost, whatever is uploaded, *)
(* evicted or invalidated of the others.                                   *)
(***************************************************************************)

Occupied(s) == cache[s] # Unused
Commands == Command \union {EndCommand}
Rings    == [cmds : Seq(Commands), overflow : BOOLEAN]

Recorded    == hpc = "build" /\ ~dropped        \* a frame is built into the ring
Publishable == Recorded /\ ~ring.overflow

\* What TypeOK leaves open: commands, and where a batch ends.
Shapes ==
  /\ ring \in Rings
  /\ flight \in [cmds : Seq(Commands), arena : {0, 1}] /\ Len(flight.cmds) <= RingCap
  /\ Publishable => \A i \in DOMAIN ring.cmds : ring.cmds[i] # EndCommand
  /\ busy => \A i \in DOMAIN flight.cmds :
               flight.cmds[i] = EndCommand <=> i = Len(flight.cmds)

\* Every page is free or has one owner.
PagesOwned ==
  /\ \A s \in Slots : Occupied(s) => cache[s].page \notin free
  /\ \A s, r \in Slots : Occupied(s) /\ Occupied(r) /\ cache[s].page = cache[r].page => s = r
  /\ \A p \in Pages \ free : \E s \in Slots : Occupied(s) /\ cache[s].page = p

HeapInv == TypeOK /\ Shapes /\ PagesOwned

\* A page of an entry touched since floor.
Kept(p, floor) == \E s \in Slots : Occupied(s) /\ cache[s].page = p /\ cache[s].lru > floor

\* The frame in flight was begun at the last retirement of the floors, or the one before.
FlightFloor == IF flight.arena = arena THEN frameFloor ELSE evictFloor

\* For each texture of c the game has left alone, its page is kept and holds its texels.
Held(c, floor) == \A t \in c.want : ~Stale(t) => Kept(c.page, floor) /\ heap[c.page] = t

Live(c) == \E t \in c.want : ~Stale(t)

\* What a command or the open batch needs stays cached, with the texels it was issued for.
BuiltApart == busy /\ Recorded => flight.arena # arena
FlightHeld == busy => \A i \in DOMAIN flight.cmds :
                i > pos /\ flight.cmds[i] # EndCommand => Held(flight.cmds[i], FlightFloor)
RingHeld   == Publishable => \A i \in DOMAIN ring.cmds : Held(ring.cmds[i], frameFloor)
OpenHeld   == Publishable /\ open # NoBatch => Held(open, frameFloor)

EntriesFresh == \A s \in Slots : Occupied(s) => heap[cache[s].page] = TexelsOf(cache[s].key)

PinInv == BuiltApart /\ FlightHeld /\ RingHeld /\ OpenHeld /\ EntriesFresh

\* The SDRAM copy is up to date, or its STAGE was lost; or the STAGE is still to come.
Copied(p) == p \in lost \/ sdram[p] = heap[p]
Stages(cmds, i, p) == i \in DOMAIN cmds /\ cmds[i].op = "stage" /\ cmds[i].page = p

InFlightStage(p, j) == busy /\ \E i \in DOMAIN flight.cmds :
                                 pos < i /\ i < j /\ Stages(flight.cmds, i, p)
StageAhead(p)   == InFlightStage(p, Len(flight.cmds))
RingStage(p, j) == \E i \in DOMAIN ring.cmds : i < j /\ Stages(ring.cmds, i, p)

CopyComes == \A s \in Slots : Occupied(s) =>
  \/ Copied(cache[s].page) \/ StageAhead(cache[s].page)
  \/ Recorded /\ RingStage(cache[s].page, Len(ring.cmds) + 1)

\* A draw of a texture left alone comes after the STAGE it depends on.
FlightInOrder == busy => \A j \in DOMAIN flight.cmds :
  j > pos /\ flight.cmds[j].op = "draw" /\ Live(flight.cmds[j]) =>
    Copied(flight.cmds[j].page) \/ InFlightStage(flight.cmds[j].page, j)
RingInOrder == Publishable => \A j \in DOMAIN ring.cmds :
  ring.cmds[j].op = "draw" /\ Live(ring.cmds[j]) =>
  \/ Copied(ring.cmds[j].page) \/ StageAhead(ring.cmds[j].page)
  \/ RingStage(ring.cmds[j].page, j)

CopyInv == CopyComes /\ FlightInOrder /\ RingInOrder

-----------------------------------------------------------------------------
(* The emitter and the choice of a page.                                   *)

LEMMA Least ==
  ASSUME NEW S \in SUBSET Nat, S # {} PROVE \E m \in S : \A n \in S : m <= n
<1> DEFINE R == {ss \in Nat \X Nat : ss[1] < ss[2]}
<1>1. IsWellFoundedOn(R, Nat)
  BY NatLessThanWellFounded, Zenon DEF OpToRel
<1>2. PICK x \in S : \A y \in S : ~ (<<y, x>> \in R)
  <2> HIDE DEF R
  <2> QED BY <1>1, WFMin
<1>3. \A y \in S : ~(y < x)
  BY <1>2
<1> QED BY <1>3

\* q is r with some of the commands new after it; what has overflowed stays so.
Grows(r, q, new) ==
  /\ q \in Rings
  /\ Len(r.cmds) <= Len(q.cmds)
  /\ Len(r.cmds) <= RingCap => Len(q.cmds) <= RingCap
  /\ \A i \in DOMAIN r.cmds : i \in DOMAIN q.cmds /\ q.cmds[i] = r.cmds[i]
  /\ \A i \in DOMAIN q.cmds : i \in DOMAIN r.cmds \/ (i > Len(r.cmds) /\ q.cmds[i] \in new)
  /\ r.overflow => q.overflow

LEMMA PutGrows ==
  ASSUME NEW r \in Rings, NEW c \in Commands
  PROVE  /\ Grows(r, Put(r, c), {c})
         /\ ~Put(r, c).overflow =>
              ~Full(r) /\ Len(Put(r, c).cmds) = Len(r.cmds) + 1
                /\ Put(r, c).cmds[Len(r.cmds) + 1] = c
         /\ ~Full(r) => Put(r, c).cmds[Len(r.cmds) + 1] = c
              /\ Len(Put(r, c).cmds) = Len(r.cmds) + 1
<1> USE ResidencyAssumption DEF ResidencyAssumption, Rings
<1>1. CASE Full(r)
  <2>1. Put(r, c) = [cmds |-> r.cmds, overflow |-> TRUE]
    BY <1>1 DEF Put, Overflowed
  <2>2. Len(r.cmds) \in Nat
    OBVIOUS
  <2> HIDE DEF Put
  <2> QED BY <1>1, <2>1, <2>2 DEF Grows
<1>2. CASE ~Full(r)
  <2>1. /\ Append(r.cmds, c) \in Seq(Commands)
        /\ Len(Append(r.cmds, c)) = Len(r.cmds) + 1
        /\ Append(r.cmds, c)[Len(r.cmds) + 1] = c
        /\ \A i \in DOMAIN r.cmds : Append(r.cmds, c)[i] = r.cmds[i]
        /\ DOMAIN Append(r.cmds, c) = 1 .. Len(r.cmds) + 1
        /\ DOMAIN r.cmds = 1 .. Len(r.cmds) /\ Len(r.cmds) \in Nat
    OBVIOUS
  <2>2. Put(r, c) = [cmds |-> Append(r.cmds, c), overflow |-> r.overflow]
    BY <1>2 DEF Put
  <2> HIDE DEF Put
  <2> QED BY <1>2, <2>1, <2>2 DEF Grows, Full
<1> QED BY <1>1, <1>2

LEMMA GrowsOn ==
  ASSUME NEW r, r \in Rings, NEW q, NEW t, NEW A, NEW B, Grows(r, q, A), Grows(q, t, B)
  PROVE  Grows(r, t, A \union B)
<1>1. Len(r.cmds) \in Nat /\ Len(q.cmds) \in Nat /\ Len(t.cmds) \in Nat
      /\ DOMAIN r.cmds = 1 .. Len(r.cmds) /\ DOMAIN q.cmds = 1 .. Len(q.cmds)
  BY DEF Grows, Rings
<1> QED BY <1>1, ResidencyAssumption DEF Grows, ResidencyAssumption

OpenDraw  == [op |-> "draw", page |-> open.page, want |-> open.want]
OpenDraws == IF open = NoBatch THEN {} ELSE {OpenDraw}

LEMMA FlushGrows ==
  ASSUME TypeOK, NEW r \in Rings PROVE Grows(r, FlushOnto(r), OpenDraws)
<1>1. CASE open = NoBatch
  BY <1>1 DEF FlushOnto, OpenDraws, Grows, Rings
<1>2. CASE open # NoBatch
  <2>1. OpenDraw \in Commands
    BY <1>2 DEF TypeOK, Batch, OpenDraw, Commands, Command
  <2> QED BY <1>2, <2>1, PutGrows DEF FlushOnto, OpenDraws, OpenDraw
<1> QED BY <1>1, <1>2

LEMMA ClosedGrows ==
  ASSUME TypeOK, ring \in Rings
  PROVE  /\ Grows(ring, Closed, OpenDraws \union {EndCommand})
         /\ ~Closed.overflow => /\ ~ring.overflow
                                /\ Len(Closed.cmds) > Len(ring.cmds)
                                /\ Closed.cmds[Len(Closed.cmds)] = EndCommand
                                /\ \A i \in DOMAIN Closed.cmds :
                                     i < Len(Closed.cmds) /\ i > Len(ring.cmds)
                                       => Closed.cmds[i] \in OpenDraws
<1> DEFINE f == FlushOnto(ring)
<1>1. Grows(ring, f, OpenDraws) /\ f \in Rings
  BY FlushGrows DEF Grows
<1>2. EndCommand \in Commands /\ Closed = Put(f, EndCommand)
  BY DEF Commands, Closed
<1> HIDE DEF f
<1>3. Grows(f, Closed, {EndCommand})
  BY <1>1, <1>2, PutGrows
<1>4. Grows(ring, Closed, OpenDraws \union {EndCommand})
  BY <1>1, <1>3, GrowsOn
<1>5. ASSUME ~Closed.overflow
      PROVE  /\ Len(Closed.cmds) = Len(f.cmds) + 1
                  /\ Closed.cmds[Len(f.cmds) + 1] = EndCommand
             /\ ~f.overflow
    BY <1>1, <1>2, <1>3, <1>5, PutGrows DEF Grows
<1>6. Len(f.cmds) \in Nat /\ Len(ring.cmds) \in Nat
      /\ DOMAIN f.cmds = 1 .. Len(f.cmds) /\ DOMAIN ring.cmds = 1 .. Len(ring.cmds)
  BY <1>1 DEF Rings
<1>7. DOMAIN Closed.cmds = 1 .. Len(Closed.cmds)
  BY <1>3 DEF Grows, Rings
<1>8. ~Closed.overflow => ~ring.overflow /\ Len(Closed.cmds) > Len(ring.cmds)
                          /\ Closed.cmds[Len(Closed.cmds)] = EndCommand
  BY <1>1, <1>5, <1>6 DEF Grows
<1>9. ASSUME ~Closed.overflow, NEW i \in DOMAIN Closed.cmds,
             i < Len(Closed.cmds), i > Len(ring.cmds)
      PROVE  Closed.cmds[i] \in OpenDraws
  <2>1. i \in DOMAIN f.cmds /\ i \notin DOMAIN ring.cmds
    BY <1>5, <1>6, <1>7, <1>9
  <2> QED BY <1>1, <1>3, <2>1 DEF Grows
<1> QED BY <1>4, <1>8, <1>9

LEMMA SlotsAre ==
  ASSUME TypeOK
  PROVE  /\ Slots \subseteq Nat /\ 1 \in Slots
         /\ cache = [s \in Slots |-> cache[s]]
         /\ \A s \in Slots : cache[s] \in Entry \union {Unused}
         /\ \A s \in Slots : Occupied(s) => /\ cache[s] \in Entry /\ cache[s].page \in Pages
                                        /\ cache[s].key \in Keys /\ cache[s].lru \in Nat
<1>1. PICK n \in SlotCounts : cache \in [1 .. n -> Entry \union {Unused}]
  BY DEF TypeOK
<1>2. n \in Nat \ {0}
  BY ResidencyAssumption DEF ResidencyAssumption
<1> QED BY <1>1, <1>2 DEF Slots, Occupied, Entry

LEMMA OldestIn ==
  ASSUME NEW c, NEW S, S # {}, \A s \in S : c[s].lru \in Nat PROVE Oldest(c, S) \in S
<1>1. PICK m \in {c[s].lru : s \in S} : \A n \in {c[s].lru : s \in S} : m <= n
  <2>1. {c[s].lru : s \in S} \in SUBSET Nat /\ {c[s].lru : s \in S} # {}
    OBVIOUS
  <2> QED BY <2>1, Least
<1>2. \E s \in S : \A r \in S : c[s].lru <= c[r].lru
  BY <1>1
<1> QED BY <1>2 DEF Oldest

LEMMA LowestIn ==
  ASSUME NEW S \in SUBSET Nat, S # {} PROVE Lowest(S) \in S
  BY Least DEF Lowest

\* Where an upload goes: to a free page, or to that of the entry it evicts.
LEMMA UploadGoes ==
  ASSUME HeapInv, CanUpload
  PROVE  /\ UploadPage \in Pages
         /\ DOMAIN AfterEvict = Slots /\ SlotFor \in Slots
         /\ \A s \in Slots :
              \/ AfterEvict[s] = cache[s]
              \/ /\ AfterEvict[s] = Unused /\ Occupied(s)
                 /\ cache[s].page = UploadPage /\ cache[s].lru <= evictFloor
         /\ \A s \in Slots : AfterEvict[s] # Unused => cache[s].page # UploadPage
         /\ UploadPage \in free \/ free = {}
         /\ \A s \in Slots : Occupied(s) /\ cache[s].page = UploadPage
              => cache[s].lru <= evictFloor
         /\ AfterEvict[SlotFor] # Unused => AfterEvict = cache /\ UploadPage \in free
<1> USE DEF HeapInv
<1>0. free \subseteq Pages /\ Pages \subseteq Nat
  BY ResidencyAssumption DEF TypeOK, Pages, ResidencyAssumption
<1>1. CASE free # {}
  <2>1. UploadPage \in free /\ AfterEvict = cache
    BY <1>0, <1>1, LowestIn DEF UploadPage, AfterEvict
  <2>2. SlotFor \in Slots
    <3>1. CASE \E s \in Slots : AfterEvict[s] = Unused
      BY <3>1, SlotsAre, LowestIn DEF SlotFor
    <3>2. CASE ~ \E s \in Slots : AfterEvict[s] = Unused
      <4>1. \A s \in Slots : AfterEvict[s].lru \in Nat
        BY <2>1, <3>2, SlotsAre DEF Occupied
      <4> QED BY <3>2, <4>1, SlotsAre, OldestIn DEF SlotFor
    <3> QED BY <3>1, <3>2
  <2> QED BY <1>0, <2>1, <2>2 DEF PagesOwned, Occupied, Slots
<1>2. CASE free = {}
  <2> DEFINE e == Oldest(cache, Evictable)
  <2>1. e \in Evictable
    BY <1>2, SlotsAre, OldestIn DEF CanUpload, Evictable, Occupied
  <2>2. UploadPage = cache[e].page /\ AfterEvict = [cache EXCEPT ![e] = Unused]
    BY <1>2 DEF UploadPage, AfterEvict
  <2>3. e \in Slots /\ Occupied(e) /\ cache[e].lru <= evictFloor
    BY <2>1 DEF Evictable, Occupied
  <2> HIDE DEF e
  <2>4. DOMAIN AfterEvict = Slots /\ AfterEvict[e] = Unused
        /\ \A s \in Slots : s # e => AfterEvict[s] = cache[s]
    BY <2>2, <2>3 DEF Slots
  <2>5. SlotFor \in Slots /\ AfterEvict[SlotFor] = Unused
    BY <2>3, <2>4, SlotsAre, LowestIn DEF SlotFor
  <2>6. \A s \in Slots : Occupied(s) /\ cache[s].page = UploadPage => s = e
    BY <2>2, <2>3 DEF PagesOwned
  <2> QED BY <1>2, <2>2, <2>3, <2>4, <2>5, <2>6, SlotsAre DEF Occupied
<1> QED BY <1>1, <1>2

LEMMA GroupGrows ==
  ASSUME TypeOK, NEW r \in Rings, NEW p \in Pages, NEW t \in Texels, Group(r, p, t)
  PROVE  /\ Grows(r, ring', OpenDraws)
         /\ open' \in Batch /\ open'.page = p
         /\ Merges(p) => ring' = r /\ open'.want = open.want \union {t}
         /\ ~Merges(p) => open'.want = {t}
<1>1. CASE Merges(p)
  <2>1. open \in Batch
    BY <1>1 DEF Merges, TypeOK
  <2>2. Grows(r, r, OpenDraws)
    BY DEF Grows, Rings
  <2> QED BY <1>1, <2>1, <2>2 DEF Group, Batch, Merges
<1>2. CASE ~Merges(p)
  BY <1>2, FlushGrows DEF Group, Batch
<1> QED BY <1>1, <1>2

LEMMA StageIsCommand ==
  ASSUME NEW p \in Pages, NEW t \in Texels
  PROVE  StageOf(p, t) \in Commands /\ StageOf(p, t) # EndCommand
  BY DEF StageOf, Commands, Command, EndCommand

LEMMA DrawIsCommand ==
  ASSUME TypeOK, NEW c \in OpenDraws
  PROVE  /\ c \in Commands /\ c # EndCommand /\ open # NoBatch
         /\ c.op = "draw" /\ c.page = open.page /\ c.want = open.want
  BY DEF OpenDraws, OpenDraw, TypeOK, Batch, Commands, Command, EndCommand

\* A miss puts the STAGE in the ring, or overflows it, and may flush behind it.
LEMMA MissGrows ==
  ASSUME HeapInv, NEW k \in Keys, DrawMiss(k)
  PROVE  /\ TexelsOf(k) \in Texels
         /\ Grows(ring, ring', {StageOf(UploadPage, TexelsOf(k))} \union OpenDraws)
         /\ open' \in Batch /\ open'.page = UploadPage
         /\ Merges(UploadPage) => open'.want = open.want \union {TexelsOf(k)}
         /\ ~Merges(UploadPage) => open'.want = {TexelsOf(k)}
         /\ ~Full(ring) => Stages(ring'.cmds, Len(ring.cmds) + 1, UploadPage)
         /\ ~ring'.overflow => ~Full(ring) /\ ~ring.overflow
<1> DEFINE c == StageOf(UploadPage, TexelsOf(k))
           r == Put(ring, c)
<1>1. UploadPage \in Pages
  BY UploadGoes DEF DrawMiss
<1>2. TexelsOf(k) \in Texels
  BY DEF TexelsOf, Texels, HeapInv, TypeOK
<1>3. c \in Commands
  BY <1>1, <1>2, StageIsCommand
<1>4. c.op = "stage" /\ c.page = UploadPage
  BY DEF StageOf
<1>5. ring \in Rings /\ Group(r, UploadPage, TexelsOf(k))
  BY DEF DrawMiss, WithStage, HeapInv, Shapes
<1> HIDE DEF c
<1>6. /\ Grows(ring, r, {c})
      /\ ~r.overflow => ~Full(ring)
      /\ ~Full(ring) => r.cmds[Len(ring.cmds) + 1] = c /\ Len(r.cmds) = Len(ring.cmds) + 1
  BY <1>3, <1>5, PutGrows
<1> HIDE DEF r
<1>7. r \in Rings
  BY <1>6 DEF Grows
<1>8. /\ Grows(r, ring', OpenDraws) /\ open' \in Batch /\ open'.page = UploadPage
      /\ Merges(UploadPage) => open'.want = open.want \union {TexelsOf(k)}
      /\ ~Merges(UploadPage) => open'.want = {TexelsOf(k)}
  BY <1>1, <1>2, <1>5, <1>7, GroupGrows DEF HeapInv
<1>9. Grows(ring, ring', {c} \union OpenDraws)
  BY <1>5, <1>6, <1>8, GrowsOn
<1>10. ASSUME ~Full(ring) PROVE Stages(ring'.cmds, Len(ring.cmds) + 1, UploadPage)
  <2>1. Len(ring.cmds) + 1 \in DOMAIN r.cmds
    BY <1>5, <1>6, <1>7, <1>10 DEF Rings
  <2> QED BY <1>4, <1>6, <1>8, <1>10, <2>1 DEF Grows, Stages
<1> QED BY <1>2, <1>6, <1>8, <1>9, <1>10 DEF Grows, c

LEMMA RingStaysShaped ==
  ASSUME HeapInv, NEW new, Grows(ring, ring', new), EndCommand \notin new,
         Publishable' => Recorded
  PROVE  /\ ring' \in Rings /\ Len(ring'.cmds) <= RingCap /\ ring'.overflow \in BOOLEAN
         /\ Publishable' => \A i \in DOMAIN ring'.cmds : ring'.cmds[i] # EndCommand
<1>1. Publishable' => Publishable
  BY DEF Publishable, Grows
<1>2. Len(ring.cmds) <= RingCap
  BY DEF HeapInv, TypeOK
<1> QED BY <1>1, <1>2 DEF HeapInv, Shapes, Grows, Rings

-----------------------------------------------------------------------------
(* Types and the ownership of pages.                                       *)

LEMMA InitHeap == Init => HeapInv
<1> SUFFICES ASSUME Init PROVE HeapInv
  OBVIOUS
<1>1. PICK n \in SlotCounts : cache = [s \in 1 .. n |-> Unused]
  BY DEF Init
<1>2. ring \in Rings /\ flight \in [cmds : Seq(Commands), arena : {0, 1}]
      /\ Len(flight.cmds) <= RingCap
  BY ResidencyAssumption DEF Init, EmptyRing, Rings, ResidencyAssumption
<1>3. Len(ring.cmds) = 0 /\ ring.overflow = FALSE /\ DOMAIN ring.cmds = {}
  BY DEF Init, EmptyRing
<1>4. TypeOK
  <2>1. \E m \in SlotCounts : cache \in [1 .. m -> Entry \union {Unused}]
    BY <1>1
  <2>2. ver \in [Keys -> 0 .. MaxVer] /\ clock \in 0 .. MaxClock /\ pos \in 0 .. RingCap
        /\ Len(ring.cmds) <= RingCap /\ evictFloor \in 0 .. frameFloor
             /\ frameFloor \in 0 .. clock
    BY <1>3, ResidencyAssumption DEF Init, ResidencyAssumption
  <2>3. heap \in [Pages -> Texels \union {Blank}]
          /\ sdram \in [Pages -> Texels \union {Blank}]
    BY DEF Init
  <2>4. open \in Batch \union {NoBatch} /\ flight.arena \in {0, 1}
          /\ ring.overflow \in BOOLEAN
        /\ hpc \in {"idle", "build"} /\ dropped \in BOOLEAN /\ arena \in {0, 1}
        /\ free \subseteq Pages /\ lost \subseteq Pages /\ busy = FALSE
    BY <1>2, <1>3 DEF Init
  <2> QED BY <2>1, <2>2, <2>3, <2>4 DEF TypeOK
<1>5. Shapes
  BY <1>2, <1>3 DEF Init, Shapes
<1>6. PagesOwned
  BY <1>1 DEF Init, PagesOwned, Occupied, Slots
<1> QED BY <1>4, <1>5, <1>6 DEF HeapInv

\* The parts of HeapInv that an action of the cache can disturb.
SlotTypes == \E n \in SlotCounts : cache \in [1 .. n -> Entry \union {Unused}]
RingShaped == ring \in Rings /\ Len(ring.cmds) <= RingCap
              /\ (Publishable => \A i \in DOMAIN ring.cmds : ring.cmds[i] # EndCommand)

LEMMA CacheStep ==
  ASSUME HeapInv, UNCHANGED <<frameVars, floorVars, flight, fabricVars>>,
         SlotTypes', RingShaped', PagesOwned',
         open' \in Batch \union {NoBatch}, free' \subseteq Pages,
         clock' \in 0 .. MaxClock, clock <= clock', ver' \in [Keys -> 0 .. MaxVer],
         heap' \in [Pages -> Texels \union {Blank}], lost' \subseteq Pages
  PROVE  HeapInv'
<1>1. frameFloor' \in 0 .. clock' /\ evictFloor' \in 0 .. frameFloor'
  <2>1. clock \in Nat /\ clock' \in Nat /\ frameFloor \in 0 .. clock
          /\ evictFloor \in 0 .. frameFloor
    BY DEF HeapInv, TypeOK
  <2> QED BY <2>1 DEF floorVars
<1>2. TypeOK'
  BY <1>1
     DEF HeapInv, TypeOK, frameVars, floorVars, fabricVars, SlotTypes, RingShaped, Rings
<1>3. Shapes'
  BY DEF HeapInv, Shapes, fabricVars, RingShaped
<1> QED BY <1>2, <1>3 DEF HeapInv

LEMMA HitKeepsHeap ==
  ASSUME HeapInv, NEW k \in Keys, DrawHit(k) PROVE HeapInv'
<1>1. PICK s \in Holding(k) : cache' = TouchedBy(s)
        /\ Group(ring, cache[s].page, TexelsOf(k))
  BY DEF DrawHit
<1>2. s \in Slots /\ Occupied(s) /\ cache[s] \in Entry /\ cache[s].page \in Pages
  BY SlotsAre DEF Holding, Occupied, HeapInv
<1>3. clock \in Nat /\ clock' = clock + 1 /\ clock' \in 1 .. MaxClock
  BY ResidencyAssumption DEF ResidencyAssumption, DrawHit, CanDraw, HeapInv, TypeOK
<1>4. cache' = [cache EXCEPT ![s] = [key |-> cache[s].key, page |-> cache[s].page, lru |-> clock']]
  <2>1. [cache[s] EXCEPT !.lru = clock'] =
          [key |-> cache[s].key, page |-> cache[s].page, lru |-> clock']
    BY <1>2 DEF Entry
  <2>2. cache' = [cache EXCEPT ![s] = [cache[s] EXCEPT !.lru = clock']]
    BY <1>1, <1>2, <1>3 DEF TouchedBy, Touch
  <2> QED BY <2>1, <2>2
<1>5. SlotTypes'
  BY <1>2, <1>3, <1>4 DEF HeapInv, TypeOK, SlotTypes, Entry
<1>6. Slots' = Slots /\ \A r \in Slots : /\ Occupied(r)' <=> Occupied(r)
                                         /\ cache'[r].page = cache[r].page
  BY <1>2, <1>4, ResidencyAssumption DEF Slots, Occupied, Unused, Entry, ResidencyAssumption
<1>7. PagesOwned'
  BY <1>6 DEF HeapInv, PagesOwned, DrawHit
<1>8. TexelsOf(k) \in Texels
  BY DEF TexelsOf, Texels, HeapInv, TypeOK
<1>9. RingShaped' /\ open' \in Batch
  <2>1. ring \in Rings
    BY DEF HeapInv, Shapes
  <2>2. Grows(ring, ring', OpenDraws) /\ open' \in Batch
    BY <1>1, <1>2, <1>8, <2>1, GroupGrows DEF HeapInv
  <2>3. EndCommand \notin OpenDraws
    BY DrawIsCommand DEF HeapInv
  <2> QED BY <2>2, <2>3, RingStaysShaped DEF RingShaped, DrawHit, CanDraw, Recorded
<1> QED
  BY <1>3, <1>5, <1>7, <1>9, CacheStep DEF HeapInv, TypeOK, DrawHit

LEMMA OverflowShaped ==
  ASSUME HeapInv, NEW r \in Rings, Len(r.cmds) <= RingCap, ring' = Overflowed(r)
  PROVE  RingShaped'
  BY DEF Overflowed, RingShaped, Rings, Publishable

LEMMA RefusedKeepsHeap ==
  ASSUME HeapInv, NEW k \in Keys, DrawRefused(k) PROVE HeapInv'
<1>1. RingShaped'
  BY OverflowShaped DEF DrawRefused, HeapInv, TypeOK, Shapes
<1>2. SlotTypes' /\ PagesOwned'
  BY DEF HeapInv, TypeOK, SlotTypes, DrawRefused, cacheVars, PagesOwned, Occupied, Slots
<1> QED BY <1>1, <1>2, CacheStep DEF HeapInv, TypeOK, DrawRefused, cacheVars

LEMMA CacheFullKeepsHeap ==
  ASSUME HeapInv, NEW k \in Keys, DrawCacheFull(k) PROVE HeapInv'
<1>1. UploadPage \in Pages /\ AfterEvict = cache /\ UploadPage \in free
  BY UploadGoes DEF DrawCacheFull, SlotUsable
<1>2. cache' = cache /\ free' = free
  BY <1>1 DEF DrawCacheFull, PageReturned
<1>3. TexelsOf(k) \in Texels
  BY DEF TexelsOf, Texels, HeapInv, TypeOK
<1>4. RingShaped'
  <2>1. ring \in Rings /\ Len(ring.cmds) <= RingCap
    BY DEF HeapInv, Shapes, TypeOK
  <2>2. Grows(ring, Put(ring, StageOf(UploadPage, TexelsOf(k))), {StageOf(UploadPage, TexelsOf(k))})
    BY <1>1, <1>3, <2>1, StageIsCommand, PutGrows
  <2> QED BY <2>1, <2>2, OverflowShaped DEF Grows, DrawCacheFull
<1>5. SlotTypes' /\ PagesOwned'
  BY <1>2 DEF HeapInv, TypeOK, SlotTypes, PagesOwned, Occupied, Slots
<1>6. heap' \in [Pages -> Texels \union {Blank}]
  BY <1>1, <1>3 DEF HeapInv, TypeOK, DrawCacheFull
<1> QED BY <1>2, <1>4, <1>5, <1>6, CacheStep DEF HeapInv, TypeOK, DrawCacheFull

\* What a miss does to the slots.
SlotsMissed(k) ==
  /\ Slots' = Slots /\ SlotFor \in Slots
  /\ cache'[SlotFor] = [key |-> k, page |-> UploadPage, lru |-> clock + 1]
  /\ cache'[SlotFor] # Unused
  /\ \A s \in Slots \ {SlotFor} :
       /\ cache'[s] # Unused => cache[s] # Unused /\ cache'[s] = cache[s]
            /\ cache[s].page # UploadPage
       /\ cache[s] # Unused => cache'[s] # Unused \/ cache[s].page = UploadPage
  /\ \A s \in Slots : cache[s] # Unused /\ cache'[s] # cache[s]
       => cache[s].lru <= evictFloor

LEMMA MissSlots ==
  ASSUME HeapInv, NEW k \in Keys, DrawMiss(k) PROVE SlotsMissed(k)
<1>1. CanUpload /\ SlotUsable
      /\ cache' = [AfterEvict EXCEPT ![SlotFor] = [key |-> k, page |-> UploadPage, lru |-> clock + 1]]
  BY DEF DrawMiss
<1>2. Slots' = Slots
        /\ cache'[SlotFor] = [key |-> k, page |-> UploadPage, lru |-> clock + 1]
      /\ \A s \in Slots : s # SlotFor => cache'[s] = AfterEvict[s]
  BY <1>1, UploadGoes DEF Slots
<1>3. cache'[SlotFor] # Unused
  BY <1>2, ResidencyAssumption DEF Unused, ResidencyAssumption
<1>4. \A s \in Slots \ {SlotFor} :
        /\ cache'[s] # Unused => cache[s] # Unused /\ cache'[s] = cache[s]
             /\ cache[s].page # UploadPage
        /\ cache[s] # Unused =>
             \/ cache'[s] = cache[s]
             \/ cache[s].page = UploadPage /\ cache[s].lru <= evictFloor
  BY <1>1, <1>2, UploadGoes DEF Occupied
<1>5. cache[SlotFor] # Unused => cache[SlotFor].lru <= evictFloor
  BY <1>1, UploadGoes DEF SlotUsable
<1>6. SlotFor \in Slots
  BY <1>1, UploadGoes
<1> QED BY <1>2, <1>3, <1>4, <1>5, <1>6 DEF SlotsMissed

LEMMA MissKeepsHeap ==
  ASSUME HeapInv, NEW k \in Keys, DrawMiss(k) PROVE HeapInv'
<1>0. SlotsMissed(k)
  BY MissSlots
<1>1. CanUpload /\ UploadPage \in Pages
  BY UploadGoes DEF DrawMiss
<1>2. clock \in Nat /\ clock' = clock + 1 /\ clock' \in 1 .. MaxClock
  BY ResidencyAssumption DEF ResidencyAssumption, DrawMiss, Misses, CanDraw, HeapInv, TypeOK
<1>3. SlotTypes'
  <2>1. PICK n \in SlotCounts : cache \in [1 .. n -> Entry \union {Unused}]
    BY DEF HeapInv, TypeOK
  <2>2. DOMAIN cache' = 1 .. n
    BY <2>1, <1>0 DEF SlotsMissed, Slots
  <2>3. \A s \in 1 .. n : cache'[s] \in Entry \union {Unused}
    <3>1. cache'[SlotFor] \in Entry
      BY <1>0, <1>1, <1>2 DEF SlotsMissed, Entry
    <3>2. \A s \in 1 .. n : s # SlotFor => cache'[s] = Unused \/ cache'[s] = cache[s]
      BY <1>0, <2>1 DEF SlotsMissed, Slots
    <3> QED BY <2>1, <3>1, <3>2
  <2>4. cache' = [s \in 1 .. n |-> cache'[s]]
    BY <1>1, <2>1, <2>2, UploadGoes DEF DrawMiss
  <2> QED BY <2>2, <2>3, <2>4 DEF SlotTypes
<1>4. RingShaped' /\ open' \in Batch
  <2>1. Grows(ring, ring', {StageOf(UploadPage, TexelsOf(k))} \union OpenDraws)
        /\ TexelsOf(k) \in Texels /\ open' \in Batch
    BY MissGrows
  <2>2. EndCommand \notin {StageOf(UploadPage, TexelsOf(k))} \union OpenDraws
    BY <1>1, <2>1, DrawIsCommand, StageIsCommand DEF HeapInv
  <2> QED BY <2>1, <2>2, RingStaysShaped DEF RingShaped, DrawMiss, Misses, CanDraw, Recorded
<1>5. PagesOwned' /\ free' \subseteq Pages
  <2>1. free' = (free \ {UploadPage}) \union ReplacedPage
    BY DEF DrawMiss
  <2>2. \A s \in Slots : Occupied(s) /\ s # SlotFor => cache[s].page \notin ReplacedPage
    BY <1>1, UploadGoes DEF ReplacedPage, HeapInv, PagesOwned, Occupied
  <2>3. UploadPage \notin ReplacedPage /\ ReplacedPage \subseteq Pages
    BY <1>1, UploadGoes, SlotsAre DEF ReplacedPage, HeapInv, PagesOwned, Occupied
  <2>4. \A s \in Slots' : Occupied(s)' => cache'[s].page \notin free'
    BY <2>1, <2>2, <2>3, <1>0 DEF SlotsMissed, HeapInv, PagesOwned, Occupied
  <2>5. \A s, r \in Slots' : Occupied(s)' /\ Occupied(r)' /\ cache'[s].page = cache'[r].page
          => s = r
    BY <1>0 DEF SlotsMissed, HeapInv, PagesOwned, Occupied
  <2>6. ASSUME NEW p \in Pages \ free'
        PROVE  \E s \in Slots' : Occupied(s)' /\ cache'[s].page = p
    <3>1. CASE p = UploadPage
      BY <1>1, <3>1, <1>0 DEF SlotsMissed, Occupied
    <3>2. CASE p # UploadPage
      <4>1. PICK s \in Slots : Occupied(s) /\ cache[s].page = p
        BY <2>1, <2>6, <3>2 DEF HeapInv, PagesOwned
      <4>2. s # SlotFor
        <5>1. ASSUME s = SlotFor PROVE FALSE
          <6>1. AfterEvict[s] # Unused
            BY <1>1, <3>2, <4>1, UploadGoes DEF Occupied
          <6>2. AfterEvict = cache
            BY <1>1, <5>1, <6>1, UploadGoes
          <6> QED BY <2>1, <2>6, <4>1, <5>1, <6>1, <6>2 DEF ReplacedPage
        <5> QED BY <5>1
      <4> QED BY <3>2, <4>1, <4>2, <1>0 DEF SlotsMissed, Occupied
    <3> QED BY <3>1, <3>2
  <2>7. free' \subseteq Pages
    BY <2>1, <2>3 DEF HeapInv, TypeOK
  <2> QED BY <2>4, <2>5, <2>6, <2>7 DEF PagesOwned
<1>6. heap' \in [Pages -> Texels \union {Blank}] /\ lost' \subseteq Pages
  BY <1>1, MissGrows DEF HeapInv, TypeOK, DrawMiss
<1>7. ver' = ver /\ ver \in [Keys -> 0 .. MaxVer]
      /\ UNCHANGED <<frameVars, floorVars, flight, fabricVars>>
  BY DEF DrawMiss, HeapInv, TypeOK
<1>8. clock' \in 0 .. MaxClock /\ clock <= clock'
  BY <1>2
<1> QED BY <1>3, <1>4, <1>5, <1>6, <1>7, <1>8, CacheStep

LEMMA InvalidateKeepsHeap ==
  ASSUME HeapInv, NEW k \in Keys, InvalidateTex(k) PROVE HeapInv'
<1>1. cache' = [s \in Slots |-> IF s \in Holding(k) THEN Unused ELSE cache[s]]
      /\ free' = free \union FreedPages(k) /\ ver' = [ver EXCEPT ![k] = @ + 1]
      /\ ver[k] < MaxVer
  BY DEF InvalidateTex
<1>2. Slots' = Slots
  BY <1>1 DEF Slots
<1>3. SlotTypes'
  BY <1>1 DEF HeapInv, TypeOK, SlotTypes, Slots
<1>4. PagesOwned'
  <2>1. \A s \in Slots : Occupied(s)' => Occupied(s) /\ cache'[s] = cache[s] /\ s \notin Holding(k)
    BY <1>1, <1>2 DEF Occupied
  <2>2. \A s \in Slots : Occupied(s) =>
          \/ Occupied(s)' /\ cache'[s] = cache[s]
          \/ cache[s].page \in FreedPages(k)
    BY <1>1, <1>2 DEF Occupied, FreedPages
  <2>3. \A s \in Slots : Occupied(s)' => cache[s].page \notin FreedPages(k)
    BY <2>1 DEF FreedPages, HeapInv, PagesOwned, Holding, Occupied
  <2> QED BY <1>1, <1>2, <2>1, <2>2, <2>3 DEF HeapInv, PagesOwned
<1>5. free' \subseteq Pages
  BY <1>1, SlotsAre DEF FreedPages, Holding, Occupied, HeapInv, TypeOK
<1>6. ver' \in [Keys -> 0 .. MaxVer]
  <2>1. ver \in [Keys -> 0 .. MaxVer] /\ ver[k] + 1 \in 0 .. MaxVer
    BY <1>1, ResidencyAssumption DEF HeapInv, TypeOK, ResidencyAssumption
  <2> QED BY <1>1, <2>1
<1>7. RingShaped'
  BY DEF InvalidateTex, HeapInv, TypeOK, Shapes, RingShaped, Publishable, Recorded,
     emitVars, frameVars
<1> QED
  BY <1>3, <1>4, <1>5, <1>6, <1>7, CacheStep DEF HeapInv, TypeOK, InvalidateTex, emitVars

LEMMA OwnedStays ==
  ASSUME PagesOwned, UNCHANGED <<cache, free>> PROVE PagesOwned'
  BY DEF PagesOwned, Occupied, Slots

LEMMA FrameKeepsHeap ==
  ASSUME HeapInv, FrameBeginDrop \/ FrameBegin \/ FrameEndDropped \/ FrameEndLost
           \/ FrameEndPublish
  PROVE  HeapInv'
<1> USE DEF HeapInv
<1>1. CASE FrameBeginDrop
  <2>1. PagesOwned'
    BY <1>1, OwnedStays DEF FrameBeginDrop, cacheVars
  <2> QED BY <1>1, <2>1
       DEF FrameBeginDrop, TypeOK, Shapes, Publishable, Recorded, emitVars, cacheVars, floorVars, fabricVars
<1>2. CASE FrameBegin
  <2>1. PagesOwned'
    BY <1>2, OwnedStays DEF FrameBegin, cacheVars
  <2>2. /\ ring' \in Rings /\ Len(ring'.cmds) <= RingCap /\ ring'.overflow \in BOOLEAN
        /\ DOMAIN ring'.cmds = {}
    BY <1>2, ResidencyAssumption DEF FrameBegin, EmptyRing, Rings, ResidencyAssumption
  <2>3. frameFloor' \in 0 .. clock' /\ evictFloor' \in 0 .. frameFloor'
    BY <1>2 DEF FrameBegin, RetireFloors, cacheVars, TypeOK
  <2>4. arena' \in {0, 1} /\ hpc' = "build" /\ dropped' = FALSE /\ open' = NoBatch
        /\ UNCHANGED <<cache, free, clock, ver, heap, flight, sdram, busy, pos, lost>>
    BY <1>2 DEF FrameBegin, TypeOK, cacheVars, fabricVars
  <2>5. TypeOK'
    BY <2>2, <2>3, <2>4 DEF TypeOK
  <2> QED BY <2>1, <2>2, <2>4, <2>5 DEF Shapes
<1>3. CASE FrameEndDropped
  <2>1. PagesOwned'
    BY <1>3, OwnedStays DEF FrameEndDropped, cacheVars
  <2> QED BY <1>3, <2>1
       DEF FrameEndDropped, TypeOK, Shapes, Publishable, Recorded, cacheVars, floorVars, fabricVars
<1>4. ring \in Rings /\ Len(ring.cmds) <= RingCap
        /\ Grows(ring, Closed, OpenDraws \union {EndCommand})
  BY ClosedGrows DEF Shapes, TypeOK
<1>5. Closed \in Rings /\ Len(Closed.cmds) <= RingCap
  BY <1>4 DEF Grows
<1>6. CASE FrameEndLost
  <2>1. PagesOwned'
    BY <1>6, OwnedStays DEF FrameEndLost, cacheVars
  <2>2. Staged(Closed) \subseteq Pages
    <3> SUFFICES ASSUME NEW i \in 1 .. Len(Closed.cmds), Closed.cmds[i].op = "stage"
                 PROVE  Closed.cmds[i].page \in Pages
      BY DEF Staged
    <3>1. Closed.cmds[i] \in Commands
      BY <1>5 DEF Rings
    <3> QED BY <3>1 DEF Commands, Command, EndCommand
  <2>3. ring' = Closed /\ hpc' = "idle" /\ open' = NoBatch /\ dropped' \in BOOLEAN
        /\ lost' = lost \union Staged(Closed)
    BY <1>6 DEF FrameEndLost
  <2>4. TypeOK'
    BY <1>5, <1>6, <2>2, <2>3
       DEF FrameEndLost, TypeOK, Rings, cacheVars, floorVars, fabricVars
  <2> QED BY <1>5, <1>6, <2>1, <2>3, <2>4
             DEF FrameEndLost, Shapes, Publishable, Recorded, fabricVars
<1>7. CASE FrameEndPublish
  <2>1. PagesOwned'
    BY <1>7, OwnedStays DEF FrameEndPublish, cacheVars
  <2>2. /\ ring' = Closed /\ flight' = [cmds |-> Closed.cmds, arena |-> arena]
        /\ hpc' = "idle" /\ open' = NoBatch /\ busy' = TRUE /\ pos' = 0 /\ ~Closed.overflow
        /\ Publishable \/ ring.overflow
    BY <1>7 DEF FrameEndPublish, Publishable, Recorded
  <2>3. Len(Closed.cmds) \in Nat /\ Len(ring.cmds) \in Nat
          /\ Len(Closed.cmds) > Len(ring.cmds)
        /\ DOMAIN Closed.cmds = 1 .. Len(Closed.cmds)
        /\ DOMAIN ring.cmds = 1 .. Len(ring.cmds)
    BY <1>4, <1>5, <2>2, ClosedGrows DEF Rings
  <2>4. flight' \in [cmds : Seq(Commands), arena : {0, 1}] /\ Len(flight'.cmds) <= RingCap
    BY <1>5, <2>2 DEF Rings, TypeOK
  <2>5. TypeOK'
    BY <1>5, <1>7, <2>2, <2>3, <2>4, ResidencyAssumption
       DEF FrameEndPublish, TypeOK, Rings, cacheVars, floorVars, ResidencyAssumption
  <2>6. \A i \in DOMAIN Closed.cmds : Closed.cmds[i] = EndCommand <=> i = Len(Closed.cmds)
    <3> SUFFICES ASSUME NEW i \in DOMAIN Closed.cmds, i # Len(Closed.cmds)
                 PROVE  Closed.cmds[i] # EndCommand
      BY <1>4, <2>2, ClosedGrows
    <3>1. CASE i \in DOMAIN ring.cmds
      <4>1. Publishable
        BY <1>4, <2>2, ClosedGrows
      <4> QED BY <1>4, <3>1, <4>1 DEF Grows, Shapes
    <3>2. CASE i \notin DOMAIN ring.cmds
      <4>1. i < Len(Closed.cmds) /\ i > Len(ring.cmds)
        BY <2>3, <3>2
      <4> QED BY <1>4, <2>2, <4>1, ClosedGrows, DrawIsCommand
    <3> QED BY <3>1, <3>2
  <2>7. Shapes'
    BY <1>5, <2>2, <2>4, <2>6 DEF Shapes, Publishable, Recorded
  <2> QED BY <2>1, <2>5, <2>7
<1> QED BY <1>1, <1>2, <1>3, <1>6, <1>7

\* The command the fabric is at, and that only END ends a batch.
LEMMA CurrentIs ==
  ASSUME HeapInv, busy
  PROVE  /\ pos \in Nat /\ pos + 1 \in DOMAIN flight.cmds /\ Current \in Commands
         /\ DOMAIN flight.cmds = 1 .. Len(flight.cmds) /\ Len(flight.cmds) \in Nat
         /\ Current.op # "end" => /\ pos + 1 < Len(flight.cmds) /\ pos + 1 \in 0 .. RingCap
                                  /\ Current \in Command
         /\ Current.op = "end" => pos + 1 = Len(flight.cmds)
<1>1. flight.cmds \in Seq(Commands) /\ Len(flight.cmds) <= RingCap /\ pos \in 0 .. RingCap
      /\ pos < Len(flight.cmds)
  BY DEF HeapInv, TypeOK, Shapes
<1>2. DOMAIN flight.cmds = 1 .. Len(flight.cmds) /\ Len(flight.cmds) \in Nat
      /\ pos \in Nat /\ pos + 1 \in DOMAIN flight.cmds
  BY <1>1, ResidencyAssumption DEF ResidencyAssumption
<1>3. Current \in Commands
  BY <1>1, <1>2 DEF Current
<1>4. Current = EndCommand <=> pos + 1 = Len(flight.cmds)
  BY <1>2 DEF HeapInv, Shapes, Current
<1>5. Current.op = "end" <=> Current = EndCommand
  BY <1>3 DEF Commands, Command, EndCommand
<1> QED BY <1>1, <1>2, <1>3, <1>4, <1>5, ResidencyAssumption
        DEF ResidencyAssumption, Commands, Command, EndCommand

LEMMA FabricKeepsHeap ==
  ASSUME HeapInv, FabricStage \/ FabricDraw \/ FabricAck PROVE HeapInv'
<1>1. PagesOwned'
  BY OwnedStays DEF HeapInv, FabricStage, FabricDraw, FabricAck, cacheVars
<1>2. Shapes'
  BY DEF HeapInv, Shapes, Publishable, Recorded, FabricStage, FabricDraw, FabricAck,
     frameVars, emitVars
<1>3. CASE FabricStage
  <2>1. /\ pos' = pos + 1 /\ pos + 1 \in 0 .. RingCap /\ pos + 1 < Len(flight.cmds)
        /\ Current.page \in Pages
    BY <1>3, CurrentIs DEF FabricStage, Command
  <2>2. sdram' \in [Pages -> Texels \union {Blank}] /\ lost' \subseteq Pages
    BY <1>3, <2>1 DEF FabricStage, HeapInv, TypeOK
  <2>3. TypeOK'
    BY <1>3, <2>1, <2>2
       DEF FabricStage, HeapInv, TypeOK, frameVars, emitVars, cacheVars, floorVars
  <2> QED BY <1>1, <1>2, <2>3 DEF HeapInv
<1>4. CASE FabricDraw
  <2>1. pos' = pos + 1 /\ pos + 1 \in 0 .. RingCap /\ pos + 1 < Len(flight.cmds)
    BY <1>4, CurrentIs DEF FabricDraw
  <2>2. TypeOK'
    BY <1>4, <2>1 DEF FabricDraw, HeapInv, TypeOK, frameVars, emitVars, cacheVars, floorVars
  <2> QED BY <1>1, <1>2, <2>2 DEF HeapInv
<1>5. CASE FabricAck
  <2>1. TypeOK'
    BY <1>5 DEF FabricAck, HeapInv, TypeOK, frameVars, emitVars, cacheVars, floorVars
  <2> QED BY <1>1, <1>2, <2>1 DEF HeapInv
<1> QED BY <1>3, <1>4, <1>5

LEMMA StepKeepsHeap == HeapInv /\ [Next]_vars => HeapInv'
<1> SUFFICES ASSUME HeapInv, [Next]_vars PROVE HeapInv'
  OBVIOUS
<1>1. CASE UNCHANGED vars
  BY <1>1 DEF vars, frameVars, emitVars, cacheVars, floorVars, fabricVars, HeapInv,
     TypeOK, Shapes,
     Publishable, Recorded, PagesOwned, Occupied, Slots
<1>2. CASE FrameBeginDrop \/ FrameBegin \/ FrameEndDropped \/ FrameEndLost
        \/ FrameEndPublish
  BY <1>2, FrameKeepsHeap
<1>3. CASE FabricStage \/ FabricDraw \/ FabricAck
  BY <1>3, FabricKeepsHeap
<1>4. ASSUME NEW k \in Keys, DrawHit(k) \/ DrawRefused(k) \/ DrawCacheFull(k) \/ DrawMiss(k)
                               \/ InvalidateTex(k)
      PROVE  HeapInv'
  BY <1>4, HitKeepsHeap, RefusedKeepsHeap, CacheFullKeepsHeap, MissKeepsHeap,
     InvalidateKeepsHeap
<1> QED BY <1>1, <1>2, <1>3, <1>4 DEF Next

\* Every page is free or has exactly one owner, for any number of pages, slots and textures.
THEOREM PagesAccounted == Spec => []HeapAccounted
<1>1. HeapInv => HeapAccounted
  <2> SUFFICES ASSUME HeapInv, NEW p \in Pages
               PROVE  LET owners == {s \in Slots : cache[s] # Unused /\ cache[s].page = p}
                      IN  IF p \in free THEN owners = {} ELSE \E s \in Slots : owners = {s}
    BY DEF HeapAccounted, HeapInv
  <2> DEFINE owners == {s \in Slots : cache[s] # Unused /\ cache[s].page = p}
  <2>1. CASE p \in free
    BY <2>1 DEF HeapInv, PagesOwned, Occupied
  <2>2. CASE p \notin free
    <3>1. PICK s \in Slots : Occupied(s) /\ cache[s].page = p
      BY <2>2 DEF HeapInv, PagesOwned
    <3>2. owners = {s}
      BY <3>1 DEF HeapInv, PagesOwned, Occupied
    <3> QED BY <2>2, <3>2
  <2> QED BY <2>1, <2>2
<1> QED BY <1>1, InitHeap, StepKeepsHeap, PTL DEF Spec

-----------------------------------------------------------------------------
(* What two frames need stays pinned.                                      *)

LEMMA UploadSpares ==
  ASSUME HeapInv, CanUpload, NEW p, NEW f \in {frameFloor, evictFloor}, Kept(p, f)
  PROVE  p # UploadPage
<1>1. PICK s \in Slots : Occupied(s) /\ cache[s].page = p /\ cache[s].lru > f
  BY DEF Kept
<1>2. f \in Nat /\ evictFloor \in Nat /\ evictFloor <= f
  BY DEF HeapInv, TypeOK
<1>3. cache[s].lru \in Nat
  BY <1>1, SlotsAre DEF HeapInv
<1> QED BY <1>1, <1>2, <1>3, UploadGoes

\* An action spares what is kept, and its texels.
Spares == \A p : \A f \in {frameFloor, evictFloor} :
            Kept(p, f) => Kept(p, f)' /\ heap'[p] = heap[p]

\* A step leaves what is held held.
HeldOn == \A c : \A f \in {frameFloor, evictFloor} :
            c.want \subseteq Texels /\ Held(c, f) => Held(c, f)'

LEMMA SparesHolds ==
  ASSUME Spares, ver' = ver PROVE HeldOn
<1> SUFFICES ASSUME NEW c, NEW f \in {frameFloor, evictFloor}, Held(c, f),
                    NEW t \in c.want, ~Stale(t)'
             PROVE  Kept(c.page, f)' /\ heap'[c.page] = t
  BY DEF HeldOn, Held
<1>1. ~Stale(t)
  BY DEF Stale
<1>2. Kept(c.page, f) /\ heap[c.page] = t
  BY <1>1 DEF Held
<1>3. PICK p : p = c.page
  OBVIOUS
<1> QED BY <1>2, <1>3 DEF Spares

LEMMA WantsAre ==
  ASSUME HeapInv
  PROVE  /\ \A i \in DOMAIN flight.cmds : flight.cmds[i].want \subseteq Texels
         /\ \A i \in DOMAIN ring.cmds : ring.cmds[i].want \subseteq Texels
         /\ open # NoBatch => open.want \subseteq Texels
<1>1. \A c \in Commands : c.want \subseteq Texels
  BY DEF Commands, Command, EndCommand
<1>2. /\ \A i \in DOMAIN flight.cmds : flight.cmds[i] \in Commands
      /\ \A i \in DOMAIN ring.cmds : ring.cmds[i] \in Commands
  BY DEF HeapInv, Shapes, Rings
<1>3. open # NoBatch => open \in Batch
  BY DEF HeapInv, TypeOK
<1> QED BY <1>1, <1>2, <1>3 DEF Batch

LEMMA PinStep ==
  ASSUME HeapInv, PinInv, UNCHANGED <<frameVars, floorVars, flight, fabricVars>>,
         HeldOn, EntriesFresh', Publishable' => Recorded,
         NEW new, Grows(ring, ring', new),
         Publishable' => \A c \in new : Held(c, frameFloor)',
         Publishable' /\ open' # NoBatch => Held(open, frameFloor)'
  PROVE  PinInv'
<1>0. /\ frameFloor' = frameFloor /\ evictFloor' = evictFloor /\ FlightFloor' = FlightFloor
      /\ FlightFloor \in {frameFloor, evictFloor}
  BY DEF frameVars, floorVars, FlightFloor
<1>1. Publishable' => Publishable
  BY DEF Publishable, Grows
<1>2. BuiltApart'
  BY DEF PinInv, BuiltApart, frameVars, fabricVars, Recorded
<1>3. FlightHeld'
  <2> SUFFICES ASSUME busy', NEW i \in DOMAIN flight'.cmds, i > pos',
                      flight'.cmds[i] # EndCommand, NEW c, c = flight.cmds[i],
                      NEW f, f = FlightFloor
               PROVE  Held(c, f)'
    BY <1>0 DEF FlightHeld, EndCommand
  <2>1. Held(c, f) /\ c.want \subseteq Texels
    BY WantsAre DEF PinInv, FlightHeld, fabricVars
  <2> QED BY <1>0, <2>1 DEF HeldOn
<1>4. RingHeld'
  <2> SUFFICES ASSUME Publishable', NEW i \in DOMAIN ring'.cmds,
                      NEW c, c = ring'.cmds[i], NEW f, f = frameFloor
               PROVE  Held(c, f)'
    BY <1>0 DEF RingHeld
  <2>1. CASE i \in DOMAIN ring.cmds
    <3>1. c = ring.cmds[i] /\ Publishable
      BY <1>1, <2>1 DEF Grows
    <3>2. Held(c, f) /\ c.want \subseteq Texels
      BY <2>1, <3>1, WantsAre DEF PinInv, RingHeld
    <3> QED BY <3>2 DEF HeldOn
  <2>2. CASE i \notin DOMAIN ring.cmds
    <3>1. c \in new
      BY <2>2 DEF Grows
    <3>2. PICK g : g = frameFloor'
      OBVIOUS
    <3> QED BY <1>0, <3>1, <3>2
  <2> QED BY <2>1, <2>2
<1>5. OpenHeld'
  BY DEF OpenHeld
<1> QED BY <1>2, <1>3, <1>4, <1>5 DEF PinInv

\* A flushed batch is held as the open one was.
LEMMA FlushedHeld ==
  ASSUME HeapInv, PinInv, HeldOn, Publishable, frameFloor' = frameFloor,
         NEW c \in OpenDraws
  PROVE  Held(c, frameFloor)'
<1>1. open # NoBatch /\ c.page = open.page /\ c.want = open.want
  BY DrawIsCommand DEF HeapInv
<1>2. Held(open, frameFloor) /\ open.want \subseteq Texels
  BY <1>1, WantsAre DEF PinInv, OpenHeld
<1>3. PICK f : f = frameFloor
  OBVIOUS
<1>4. Held(c, f) /\ c.want \subseteq Texels
  BY <1>1, <1>2, <1>3 DEF Held
<1>5. Held(c, f)'
  BY <1>3, <1>4 DEF HeldOn
<1> QED BY <1>3, <1>5

\* What a hit does to the slots.
SlotHit(k, s) ==
  /\ s \in Slots /\ cache[s] # Unused /\ cache[s].key = k /\ cache[s].page \in Pages
  /\ Slots' = Slots /\ clock \in Nat
  /\ cache'[s] # Unused /\ cache'[s].page = cache[s].page /\ cache'[s].key = k
  /\ cache'[s].lru = clock + 1
  /\ \A r \in Slots : r # s => cache'[r] = cache[r]

LEMMA HitSlots ==
  ASSUME HeapInv, NEW k \in Keys, DrawHit(k)
  PROVE  \E s \in Slots : SlotHit(k, s) /\ Group(ring, cache[s].page, TexelsOf(k))
<1>1. PICK s \in Holding(k) : cache' = TouchedBy(s)
        /\ Group(ring, cache[s].page, TexelsOf(k))
  BY DEF DrawHit
<1>2. s \in Slots /\ Occupied(s) /\ cache[s] \in Entry /\ cache[s].page \in Pages
        /\ cache[s].key = k
  BY SlotsAre DEF Holding, Occupied, HeapInv
<1>3. [cache[s] EXCEPT !.lru = clock + 1] =
         [key |-> cache[s].key, page |-> cache[s].page, lru |-> clock + 1]
  BY <1>2 DEF Entry
<1>4. cache' = [cache EXCEPT ![s] = [cache[s] EXCEPT !.lru = clock + 1]]
  BY <1>1, <1>2 DEF TouchedBy, Touch
<1>5. cache'[s] = [key |-> k, page |-> cache[s].page, lru |-> clock + 1]
  BY <1>2, <1>3, <1>4 DEF Slots
<1>6. cache'[s] # Unused /\ clock \in Nat
  BY <1>5, ResidencyAssumption DEF Unused, ResidencyAssumption, HeapInv, TypeOK
<1>7. SlotHit(k, s)
  BY <1>2, <1>4, <1>5, <1>6 DEF SlotHit, Slots, Occupied
<1> QED BY <1>1, <1>2, <1>7

LEMMA HitSpares == ASSUME HeapInv, NEW k \in Keys, DrawHit(k) PROVE Spares
<1>1. PICK s \in Slots : SlotHit(k, s) /\ Group(ring, cache[s].page, TexelsOf(k))
  BY HitSlots
<1>2. heap' = heap
  BY DEF DrawHit
<1>3. frameFloor \in 0 .. clock /\ evictFloor \in 0 .. frameFloor /\ clock \in Nat
  BY DEF HeapInv, TypeOK
<1> SUFFICES ASSUME NEW p, NEW f \in {frameFloor, evictFloor}, Kept(p, f) PROVE Kept(p, f)'
  BY <1>2 DEF Spares
<1>4. PICK r \in Slots : cache[r] # Unused /\ cache[r].page = p /\ cache[r].lru > f
  BY DEF Kept, Occupied
<1>5. cache'[r] # Unused /\ cache'[r].page = p /\ cache'[r].lru > f /\ r \in Slots'
  BY <1>1, <1>3, <1>4 DEF SlotHit
<1> QED BY <1>5 DEF Kept, Occupied

LEMMA HitKeepsPins ==
  ASSUME HeapInv, PinInv, NEW k \in Keys, DrawHit(k) PROVE PinInv'
<1>1. PICK s \in Slots : SlotHit(k, s) /\ Group(ring, cache[s].page, TexelsOf(k))
  BY HitSlots
<1>2. heap' = heap /\ ver' = ver /\ frameFloor' = frameFloor /\ evictFloor' = evictFloor
      /\ UNCHANGED <<frameVars, floorVars, flight, fabricVars>> /\ Recorded
  BY DEF DrawHit, floorVars, CanDraw, Recorded
<1>3. frameFloor \in 0 .. clock /\ evictFloor \in 0 .. frameFloor /\ clock \in Nat
  BY DEF HeapInv, TypeOK
<1>4. HeldOn
  BY <1>2, HitSpares, SparesHolds
<1>5. EntriesFresh'
  <2>1. \A r \in Slots' : cache'[r] # Unused =>
          r \in Slots /\ cache[r] # Unused /\ cache'[r].page = cache[r].page
            /\ cache'[r].key = cache[r].key
    BY <1>1 DEF SlotHit
  <2> QED BY <1>2, <2>1 DEF PinInv, EntriesFresh, Occupied, TexelsOf
<1>6. /\ ring \in Rings /\ TexelsOf(k) \in Texels
      /\ cache[s].page \in Pages
  BY <1>1 DEF SlotHit, HeapInv, Shapes, TexelsOf, Texels, TypeOK
<1>7. /\ Grows(ring, ring', OpenDraws) /\ open' \in Batch /\ open'.page = cache[s].page
      /\ Merges(cache[s].page) => ring' = ring
           /\ open'.want = open.want \union {TexelsOf(k)}
      /\ ~Merges(cache[s].page) => open'.want = {TexelsOf(k)}
  BY <1>1, <1>6, GroupGrows DEF HeapInv
<1>8. Publishable' => Publishable
  BY <1>2, <1>7 DEF Publishable, Grows
<1>9. Publishable' => \A c \in OpenDraws : Held(c, frameFloor)'
  BY <1>2, <1>4, <1>8, FlushedHeld
<1>10. ASSUME Publishable' PROVE Held(open, frameFloor)'
  <2>1. heap[cache[s].page] = TexelsOf(k)
    BY <1>1 DEF SlotHit, PinInv, EntriesFresh, Occupied
  <2>2. ASSUME NEW t \in open'.want, ~Stale(t)' PROVE heap'[open'.page] = t
    <3>1. CASE t = TexelsOf(k)
      BY <1>2, <1>7, <2>1, <3>1
    <3>2. CASE t # TexelsOf(k)
      <4>1. Merges(cache[s].page) /\ t \in open.want
        BY <1>7, <2>2, <3>2
      <4>2. Held(open, frameFloor) /\ open.page = cache[s].page
        BY <1>8, <1>10, <4>1 DEF Merges, PinInv, OpenHeld
      <4>3. ~Stale(t)
        BY <1>2, <2>2 DEF Stale
      <4>4. heap[open.page] = t
        BY <4>1, <4>2, <4>3 DEF Held
      <4> QED BY <1>2, <1>7, <4>2, <4>4
    <3> QED BY <3>1, <3>2
  <2>3. s \in Slots' /\ cache'[s] # Unused /\ cache'[s].page = open'.page
          /\ cache'[s].lru > frameFloor'
    BY <1>1, <1>2, <1>3, <1>7 DEF SlotHit
  <2>4. Kept(open.page, frameFloor)'
    BY <2>3 DEF Kept, Occupied
  <2> QED BY <2>2, <2>4 DEF Held
<1> QED BY <1>2, <1>4, <1>5, <1>7, <1>9, <1>10, PinStep

LEMMA OverflowPins ==
  ASSUME HeapInv, PinInv, UNCHANGED <<frameVars, floorVars, flight, fabricVars>>,
         HeldOn, EntriesFresh', ring'.overflow, NEW new, Grows(ring, ring', new)
  PROVE  PinInv'
<1>1. ~Publishable'
  BY DEF Publishable
<1> QED BY <1>1, PinStep

LEMMA OverflowGrows ==
  ASSUME NEW r \in Rings PROVE Grows(r, Overflowed(r), {}) /\ Overflowed(r).overflow
<1> DEFINE q == Overflowed(r)
<1>1. q.cmds = r.cmds /\ q.overflow = TRUE /\ q \in Rings
  BY DEF Overflowed, Rings
<1>2. Len(r.cmds) \in Nat
  BY DEF Rings
<1> HIDE DEF q
<1>3. Grows(r, q, {}) /\ q.overflow
  BY <1>1, <1>2 DEF Grows
<1> QED BY <1>3 DEF q

LEMMA KeptSame ==
  ASSUME UNCHANGED cache, NEW p, NEW f, Kept(p, f) PROVE Kept(p, f)'
  BY DEF Kept, Occupied, Slots

LEMMA RefusedSpares == ASSUME HeapInv, NEW k \in Keys, DrawRefused(k) PROVE Spares
  BY KeptSame DEF Spares, DrawRefused, cacheVars

LEMMA RefusedKeepsPins ==
  ASSUME HeapInv, PinInv, NEW k \in Keys, DrawRefused(k) PROVE PinInv'
<1>1. UNCHANGED <<cache, heap, ver>> /\ ring' = Overflowed(ring)
      /\ UNCHANGED <<frameVars, floorVars, flight, fabricVars>>
  BY DEF DrawRefused, cacheVars
<1>2. HeldOn
  BY <1>1, RefusedSpares, SparesHolds
<1>3. EntriesFresh'
  BY <1>1 DEF PinInv, EntriesFresh, Occupied, Slots, TexelsOf
<1>4. Grows(ring, ring', {}) /\ ring'.overflow
  BY <1>1, OverflowGrows DEF HeapInv, Shapes
<1> QED BY <1>1, <1>2, <1>3, <1>4, OverflowPins

\* The whole effect of a cache that is full: a page no one has is written.
LEMMA CacheFullIs ==
  ASSUME HeapInv, NEW k \in Keys, DrawCacheFull(k)
  PROVE  /\ UploadPage \in free /\ UNCHANGED <<cache, free>> /\ CanUpload
         /\ \A p : p # UploadPage => heap'[p] = heap[p]
         /\ \A s \in Slots : Occupied(s) => cache[s].page # UploadPage
         /\ Grows(ring, ring', {StageOf(UploadPage, TexelsOf(k))}) /\ ring'.overflow
<1>1. UploadPage \in Pages /\ AfterEvict = cache /\ UploadPage \in free
  BY UploadGoes DEF DrawCacheFull, SlotUsable
<1>2. cache' = cache /\ free' = free /\ CanUpload
  BY <1>1 DEF DrawCacheFull, PageReturned
<1>3. \A p : p # UploadPage => heap'[p] = heap[p]
  BY DEF DrawCacheFull, HeapInv, TypeOK
<1>4. StageOf(UploadPage, TexelsOf(k)) \in Commands
  <2>1. TexelsOf(k) \in Texels
    BY DEF TexelsOf, Texels, HeapInv, TypeOK
  <2> QED BY <1>1, <2>1, StageIsCommand
<1>5. Grows(ring, ring', {StageOf(UploadPage, TexelsOf(k))}) /\ ring'.overflow
  <2> DEFINE c == StageOf(UploadPage, TexelsOf(k))
  <2>1. ring \in Rings /\ ring' = Overflowed(Put(ring, c))
    BY DEF HeapInv, Shapes, DrawCacheFull
  <2> HIDE DEF c
  <2>2. Grows(ring, Put(ring, c), {c}) /\ Put(ring, c) \in Rings
    BY <1>4, <2>1, PutGrows DEF c, Grows
  <2>3. Grows(Put(ring, c), ring', {}) /\ ring'.overflow
    BY <2>1, <2>2, OverflowGrows
  <2>4. Grows(ring, ring', {c} \union {})
    BY <2>1, <2>2, <2>3, GrowsOn
  <2>5. {c} \union {} = {c}
    OBVIOUS
  <2> QED BY <2>3, <2>4, <2>5 DEF c
<1> QED BY <1>1, <1>2, <1>3, <1>5 DEF HeapInv, PagesOwned

LEMMA CacheFullSpares == ASSUME HeapInv, NEW k \in Keys, DrawCacheFull(k) PROVE Spares
  BY CacheFullIs, UploadSpares, KeptSame DEF Spares

LEMMA CacheFullKeepsPins ==
  ASSUME HeapInv, PinInv, NEW k \in Keys, DrawCacheFull(k) PROVE PinInv'
<1>1. UNCHANGED <<frameVars, floorVars, flight, fabricVars>> /\ ver' = ver
        /\ cache' = cache /\ CanUpload
  BY CacheFullIs DEF DrawCacheFull
<1>2. HeldOn
  BY <1>1, CacheFullSpares, SparesHolds
<1>3. EntriesFresh'
  BY <1>1, CacheFullIs DEF PinInv, EntriesFresh, Occupied, Slots, TexelsOf
<1> QED BY <1>1, <1>2, <1>3, CacheFullIs, OverflowPins

LEMMA MissSpares == ASSUME HeapInv, NEW k \in Keys, DrawMiss(k) PROVE Spares
<1>0. SlotsMissed(k)
  BY MissSlots
<1>1. CanUpload
  BY DEF DrawMiss
<1>2. \A p : p # UploadPage => heap'[p] = heap[p]
  BY DEF DrawMiss, HeapInv, TypeOK
<1>3. frameFloor \in 0 .. clock /\ evictFloor \in 0 .. frameFloor /\ clock \in Nat
  BY DEF HeapInv, TypeOK
<1> SUFFICES ASSUME NEW p, NEW f \in {frameFloor, evictFloor}, Kept(p, f)
             PROVE  Kept(p, f)' /\ heap'[p] = heap[p]
  BY DEF Spares
<1>4. p # UploadPage
  BY <1>1, UploadSpares
<1>5. PICK r \in Slots : cache[r] # Unused /\ cache[r].page = p /\ cache[r].lru > f
  BY DEF Kept, Occupied
<1>6. cache[r].lru \in Nat
  BY <1>5, SlotsAre DEF Occupied, HeapInv
<1>7. ~(cache[r].lru <= evictFloor)
  BY <1>3, <1>5, <1>6
<1>8. cache'[r] = cache[r] /\ r \in Slots'
  BY <1>0, <1>5, <1>7 DEF SlotsMissed
<1> QED BY <1>2, <1>4, <1>5, <1>8 DEF Kept, Occupied

LEMMA MissKeepsPins ==
  ASSUME HeapInv, PinInv, NEW k \in Keys, DrawMiss(k) PROVE PinInv'
<1>0. SlotsMissed(k)
  BY MissSlots
<1>1. CanUpload /\ ver' = ver /\ frameFloor' = frameFloor /\ evictFloor' = evictFloor
      /\ UNCHANGED <<frameVars, floorVars, flight, fabricVars>> /\ Recorded
      /\ UploadPage \in Pages
  BY UploadGoes DEF DrawMiss, floorVars, Misses, CanDraw, Recorded
<1>2. heap'[UploadPage] = TexelsOf(k) /\ \A p : p # UploadPage => heap'[p] = heap[p]
  BY <1>1 DEF DrawMiss, HeapInv, TypeOK
<1>3. frameFloor \in 0 .. clock /\ evictFloor \in 0 .. frameFloor /\ clock \in Nat
  BY DEF HeapInv, TypeOK
<1>4. HeldOn
  BY <1>1, MissSpares, SparesHolds
<1>5. EntriesFresh'
  <2> SUFFICES ASSUME NEW r \in Slots, cache'[r] # Unused
               PROVE  heap'[cache'[r].page] = [key |-> cache'[r].key, ver |-> ver[cache'[r].key]]
    BY <1>0, <1>1 DEF EntriesFresh, Occupied, TexelsOf, SlotsMissed
  <2>1. CASE r = SlotFor
    BY <1>0, <1>2, <2>1 DEF SlotsMissed, TexelsOf
  <2>2. CASE r # SlotFor
    BY <1>0, <1>2, <2>2 DEF SlotsMissed, PinInv, EntriesFresh, Occupied, TexelsOf
  <2> QED BY <2>1, <2>2
<1> DEFINE c == StageOf(UploadPage, TexelsOf(k))
<1>6. /\ Grows(ring, ring', {c} \union OpenDraws)
      /\ open' \in Batch /\ open'.page = UploadPage
      /\ Merges(UploadPage) => open'.want = open.want \union {TexelsOf(k)}
      /\ ~Merges(UploadPage) => open'.want = {TexelsOf(k)}
  BY MissGrows
<1>7. Publishable' => Publishable
  BY <1>1, <1>6 DEF Publishable, Grows
<1>8. PICK p : p = UploadPage
  OBVIOUS
<1>9. Kept(p, frameFloor)'
  <2>1. SlotFor \in Slots' /\ cache'[SlotFor] # Unused /\ cache'[SlotFor].page = p
        /\ cache'[SlotFor].lru > frameFloor
    BY <1>0, <1>3, <1>8 DEF SlotsMissed
  <2>2. \E r \in Slots' : cache'[r] # Unused /\ cache'[r].page = p
          /\ cache'[r].lru > frameFloor
    BY <2>1
  <2> QED BY <1>1, <2>2 DEF Kept, Occupied
<1>10. ASSUME Publishable', NEW d \in {c} \union OpenDraws PROVE Held(d, frameFloor)'
  <2>1. CASE d = c
    <3>1. d.page = p /\ d.want = {TexelsOf(k)}
      BY <1>8, <2>1 DEF StageOf
    <3> QED BY <1>2, <1>8, <1>9, <3>1 DEF Held
  <2>2. CASE d \in OpenDraws
    BY <1>1, <1>4, <1>7, <1>10, <2>2, FlushedHeld
  <2> QED BY <2>1, <2>2
<1>11. ASSUME Publishable' PROVE Held(open, frameFloor)'
  <2>1. ASSUME NEW t \in open'.want, ~Stale(t)' PROVE t = TexelsOf(k)
    <3> SUFFICES ASSUME t # TexelsOf(k) PROVE FALSE
      OBVIOUS
    <3>1. Merges(UploadPage) /\ t \in open.want /\ ~Stale(t)
      BY <1>1, <1>6, <2>1 DEF Stale
    <3>2. Held(open, frameFloor) /\ open.page = UploadPage
      BY <1>7, <1>11, <3>1 DEF Merges, PinInv, OpenHeld
    <3>3. Kept(UploadPage, frameFloor)
      BY <3>1, <3>2 DEF Held
    <3> QED BY <1>1, <3>3, UploadSpares
  <2>2. open'.page = p /\ heap'[p] = TexelsOf(k)
    BY <1>2, <1>6, <1>8
  <2>3. Kept(open.page, frameFloor)'
    BY <1>9, <2>2 DEF Kept
  <2> QED BY <2>1, <2>2, <2>3 DEF Held
<1> HIDE DEF c
<1> QED BY <1>1, <1>4, <1>5, <1>6, <1>10, <1>11, PinStep

LEMMA DrawsSpare ==
  ASSUME HeapInv, NEW k \in Keys, DrawHit(k) \/ DrawRefused(k) \/ DrawCacheFull(k)
           \/ DrawMiss(k)
  PROVE  Spares
  BY HitSpares, RefusedSpares, CacheFullSpares, MissSpares

\* A texture never comes back to the pixels it had.
LEMMA StaleStays ==
  ASSUME HeapInv, NEW k \in Keys, InvalidateTex(k), NEW t \in Texels, Stale(t)
  PROVE  Stale(t)'
<1>1. ver' = [ver EXCEPT ![k] = @ + 1] /\ ver \in [Keys -> 0 .. MaxVer] /\ MaxVer \in Nat
  BY ResidencyAssumption DEF InvalidateTex, HeapInv, TypeOK, ResidencyAssumption
<1>2. t.key \in Keys /\ t.ver \in 0 .. MaxVer
  BY DEF Texels
<1> QED BY <1>1, <1>2 DEF Stale

\* The page of another texture's entry stays; a draw of this one is stale from now on.
LEMMA InvalidateHolds ==
  ASSUME HeapInv, PinInv, NEW k \in Keys, InvalidateTex(k) PROVE HeldOn
<1>1. /\ cache' = [s \in Slots |-> IF s \in Holding(k) THEN Unused ELSE cache[s]]
      /\ ver' = [ver EXCEPT ![k] = @ + 1] /\ heap' = heap
      /\ ver \in [Keys -> 0 .. MaxVer] /\ MaxVer \in Nat
  BY ResidencyAssumption DEF InvalidateTex, HeapInv, TypeOK, ResidencyAssumption
<1> SUFFICES ASSUME NEW c, NEW f \in {frameFloor, evictFloor}, c.want \subseteq Texels,
                    Held(c, f), NEW t \in c.want, ~Stale(t)'
             PROVE  Kept(c.page, f)' /\ heap'[c.page] = t
  BY DEF HeldOn, Held
<1>2. Kept(c.page, f) /\ heap[c.page] = t
  BY StaleStays DEF Held
<1>3. PICK s \in Slots : Occupied(s) /\ cache[s].page = c.page /\ cache[s].lru > f
  BY <1>2 DEF Kept
<1>4. t.key = cache[s].key /\ t.ver = ver[cache[s].key]
  <2>1. heap[cache[s].page] = TexelsOf(cache[s].key)
    BY <1>3 DEF PinInv, EntriesFresh
  <2>2. t = [key |-> cache[s].key, ver |-> ver[cache[s].key]]
    BY <1>2, <1>3, <2>1 DEF TexelsOf
  <2> QED BY <2>2
<1>5. s \notin Holding(k)
  <2> SUFFICES ASSUME cache[s].key = k PROVE FALSE
    BY DEF Holding
  <2>1. ver'[k] = ver[k] + 1 /\ ver[k] \in Nat
    BY <1>1
  <2> QED BY <1>4, <2>1 DEF Stale
<1>6. s \in Slots' /\ cache'[s] = cache[s]
  BY <1>1, <1>5 DEF Slots
<1> QED BY <1>1, <1>2, <1>3, <1>6 DEF Kept, Occupied

LEMMA InvalidateKeepsPins ==
  ASSUME HeapInv, PinInv, NEW k \in Keys, InvalidateTex(k) PROVE PinInv'
<1>1. cache' = [s \in Slots |-> IF s \in Holding(k) THEN Unused ELSE cache[s]]
      /\ ver' = [ver EXCEPT ![k] = @ + 1] /\ heap' = heap /\ ring' = ring /\ open' = open
      /\ UNCHANGED <<frameVars, floorVars, flight, fabricVars>> /\ frameFloor' = frameFloor
  BY DEF InvalidateTex, emitVars, floorVars
<1>2. Slots' = Slots
  BY <1>1 DEF Slots
<1>4. HeldOn
  BY InvalidateHolds
<1>5. EntriesFresh'
  <2> SUFFICES ASSUME NEW s \in Slots, cache'[s] # Unused
               PROVE  heap[cache'[s].page] = [key |-> cache'[s].key, ver |-> ver'[cache'[s].key]]
    BY <1>1, <1>2 DEF EntriesFresh, Occupied, TexelsOf
  <2>1. cache'[s] = cache[s] /\ s \notin Holding(k)
    BY <1>1
  <2>2. cache[s].key # k /\ cache[s].key \in Keys
    BY <2>1, SlotsAre DEF Holding, Occupied, HeapInv
  <2>3. ver'[cache[s].key] = ver[cache[s].key]
    BY <1>1, <2>2 DEF HeapInv, TypeOK
  <2> QED BY <2>1, <2>3 DEF PinInv, EntriesFresh, Occupied, TexelsOf
<1>6. Publishable' <=> Publishable
  BY <1>1 DEF Publishable, Recorded, frameVars
<1>7. Grows(ring, ring', {})
  BY <1>1 DEF Grows, HeapInv, Shapes, Rings
<1>8. ASSUME Publishable', open' # NoBatch PROVE Held(open, frameFloor)'
  <2>1. PICK c, f : c = open /\ f = frameFloor
    OBVIOUS
  <2>2. Held(c, f) /\ c.want \subseteq Texels
    BY <1>1, <1>6, <1>8, <2>1, WantsAre DEF PinInv, OpenHeld
  <2>3. Held(c, f)'
    BY <1>4, <2>1, <2>2 DEF HeldOn
  <2> QED BY <1>1, <2>1, <2>3
<1>9. Publishable' => Recorded
  BY <1>6 DEF Publishable
<1> QED BY <1>1, <1>4, <1>5, <1>7, <1>8, <1>9, PinStep

LEMMA HeldSame ==
  ASSUME UNCHANGED <<cache, heap, ver>>, NEW c, NEW f, Held(c, f) PROVE Held(c, f)'
  BY DEF Held, Stale, Kept, Occupied, Slots

LEMMA FreshSame ==
  ASSUME PinInv, UNCHANGED <<cache, heap, ver>> PROVE EntriesFresh'
  BY DEF PinInv, EntriesFresh, Occupied, Slots, TexelsOf

\* What is in flight stays held, by the same floor under whatever name.
LEMMA FlightSame ==
  ASSUME PinInv, UNCHANGED <<cache, heap, ver, flight>>,
         busy' => busy /\ FlightFloor' = FlightFloor /\ pos' >= pos,
         pos \in Nat, pos' \in Nat, HeapInv
  PROVE  FlightHeld'
<1> SUFFICES ASSUME busy', NEW i \in DOMAIN flight.cmds, i > pos',
                    flight.cmds[i] # EndCommand
             PROVE  Held(flight.cmds[i], FlightFloor)'
  BY DEF FlightHeld, EndCommand
<1>1. i \in Nat
  BY DEF HeapInv, Shapes
<1>2. PICK c, f : c = flight.cmds[i] /\ f = FlightFloor
  OBVIOUS
<1>3. Held(c, f)
  BY <1>1, <1>2 DEF PinInv, FlightHeld
<1>4. Held(c, f)'
  BY <1>3, HeldSame
<1> QED BY <1>2, <1>4 DEF Held, Kept

LEMMA FrameKeepsPins ==
  ASSUME HeapInv, PinInv,
         FrameBeginDrop \/ FrameBegin \/ FrameEndDropped \/ FrameEndLost \/ FrameEndPublish
  PROVE  PinInv'
<1>0. pos \in Nat
  BY ResidencyAssumption DEF HeapInv, TypeOK, ResidencyAssumption
<1>1. UNCHANGED <<cache, heap, ver>>
  BY DEF FrameBeginDrop, FrameBegin, FrameEndDropped, FrameEndLost, FrameEndPublish,
     cacheVars
<1>2. EntriesFresh'
  BY <1>1, FreshSame
<1>3. CASE FrameBeginDrop \/ FrameEndDropped \/ FrameEndLost
  <2>1. UNCHANGED <<flight, busy, pos, arena, floorVars>>
    BY <1>3 DEF FrameBeginDrop, FrameEndDropped, FrameEndLost, fabricVars
  <2>2. ~Recorded'
    BY <1>3 DEF FrameBeginDrop, FrameEndDropped, FrameEndLost, Recorded
  <2>3. FlightHeld'
    BY <1>0, <1>1, <2>1, FlightSame DEF FlightFloor, floorVars
  <2> QED BY <1>2, <2>2, <2>3 DEF PinInv, BuiltApart, RingHeld, OpenHeld, Publishable
<1>4. CASE FrameBegin
  <2>1. /\ busy => flight.arena = arena
        /\ arena' # arena /\ evictFloor' = frameFloor
        /\ open' = NoBatch /\ DOMAIN ring'.cmds = {}
        /\ UNCHANGED <<flight, busy, pos>>
    BY <1>4
       DEF FrameBegin, RewindsBusyArena, RetireFloors, EmptyRing, fabricVars, HeapInv, TypeOK
  <2>2. FlightHeld'
    BY <1>0, <1>1, <2>1, FlightSame DEF FlightFloor
  <2> QED BY <1>2, <2>1, <2>2 DEF PinInv, BuiltApart, RingHeld, OpenHeld
<1>5. CASE FrameEndPublish
  <2>1. /\ flight' = [cmds |-> Closed.cmds, arena |-> arena] /\ arena' = arena
        /\ frameFloor' = frameFloor /\ ~Closed.overflow /\ Recorded
    BY <1>5 DEF FrameEndPublish, floorVars, Recorded
  <2>2. ~Recorded'
    BY <1>5 DEF FrameEndPublish, Recorded
  <2>3. /\ Grows(ring, Closed, OpenDraws \union {EndCommand}) /\ Publishable
    BY <2>1, ClosedGrows DEF HeapInv, Shapes, Publishable
  <2>4. FlightHeld'
    <3> SUFFICES ASSUME NEW c, NEW i \in DOMAIN Closed.cmds, c = Closed.cmds[i],
                        c # EndCommand
                 PROVE  Held(c, frameFloor)'
      BY <2>1 DEF FlightHeld, FlightFloor, EndCommand, Held, Kept
    <3>1. Held(c, frameFloor)
      <4>1. CASE i \in DOMAIN ring.cmds
        BY <2>3, <4>1 DEF Grows, PinInv, RingHeld
      <4>2. CASE i \notin DOMAIN ring.cmds
        <5>1. c \in OpenDraws
          BY <2>3, <4>2 DEF Grows
        <5> QED BY <2>3, <5>1, DrawIsCommand DEF HeapInv, PinInv, OpenHeld, Held
      <4> QED BY <4>1, <4>2
    <3>2. PICK f : f = frameFloor
      OBVIOUS
    <3>3. Held(c, f)'
      BY <1>1, <3>1, <3>2, HeldSame
    <3> QED BY <2>1, <3>2, <3>3
  <2> QED BY <1>2, <2>2, <2>4 DEF PinInv, BuiltApart, RingHeld, OpenHeld, Publishable
<1> QED BY <1>3, <1>4, <1>5

LEMMA FabricKeepsPins ==
  ASSUME HeapInv, PinInv, FabricStage \/ FabricDraw \/ FabricAck PROVE PinInv'
<1>1. UNCHANGED <<cache, heap, ver, flight, ring, open, hpc, dropped, arena, frameFloor, evictFloor>>
      /\ (busy' => busy)
  BY DEF FabricStage, FabricDraw, FabricAck, frameVars, emitVars, cacheVars, floorVars
<1>2. pos \in Nat /\ pos' \in Nat /\ pos' >= pos
  BY ResidencyAssumption
     DEF FabricStage, FabricDraw, FabricAck, HeapInv, TypeOK, ResidencyAssumption
<1>3. FlightHeld'
  BY <1>1, <1>2, FlightSame DEF FlightFloor
<1>4. RingHeld' /\ OpenHeld' /\ BuiltApart'
  BY <1>1 DEF PinInv, RingHeld, OpenHeld, BuiltApart, Publishable, Recorded, Held, Stale,
     Kept, Occupied, Slots
<1> QED BY <1>1, <1>3, <1>4, FreshSame DEF PinInv

LEMMA StepKeepsPins ==
  ASSUME HeapInv, PinInv, [Next]_vars PROVE PinInv'
<1>1. CASE UNCHANGED vars
  BY <1>1
     DEF vars, frameVars, emitVars, cacheVars, floorVars, fabricVars, PinInv, BuiltApart,
     FlightHeld, FlightFloor, RingHeld, OpenHeld, EntriesFresh, TexelsOf, Publishable, Recorded,
     Held, Stale, Kept, Occupied, Slots
<1>2. CASE FrameBeginDrop \/ FrameBegin \/ FrameEndDropped \/ FrameEndLost
        \/ FrameEndPublish
  BY <1>2, FrameKeepsPins
<1>3. CASE FabricStage \/ FabricDraw \/ FabricAck
  BY <1>3, FabricKeepsPins
<1>4. ASSUME NEW k \in Keys, DrawHit(k) \/ DrawRefused(k) \/ DrawCacheFull(k) \/ DrawMiss(k)
                               \/ InvalidateTex(k)
      PROVE  PinInv'
  BY <1>4, HitKeepsPins, RefusedKeepsPins, CacheFullKeepsPins, MissKeepsPins,
     InvalidateKeepsPins
<1> QED BY <1>1, <1>2, <1>3, <1>4 DEF Next

LEMMA InitPins == Init => PinInv
<1> SUFFICES ASSUME Init PROVE PinInv
  OBVIOUS
<1> QED BY DEF Init, PinInv, BuiltApart, FlightHeld, RingHeld, OpenHeld, EntriesFresh,
               Publishable, Recorded, Occupied, Slots

-----------------------------------------------------------------------------
(* The SDRAM copy: up to date, still to come, or lost.                     *)

LEMMA StagesStay ==
  ASSUME HeapInv, NEW new, Grows(ring, ring', new), NEW p, NEW j \in Nat, RingStage(p, j)
  PROVE  RingStage(p, j)' /\ RingStage(p, Len(ring.cmds) + 1)
           /\ RingStage(p, Len(ring.cmds) + 1)'
<1>1. PICK i \in DOMAIN ring.cmds : i < j /\ Stages(ring.cmds, i, p)
  BY DEF RingStage
<1>2. i \in DOMAIN ring'.cmds /\ Stages(ring'.cmds, i, p)
  BY <1>1 DEF Grows, Stages
<1>3. i \in Nat /\ i <= Len(ring.cmds) /\ Len(ring.cmds) \in Nat /\ Len(ring'.cmds) \in Nat
      /\ Len(ring.cmds) <= Len(ring'.cmds)
  BY DEF HeapInv, Shapes, Rings, Grows
<1>4. i < Len(ring.cmds) + 1 /\ i < Len(ring'.cmds) + 1
  BY <1>3
<1> QED BY <1>1, <1>2, <1>4 DEF RingStage

LEMMA FlightStagesSame ==
  ASSUME UNCHANGED <<flight, busy, pos>>, NEW p, NEW j, InFlightStage(p, j)
  PROVE  InFlightStage(p, j)'
  BY DEF InFlightStage

\* What an entry's page waits for, once another frame may have begun.
Comes(p) == \/ Copied(p) \/ StageAhead(p)
            \/ Recorded /\ RingStage(p, Len(ring.cmds) + 1)

LEMMA ComesStays ==
  ASSUME HeapInv, UNCHANGED <<hpc, dropped, flight, fabricVars>>, lost \subseteq lost',
         NEW new, Grows(ring, ring', new), NEW p, heap'[p] = heap[p], Comes(p)
  PROVE  Comes(p)'
<1>1. CASE Copied(p)
  BY <1>1 DEF Copied, Comes, fabricVars
<1>2. CASE StageAhead(p)
  BY <1>2 DEF StageAhead, InFlightStage, Comes, fabricVars
<1>3. CASE Recorded /\ RingStage(p, Len(ring.cmds) + 1)
  <2>1. Len(ring.cmds) + 1 \in Nat
    BY DEF HeapInv, Shapes, Rings
  <2> QED BY <1>3, <2>1, StagesStay DEF Comes, Recorded
<1> QED BY <1>1, <1>2, <1>3 DEF Comes

LEMMA OpenComes ==
  ASSUME HeapInv, CopyInv, NEW p, NEW f, Kept(p, f) PROVE Comes(p)
  BY DEF CopyInv, CopyComes, Comes, Kept

\* What is held and not altogether stale is kept.
LEMMA LiveIsKept == ASSUME NEW c, NEW f, Held(c, f), Live(c) PROVE Kept(c.page, f)
  BY DEF Held, Live

LEMMA CopyStep ==
  ASSUME HeapInv, PinInv, CopyInv, UNCHANGED <<frameVars, floorVars, flight, fabricVars, ver>>,
         Spares, lost \subseteq lost', CopyComes', Publishable' => Recorded,
         NEW new, Grows(ring, ring', new),
         \A c \in new : c.op = "draw" => c \in OpenDraws
  PROVE  CopyInv'
<1>1. Publishable' => Publishable
  BY DEF Publishable, Grows
<1>2. \A p : heap'[p] = heap[p] /\ Copied(p) => Copied(p)'
  BY DEF Copied, fabricVars
<1>3. FlightInOrder'
  <2> SUFFICES ASSUME busy, NEW j \in DOMAIN flight.cmds, j > pos,
                      flight.cmds[j].op = "draw", Live(flight.cmds[j]),
                      NEW p, p = flight.cmds[j].page
               PROVE  Copied(p)' \/ InFlightStage(p, j)'
    BY DEF FlightInOrder, fabricVars, Copied, InFlightStage, Live, Stale
  <2>1. Copied(p) \/ InFlightStage(p, j)
    BY DEF CopyInv, FlightInOrder
  <2>2. PICK f : f = FlightFloor
    OBVIOUS
  <2>3. Kept(p, f) /\ f \in {frameFloor, evictFloor}
    BY <2>2, LiveIsKept DEF PinInv, FlightHeld, EndCommand, FlightFloor
  <2>4. heap'[p] = heap[p]
    BY <2>3 DEF Spares
  <2> QED BY <1>2, <2>1, <2>4, FlightStagesSame DEF fabricVars
<1>4. RingInOrder'
  <2> SUFFICES ASSUME Publishable', NEW j \in DOMAIN ring'.cmds, ring'.cmds[j].op = "draw",
                      Live(ring'.cmds[j]), NEW p, p = ring'.cmds[j].page
               PROVE  Copied(p)' \/ StageAhead(p)' \/ RingStage(p, j)'
    BY DEF RingInOrder, Copied, StageAhead, InFlightStage, RingStage, Live, Stale
  <2>1. j \in Nat
    BY DEF Grows, Rings
  <2>2. PICK f : f = frameFloor
    OBVIOUS
  <2>3. CASE j \in DOMAIN ring.cmds
    <3>1. ring'.cmds[j] = ring.cmds[j] /\ Publishable
      BY <1>1, <2>3 DEF Grows
    <3>2. Copied(p) \/ StageAhead(p) \/ RingStage(p, j)
      BY <2>3, <3>1 DEF CopyInv, RingInOrder
    <3>3. Kept(p, f)
      BY <2>2, <2>3, <3>1, LiveIsKept DEF PinInv, RingHeld
    <3>4. heap'[p] = heap[p]
      BY <2>2, <3>3 DEF Spares
    <3>5. StageAhead(p) => StageAhead(p)'
      BY DEF StageAhead, InFlightStage, fabricVars
    <3> QED BY <1>2, <2>1, <3>2, <3>4, <3>5, StagesStay
  <2>4. CASE j \notin DOMAIN ring.cmds
    <3>1. ring'.cmds[j] \in OpenDraws /\ j > Len(ring.cmds)
      BY <2>4 DEF Grows
    <3>2. open # NoBatch /\ p = open.page /\ Live(open)
      BY <3>1, DrawIsCommand DEF HeapInv, Live
    <3>3. Kept(p, f)
      BY <1>1, <2>2, <3>2, LiveIsKept DEF PinInv, OpenHeld
    <3>4. heap'[p] = heap[p]
      BY <2>2, <3>3 DEF Spares
    <3>5. Comes(p)
      BY <3>3, OpenComes
    <3>6. RingStage(p, Len(ring.cmds) + 1) => RingStage(p, j)'
      <4> SUFFICES ASSUME RingStage(p, Len(ring.cmds) + 1) PROVE RingStage(p, j)'
        OBVIOUS
      <4>1. PICK i \in DOMAIN ring.cmds : i < Len(ring.cmds) + 1 /\ Stages(ring.cmds, i, p)
        BY DEF RingStage
      <4>2. i \in DOMAIN ring'.cmds /\ Stages(ring'.cmds, i, p)
        BY <4>1 DEF Grows, Stages
      <4>3. i < j
        BY <2>1, <3>1, <4>1 DEF HeapInv, Shapes, Rings
      <4> QED BY <4>2, <4>3 DEF RingStage
    <3>7. StageAhead(p) => StageAhead(p)'
      BY DEF StageAhead, InFlightStage, fabricVars
    <3> QED BY <1>2, <3>4, <3>5, <3>6, <3>7 DEF Comes
  <2> QED BY <2>3, <2>4
<1> QED BY <1>3, <1>4 DEF CopyInv

\* It is enough that an entry of a step holds what one held before, or a fresh page.
LEMMA CopyComesOn ==
  ASSUME HeapInv, CopyInv, UNCHANGED <<frameVars, flight, fabricVars>>,
         lost \subseteq lost',
         NEW new, Grows(ring, ring', new),
         \A s \in Slots' : Occupied(s)' =>
           \/ \E p : p = cache'[s].page /\ Comes(p)'
           \/ \E r \in Slots : /\ Occupied(r) /\ cache'[s].page = cache[r].page
                               /\ heap'[cache[r].page] = heap[cache[r].page]
  PROVE  CopyComes'
<1> SUFFICES ASSUME NEW s \in Slots', Occupied(s)', NEW p, p = cache'[s].page PROVE Comes(p)'
  BY DEF CopyComes, Comes, Copied, StageAhead, InFlightStage, RingStage
<1>1. CASE \E q : q = cache'[s].page /\ Comes(q)'
  BY <1>1
<1>2. ASSUME NEW r \in Slots, Occupied(r), p = cache[r].page, heap'[p] = heap[p] PROVE Comes(p)'
  <2>1. Comes(p)
    BY <1>2 DEF CopyInv, CopyComes, Comes
  <2> QED BY <1>2, <2>1, ComesStays DEF frameVars
<1> QED BY <1>1, <1>2

LEMMA DrawsKeepCopies ==
  ASSUME HeapInv, PinInv, CopyInv, Spares, NEW k \in Keys,
         DrawHit(k) \/ DrawRefused(k) \/ DrawCacheFull(k)
  PROVE  CopyInv'
<1>1. UNCHANGED <<frameVars, floorVars, flight, fabricVars, ver>> /\ lost' = lost
      /\ Recorded
  BY DEF DrawHit, DrawRefused, DrawCacheFull, Misses, CanDraw, Recorded
<1>2. CASE DrawHit(k)
  <2>1. PICK s \in Slots : SlotHit(k, s) /\ Group(ring, cache[s].page, TexelsOf(k))
    BY <1>2, HitSlots
  <2>2. TexelsOf(k) \in Texels /\ ring \in Rings
    BY DEF TexelsOf, Texels, HeapInv, TypeOK, Shapes
  <2>3. Grows(ring, ring', OpenDraws)
    BY <2>1, <2>2, GroupGrows DEF HeapInv, SlotHit
  <2>4. \A r \in Slots' : Occupied(r)' => r \in Slots /\ Occupied(r)
          /\ cache'[r].page = cache[r].page
    BY <2>1 DEF SlotHit, Occupied
  <2>5. CopyComes'
    BY <1>1, <1>2, <2>3, <2>4, CopyComesOn DEF DrawHit
  <2> QED BY <1>1, <2>3, <2>5, CopyStep
<1>3. CASE DrawRefused(k)
  <2>1. ring \in Rings /\ ring' = Overflowed(ring) /\ cache' = cache /\ heap' = heap
    BY <1>3 DEF HeapInv, Shapes, DrawRefused, cacheVars
  <2>2. Grows(ring, ring', {})
    BY <2>1, OverflowGrows
  <2>3. \A r \in Slots' : Occupied(r)' => r \in Slots /\ Occupied(r)
          /\ cache'[r].page = cache[r].page
    BY <2>1 DEF Occupied, Slots
  <2>4. CopyComes'
    BY <1>1, <2>1, <2>2, <2>3, CopyComesOn
  <2> QED BY <1>1, <2>2, <2>4, CopyStep
<1>4. CASE DrawCacheFull(k)
  <2>1. /\ cache' = cache
        /\ \A p : p # UploadPage => heap'[p] = heap[p]
        /\ \A s \in Slots : Occupied(s) => cache[s].page # UploadPage
        /\ Grows(ring, ring', {StageOf(UploadPage, TexelsOf(k))})
    BY <1>4, CacheFullIs
  <2>2. \A r \in Slots' : Occupied(r)' => r \in Slots /\ Occupied(r)
          /\ cache'[r].page = cache[r].page /\ heap'[cache[r].page] = heap[cache[r].page]
    BY <2>1 DEF Occupied, Slots
  <2>3. CopyComes'
    BY <1>1, <2>1, <2>2, CopyComesOn
  <2>4. StageOf(UploadPage, TexelsOf(k)).op # "draw"
    BY DEF StageOf
  <2> QED BY <1>1, <2>1, <2>3, <2>4, CopyStep
<1> QED BY <1>2, <1>3, <1>4

LEMMA MissKeepsCopies ==
  ASSUME HeapInv, PinInv, CopyInv, Spares, NEW k \in Keys, DrawMiss(k) PROVE CopyInv'
<1>0. SlotsMissed(k)
  BY MissSlots
<1>1. /\ UNCHANGED <<frameVars, floorVars, flight, fabricVars, ver>> /\ Recorded /\ CanUpload
      /\ lost \subseteq lost' /\ (Full(ring) => UploadPage \in lost')
      /\ \A p : p # UploadPage => heap'[p] = heap[p]
  BY DEF DrawMiss, Misses, CanDraw, Recorded, HeapInv, TypeOK
<1>2. PICK c : c = StageOf(UploadPage, TexelsOf(k))
  OBVIOUS
<1>3. /\ Grows(ring, ring', {c} \union OpenDraws)
      /\ ~Full(ring) => Stages(ring'.cmds, Len(ring.cmds) + 1, UploadPage)
  BY <1>2, MissGrows
<1>4. ASSUME NEW p, p = UploadPage PROVE Comes(p)'
  <2>1. CASE Full(ring)
    BY <1>1, <1>4, <2>1 DEF Comes, Copied
  <2>2. CASE ~Full(ring)
    <3>1. Stages(ring'.cmds, Len(ring.cmds) + 1, p) /\ Recorded'
      BY <1>1, <1>3, <1>4, <2>2 DEF Recorded, frameVars
    <3>2. Len(ring.cmds) + 1 \in DOMAIN ring'.cmds
            /\ Len(ring.cmds) + 1 < Len(ring'.cmds) + 1
      BY <1>3, <3>1 DEF Stages, HeapInv, Shapes, Rings, Grows
    <3> QED BY <3>1, <3>2 DEF Comes, RingStage
  <2> QED BY <2>1, <2>2
<1>5. ASSUME NEW s \in Slots', Occupied(s)'
      PROVE  \/ \E p : p = cache'[s].page /\ Comes(p)'
             \/ \E r \in Slots : /\ Occupied(r) /\ cache'[s].page = cache[r].page
                                 /\ heap'[cache[r].page] = heap[cache[r].page]
  <2>1. CASE s = SlotFor
    <3>1. cache'[s].page = UploadPage
      BY <1>0, <2>1 DEF SlotsMissed
    <3> QED BY <1>4, <3>1
  <2>2. CASE s # SlotFor
    BY <1>0, <1>1, <1>5, <2>2 DEF SlotsMissed, Occupied
  <2> QED BY <2>1, <2>2
<1>6. CopyComes'
  BY <1>1, <1>3, <1>5, CopyComesOn
<1>7. c.op # "draw"
  BY <1>2 DEF StageOf
<1> QED BY <1>1, <1>3, <1>6, <1>7, CopyStep

LEMMA InvalidateKeepsCopies ==
  ASSUME HeapInv, PinInv, CopyInv, NEW k \in Keys, InvalidateTex(k) PROVE CopyInv'
<1>1. /\ cache' = [s \in Slots |-> IF s \in Holding(k) THEN Unused ELSE cache[s]]
      /\ UNCHANGED <<heap, lost, ring, hpc, dropped, flight, sdram, busy, pos>>
  BY DEF InvalidateTex, emitVars, frameVars, fabricVars
<1>2. \A s \in Slots' : Occupied(s)' => s \in Slots /\ Occupied(s) /\ cache'[s] = cache[s]
  BY <1>1 DEF Slots, Occupied
<1>3. CopyComes'
  BY <1>1, <1>2
     DEF CopyInv, CopyComes, Copied, StageAhead, InFlightStage, RingStage, Recorded
<1>4. \A c : c.want \subseteq Texels /\ Live(c)' => Live(c)
  BY StaleStays DEF Live
<1>5. FlightInOrder'
  <2> SUFFICES ASSUME busy, NEW j \in DOMAIN flight.cmds, j > pos,
                      NEW c, c = flight.cmds[j], c.op = "draw", Live(c)'
               PROVE  Copied(c.page) \/ InFlightStage(c.page, j)
    BY <1>1 DEF FlightInOrder, Copied, InFlightStage, Live
  <2>1. Live(c)
    BY <1>4, WantsAre
  <2> QED BY <2>1 DEF CopyInv, FlightInOrder
<1>6. RingInOrder'
  <2> SUFFICES ASSUME Publishable, NEW j \in DOMAIN ring.cmds,
                      NEW c, c = ring.cmds[j], c.op = "draw", Live(c)'
               PROVE  Copied(c.page) \/ StageAhead(c.page) \/ RingStage(c.page, j)
    BY <1>1 DEF RingInOrder, Copied, StageAhead, InFlightStage, RingStage, Live, Recorded,
       Publishable
  <2>1. Live(c)
    BY <1>4, WantsAre
  <2> QED BY <2>1 DEF CopyInv, RingInOrder
<1> QED BY <1>3, <1>5, <1>6 DEF CopyInv

LEMMA FrameKeepsCopies ==
  ASSUME HeapInv, PinInv, CopyInv,
         FrameBeginDrop \/ FrameBegin \/ FrameEndDropped \/ FrameEndLost \/ FrameEndPublish
  PROVE  CopyInv'
<1>1. UNCHANGED <<cache, heap, sdram, ver>>
  BY DEF FrameBeginDrop, FrameBegin, FrameEndDropped, FrameEndLost, FrameEndPublish,
     cacheVars,
         fabricVars
<1>2. CASE FrameBeginDrop \/ FrameBegin \/ FrameEndDropped
  <2>1. UNCHANGED <<flight, busy, pos, lost>> /\ ~Recorded
    BY <1>2 DEF FrameBeginDrop, FrameBegin, FrameEndDropped, fabricVars, Recorded
  <2>2. CopyComes'
    BY <1>1, <2>1 DEF CopyInv, CopyComes, Copied, StageAhead, InFlightStage, Occupied, Slots
  <2>3. FlightInOrder'
    BY <1>1, <2>1 DEF CopyInv, FlightInOrder, Copied, InFlightStage, Live, Stale
  <2>4. RingInOrder'
    <3>1. Publishable' => DOMAIN ring'.cmds = {}
      BY <1>2
         DEF FrameBeginDrop, FrameBegin, FrameEndDropped, Publishable, Recorded, EmptyRing
    <3> QED BY <3>1 DEF RingInOrder
  <2> QED BY <2>2, <2>3, <2>4 DEF CopyInv
<1>3. ring \in Rings /\ Grows(ring, Closed, OpenDraws \union {EndCommand})
  BY ClosedGrows DEF HeapInv, Shapes
<1>4. DOMAIN ring.cmds = 1 .. Len(ring.cmds) /\ DOMAIN Closed.cmds = 1 .. Len(Closed.cmds)
      /\ Len(ring.cmds) \in Nat /\ Len(Closed.cmds) \in Nat
  BY <1>3 DEF Grows, Rings
<1>5. CASE FrameEndLost
  <2>1. UNCHANGED <<flight, busy, pos>> /\ lost' = lost \union Staged(Closed) /\ ~Recorded'
    BY <1>5 DEF FrameEndLost, fabricVars, Recorded
  <2>2. ASSUME NEW p, RingStage(p, Len(ring.cmds) + 1) PROVE p \in lost'
    <3>1. PICK i \in DOMAIN ring.cmds : Stages(ring.cmds, i, p)
      BY <2>2 DEF RingStage
    <3>2. i \in 1 .. Len(Closed.cmds) /\ Closed.cmds[i].op = "stage"
            /\ Closed.cmds[i].page = p
      BY <1>3, <1>4, <3>1 DEF Grows, Stages
    <3> QED BY <2>1, <3>2 DEF Staged
  <2>3. CopyComes'
    <3> SUFFICES ASSUME NEW s \in Slots, Occupied(s), NEW p, p = cache[s].page
                 PROVE  Copied(p)' \/ StageAhead(p)'
      BY <1>1 DEF CopyComes, Copied, StageAhead, InFlightStage, Occupied, Slots
    <3>1. Copied(p) \/ StageAhead(p) \/ RingStage(p, Len(ring.cmds) + 1)
      BY DEF CopyInv, CopyComes
    <3> QED BY <1>1, <2>1, <2>2, <3>1 DEF Copied, StageAhead, InFlightStage
  <2>4. FlightInOrder'
    BY <1>1, <2>1 DEF CopyInv, FlightInOrder, Copied, InFlightStage, Live, Stale
  <2>5. RingInOrder'
    BY <2>1 DEF RingInOrder, Publishable
  <2> QED BY <2>3, <2>4, <2>5 DEF CopyInv
<1>6. CASE FrameEndPublish
  <2>1. /\ flight' = [cmds |-> Closed.cmds, arena |-> arena] /\ busy' /\ pos' = 0
             /\ lost' = lost
        /\ ~busy /\ ~Recorded' /\ Recorded /\ ~Closed.overflow
    BY <1>6 DEF FrameEndPublish, Recorded
  <2>2. Publishable /\ Len(Closed.cmds) > Len(ring.cmds)
    BY <1>3, <2>1, ClosedGrows DEF HeapInv, Publishable
  <2>3. ASSUME NEW p, NEW j \in Nat, NEW m \in Nat, RingStage(p, j), j <= m
                 \/ Len(ring.cmds) < m
        PROVE  InFlightStage(p, m)'
    <3>1. PICK i \in DOMAIN ring.cmds : i < j /\ Stages(ring.cmds, i, p)
      BY <2>3 DEF RingStage
    <3>2. i \in DOMAIN Closed.cmds /\ Stages(Closed.cmds, i, p) /\ 0 < i /\ i < m
      BY <1>3, <1>4, <2>3, <3>1 DEF Grows, Stages
    <3> QED BY <2>1, <3>2 DEF InFlightStage
  <2>4. \A p : ~StageAhead(p)
    BY <2>1 DEF StageAhead, InFlightStage
  <2>5. \A p : Copied(p) => Copied(p)'
    BY <1>1, <2>1 DEF Copied
  <2>6. Len(ring.cmds) + 1 \in Nat
    BY <1>4
  <2>7. CopyComes'
    <3> SUFFICES ASSUME NEW s \in Slots, Occupied(s), NEW p, p = cache[s].page
                 PROVE  Copied(p)' \/ StageAhead(p)'
      BY <1>1 DEF CopyComes, Copied, StageAhead, InFlightStage, Occupied, Slots
    <3>1. Copied(p) \/ RingStage(p, Len(ring.cmds) + 1)
      BY <2>4 DEF CopyInv, CopyComes
    <3>2. PICK m : m = Len(Closed.cmds)
      OBVIOUS
    <3>3. RingStage(p, Len(ring.cmds) + 1) => InFlightStage(p, m)'
      BY <1>4, <2>2, <2>3, <2>6, <3>2
    <3>4. InFlightStage(p, m)' => StageAhead(p)'
      BY <2>1, <3>2 DEF StageAhead, InFlightStage
    <3> QED BY <2>5, <3>1, <3>3, <3>4
  <2>8. FlightInOrder'
    <3> SUFFICES ASSUME NEW j \in DOMAIN Closed.cmds, Closed.cmds[j].op = "draw",
                        Live(Closed.cmds[j]), NEW p, p = Closed.cmds[j].page
                 PROVE  Copied(p)' \/ InFlightStage(p, j)'
      BY <1>1, <2>1 DEF FlightInOrder, Copied, InFlightStage, Live, Stale
    <3>0. j \in Nat
      BY <1>4
    <3>1. CASE j \in DOMAIN ring.cmds
      <4>1. Copied(p) \/ RingStage(p, j)
        BY <1>3, <2>2, <2>4, <3>1 DEF Grows, CopyInv, RingInOrder
      <4> QED BY <2>3, <2>5, <3>0, <4>1
    <3>2. CASE j \notin DOMAIN ring.cmds
      <4>1. Closed.cmds[j] \in OpenDraws /\ j > Len(ring.cmds)
        BY <1>3, <3>2 DEF Grows, EndCommand
      <4>2. open # NoBatch /\ p = open.page /\ Live(open)
        BY <4>1, DrawIsCommand DEF HeapInv, Live
      <4>3. Kept(p, frameFloor)
        BY <2>2, <4>2, LiveIsKept DEF PinInv, OpenHeld
      <4>4. Copied(p) \/ RingStage(p, Len(ring.cmds) + 1)
        BY <2>4, <4>3, OpenComes DEF Comes
      <4> QED BY <1>4, <2>3, <2>5, <2>6, <3>0, <4>1, <4>4
    <3> QED BY <3>1, <3>2
  <2>9. RingInOrder'
    BY <2>1 DEF RingInOrder, Publishable
  <2> QED BY <2>7, <2>8, <2>9 DEF CopyInv
<1> QED BY <1>2, <1>5, <1>6

\* One command further: what it stages is up to date, and no other STAGE is passed.
LEMMA FabricKeepsCopies ==
  ASSUME HeapInv, CopyInv, FabricStage \/ FabricDraw \/ FabricAck PROVE CopyInv'
<1>1. busy /\ UNCHANGED <<cache, heap, ver, flight, ring, hpc, dropped>>
  BY DEF FabricStage, FabricDraw, FabricAck, frameVars, emitVars, cacheVars
<1>2. pos \in Nat /\ DOMAIN flight.cmds = 1 .. Len(flight.cmds) /\ Len(flight.cmds) \in Nat
      /\ pos + 1 \in DOMAIN flight.cmds
  BY <1>1, CurrentIs
<1>3. ASSUME NEW p, Copied(p) PROVE Copied(p)'
  <2>1. CASE FabricStage
    <3>1. Current.page \in Pages
      BY <1>1, <2>1, CurrentIs DEF FabricStage, Command
    <3> QED BY <1>1, <1>3, <2>1, <3>1 DEF FabricStage, Copied, HeapInv, TypeOK
  <2>2. CASE FabricDraw \/ FabricAck
    BY <1>1, <1>3, <2>2 DEF FabricDraw, FabricAck, Copied
  <2> QED BY <2>1, <2>2
<1>4. ASSUME NEW p, NEW j \in DOMAIN flight.cmds, InFlightStage(p, j)
      PROVE  Copied(p)' \/ InFlightStage(p, j)'
  <2>1. PICK i \in DOMAIN flight.cmds : pos < i /\ i < j /\ Stages(flight.cmds, i, p)
    BY <1>4 DEF InFlightStage
  <2>2. CASE i = pos + 1
    <3>1. Current.op = "stage" /\ Current.page = p
      BY <2>1, <2>2 DEF Stages, Current
    <3>2. FabricStage /\ p \in Pages
      BY <1>1, <3>1, CurrentIs DEF FabricStage, FabricDraw, FabricAck, Command
    <3>3. sdram'[p] = heap'[p]
      BY <1>1, <3>1, <3>2 DEF FabricStage, HeapInv, TypeOK
    <3> QED BY <3>3 DEF Copied
  <2>3. CASE i # pos + 1
    <3>1. pos + 1 < i /\ pos + 1 < Len(flight.cmds)
      BY <1>2, <2>1, <2>3
    <3>2. ~FabricAck
      BY <1>1, <1>2, <3>1, CurrentIs DEF FabricAck
    <3>3. busy' /\ pos' = pos + 1
      BY <1>1, <3>2 DEF FabricStage, FabricDraw
    <3> QED BY <1>1, <2>1, <3>1, <3>3 DEF InFlightStage
  <2> QED BY <2>2, <2>3
<1>5. \A p : StageAhead(p) => Copied(p)' \/ StageAhead(p)'
  <2>1. Len(flight.cmds) \in DOMAIN flight.cmds
    BY <1>2
  <2> QED BY <1>1, <1>4, <2>1 DEF StageAhead, InFlightStage
<1>6. \A p, j : RingStage(p, j) <=> RingStage(p, j)'
  BY <1>1 DEF RingStage
<1>7. CopyComes'
  <2> SUFFICES ASSUME NEW s \in Slots, Occupied(s), NEW p, p = cache[s].page
               PROVE  Comes(p)'
    BY <1>1 DEF CopyComes, Comes, Copied, StageAhead, InFlightStage, RingStage, Occupied, Slots
  <2>1. Comes(p)
    BY DEF CopyInv, CopyComes, Comes
  <2>2. PICK n : n = Len(ring.cmds) + 1
    OBVIOUS
  <2>3. Recorded /\ RingStage(p, n) => Recorded' /\ RingStage(p, n)'
    BY <1>1, <1>6 DEF Recorded
  <2> QED BY <1>1, <1>3, <1>5, <2>1, <2>2, <2>3 DEF Comes, RingStage
<1>8. FlightInOrder'
  <2> SUFFICES ASSUME busy', NEW j \in DOMAIN flight.cmds, j > pos',
                      flight.cmds[j].op = "draw", Live(flight.cmds[j]),
                      NEW p, p = flight.cmds[j].page
               PROVE  Copied(p)' \/ InFlightStage(p, j)'
    BY <1>1 DEF FlightInOrder, Copied, InFlightStage, Live, Stale
  <2>1. pos' = pos + 1 \/ pos' = pos
    BY DEF FabricStage, FabricDraw, FabricAck
  <2>2. j > pos
    BY <1>2, <2>1
  <2>3. Copied(p) \/ InFlightStage(p, j)
    BY <1>1, <2>2 DEF CopyInv, FlightInOrder
  <2> QED BY <1>3, <1>4, <2>3
<1>9. RingInOrder'
  <2> SUFFICES ASSUME Publishable', NEW j \in DOMAIN ring.cmds, ring.cmds[j].op = "draw",
                      Live(ring.cmds[j]), NEW p, p = ring.cmds[j].page
               PROVE  Copied(p)' \/ StageAhead(p)' \/ RingStage(p, j)'
    BY <1>1 DEF RingInOrder, Copied, StageAhead, InFlightStage, RingStage, Live, Stale
  <2>1. Copied(p) \/ StageAhead(p) \/ RingStage(p, j)
    BY <1>1 DEF CopyInv, RingInOrder, Publishable, Recorded
  <2> QED BY <1>3, <1>5, <1>6, <2>1
<1> QED BY <1>7, <1>8, <1>9 DEF CopyInv

-----------------------------------------------------------------------------
(* The theorems.                                                           *)

ResidencyInv == HeapInv /\ PinInv /\ CopyInv

LEMMA StepKeepsCopies ==
  ASSUME HeapInv, PinInv, CopyInv, [Next]_vars PROVE CopyInv'
<1>1. CASE UNCHANGED vars
  BY <1>1
     DEF vars, frameVars, emitVars, cacheVars, floorVars, fabricVars, CopyInv, CopyComes,
     FlightInOrder, RingInOrder, Copied, StageAhead, InFlightStage, RingStage, Publishable,
     Recorded, Live, Stale, Occupied, Slots
<1>2. CASE FrameBeginDrop \/ FrameBegin \/ FrameEndDropped \/ FrameEndLost
        \/ FrameEndPublish
  BY <1>2, FrameKeepsCopies
<1>3. CASE FabricStage \/ FabricDraw \/ FabricAck
  BY <1>3, FabricKeepsCopies
<1>4. ASSUME NEW k \in Keys, DrawHit(k) \/ DrawRefused(k) \/ DrawCacheFull(k) \/ DrawMiss(k)
                               \/ InvalidateTex(k)
      PROVE  CopyInv'
  <2>1. CASE InvalidateTex(k)
    BY <2>1, InvalidateKeepsCopies
  <2>2. CASE DrawHit(k) \/ DrawRefused(k) \/ DrawCacheFull(k)
    BY <2>2, DrawsSpare, DrawsKeepCopies
  <2>3. CASE DrawMiss(k)
    BY <2>3, DrawsSpare, MissKeepsCopies
  <2> QED BY <1>4, <2>1, <2>2, <2>3
<1> QED BY <1>1, <1>2, <1>3, <1>4 DEF Next

\* The invariant of the cache, its heap and the two frames in flight: who owns a page, what
\* stays pinned, and which copy is up to date.
THEOREM ResidencyInvariant == Spec => []ResidencyInv
<1>1. Init => ResidencyInv
  <2>1. Init => CopyInv
    BY DEF Init, CopyInv, CopyComes, FlightInOrder, RingInOrder, Publishable, Recorded,
       Occupied, Slots
  <2> QED BY <2>1, InitHeap, InitPins DEF ResidencyInv
<1>2. ResidencyInv /\ [Next]_vars => ResidencyInv'
  BY StepKeepsHeap, StepKeepsPins, StepKeepsCopies DEF ResidencyInv
<1> QED BY <1>1, <1>2, PTL DEF Spec

\* No page that a command of the two frames needs is handed out or written over for as long
\* as the game leaves its texture alone, whatever it uploads, changes or deletes meanwhile.
THEOREM PendingPagesPinned == Spec => []FlightPagesPinned
<1>1. ResidencyInv => FlightPagesPinned
  <2> SUFFICES ASSUME ResidencyInv, NEW c \in (IF ring.overflow THEN InFlight ELSE Pending),
                      NEW t \in c.want, ~Stale(t)
               PROVE  heap[c.page] = t /\ c.page \notin free
    BY DEF FlightPagesPinned
  <2>1. DOMAIN flight.cmds = 1 .. Len(flight.cmds) /\ DOMAIN ring.cmds = 1 .. Len(ring.cmds)
        /\ flight.cmds \in Seq(Commands) /\ ring.cmds \in Seq(Commands)
    BY DEF ResidencyInv, HeapInv, Shapes, Rings
  <2>2. ASSUME NEW f, Held(c, f) PROVE heap[c.page] = t /\ c.page \notin free
    BY <2>2 DEF Held, Kept, ResidencyInv, HeapInv, PagesOwned
  <2>3. CASE c \in InFlight
    <3>1. PICK i \in DOMAIN flight.cmds : busy /\ i > pos /\ c = flight.cmds[i]
      BY <2>1, <2>3 DEF InFlight
    <3>2. c # EndCommand
      BY DEF EndCommand
    <3> QED BY <2>2, <3>1, <3>2 DEF ResidencyInv, PinInv, FlightHeld
  <2>4. CASE c \notin InFlight
    <3>1. PICK i \in DOMAIN ring.cmds : Publishable /\ c = ring.cmds[i]
      BY <2>1, <2>4 DEF Pending, Publishable, Recorded
    <3> QED BY <2>2, <3>1 DEF ResidencyInv, PinInv, RingHeld
  <2> QED BY <2>3, <2>4
<1> QED BY <1>1, ResidencyInvariant, PTL

\* A draw samples the texels its textures had when it was issued, except from a page whose
\* STAGE was lost with its frame, or for a texture the game has changed since.
THEOREM DrawsSampleOrLost == Spec => []DrawsSampleUnlessStageLost
<1>1. ResidencyInv => DrawsSampleUnlessStageLost
  <2> SUFFICES ASSUME ResidencyInv, busy, Current.op = "draw", Current.page \notin lost,
                      NEW t \in Current.want, ~Stale(t)
               PROVE  sdram[Current.page] = t
    BY DEF DrawsSampleUnlessStageLost
  <2>1. pos + 1 \in DOMAIN flight.cmds /\ pos \in Nat
        /\ DOMAIN flight.cmds = 1 .. Len(flight.cmds)
    BY CurrentIs DEF ResidencyInv
  <2>2. pos + 1 > pos /\ ~ \E i \in DOMAIN flight.cmds : pos < i /\ i < pos + 1
    BY <2>1
  <2>3. Live(Current)
    BY DEF Live
  <2>4. Copied(Current.page)
    BY <2>1, <2>2, <2>3 DEF ResidencyInv, CopyInv, FlightInOrder, InFlightStage, Current
  <2>5. Current # EndCommand
    BY DEF EndCommand
  <2>6. Held(Current, FlightFloor)
    BY <2>1, <2>2, <2>5 DEF ResidencyInv, PinInv, FlightHeld, Current
  <2>7. heap[Current.page] = t
    BY <2>6 DEF Held
  <2> QED BY <2>4, <2>7 DEF Copied
<1> QED BY <1>1, ResidencyInvariant, PTL

-----------------------------------------------------------------------------
(***************************************************************************)
(* THE ALLOCATOR, for every region, alignment, array and set of sizes: no  *)
(* byte of the source heap is lost or given out twice.  The argument is    *)
(* that the free blocks and the blocks that are out always cut the region  *)
(* up: blt_alloc cuts a free block in two, or moves one across; blt_free   *)
(* joins blocks that touch, or moves one back.  That no two free blocks    *)
(* touch is what makes a gap a single block, and the list short.           *)
(***************************************************************************)

-----------------------------------------------------------------------------
(* Minimal counterexamples, in place of induction.                         *)

LEMMA SmallestNat ==
  ASSUME NEW T \in SUBSET Nat, T # {}
  PROVE  \E x \in T : \A y \in T : ~ (y < x)
<1> DEFINE R == {ss \in Nat \X Nat : ss[1] < ss[2]}
<1>1. IsWellFoundedOn(R, Nat)
  BY NatLessThanWellFounded, Zenon DEF OpToRel
<1>2. PICK x \in T : \A y \in T : ~ (<<y, x>> \in R)
  <2> HIDE DEF R
  <2> QED BY <1>1, WFMin
<1> QED BY <1>2

-----------------------------------------------------------------------------
(* Sums of bytes: a fold over a set, element by element as CHOOSE has it.  *)

AnyOf(s) == CHOOSE x \in s : TRUE

SumsOver(f, S) ==
  f = [s \in SUBSET S |-> IF s = {} THEN 0 ELSE AnyOf(s).size + f[s \ {AnyOf(s)}]]

LEMMA AnyIsOne ==
  ASSUME NEW s, s # {}
  PROVE  AnyOf(s) \in s
BY Zenon DEF AnyOf

LEMMA OneLess ==
  ASSUME NEW s, IsFiniteSet(s), s # {}
  PROVE  /\ IsFiniteSet(s \ {AnyOf(s)})
         /\ Cardinality(s) \in Nat \ {0}
         /\ Cardinality(s \ {AnyOf(s)}) = Cardinality(s) - 1
BY AnyIsOne, FS_RemoveElement, FS_CardinalityType, FS_EmptySet

\* Two sums agree on the sets both are defined on.
LEMMA SumsAgree ==
  ASSUME NEW S, NEW T, NEW f, NEW g, SumsOver(f, S), SumsOver(g, T),
         NEW s \in SUBSET S, s \in SUBSET T, IsFiniteSet(s)
  PROVE  f[s] = g[s]
<1> DEFINE Differ(n) == \E t : /\ t \in SUBSET S /\ t \in SUBSET T /\ IsFiniteSet(t)
                               /\ Cardinality(t) = n /\ f[t] # g[t]
           Bad == {n \in Nat : Differ(n)}
<1> SUFFICES ASSUME f[s] # g[s] PROVE FALSE
  OBVIOUS
<1>1. Bad \in SUBSET Nat /\ Cardinality(s) \in Bad
  BY FS_CardinalityType
<1>2. PICK n \in Bad : \A m \in Bad : ~ (m < n)
  <2> HIDE DEF Bad
  <2> QED BY <1>1, SmallestNat
<1>3. PICK t : /\ t \in SUBSET S /\ t \in SUBSET T /\ IsFiniteSet(t)
               /\ Cardinality(t) = n /\ f[t] # g[t]
  BY <1>2
<1>4. CASE t = {}
  BY <1>3, <1>4 DEF SumsOver
<1>5. CASE t # {}
  <2>1. PICK u : u = t \ {AnyOf(t)}
    OBVIOUS
  <2>2. IsFiniteSet(u) /\ Cardinality(u) = n - 1 /\ n \in Nat \ {0} /\ n - 1 \in Nat
    <3>1. /\ IsFiniteSet(t \ {AnyOf(t)}) /\ Cardinality(t) \in Nat \ {0}
          /\ Cardinality(t \ {AnyOf(t)}) = Cardinality(t) - 1
      BY <1>3, <1>5, OneLess
    <3> QED BY <1>3, <2>1, <3>1
  <2>3. u \in SUBSET S /\ u \in SUBSET T
    BY <1>3, <2>1
  <2>4. ~ Differ(n - 1)
    <3>1. n - 1 < n
      BY <2>2
    <3> QED BY <1>2, <2>2, <3>1
  <2>5. f[u] = g[u]
    BY <2>2, <2>3, <2>4
  <2>6. f[t] = AnyOf(t).size + f[u] /\ g[t] = AnyOf(t).size + g[u]
    BY <1>3, <1>5, <2>1 DEF SumsOver
  <2> QED BY <1>3, <2>5, <2>6
<1> QED BY <1>4, <1>5

Total(S) == (CHOOSE f : SumsOver(f, S))[S]

LEMMA BytesAreTotal ==
  ASSUME NEW S
  PROVE  Bytes(S) = Total(S)
BY DEF Bytes, MapThenSumSet, MapThenFoldSet, Total, SumsOver, AnyOf

LEMMA SumsExist ==
  ASSUME NEW S, IsFiniteSet(S)
  PROVE  \E f : SumsOver(f, S)
<1> DEFINE None(n) == \E t : IsFiniteSet(t) /\ Cardinality(t) = n /\ ~ \E f : SumsOver(f, t)
           Bad == {n \in Nat : None(n)}
<1> SUFFICES ASSUME ~ \E f : SumsOver(f, S) PROVE FALSE
  OBVIOUS
<1>1. Bad \in SUBSET Nat /\ Cardinality(S) \in Bad
  BY FS_CardinalityType
<1>2. PICK n \in Bad : \A m \in Bad : ~ (m < n)
  <2> HIDE DEF Bad
  <2> QED BY <1>1, SmallestNat
<1>3. PICK T : IsFiniteSet(T) /\ Cardinality(T) = n /\ ~ \E f : SumsOver(f, T)
  BY <1>2
<1>4. ASSUME NEW t \in SUBSET T, t # T
      PROVE  SumsOver(CHOOSE f : SumsOver(f, t), t) /\ IsFiniteSet(t)
  <2>1. IsFiniteSet(t) /\ Cardinality(t) < n /\ Cardinality(t) \in Nat
    BY <1>3, <1>4, FS_Subset, FS_CardinalityType
  <2>2. ~ None(Cardinality(t))
    BY <1>2, <2>1
  <2>3. \E f : SumsOver(f, t)
    BY <2>1, <2>2
  <2>4. SumsOver(CHOOSE f : SumsOver(f, t), t)
    BY <2>3, Zenon
  <2> QED BY <2>1, <2>4
<1>5. ASSUME NEW t \in SUBSET T, t # T, t # {}
      PROVE  Total(t) = AnyOf(t).size + Total(t \ {AnyOf(t)})
  <2>1. PICK f : f = CHOOSE sum : SumsOver(sum, t)
    OBVIOUS
  <2>2. PICK u : u = t \ {AnyOf(t)}
    OBVIOUS
  <2>3. u \in SUBSET t /\ u \in SUBSET T /\ u # T /\ t \in SUBSET t
    BY <1>5, <2>2
  <2>4. PICK g : g = CHOOSE sum : SumsOver(sum, u)
    OBVIOUS
  <2>5. SumsOver(f, t) /\ SumsOver(g, u) /\ IsFiniteSet(u)
    BY <1>4, <1>5, <2>1, <2>3, <2>4
  <2>6. f[u] = g[u]
    BY <2>3, <2>5, SumsAgree
  <2>7. f[t] = AnyOf(t).size + f[u]
    BY <1>5, <2>2, <2>3, <2>5 DEF SumsOver
  <2>8. Total(t) = f[t] /\ Total(u) = g[u]
    BY <2>1, <2>4 DEF Total
  <2> QED BY <2>2, <2>6, <2>7, <2>8
<1> DEFINE h == [t \in SUBSET T |->
                  IF t = {} THEN 0
                  ELSE IF t = T THEN AnyOf(T).size + Total(T \ {AnyOf(T)}) ELSE Total(t)]
<1>6. Total({}) = 0 \/ T = {}
  <2>1. CASE T # {}
    <3>1. SumsOver(CHOOSE f : SumsOver(f, {}), {})
      BY <1>4, <2>1
    <3> QED BY <3>1 DEF Total, SumsOver
  <2> QED BY <2>1
<1>7. ASSUME NEW t \in SUBSET T
      PROVE  h[t] = IF t = {} THEN 0 ELSE AnyOf(t).size + h[t \ {AnyOf(t)}]
  <2>1. CASE t = {}
    BY <2>1
  <2>2. CASE t # {}
    <3>1. PICK u : u = t \ {AnyOf(t)}
      OBVIOUS
    <3>2. u \in SUBSET T /\ u # T
      BY <2>2, <3>1, AnyIsOne
    <3>3. h[u] = Total(u)
      BY <1>6, <2>2, <3>2
    <3>4. h[t] = AnyOf(t).size + Total(u)
      BY <1>5, <2>2, <3>1
    <3> QED BY <2>2, <3>1, <3>3, <3>4
  <2> QED BY <2>1, <2>2
<1>8. h = [t \in SUBSET T |-> h[t]]
  OBVIOUS
<1>9. SumsOver(h, T)
  <2> HIDE DEF h
  <2> QED BY <1>7, <1>8 DEF SumsOver
<1> QED BY <1>3, <1>9

LEMMA BytesOneMore ==
  ASSUME NEW S, IsFiniteSet(S)
  PROVE  /\ Bytes({}) = 0
         /\ S # {} => Bytes(S) = AnyOf(S).size + Bytes(S \ {AnyOf(S)})
<1>1. \A T : IsFiniteSet(T) => SumsOver(CHOOSE f : SumsOver(f, T), T)
  BY SumsExist, Zenon
<1>2. Bytes({}) = 0
  <2>1. SumsOver(CHOOSE f : SumsOver(f, {}), {})
    BY <1>1, FS_EmptySet
  <2> QED BY <2>1, BytesAreTotal DEF Total, SumsOver
<1>3. ASSUME S # {} PROVE Bytes(S) = AnyOf(S).size + Bytes(S \ {AnyOf(S)})
  <2>1. PICK f : f = CHOOSE sum : SumsOver(sum, S)
    OBVIOUS
  <2>2. PICK u : u = S \ {AnyOf(S)}
    OBVIOUS
  <2>3. u \in SUBSET S /\ u \in SUBSET u /\ IsFiniteSet(u)
    BY <1>3, <2>2, OneLess
  <2>4. PICK g : g = CHOOSE sum : SumsOver(sum, u)
    OBVIOUS
  <2>5. SumsOver(f, S) /\ SumsOver(g, u)
    BY <1>1, <2>1, <2>3, <2>4
  <2>6. f[u] = g[u]
    BY <2>3, <2>5, SumsAgree
  <2>7. f[S] = AnyOf(S).size + f[u]
    BY <1>3, <2>2, <2>5 DEF SumsOver
  <2>8. Bytes(S) = f[S] /\ Bytes(u) = g[u]
    BY <2>1, <2>4, BytesAreTotal DEF Total
  <2> QED BY <2>2, <2>6, <2>7, <2>8
<1> QED BY <1>2, <1>3

Sized(S) == IsFiniteSet(S) /\ \A b \in S : b.size \in Nat

LEMMA BytesAreNat ==
  ASSUME NEW S, Sized(S)
  PROVE  Bytes(S) \in Nat
<1> DEFINE Wrong(n) == \E t : Sized(t) /\ Cardinality(t) = n /\ ~ Bytes(t) \in Nat
           Bad == {n \in Nat : Wrong(n)}
<1> SUFFICES ASSUME ~ Bytes(S) \in Nat PROVE FALSE
  OBVIOUS
<1>1. Bad \in SUBSET Nat /\ Cardinality(S) \in Bad
  BY FS_CardinalityType DEF Sized
<1>2. PICK n \in Bad : \A m \in Bad : ~ (m < n)
  <2> HIDE DEF Bad
  <2> QED BY <1>1, SmallestNat
<1>3. PICK t : Sized(t) /\ Cardinality(t) = n /\ ~ Bytes(t) \in Nat
  BY <1>2
<1>4. IsFiniteSet(t) /\ t # {}
  BY <1>3, BytesOneMore DEF Sized
<1>5. PICK c : c = AnyOf(t)
  OBVIOUS
<1>6. PICK u : u = t \ {c}
  OBVIOUS
<1>7. c \in t /\ IsFiniteSet(u) /\ Cardinality(t) \in Nat \ {0} /\ Cardinality(u) = Cardinality(t) - 1
  BY <1>4, <1>5, <1>6, OneLess, AnyIsOne
<1>8. Cardinality(u) \in Nat /\ Cardinality(u) < n
  BY <1>3, <1>7
<1>9. Sized(u)
  BY <1>3, <1>6, <1>7 DEF Sized
<1>10. Bytes(u) \in Nat
  BY <1>2, <1>8, <1>9
<1>11. Bytes(t) = c.size + Bytes(u) /\ c.size \in Nat
  BY <1>3, <1>4, <1>5, <1>6, <1>7, BytesOneMore DEF Sized
<1> QED BY <1>3, <1>10, <1>11

\* One block more is its bytes more.
LEMMA BytesAddOne ==
  ASSUME NEW S, NEW x, Sized(S), x.size \in Nat, x \notin S
  PROVE  Bytes(S \union {x}) = Bytes(S) + x.size
<1> DEFINE Wrong(n) == \E t, y : /\ Sized(t) /\ Cardinality(t) = n
                                 /\ y.size \in Nat /\ y \notin t
                                 /\ Bytes(t \union {y}) # Bytes(t) + y.size
           Bad == {n \in Nat : Wrong(n)}
<1> SUFFICES ASSUME Bytes(S \union {x}) # Bytes(S) + x.size PROVE FALSE
  OBVIOUS
<1>1. Bad \in SUBSET Nat /\ Cardinality(S) \in Bad
  BY FS_CardinalityType DEF Sized
<1>2. PICK n \in Bad : \A m \in Bad : ~ (m < n)
  <2> HIDE DEF Bad
  <2> QED BY <1>1, SmallestNat
<1>3. PICK t, y : /\ Sized(t) /\ Cardinality(t) = n
                  /\ y.size \in Nat /\ y \notin t
                  /\ Bytes(t \union {y}) # Bytes(t) + y.size
  BY <1>2
<1>4. PICK v : v = t \union {y}
  OBVIOUS
<1>5. IsFiniteSet(t) /\ IsFiniteSet(v) /\ v # {} /\ Sized(v)
  BY <1>3, <1>4, FS_AddElement DEF Sized
<1>6. PICK c : c = AnyOf(v)
  OBVIOUS
<1>7. c \in v /\ Bytes(v) = c.size + Bytes(v \ {c}) /\ c.size \in Nat
  BY <1>5, <1>6, AnyIsOne, BytesOneMore DEF Sized
<1>8. Bytes(t) \in Nat
  BY <1>3, BytesAreNat
<1>9. CASE c = y
  <2>1. v \ {c} = t
    BY <1>3, <1>4, <1>9
  <2>2. Bytes(v) = y.size + Bytes(t) /\ Bytes(v) # Bytes(t) + y.size
    BY <1>3, <1>4, <1>7, <1>9, <2>1
  <2> QED BY <1>3, <1>8, <2>2
<1>10. CASE c # y
  <2>1. PICK u : u = t \ {c}
    OBVIOUS
  <2>2. c \in t /\ c \notin u /\ y \notin u /\ t = u \union {c} /\ v \ {c} = u \union {y}
    BY <1>3, <1>4, <1>7, <1>10, <2>1
  <2>3. IsFiniteSet(u) /\ Cardinality(u) = n - 1 /\ n \in Nat \ {0}
    <3>1. IsFiniteSet(t \ {c}) /\ Cardinality(t \ {c}) = Cardinality(t) - 1
      BY <1>5, <2>2, FS_RemoveElement
    <3>2. Cardinality(t) # 0
      BY <1>5, <2>2, FS_EmptySet
    <3> QED BY <1>3, <1>5, <2>1, <3>1, <3>2, FS_CardinalityType
  <2>4. Cardinality(u) \in Nat /\ Cardinality(u) < n
    BY <2>3
  <2>5. Sized(u)
    BY <1>3, <2>1, <2>3 DEF Sized
  <2>6. ~ Wrong(Cardinality(u))
    BY <1>2, <2>4
  <2>7. Bytes(u \union {y}) = Bytes(u) + y.size /\ Bytes(u \union {c}) = Bytes(u) + c.size
    BY <1>3, <1>7, <2>2, <2>5, <2>6
  <2>8. Bytes(u) \in Nat
    BY <2>5, BytesAreNat
  <2>9. Bytes(v) = c.size + (Bytes(u) + y.size) /\ Bytes(t) = Bytes(u) + c.size
    BY <1>7, <2>2, <2>7
  <2> QED BY <1>3, <1>4, <1>7, <2>8, <2>9
<1> QED BY <1>9, <1>10

LEMMA BytesLessOne ==
  ASSUME NEW S, NEW x \in S, Sized(S)
  PROVE  /\ Sized(S \ {x}) /\ x.size \in Nat /\ Bytes(S \ {x}) \in Nat
         /\ Bytes(S) = Bytes(S \ {x}) + x.size
<1>1. Sized(S \ {x}) /\ x.size \in Nat
  BY FS_RemoveElement DEF Sized
<1>2. S = (S \ {x}) \union {x} /\ x \notin S \ {x}
  OBVIOUS
<1> QED BY <1>1, <1>2, BytesAddOne, BytesAreNat

LEMMA BytesUnion ==
  ASSUME NEW S, NEW T, Sized(S), Sized(T), S \intersect T = {}
  PROVE  Bytes(S \union T) = Bytes(S) + Bytes(T)
<1> DEFINE Wrong(n) == \E t : /\ Sized(t) /\ Cardinality(t) = n /\ S \intersect t = {}
                              /\ Bytes(S \union t) # Bytes(S) + Bytes(t)
           Bad == {n \in Nat : Wrong(n)}
<1> SUFFICES ASSUME Bytes(S \union T) # Bytes(S) + Bytes(T) PROVE FALSE
  OBVIOUS
<1>1. Bad \in SUBSET Nat /\ Cardinality(T) \in Bad
  BY FS_CardinalityType DEF Sized
<1>2. PICK n \in Bad : \A m \in Bad : ~ (m < n)
  <2> HIDE DEF Bad
  <2> QED BY <1>1, SmallestNat
<1>3. PICK t : /\ Sized(t) /\ Cardinality(t) = n /\ S \intersect t = {}
               /\ Bytes(S \union t) # Bytes(S) + Bytes(t)
  BY <1>2
<1>4. IsFiniteSet(t) /\ Bytes(S) \in Nat
  BY <1>3, BytesAreNat DEF Sized
<1>5. CASE t = {}
  <2>1. S \union t = S /\ Bytes(t) = 0
    BY <1>4, <1>5, BytesOneMore
  <2> QED BY <1>3, <1>4, <2>1
<1>6. CASE t # {}
  <2>1. PICK c : c \in t
    BY <1>6
  <2>2. PICK u : u = t \ {c}
    OBVIOUS
  <2>3. /\ Sized(u) /\ c.size \in Nat /\ Bytes(u) \in Nat
        /\ Bytes(t) = Bytes(u) + c.size
    BY <1>3, <2>1, <2>2, BytesLessOne
  <2>4. Cardinality(u) \in Nat /\ Cardinality(u) < n
    <3>1. Cardinality(u) = Cardinality(t) - 1
      BY <1>4, <2>1, <2>2, FS_RemoveElement
    <3> QED BY <1>3, <1>4, <2>3, <3>1, FS_CardinalityType DEF Sized
  <2>5. Bytes(S \union u) = Bytes(S) + Bytes(u)
    BY <1>2, <1>3, <2>2, <2>3, <2>4
  <2>6. PICK v : v = S \union u
    OBVIOUS
  <2>7. Sized(v) /\ c \notin v /\ S \union t = v \union {c}
    BY <1>3, <2>1, <2>2, <2>3, <2>6, FS_Union DEF Sized
  <2>8. Bytes(v \union {c}) = Bytes(v) + c.size
    BY <2>3, <2>7, BytesAddOne
  <2> QED BY <1>3, <1>4, <2>3, <2>5, <2>6, <2>7, <2>8
<1> QED BY <1>5, <1>6

-----------------------------------------------------------------------------
(* The region, cut into blocks: what splitting and joining them keeps.     *)

Aligned(x) == x \in Nat /\ x % Align = 0

Placed(b) ==
  /\ b = Block(b.off, b.size)
  /\ Aligned(b.off) /\ Aligned(b.size) /\ b.size > 0
  /\ Base <= b.off /\ b.off + b.size <= Base + Size

Apart(a, b) == End(a) <= b.off \/ End(b) <= a.off

Covers(b, p) == b.off <= p /\ p < End(b)

\* Every byte of the region is in one block.
Partition(A) ==
  /\ IsFiniteSet(A)
  /\ \A b \in A : Placed(b)
  /\ \A a, b \in A : a # b => Apart(a, b)
  /\ \A p \in Base .. Base + Size - 1 : \E b \in A : Covers(b, p)
  /\ Bytes(A) = Size

LEMMA Multiples ==
  ASSUME NEW x \in Nat, NEW a \in Nat \ {0}, x % a = 0
  PROVE  \E k \in Nat : x = k * a
OBVIOUS

LEMMA MultipleAligned ==
  ASSUME NEW k \in Nat, NEW a \in Nat \ {0}
  PROVE  (k * a) % a = 0 /\ k * a \in Nat
OBVIOUS

LEMMA AlignedSum ==
  ASSUME NEW x, NEW y, Aligned(x), Aligned(y)
  PROVE  Aligned(x + y) /\ (x >= y => Aligned(x - y))
<1> USE AllocAssumption DEF Aligned
<1>1. PICK j \in Nat : x = j * Align
  BY Multiples
<1>2. PICK k \in Nat : y = k * Align
  BY Multiples
<1>3. x + y = (j + k) * Align /\ j + k \in Nat
  BY <1>1, <1>2
<1>4. Aligned(x + y)
  BY <1>3, MultipleAligned
<1>5. ASSUME x >= y PROVE Aligned(x - y)
  <2>1. x - y = (j - k) * Align /\ j - k \in Int
    BY <1>1, <1>2
  <2>2. j - k >= 0
    BY <1>1, <1>2, <1>5
  <2>3. j - k \in Nat
    BY <2>1, <2>2
  <2>4. ((j - k) * Align) % Align = 0 /\ (j - k) * Align \in Nat
    BY <2>3, MultipleAligned
  <2> QED BY <2>1, <2>4
<1> QED BY <1>4, <1>5

LEMMA PlacedIs ==
  ASSUME NEW b, Placed(b)
  PROVE  /\ b = Block(b.off, b.size) /\ b.off \in Nat /\ b.size \in Nat \ {0}
         /\ End(b) = b.off + b.size /\ End(b) \in Nat /\ b.off < End(b)
         /\ Base <= b.off /\ End(b) <= Base + Size
         /\ b \in [off : Nat, size : Nat]
<1>1. /\ b.off \in Nat /\ b.size \in Nat \ {0} /\ End(b) = b.off + b.size
      /\ Base <= b.off /\ b.off + b.size <= Base + Size
  BY DEF Placed, Aligned, End
<1>2. b = Block(b.off, b.size)
  BY DEF Placed
<1>3. Block(b.off, b.size) \in [off : Nat, size : Nat]
  BY <1>1 DEF Block
<1> QED BY <1>1, <1>2, <1>3

LEMMA BlockFields ==
  ASSUME NEW o, NEW s
  PROVE  Block(o, s).off = o /\ Block(o, s).size = s /\ End(Block(o, s)) = o + s
BY DEF Block, End

LEMMA SizedPartition ==
  ASSUME NEW A, Partition(A)
  PROVE  Sized(A)
BY PlacedIs DEF Partition, Sized

\* A block cut in two.
LEMMA Split ==
  ASSUME NEW A, Partition(A), NEW b \in A, NEW n, Aligned(n), n > 0, n < b.size,
         NEW l, l = Block(b.off, n), NEW r, r = Block(b.off + n, b.size - n)
  PROVE  /\ Partition((A \ {b}) \union {l, r}) /\ Placed(l) /\ Placed(r)
         /\ End(l) = r.off /\ l \notin A /\ r \notin A
         /\ \A c \in A \ {b} : Apart(l, c) /\ Apart(r, c)
<1>1. Placed(b) /\ n \in Nat /\ Base \in Nat /\ Size \in Nat
  BY AllocAssumption DEF Partition, Aligned
<1>2. PICK o \in Nat, s \in Nat \ {0} : o = b.off /\ s = b.size /\ b = Block(o, s) /\ End(b) = o + s
  BY <1>1, PlacedIs
<1>3. l = Block(o, n) /\ r = Block(o + n, s - n)
  BY <1>2
<1>4. /\ l.off = o /\ l.size = n /\ End(l) = o + n
      /\ r.off = o + n /\ r.size = s - n /\ End(r) = o + s
  <2>1. o + n + (s - n) = o + s
    BY <1>1, <1>2
  <2> QED BY <1>1, <1>2, <1>3, <2>1, BlockFields
<1>5. Aligned(o) /\ Aligned(s) /\ Base <= o /\ o + s <= Base + Size /\ n < s
  BY <1>1, <1>2 DEF Placed
<1>6. Aligned(o + n) /\ Aligned(s - n)
  BY <1>1, <1>5, AlignedSum
<1>7. Placed(l)
  BY <1>1, <1>2, <1>3, <1>4, <1>5 DEF Placed
<1>8. Placed(r)
  BY <1>1, <1>2, <1>3, <1>4, <1>5, <1>6 DEF Placed
<1>9. ASSUME NEW c \in A, c # b
      PROVE  Apart(l, c) /\ Apart(r, c) /\ c # l /\ c # r
  <2>1. Placed(c) /\ (End(c) <= b.off \/ End(b) <= c.off)
    BY <1>9 DEF Partition, Apart
  <2>2. c.off \in Nat /\ End(c) \in Nat /\ c.off < End(c)
    BY <2>1, PlacedIs
  <2>3. End(c) <= o \/ o + s <= c.off
    BY <1>2, <2>1
  <2>4. Apart(l, c)
    BY <1>1, <1>2, <1>4, <1>5, <2>2, <2>3 DEF Apart
  <2>5. Apart(r, c)
    BY <1>1, <1>2, <1>4, <1>5, <2>2, <2>3 DEF Apart
  <2>6. c # l
    BY <1>1, <1>2, <1>4, <1>5, <2>2, <2>3
  <2>7. c # r
    BY <1>1, <1>2, <1>4, <1>5, <2>2, <2>3
  <2> QED BY <2>4, <2>5, <2>6, <2>7
<1>10. l # b /\ r # b /\ l # r
  BY <1>1, <1>2, <1>4, <1>5
<1>11. PICK u : u = A \ {b}
  OBVIOUS
<1>12. l \notin u /\ r \notin u \union {l} /\ (A \ {b}) \union {l, r} = (u \union {l}) \union {r}
  BY <1>9, <1>10, <1>11
<1>13. Sized(u) /\ Bytes(u) \in Nat /\ Bytes(A) = Bytes(u) + s /\ Bytes(A) = Size
  BY <1>2, <1>11, SizedPartition, BytesLessOne DEF Partition
<1>14. Sized(u \union {l}) /\ Bytes(u \union {l}) = Bytes(u) + n
  BY <1>1, <1>4, <1>12, <1>13, BytesAddOne, FS_AddElement DEF Sized
<1>15. Bytes((u \union {l}) \union {r}) = Bytes(u \union {l}) + (s - n)
  <2>1. r.size \in Nat /\ r.size = s - n
    BY <1>1, <1>2, <1>4, <1>5
  <2> QED BY <1>12, <1>14, <2>1, BytesAddOne
<1>16. PICK w : w = (u \union {l}) \union {r}
  OBVIOUS
<1>17. IsFiniteSet(w) /\ Bytes(w) = Size
  <2>1. IsFiniteSet(w)
    BY <1>14, <1>16, FS_AddElement DEF Sized
  <2>2. PICK k \in Nat : k = Bytes(u)
    BY <1>13
  <2>3. Size = k + s /\ Bytes(w) = (k + n) + (s - n)
    BY <1>13, <1>14, <1>15, <1>16, <2>2
  <2>4. (k + n) + (s - n) = k + s
    BY <1>1, <1>2, <2>2
  <2> QED BY <2>1, <2>3, <2>4
<1>18. \A c \in w : Placed(c)
  BY <1>7, <1>8, <1>11, <1>16 DEF Partition
<1>19. \A c, d \in w : c # d => Apart(c, d)
  <2>1. Apart(l, r) /\ Apart(r, l)
    BY <1>1, <1>2, <1>4 DEF Apart
  <2>2. \A c \in u : Apart(l, c) /\ Apart(r, c) /\ Apart(c, l) /\ Apart(c, r)
    BY <1>9, <1>11 DEF Apart
  <2>3. \A c, d \in u : c # d => Apart(c, d)
    BY <1>11 DEF Partition
  <2> QED BY <1>16, <2>1, <2>2, <2>3
<1>20. ASSUME NEW p \in Base .. Base + Size - 1 PROVE \E c \in w : Covers(c, p)
  <2>1. PICK c \in A : Covers(c, p)
    BY DEF Partition
  <2>2. CASE c # b
    BY <1>11, <1>16, <2>1, <2>2
  <2>3. CASE c = b
    <3>1. o <= p /\ p < o + s
      BY <1>2, <2>1, <2>3 DEF Covers
    <3>2. Covers(l, p) \/ Covers(r, p)
      BY <1>1, <1>2, <1>4, <3>1 DEF Covers
    <3> QED BY <1>16, <3>2
  <2> QED BY <2>2, <2>3
<1>21. Partition(w)
  BY <1>17, <1>18, <1>19, <1>20 DEF Partition
<1> QED BY <1>4, <1>7, <1>8, <1>9, <1>10, <1>12, <1>16, <1>21

\* Two blocks that touch, made one.
LEMMA Join ==
  ASSUME NEW A, Partition(A), NEW l \in A, NEW r \in A, End(l) = r.off,
         NEW b, b = Block(l.off, l.size + r.size)
  PROVE  /\ Partition((A \ {l, r}) \union {b}) /\ Placed(b)
         /\ End(b) = End(r) /\ b \notin A
<1>1. Placed(l) /\ Placed(r) /\ Base \in Nat /\ Size \in Nat
  BY AllocAssumption DEF Partition
<1>2. PICK o \in Nat, n \in Nat \ {0} : o = l.off /\ n = l.size /\ l = Block(o, n) /\ End(l) = o + n
  BY <1>1, PlacedIs
<1>3. PICK m \in Nat \ {0} : m = r.size /\ r.off = o + n /\ End(r) = o + n + m
  BY <1>1, <1>2, PlacedIs
<1>4. b.off = o /\ b.size = n + m /\ End(b) = o + (n + m) /\ b = Block(o, n + m)
  BY <1>2, <1>3, BlockFields
<1>5. Aligned(o) /\ Aligned(n) /\ Aligned(m) /\ Base <= o /\ o + n + m <= Base + Size
  BY <1>1, <1>2, <1>3, PlacedIs DEF Placed
<1>6. Aligned(n + m)
  BY <1>5, AlignedSum
<1>7. Placed(b)
  BY <1>2, <1>3, <1>4, <1>5, <1>6 DEF Placed
<1>8. ASSUME NEW c \in A, c # l, c # r
      PROVE  Apart(b, c) /\ c # b
  <2>1. Placed(c) /\ (End(c) <= l.off \/ End(l) <= c.off) /\ (End(c) <= r.off \/ End(r) <= c.off)
    BY <1>8 DEF Partition, Apart
  <2>2. c.off \in Nat /\ End(c) \in Nat /\ c.off < End(c)
    BY <2>1, PlacedIs
  <2> QED BY <1>2, <1>3, <1>4, <2>1, <2>2 DEF Apart
<1>9. l # r /\ b # l /\ b # r
  BY <1>2, <1>3, <1>4
<1>10. PICK u : u = A \ {l, r}
  OBVIOUS
<1>11. b \notin u /\ r \in A \ {l} /\ u = (A \ {l}) \ {r}
  BY <1>8, <1>9, <1>10
<1>12. Sized(A \ {l}) /\ Bytes(A) = Bytes(A \ {l}) + n /\ Bytes(A) = Size
  BY <1>2, SizedPartition, BytesLessOne DEF Partition
<1>13. Sized(u) /\ Bytes(u) \in Nat /\ Bytes(A \ {l}) = Bytes(u) + m
  BY <1>3, <1>11, <1>12, BytesLessOne
<1>14. Bytes(u \union {b}) = Bytes(u) + (n + m)
  BY <1>4, <1>11, <1>13, BytesAddOne
<1>15. PICK w : w = u \union {b}
  OBVIOUS
<1>16. IsFiniteSet(w) /\ Bytes(w) = Size
  <2>1. IsFiniteSet(w)
    BY <1>13, <1>15, FS_AddElement DEF Sized
  <2>2. PICK k \in Nat : k = Bytes(u)
    BY <1>13
  <2>3. Size = (k + m) + n /\ Bytes(w) = k + (n + m)
    BY <1>12, <1>13, <1>14, <1>15, <2>2
  <2>4. k + (n + m) = (k + m) + n
    BY <1>2, <1>3, <2>2
  <2> QED BY <2>1, <2>3, <2>4
<1>17. \A c \in w : Placed(c)
  BY <1>7, <1>10, <1>15 DEF Partition
<1>18. \A c, d \in w : c # d => Apart(c, d)
  <2>1. \A c \in u : Apart(b, c) /\ Apart(c, b)
    BY <1>8, <1>10 DEF Apart
  <2>2. \A c, d \in u : c # d => Apart(c, d)
    BY <1>10 DEF Partition
  <2> QED BY <1>15, <2>1, <2>2
<1>19. ASSUME NEW p \in Base .. Base + Size - 1 PROVE \E c \in w : Covers(c, p)
  <2>1. PICK c \in A : Covers(c, p)
    BY DEF Partition
  <2>2. CASE c # l /\ c # r
    BY <1>10, <1>15, <2>1, <2>2
  <2>3. CASE c = l \/ c = r
    <3>1. Covers(b, p)
      BY <1>1, <1>2, <1>3, <1>4, <2>1, <2>3 DEF Covers
    <3> QED BY <1>15, <3>1
  <2> QED BY <2>2, <2>3
<1>20. Partition(w)
  BY <1>16, <1>17, <1>18, <1>19 DEF Partition
<1>21. End(b) = End(r)
  BY <1>2, <1>3, <1>4
<1> QED BY <1>7, <1>8, <1>9, <1>10, <1>15, <1>20, <1>21

-----------------------------------------------------------------------------
(* The free list: ordered, and nothing in it touches.                      *)

Blocks == [off : Nat, size : Nat]

Elems(s) == {s[i] : i \in DOMAIN s}

Sorted(s) ==
  /\ s \in Seq(Blocks)
  /\ \A i \in 1 .. Len(s) : Placed(s[i])
  /\ \A i, j \in 1 .. Len(s) : i < j => End(s[i]) < s[j].off

LEMMA SortedIs ==
  ASSUME NEW s, Sorted(s)
  PROVE  /\ s \in Seq(Blocks) /\ Len(s) \in Nat /\ DOMAIN s = 1 .. Len(s)
         /\ Elems(s) = {s[i] : i \in 1 .. Len(s)}
         /\ \A i \in 1 .. Len(s) : /\ s[i].off \in Nat /\ End(s[i]) \in Nat
                                   /\ s[i].off < End(s[i]) /\ s[i].size \in Nat \ {0}
                                   /\ End(s[i]) = s[i].off + s[i].size
                                   /\ s[i] = Block(s[i].off, s[i].size)
         /\ \A i, j \in 1 .. Len(s) : s[i] = s[j] => i = j
<1>1. s \in Seq(Blocks) /\ Len(s) \in Nat /\ DOMAIN s = 1 .. Len(s)
  BY LenProperties DEF Sorted
<1>2. \A i \in 1 .. Len(s) : /\ s[i].off \in Nat /\ End(s[i]) \in Nat
                             /\ s[i].off < End(s[i]) /\ s[i].size \in Nat \ {0}
                             /\ End(s[i]) = s[i].off + s[i].size
                             /\ s[i] = Block(s[i].off, s[i].size)
  BY PlacedIs DEF Sorted
<1>3. ASSUME NEW i \in 1 .. Len(s), NEW j \in 1 .. Len(s), i < j PROVE s[i] # s[j]
  <2>1. End(s[i]) < s[j].off
    BY <1>3 DEF Sorted
  <2>2. PICK m \in Nat : m = End(s[i])
    BY <1>2
  <2>3. PICK k \in Nat : k = s[j].off /\ k < End(s[j]) /\ End(s[j]) \in Nat
    BY <1>2
  <2> QED BY <2>1, <2>2, <2>3
<1>4. \A i, j \in 1 .. Len(s) : s[i] = s[j] => i = j
  BY <1>1, <1>3
<1>5. Elems(s) = {s[i] : i \in 1 .. Len(s)}
  BY <1>1 DEF Elems
<1> QED BY <1>1, <1>2, <1>4, <1>5

\* A list built position by position.
LEMMA SortedBy ==
  ASSUME NEW t \in Seq(Blocks), NEW n \in Nat, Len(t) = n,
         \A i \in 1 .. n : Placed(t[i]),
         \A i, j \in 1 .. n : i < j => End(t[i]) < t[j].off
  PROVE  Sorted(t)
BY DEF Sorted

LEMMA SortedAt ==
  ASSUME NEW s, Sorted(s), NEW i \in 1 .. Len(s)
  PROVE  Placed(s[i]) /\ s[i] \in Elems(s)
BY SortedIs DEF Sorted

\* The three changes of the list, position by position.
Drops(t, s, i) ==
  /\ t \in Seq(Blocks) /\ Len(t) = Len(s) - 1
  /\ \A j \in 1 .. Len(s) - 1 : t[j] = IF j < i THEN s[j] ELSE s[j + 1]

Adds(t, s, i, b) ==
  /\ t \in Seq(Blocks) /\ Len(t) = Len(s) + 1
  /\ \A j \in 1 .. Len(s) + 1 :
       t[j] = IF j < i THEN s[j] ELSE IF j = i THEN b ELSE s[j - 1]

Puts(t, s, i, b) ==
  /\ t \in Seq(Blocks) /\ Len(t) = Len(s) /\ DOMAIN t = 1 .. Len(t)
  /\ \A j \in 1 .. Len(s) : t[j] = IF j = i THEN b ELSE s[j]

\* A block between those up to l and those from h on, touching neither.
Between(s, l, h, b) ==
  /\ \A j \in 1 .. l : End(s[j]) < b.off
  /\ \A j \in h .. Len(s) : End(b) < s[j].off

LEMMA WithoutIs ==
  ASSUME NEW s \in Seq(Blocks), NEW i \in 1 .. Len(s), NEW t, t = Without(s, i)
  PROVE  Drops(t, s, i)
<1>1. PICK n \in Nat : n = Len(s)
  BY LenProperties
<1>2. PICK a : a = SubSeq(s, 1, i - 1)
  OBVIOUS
<1>3. PICK b : b = SubSeq(s, i + 1, n)
  OBVIOUS
<1>4. /\ a \in Seq(Blocks) /\ Len(a) = i - 1
      /\ \A j \in 1 .. i - 1 : a[j] = s[j]
  BY <1>1, <1>2, SubSeqProperties
<1>5. /\ b \in Seq(Blocks) /\ Len(b) = n - i
      /\ \A j \in 1 .. n - i : b[j] = s[i + j]
  BY <1>1, <1>3, SubSeqProperties
<1>6. t = a \o b
  BY <1>1, <1>2, <1>3 DEF Without
<1>7. t \in Seq(Blocks) /\ Len(t) = n - 1
  BY <1>1, <1>4, <1>5, <1>6, ConcatProperties
<1>8. ASSUME NEW j \in 1 .. n - 1 PROVE t[j] = IF j < i THEN s[j] ELSE s[j + 1]
  <2>1. CASE j < i
    BY <1>1, <1>4, <1>5, <1>6, <2>1, ConcatProperties
  <2>2. CASE ~ (j < i)
    <3>1. t[j] = b[j - (i - 1)]
      BY <1>1, <1>4, <1>5, <1>6, <2>2, ConcatProperties
    <3>2. j - (i - 1) \in 1 .. n - i /\ i + (j - (i - 1)) = j + 1
      BY <1>1, <2>2
    <3> QED BY <1>5, <2>2, <3>1, <3>2
  <2> QED BY <2>1, <2>2
<1> QED BY <1>1, <1>7, <1>8 DEF Drops

LEMMA InsertIs ==
  ASSUME NEW s \in Seq(Blocks), NEW i \in 1 .. Len(s) + 1, NEW b \in Blocks,
         NEW t, t = Insert(s, i, b)
  PROVE  Adds(t, s, i, b)
<1>1. PICK n \in Nat : n = Len(s)
  BY LenProperties
<1>2. PICK l : l = SubSeq(s, 1, i - 1)
  OBVIOUS
<1>3. PICK r : r = SubSeq(s, i, n)
  OBVIOUS
<1>4. /\ l \in Seq(Blocks) /\ Len(l) = i - 1
      /\ \A j \in 1 .. i - 1 : l[j] = s[j]
  BY <1>1, <1>2, SubSeqProperties
<1>5. /\ r \in Seq(Blocks) /\ Len(r) = n - i + 1
      /\ \A j \in 1 .. n - i + 1 : r[j] = s[i + j - 1]
  BY <1>1, <1>3, SubSeqProperties
<1>6. PICK m : m = l \o <<b>>
  OBVIOUS
<1>7. <<b>> \in Seq(Blocks) /\ Len(<<b>>) = 1 /\ <<b>>[1] = b
  OBVIOUS
<1>8. /\ m \in Seq(Blocks) /\ Len(m) = i /\ m[i] = b
      /\ \A j \in 1 .. i - 1 : m[j] = s[j]
  <2>1. m \in Seq(Blocks) /\ Len(m) = i
    BY <1>1, <1>4, <1>6, <1>7, ConcatProperties
  <2>2. \A j \in 1 .. i - 1 : m[j] = l[j]
    BY <1>1, <1>4, <1>6, <1>7, ConcatProperties
  <2>3. m[i] = <<b>>[i - (i - 1)]
    BY <1>1, <1>4, <1>6, <1>7, ConcatProperties
  <2>4. i - (i - 1) = 1
    BY <1>1
  <2> QED BY <1>4, <1>7, <2>1, <2>2, <2>3, <2>4
<1>9. t = m \o r
  BY <1>1, <1>2, <1>3, <1>6 DEF Insert
<1>10. t \in Seq(Blocks) /\ Len(t) = n + 1
  <2>1. t \in Seq(Blocks) /\ Len(t) = Len(m) + Len(r)
    <3> HIDE <1>9
    <3>1. m \o r \in Seq(Blocks) /\ Len(m \o r) = Len(m) + Len(r)
      BY <1>5, <1>8, ConcatProperties
    <3> QED BY <1>9, <3>1
  <2> QED BY <1>1, <1>5, <1>8, <2>1
<1>11. ASSUME NEW j \in 1 .. n + 1
       PROVE  t[j] = IF j < i THEN s[j] ELSE IF j = i THEN b ELSE s[j - 1]
  <2>1. CASE j <= i
    <3>1. t[j] = m[j]
      BY <1>1, <1>5, <1>8, <1>9, <2>1, ConcatProperties
    <3> QED BY <1>1, <1>8, <2>1, <3>1
  <2>2. CASE j > i
    <3>1. t[j] = r[j - i]
      BY <1>1, <1>5, <1>8, <1>9, <2>2, ConcatProperties
    <3>2. j - i \in 1 .. n - i + 1 /\ i + (j - i) - 1 = j - 1
      BY <1>1, <2>2
    <3> QED BY <1>5, <2>2, <3>1, <3>2
  <2> QED BY <1>1, <2>1, <2>2
<1> QED BY <1>1, <1>10, <1>11 DEF Adds

LEMMA PutIs ==
  ASSUME NEW s \in Seq(Blocks), NEW i \in 1 .. Len(s), NEW b \in Blocks,
         NEW t, t = [s EXCEPT ![i] = b]
  PROVE  Puts(t, s, i, b)
BY ExceptSeq, LenProperties DEF Puts

LEMMA SortedWithout ==
  ASSUME NEW s, Sorted(s), NEW i \in 1 .. Len(s), NEW t, t = Without(s, i)
  PROVE  /\ Sorted(t) /\ Len(t) = Len(s) - 1 /\ Elems(t) = Elems(s) \ {s[i]}
<1>1. PICK n \in Nat : n = Len(s) /\ s \in Seq(Blocks)
  BY SortedIs
<1>2. /\ t \in Seq(Blocks) /\ Len(t) = n - 1 /\ n - 1 \in Nat
      /\ \A j \in 1 .. n - 1 : t[j] = IF j < i THEN s[j] ELSE s[j + 1]
  <2>1. s \in Seq(Blocks) /\ n - 1 \in Nat
    BY <1>1
  <2>2. Drops(t, s, i)
    BY <1>1, WithoutIs
  <2> QED BY <1>1, <2>1, <2>2 DEF Drops
<1>3. \A j \in 1 .. n - 1 : \E k \in 1 .. n :
        k # i /\ k = (IF j < i THEN j ELSE j + 1) /\ t[j] = s[k]
  BY <1>1, <1>2
<1>4. \A j \in 1 .. n - 1 : Placed(t[j])
  BY <1>1, <1>3 DEF Sorted
<1>5. ASSUME NEW j \in 1 .. n - 1, NEW k \in 1 .. n - 1, j < k PROVE End(t[j]) < t[k].off
  <2>1. PICK jj \in 1 .. n : jj = (IF j < i THEN j ELSE j + 1) /\ t[j] = s[jj]
    BY <1>3
  <2>2. PICK kk \in 1 .. n : kk = (IF k < i THEN k ELSE k + 1) /\ t[k] = s[kk]
    BY <1>3
  <2>3. jj < kk
    BY <1>1, <1>5, <2>1, <2>2
  <2> QED BY <1>1, <2>1, <2>2, <2>3 DEF Sorted
<1>6. Sorted(t)
  BY <1>2, <1>4, <1>5, SortedBy
<1>7. Elems(t) = {t[j] : j \in 1 .. n - 1} /\ Elems(s) = {s[j] : j \in 1 .. n}
  <2>1. Elems(t) = {t[j] : j \in 1 .. Len(t)}
    BY <1>6, SortedIs
  <2>2. Elems(s) = {s[j] : j \in 1 .. Len(s)}
    BY SortedIs
  <2> QED BY <1>1, <1>2, <2>1, <2>2
<1>8. Elems(t) \subseteq Elems(s) \ {s[i]}
  BY <1>1, <1>3, <1>7, SortedIs
<1>9. ASSUME NEW k \in 1 .. n, k # i PROVE s[k] \in Elems(t)
  <2>1. CASE k < i
    BY <1>1, <1>2, <1>7, <2>1
  <2>2. CASE k > i
    <3>1. k - 1 \in 1 .. n - 1 /\ ~ (k - 1 < i) /\ (k - 1) + 1 = k
      BY <1>1, <2>2
    <3> QED BY <1>2, <1>7, <3>1
  <2> QED BY <1>1, <1>9, <2>1, <2>2
<1>10. Elems(s) \ {s[i]} \subseteq Elems(t)
  BY <1>7, <1>9
<1> QED BY <1>1, <1>2, <1>6, <1>8, <1>10

LEMMA SortedInsert ==
  ASSUME NEW s, Sorted(s), NEW i \in 1 .. Len(s) + 1, NEW b, Placed(b),
         Between(s, i - 1, i, b), NEW t, Adds(t, s, i, b)
  PROVE  /\ Sorted(t) /\ Len(t) = Len(s) + 1 /\ Elems(t) = Elems(s) \union {b}
<1>1. PICK n \in Nat : n = Len(s) /\ s \in Seq(Blocks)
  BY SortedIs
<1>2. /\ t \in Seq(Blocks) /\ Len(t) = n + 1
      /\ \A j \in 1 .. n + 1 :
           t[j] = IF j < i THEN s[j] ELSE IF j = i THEN b ELSE s[j - 1]
  BY <1>1 DEF Adds
<1>3. /\ t[i] = b
      /\ \A j \in 1 .. n + 1 : j < i => t[j] = s[j] /\ j \in 1 .. n
      /\ \A j \in 1 .. n + 1 : j > i => t[j] = s[j - 1] /\ j - 1 \in i .. n /\ j - 1 \in 1 .. n
  BY <1>1, <1>2
<1>4. \A j \in 1 .. n + 1 : Placed(t[j])
  BY <1>1, <1>3 DEF Sorted
<1>5. ASSUME NEW j \in 1 .. n + 1, NEW k \in 1 .. n + 1, j < k PROVE End(t[j]) < t[k].off
  <2>1. CASE k < i
    BY <1>1, <1>3, <1>5, <2>1 DEF Sorted
  <2>2. CASE j > i
    <3>1. t[j] = s[j - 1] /\ t[k] = s[k - 1] /\ j - 1 \in 1 .. n /\ k - 1 \in 1 .. n /\ j - 1 < k - 1
      BY <1>1, <1>3, <1>5, <2>2
    <3> QED BY <1>1, <3>1 DEF Sorted
  <2>3. CASE j < i /\ k > i
    <3>1. t[j] = s[j] /\ t[k] = s[k - 1] /\ j \in 1 .. n /\ k - 1 \in 1 .. n /\ j < k - 1
      BY <1>1, <1>3, <1>5, <2>3
    <3> QED BY <1>1, <3>1 DEF Sorted
  <2>4. CASE k = i
    <3>1. j \in 1 .. i - 1 /\ t[j] = s[j] /\ t[k] = b
      BY <1>1, <1>3, <1>5, <2>4
    <3> QED BY <3>1 DEF Between
  <2>5. CASE j = i
    <3>1. k - 1 \in i .. n /\ t[k] = s[k - 1] /\ t[j] = b
      BY <1>1, <1>3, <1>5, <2>5
    <3> QED BY <1>1, <3>1 DEF Between
  <2>6. k < i \/ j > i \/ (j < i /\ k > i) \/ k = i \/ j = i
    <3>1. i \in Int /\ j \in Int /\ k \in Int
      BY <1>1
    <3> QED BY <3>1
  <2> QED BY <2>1, <2>2, <2>3, <2>4, <2>5, <2>6
<1>6. Sorted(t)
  <2>1. PICK m \in Nat : m = n + 1
    BY <1>1
  <2>2. /\ t \in Seq(Blocks) /\ Len(t) = m
        /\ \A j \in 1 .. m : Placed(t[j])
        /\ \A j, k \in 1 .. m : j < k => End(t[j]) < t[k].off
    BY <1>2, <1>4, <1>5, <2>1
  <2> HIDE <2>1
  <2> QED BY <2>2, SortedBy
<1>7. Elems(t) = {t[j] : j \in 1 .. n + 1} /\ Elems(s) = {s[j] : j \in 1 .. n}
  <2>1. Elems(t) = {t[j] : j \in 1 .. Len(t)}
    BY <1>6, SortedIs
  <2>2. Elems(s) = {s[j] : j \in 1 .. Len(s)}
    BY SortedIs
  <2> QED BY <1>1, <1>2, <2>1, <2>2
<1>8. Elems(t) \subseteq Elems(s) \union {b}
  BY <1>1, <1>3, <1>7
<1>9. ASSUME NEW k \in 1 .. n PROVE s[k] \in Elems(t)
  <2>1. CASE k < i
    BY <1>1, <1>3, <1>7, <2>1
  <2>2. CASE k >= i
    <3>1. k + 1 \in 1 .. n + 1 /\ k + 1 > i /\ (k + 1) - 1 = k
      BY <1>1, <2>2
    <3>2. t[k + 1] = s[k]
      BY <1>3, <3>1
    <3> QED BY <1>7, <3>1, <3>2
  <2> QED BY <1>1, <2>1, <2>2
<1>10. b \in Elems(t)
  BY <1>1, <1>3, <1>7
<1>11. Elems(t) = Elems(s) \union {b}
  BY <1>7, <1>8, <1>9, <1>10
<1> QED BY <1>1, <1>2, <1>6, <1>11

LEMMA SortedPut ==
  ASSUME NEW s, Sorted(s), NEW i \in 1 .. Len(s), NEW b, Placed(b),
         Between(s, i - 1, i + 1, b), NEW t, Puts(t, s, i, b)
  PROVE  /\ Sorted(t) /\ Len(t) = Len(s) /\ Elems(t) = (Elems(s) \ {s[i]}) \union {b}
<1>1. PICK n \in Nat : n = Len(s) /\ s \in Seq(Blocks)
  BY SortedIs
<1>2. /\ t \in Seq(Blocks) /\ Len(t) = n /\ DOMAIN t = 1 .. Len(t)
      /\ \A j \in 1 .. n : t[j] = IF j = i THEN b ELSE s[j]
  BY <1>1 DEF Puts
<1>3. t[i] = b /\ \A j \in 1 .. n : j # i => t[j] = s[j]
  BY <1>1, <1>2
<1>4. \A j \in 1 .. n : Placed(t[j])
  BY <1>1, <1>3 DEF Sorted
<1>5. ASSUME NEW j \in 1 .. n, NEW k \in 1 .. n, j < k PROVE End(t[j]) < t[k].off
  <2>1. CASE j # i /\ k # i
    BY <1>1, <1>3, <1>5, <2>1 DEF Sorted
  <2>2. CASE k = i
    <3>1. j \in 1 .. i - 1 /\ t[j] = s[j]
      BY <1>1, <1>3, <1>5, <2>2
    <3> QED BY <1>3, <2>2, <3>1 DEF Between
  <2>3. CASE j = i
    <3>1. k \in i + 1 .. n /\ t[k] = s[k]
      BY <1>1, <1>3, <1>5, <2>3
    <3> QED BY <1>1, <1>3, <2>3, <3>1 DEF Between
  <2> QED BY <2>1, <2>2, <2>3
<1>6. Sorted(t)
  BY <1>1, <1>2, <1>4, <1>5, SortedBy
<1>7. Elems(t) = {t[j] : j \in 1 .. n} /\ Elems(s) = {s[j] : j \in 1 .. n}
  <2>1. Elems(t) = {t[j] : j \in 1 .. Len(t)}
    BY <1>2 DEF Elems
  <2>2. Elems(s) = {s[j] : j \in 1 .. Len(s)}
    BY SortedIs
  <2> QED BY <1>1, <1>2, <2>1, <2>2
<1>8. \A j \in 1 .. n : j # i => s[j] # s[i]
  BY <1>1, SortedIs
<1>9. Elems(t) = (Elems(s) \ {s[i]}) \union {b}
  <2>1. Elems(t) \subseteq (Elems(s) \ {s[i]}) \union {b}
    <3> SUFFICES ASSUME NEW j \in 1 .. n PROVE t[j] \in (Elems(s) \ {s[i]}) \union {b}
      BY <1>7
    <3> QED BY <1>3, <1>7, <1>8
  <2>2. ASSUME NEW j \in 1 .. n, j # i PROVE s[j] \in Elems(t)
    BY <1>3, <1>7, <2>2
  <2>3. b \in Elems(t)
    BY <1>1, <1>3, <1>7
  <2> QED BY <1>7, <2>1, <2>2, <2>3
<1> QED BY <1>1, <1>2, <1>3, <1>6, <1>9

-----------------------------------------------------------------------------
(* What every step keeps: the free list and what is out cut the region up. *)

AllocInv ==
  /\ Sorted(fb) /\ Len(fb) <= MaxFree
  /\ live \subseteq [off : Nat, asked : Requests] /\ IsFiniteSet(live)
  /\ \A a, c \in live : a.off = c.off => a = c
  /\ Partition(Elems(fb) \union Out) /\ Elems(fb) \intersect Out = {}
  /\ Owned \intersect leaked = {}

LEMMA SizesAre ==
  ASSUME NEW s \in Nat
  PROVE  /\ Aligned(RoundUp(s)) /\ Aligned(BlockSize(s)) /\ BlockSize(s) > 0
         /\ RoundUp(s) > 0 => BlockSize(s) = RoundUp(s)
         /\ RoundUp(s) \in Nat /\ BlockSize(s) \in Nat
<1>1. Align \in Nat \ {0}
  BY AllocAssumption
<1>2. PICK k : k = (s + Align - 1) \div Align
  OBVIOUS
<1>3. k \in Nat
  <2>1. s + Align - 1 \in Nat
    BY <1>1
  <2> QED BY <1>1, <1>2, <2>1
<1>4. RoundUp(s) = k * Align
  BY <1>2 DEF RoundUp
<1>5. Aligned(RoundUp(s)) /\ RoundUp(s) \in Nat
  BY <1>1, <1>3, <1>4, MultipleAligned DEF Aligned
<1>6. Aligned(Align)
  <2>1. Align = 1 * Align
    BY <1>1
  <2>2. (1 * Align) % Align = 0
    BY <1>1, MultipleAligned
  <2> QED BY <1>1, <2>1, <2>2 DEF Aligned
<1> QED BY <1>1, <1>5, <1>6 DEF BlockSize

LEMMA FirstFitIs ==
  ASSUME Sorted(fb), NEW n, \E k \in DOMAIN fb : Fits(k, n)
  PROVE  FirstFit(n) \in 1 .. Len(fb) /\ fb[FirstFit(n)].size >= n
<1>1. PICK T : T = {k \in DOMAIN fb : Fits(k, n)}
  OBVIOUS
<1>2. DOMAIN fb = 1 .. Len(fb) /\ Len(fb) \in Nat
  BY SortedIs
<1>3. T \in SUBSET Nat /\ T # {}
  BY <1>1, <1>2
<1>4. PICK i \in T : \A j \in T : ~ (j < i)
  BY <1>3, SmallestNat
<1>5. i \in DOMAIN fb /\ Fits(i, n) /\ \A j \in 1 .. i - 1 : ~ Fits(j, n)
  BY <1>1, <1>2, <1>4
<1>6. FirstFit(n) \in DOMAIN fb /\ Fits(FirstFit(n), n)
  BY <1>5, Zenon DEF FirstFit
<1> QED BY <1>2, <1>6 DEF Fits

LEMMA OwnedPlaced ==
  ASSUME AllocInv, NEW a \in live
  PROVE  /\ Block(a.off, BlockSize(a.asked)) \in Owned
         /\ Placed(Block(a.off, BlockSize(a.asked)))
         /\ a.off \in Nat /\ a.asked \in Nat /\ a.asked \in Requests
         /\ Block(a.off, BlockSize(a.asked)) \notin Elems(fb) \union leaked
<1>1. Block(a.off, BlockSize(a.asked)) \in Owned
  BY DEF Owned
<1>2. Placed(Block(a.off, BlockSize(a.asked)))
  BY <1>1 DEF AllocInv, Partition, Out
<1>3. a.off \in Nat /\ a.asked \in Requests /\ Requests \subseteq Nat
  BY AllocAssumption DEF AllocInv
<1> QED BY <1>1, <1>2, <1>3 DEF AllocInv, Out

LEMMA AllocKeeps ==
  ASSUME AllocInv, NEW s \in Requests, Alloc(s)
  PROVE  AllocInv'
<1>1. PICK n \in Nat : n = BlockSize(s) /\ Aligned(n) /\ n > 0
  BY AllocAssumption, SizesAre
<1>2. Sorted(fb) /\ s \in Nat
  BY AllocAssumption DEF AllocInv
<1>3. PICK i : i = FirstFit(n)
  OBVIOUS
<1>4. i \in 1 .. Len(fb) /\ fb[i].size >= n
  BY <1>1, <1>2, <1>3, FirstFitIs DEF Alloc
<1>5. PICK f : f = fb[i]
  OBVIOUS
<1>6. PICK l : l = Block(f.off, n)
  OBVIOUS
<1>7. f \in Elems(fb) /\ Placed(f) /\ f.off \in Nat /\ f.size \in Nat
      /\ f = Block(f.off, f.size) /\ End(f) \in Nat /\ f.off < End(f) /\ End(f) = f.off + f.size
  BY <1>2, <1>4, <1>5, SortedIs DEF Sorted
<1>8. /\ fb' = TakeFrom(i, n) /\ leaked' = leaked
      /\ live' = live \union {[off |-> f.off, asked |-> s]}
  BY <1>1, <1>3, <1>5 DEF Alloc
<1>9. PICK A : A = Elems(fb) \union Out
  OBVIOUS
<1>10. Partition(A) /\ f \in A /\ f \notin Out
  BY <1>7, <1>9 DEF AllocInv
<1>11. Owned' = Owned \union {l} /\ Out' = Out \union {l}
  <2>1. Owned' = Owned \union {l}
    <3>1. PICK x : x = [off |-> f.off, asked |-> s]
      OBVIOUS
    <3>2. x.off = f.off /\ x.asked = s
      BY <3>1
    <3>3. l = Block(x.off, BlockSize(x.asked)) /\ live' = live \union {x}
      BY <1>1, <1>6, <1>8, <3>1, <3>2
    <3> QED BY <3>3 DEF Owned
  <2> QED BY <1>8, <2>1 DEF Out
<1>12. \A a \in live : a.off # f.off
  <2> SUFFICES ASSUME NEW a \in live, a.off = f.off PROVE FALSE
    OBVIOUS
  <2>1. PICK b : b = Block(a.off, BlockSize(a.asked))
    OBVIOUS
  <2>2. b \in Out /\ Placed(b) /\ b.off = f.off
    BY <2>1, OwnedPlaced, BlockFields DEF Out
  <2>3. Apart(b, f)
    BY <1>9, <1>10, <2>2 DEF Partition
  <2>4. b.off \in Nat /\ End(b) \in Nat /\ b.off < End(b)
    BY <2>2, PlacedIs
  <2> QED BY <1>7, <2>2, <2>3, <2>4 DEF Apart
<1>13. /\ live' \subseteq [off : Nat, asked : Requests] /\ IsFiniteSet(live')
       /\ \A a, c \in live' : a.off = c.off => a = c
  <2>1. PICK x : x = [off |-> f.off, asked |-> s]
    OBVIOUS
  <2>2. x.off = f.off /\ x \in [off : Nat, asked : Requests] /\ live' = live \union {x}
    BY <1>7, <1>8, <2>1
  <2>3. IsFiniteSet(live) /\ live \subseteq [off : Nat, asked : Requests]
        /\ \A a, c \in live : a.off = c.off => a = c
    BY DEF AllocInv
  <2>4. IsFiniteSet(live')
    BY <2>2, <2>3, FS_AddElement
  <2> QED BY <1>12, <2>2, <2>3, <2>4
<1>14. SUFFICES /\ Sorted(fb') /\ Len(fb') <= Len(fb) /\ Partition(Elems(fb') \union Out')
                /\ Elems(fb') \intersect Out' = {} /\ l \notin leaked
  <2>1. Len(fb) \in Nat /\ Len(fb) <= MaxFree /\ MaxFree \in Nat
    BY <1>2, SortedIs, AllocAssumption DEF AllocInv
  <2>2. Sorted(fb') => Len(fb') \in Nat
    BY SortedIs
  <2>3. Owned \intersect leaked = {}
    BY DEF AllocInv
  <2> QED BY <1>8, <1>11, <1>13, <2>1, <2>2, <2>3 DEF AllocInv
<1>15. CASE f.size = n
  <2>1. l = f /\ fb' = Without(fb, i)
    BY <1>5, <1>6, <1>7, <1>8, <1>15 DEF TakeFrom
  <2>2. Sorted(fb') /\ Len(fb') = Len(fb) - 1 /\ Elems(fb') = Elems(fb) \ {f}
    BY <1>2, <1>4, <1>5, <2>1, SortedWithout
  <2>3. Elems(fb') \union Out' = A
    BY <1>7, <1>9, <1>11, <2>1, <2>2
  <2>4. Elems(fb') \intersect Out' = {} /\ l \notin leaked
    BY <1>10, <1>11, <2>1, <2>2 DEF AllocInv, Out
  <2>5. Len(fb') <= Len(fb)
    BY <1>2, <2>2, SortedIs
  <2> QED BY <1>10, <2>2, <2>3, <2>4, <2>5
<1>16. CASE f.size # n
  <2>1. n < f.size
    BY <1>1, <1>4, <1>5, <1>7, <1>16
  <2>2. PICK r : r = Block(f.off + n, f.size - n)
    OBVIOUS
  <2>3. fb' = [fb EXCEPT ![i] = r]
    BY <1>5, <1>8, <1>16, <2>2 DEF TakeFrom
  <2>4. /\ Partition((A \ {f}) \union {l, r}) /\ Placed(l) /\ Placed(r)
        /\ End(l) = r.off /\ l \notin A /\ r \notin A
    BY <1>1, <1>6, <1>10, <2>1, <2>2, Split
  <2>5. r.off = f.off + n /\ End(r) = End(f) /\ r.off \in Nat /\ r # l
    <3>1. f.off + n + (f.size - n) = f.off + f.size
      BY <1>1, <1>7
    <3>2. r.off = f.off + n /\ l.off = f.off
      BY <1>6, <2>2, BlockFields
    <3> QED BY <1>1, <1>7, <2>2, <3>1, <3>2, BlockFields
  <2>6. ASSUME NEW j \in 1 .. i - 1 PROVE End(fb[j]) < r.off
    <3>1. End(fb[j]) < f.off /\ End(fb[j]) \in Nat
      BY <1>2, <1>4, <1>5, SortedIs DEF Sorted
    <3> QED BY <1>1, <1>7, <2>5, <3>1
  <2>7. ASSUME NEW j \in i + 1 .. Len(fb) PROVE End(r) < fb[j].off
    BY <1>2, <1>4, <1>5, <2>5, SortedIs DEF Sorted
  <2>8. Sorted(fb') /\ Len(fb') = Len(fb) /\ Elems(fb') = (Elems(fb) \ {f}) \union {r}
    <3>1. PICK t : t = [fb EXCEPT ![i] = r]
      OBVIOUS
    <3>2. fb \in Seq(Blocks) /\ r \in Blocks
      BY <1>2, <2>4, SortedIs, PlacedIs DEF Blocks
    <3>3. Puts(t, fb, i, r)
      BY <1>4, <3>1, <3>2, PutIs
    <3>4. Between(fb, i - 1, i + 1, r)
      BY <2>6, <2>7 DEF Between
    <3>5. Sorted(t) /\ Len(t) = Len(fb) /\ Elems(t) = (Elems(fb) \ {fb[i]}) \union {r}
      <4> HIDE <3>1
      <4> QED BY <1>2, <1>4, <2>4, <3>3, <3>4, SortedPut
    <3> QED BY <1>5, <2>3, <3>1, <3>5
  <2>9. Elems(fb') \union Out' = (A \ {f}) \union {l, r}
    BY <1>9, <1>10, <1>11, <2>8
  <2>10. Elems(fb') \intersect Out' = {} /\ l \notin leaked
    BY <1>9, <1>11, <2>4, <2>5, <2>8 DEF AllocInv, Out
  <2>11. Len(fb') <= Len(fb)
    BY <1>2, <2>8, SortedIs
  <2> QED BY <2>4, <2>8, <2>9, <2>10, <2>11
<1> QED BY <1>15, <1>16

\* What a free leaves of who owns what.
LEMMA FreeIs ==
  ASSUME AllocInv, NEW a \in live, Free(a), NEW b, b = Block(a.off, BlockSize(a.asked))
  PROVE  /\ b \in Out /\ b \notin Elems(fb) /\ Placed(b) /\ live' = live \ {a}
         /\ Owned' = Owned \ {b} /\ fb' = FreeOf(a)
         /\ fb' = fb => leaked' = leaked \union {b} /\ Out' = Out
         /\ fb' # fb => leaked' = leaked /\ Out' = Out \ {b}
<1>1. b \in Owned /\ Placed(b) /\ b \notin Elems(fb) \union leaked
  BY OwnedPlaced
<1>2. /\ live' = live \ {a} /\ fb' = FreeOf(a)
      /\ leaked' = IF fb' = fb THEN leaked \union {b} ELSE leaked
  BY DEF Free
<1>3. Owned' = Owned \ {b}
  <2>1. \A c \in live : c # a => Block(c.off, BlockSize(c.asked)) # b
    <3> SUFFICES ASSUME NEW c \in live, c # a PROVE Block(c.off, BlockSize(c.asked)) # b
      OBVIOUS
    <3>1. c.off # a.off
      BY DEF AllocInv
    <3> QED BY <3>1, BlockFields
  <2>2. Owned' = {Block(c.off, BlockSize(c.asked)) : c \in live'}
    BY DEF Owned
  <2> QED BY <1>2, <2>1, <2>2 DEF Owned
<1> QED BY <1>1, <1>2, <1>3 DEF Out

LEMMA FreeKeepsOwners ==
  ASSUME AllocInv, NEW a \in live, Free(a)
  PROVE  /\ live' \subseteq [off : Nat, asked : Requests] /\ IsFiniteSet(live')
         /\ \A c, d \in live' : c.off = d.off => c = d
         /\ Owned' \intersect leaked' = {}
<1>1. PICK b : b = Block(a.off, BlockSize(a.asked))
  OBVIOUS
<1>2. live' = live \ {a} /\ Owned' = Owned \ {b} /\ (leaked' = leaked \/ leaked' = leaked \union {b})
  BY <1>1, FreeIs
<1>3. IsFiniteSet(live')
  BY <1>2, FS_RemoveElement DEF AllocInv
<1> QED BY <1>2, <1>3 DEF AllocInv

LEMMA LostKeeps ==
  ASSUME AllocInv, NEW a \in live, Free(a), fb' = fb
  PROVE  AllocInv'
<1>1. Out' = Out
  BY FreeIs
<1> QED BY <1>1, FreeKeepsOwners DEF AllocInv

LEMMA FreedKeeps ==
  ASSUME AllocInv, NEW a \in live, Free(a), NEW b, b = Block(a.off, BlockSize(a.asked)),
         fb' # fb, NEW t, fb' = t, Sorted(t), Len(t) <= MaxFree,
         Partition(Elems(t) \union (Out \ {b})), Elems(t) \intersect (Out \ {b}) = {}
  PROVE  AllocInv'
<1>1. Out' = Out \ {b}
  BY FreeIs
<1> QED BY <1>1, FreeKeepsOwners DEF AllocInv

\* Where a block that is out would go: between the free blocks below and above it.
LEMMA InsertionPointIs ==
  ASSUME AllocInv, NEW b \in Out, NEW i, i = InsertionPoint(b.off)
  PROVE  /\ i \in 1 .. Len(fb) + 1
         /\ \A j \in 1 .. i - 1 : End(fb[j]) <= b.off
         /\ \A j \in i .. Len(fb) : End(b) <= fb[j].off
<1>1. PICK n \in Nat : n = Len(fb)
  BY SortedIs DEF AllocInv
<1>2. Sorted(fb) /\ Placed(b) /\ b.off \in Nat /\ End(b) \in Nat /\ b.off < End(b)
  BY PlacedIs DEF AllocInv, Partition
<1>3. \A j \in 1 .. n : fb[j].off \in Nat /\ End(fb[j]) \in Nat /\ fb[j].off < End(fb[j])
  BY <1>1, <1>2, SortedIs
<1>4. PICK T : T = {k \in 1 .. n : fb[k].off >= b.off} \union {n + 1}
  OBVIOUS
<1>5. PICK k \in T : \A j \in T : ~ (j < k)
  <2>1. T \in SUBSET Nat /\ T # {}
    BY <1>1, <1>4
  <2> QED BY <2>1, SmallestNat
<1>6. k \in 1 .. n + 1 /\ (k <= n => fb[k].off >= b.off)
  BY <1>1, <1>4, <1>5
<1>7. ASSUME NEW j \in 1 .. k - 1 PROVE fb[j].off < b.off
  <2>1. j \notin T /\ j \in 1 .. n
    BY <1>1, <1>5, <1>6
  <2> QED BY <1>2, <1>3, <1>4, <2>1
<1>8. \E m \in 1 .. Len(fb) + 1 : /\ \A j \in 1 .. m - 1 : fb[j].off < b.off
                                  /\ m <= Len(fb) => fb[m].off >= b.off
  BY <1>1, <1>6, <1>7
<1>9. /\ i \in 1 .. n + 1 /\ (i <= n => fb[i].off >= b.off)
      /\ \A j \in 1 .. i - 1 : fb[j].off < b.off
  BY <1>1, <1>8, Zenon DEF InsertionPoint
<1>10. ASSUME NEW j \in 1 .. n PROVE End(fb[j]) <= b.off \/ End(b) <= fb[j].off
  <2>1. fb[j] \in Elems(fb)
    BY <1>1, <1>2, SortedIs
  <2>2. fb[j] # b
    BY <2>1 DEF AllocInv
  <2> QED BY <2>1, <2>2 DEF AllocInv, Partition, Apart
<1>11. ASSUME NEW j \in 1 .. i - 1 PROVE End(fb[j]) <= b.off
  <2>1. j \in 1 .. n /\ fb[j].off < b.off
    BY <1>1, <1>9
  <2> QED BY <1>2, <1>3, <1>10, <2>1
<1>12. ASSUME NEW j \in i .. n PROVE End(b) <= fb[j].off
  <2>1. j \in 1 .. n /\ i \in 1 .. n
    BY <1>1, <1>9
  <2>2. fb[j].off >= b.off
    <3>1. CASE j = i
      BY <1>9, <2>1, <3>1
    <3>2. CASE i < j
      <4>1. End(fb[i]) < fb[j].off
        BY <1>1, <1>2, <2>1, <3>2 DEF Sorted
      <4> QED BY <1>2, <1>3, <1>9, <2>1, <4>1
    <3> QED BY <2>1, <3>1, <3>2
  <2> QED BY <1>2, <1>3, <1>10, <2>1, <2>2
<1> QED BY <1>1, <1>9, <1>11, <1>12

\* Where it meets no neighbour it touches nothing on that side.
LEMMA GapIs ==
  ASSUME AllocInv, NEW b \in Out, NEW i, i = InsertionPoint(b.off)
  PROVE  /\ i \in 1 .. Len(fb) + 1
         /\ ~ MeetsLeft(b, i) => \A j \in 1 .. i - 1 : End(fb[j]) < b.off
         /\ ~ MeetsRight(b, i) => \A j \in i .. Len(fb) : End(b) < fb[j].off
<1>1. Sorted(fb) /\ Placed(b)
  BY DEF AllocInv, Partition
<1>2. PICK n \in Nat : n = Len(fb)
  BY <1>1, SortedIs
<1>3. /\ i \in 1 .. n + 1
      /\ \A j \in 1 .. i - 1 : End(fb[j]) <= b.off
      /\ \A j \in i .. n : End(b) <= fb[j].off
  BY <1>1, <1>2, InsertionPointIs
<1>4. b.off \in Nat /\ End(b) \in Nat
  BY <1>1, PlacedIs
<1>5. \A j \in 1 .. n : fb[j].off \in Nat /\ End(fb[j]) \in Nat /\ fb[j].off < End(fb[j])
  BY <1>1, <1>2, SortedIs
<1>6. \A j, k \in 1 .. n : j < k => End(fb[j]) < fb[k].off
  BY <1>1, <1>2 DEF Sorted
<1>7. ASSUME ~ MeetsLeft(b, i), NEW j \in 1 .. i - 1 PROVE End(fb[j]) < b.off
  <2>1. PICK k \in 1 .. n : k = i - 1
    BY <1>2, <1>3
  <2>2. j \in 1 .. n /\ End(fb[k]) # b.off /\ End(fb[k]) <= b.off
    BY <1>3, <1>7, <2>1 DEF MeetsLeft
  <2>3. CASE j = k
    BY <1>4, <1>5, <2>2, <2>3
  <2>4. CASE j < k
    <3>1. End(fb[j]) < fb[k].off
      BY <1>6, <2>2, <2>4
    <3> QED BY <1>4, <1>5, <2>2, <3>1
  <2> QED BY <1>3, <2>1, <2>3, <2>4
<1>8. ASSUME ~ MeetsRight(b, i), NEW j \in i .. n PROVE End(b) < fb[j].off
  <2>1. i <= n /\ i \in 1 .. n /\ j \in 1 .. n /\ End(b) # fb[i].off /\ End(b) <= fb[i].off
    BY <1>2, <1>3, <1>8 DEF MeetsRight
  <2>2. CASE j = i
    BY <1>4, <1>5, <2>1, <2>2
  <2>3. CASE i < j
    <3>1. End(fb[i]) < fb[j].off
      BY <1>6, <2>1, <2>3
    <3> QED BY <1>4, <1>5, <2>1, <3>1
  <2> QED BY <1>3, <2>1, <2>2, <2>3
<1> QED BY <1>2, <1>3, <1>7, <1>8

\* No neighbour is met: the block goes in between.
LEMMA InsertKeeps ==
  ASSUME AllocInv, NEW a \in live, Free(a), NEW b, b = Block(a.off, BlockSize(a.asked)),
         NEW i, i = InsertionPoint(b.off), ~ MeetsLeft(b, i), ~ MeetsRight(b, i),
         Len(fb) < MaxFree, fb' = Insert(fb, i, b)
  PROVE  AllocInv'
<1>1. b \in Out /\ b \notin Elems(fb) /\ Placed(b) /\ Sorted(fb)
  BY FreeIs DEF AllocInv
<1>2. /\ i \in 1 .. Len(fb) + 1
      /\ \A j \in 1 .. i - 1 : End(fb[j]) < b.off
      /\ \A j \in i .. Len(fb) : End(b) < fb[j].off
  BY <1>1, GapIs
<1>3. PICK t : t = Insert(fb, i, b)
  OBVIOUS
<1>4. Sorted(t) /\ Len(t) = Len(fb) + 1 /\ Elems(t) = Elems(fb) \union {b}
  <2>1. b \in Blocks /\ fb \in Seq(Blocks)
    BY <1>1, PlacedIs, SortedIs DEF Blocks
  <2>2. Adds(t, fb, i, b)
    BY <1>2, <1>3, <2>1, InsertIs
  <2>3. Between(fb, i - 1, i, b)
    BY <1>2 DEF Between
  <2> HIDE <1>3
  <2> QED BY <1>1, <1>2, <2>2, <2>3, SortedInsert
<1>5. t # fb /\ Len(t) <= MaxFree
  BY <1>1, <1>4, AllocAssumption, SortedIs
<1>6. Elems(t) \union (Out \ {b}) = Elems(fb) \union Out
  BY <1>1, <1>4
<1>7. Elems(t) \intersect (Out \ {b}) = {}
  BY <1>4 DEF AllocInv
<1>8. Partition(Elems(t) \union (Out \ {b}))
  BY <1>6 DEF AllocInv
<1> QED BY <1>3, <1>4, <1>5, <1>7, <1>8, FreedKeeps

\* The block below is met, not the one above: it grows at its end.
LEMMA LeftJoinKeeps ==
  ASSUME AllocInv, NEW a \in live, Free(a), NEW b, b = Block(a.off, BlockSize(a.asked)),
         NEW i, i = InsertionPoint(b.off), MeetsLeft(b, i), ~ MeetsRight(b, i),
         fb' = JoinedLeft(b, i)
  PROVE  AllocInv'
<1>1. b \in Out /\ b \notin Elems(fb) /\ Placed(b) /\ Sorted(fb) /\ fb \in Seq(Blocks)
  BY FreeIs, SortedIs DEF AllocInv
<1>2. PICK n \in Nat : n = Len(fb)
  BY <1>1, SortedIs
<1>3. i \in 1 .. n + 1 /\ \A j \in i .. n : End(b) < fb[j].off
  BY <1>1, <1>2, GapIs
<1>4. PICK k \in 1 .. n : k = i - 1
  BY <1>2, <1>3 DEF MeetsLeft
<1>5. PICK p : p = fb[k] /\ End(p) = b.off /\ p \in Elems(fb) /\ Placed(p) /\ p \notin Out
  <2>1. fb[k] \in Elems(fb) /\ Placed(fb[k])
    BY <1>1, <1>2, <1>4, SortedAt
  <2>2. End(fb[k]) = b.off
    BY <1>4 DEF MeetsLeft
  <2> QED BY <2>1, <2>2 DEF AllocInv
<1>6. PICK q : q = Block(p.off, p.size + b.size)
  OBVIOUS
<1>7. PICK A : A = Elems(fb) \union Out
  OBVIOUS
<1>8. Partition((A \ {p, b}) \union {q}) /\ Placed(q) /\ End(q) = End(b) /\ q \notin A
  <2>1. Partition(A) /\ p \in A /\ b \in A
    BY <1>1, <1>5, <1>7 DEF AllocInv
  <2> QED BY <1>5, <1>6, <2>1, Join
<1>9. q.off = p.off /\ q.size = p.size + b.size /\ q # p /\ q \in Blocks
  <2>1. p.size \in Nat /\ b.size \in Nat \ {0}
    BY <1>1, <1>5, PlacedIs
  <2>2. q.off = p.off /\ q.size = p.size + b.size
    BY <1>6, BlockFields
  <2>3. q \in Blocks
    BY <1>8, PlacedIs DEF Blocks
  <2> QED BY <2>1, <2>2, <2>3
<1>10. PICK t : t = [fb EXCEPT ![k] = q]
  OBVIOUS
<1>11. fb' = t
  <2>1. fb' = [fb EXCEPT ![k].size = @ + b.size]
    BY <1>2, <1>4 DEF JoinedLeft
  <2>2. [fb[k] EXCEPT !.size = @ + b.size] = q
    <3>1. p = Block(p.off, p.size)
      BY <1>5, PlacedIs
    <3>2. [Block(p.off, p.size) EXCEPT !.size = p.size + b.size] = Block(p.off, p.size + b.size)
      BY DEF Block
    <3> QED BY <1>5, <1>6, <3>1, <3>2
  <2> QED BY <1>10, <2>1, <2>2
<1>12. Puts(t, fb, k, q)
  BY <1>1, <1>2, <1>9, <1>10, PutIs
<1>13. Sorted(t) /\ Elems(t) = (Elems(fb) \ {p}) \union {q}
  <2> HIDE <1>10
  <2>1. \A j \in 1 .. k - 1 : End(fb[j]) < q.off
    BY <1>1, <1>2, <1>5, <1>9 DEF Sorted
  <2>2. \A j \in k + 1 .. Len(fb) : End(q) < fb[j].off
    BY <1>2, <1>3, <1>4, <1>8
  <2>3. Between(fb, k - 1, k + 1, q)
    BY <2>1, <2>2 DEF Between
  <2>4. Sorted(t) /\ Elems(t) = (Elems(fb) \ {fb[k]}) \union {q}
    BY <1>1, <1>2, <1>8, <1>12, <2>3, SortedPut
  <2> QED BY <1>5, <2>4
<1>14. t # fb
  BY <1>2, <1>5, <1>9, <1>12 DEF Puts
<1>15. Len(t) <= MaxFree
  BY <1>12 DEF AllocInv, Puts
<1>16. /\ Elems(t) \union (Out \ {b}) = (A \ {p, b}) \union {q}
       /\ Elems(t) \intersect (Out \ {b}) = {}
  BY <1>1, <1>5, <1>7, <1>8, <1>13 DEF AllocInv
<1> QED BY <1>8, <1>11, <1>13, <1>14, <1>15, <1>16, FreedKeeps

\* The block above is met, not the one below: it grows at its start.
LEMMA RightJoinKeeps ==
  ASSUME AllocInv, NEW a \in live, Free(a), NEW b, b = Block(a.off, BlockSize(a.asked)),
         NEW i, i = InsertionPoint(b.off), ~ MeetsLeft(b, i), MeetsRight(b, i),
         fb' = Joined(b, i)
  PROVE  AllocInv'
<1>1. b \in Out /\ b \notin Elems(fb) /\ Placed(b) /\ Sorted(fb) /\ fb \in Seq(Blocks)
  BY FreeIs, SortedIs DEF AllocInv
<1>2. PICK n \in Nat : n = Len(fb)
  BY <1>1, SortedIs
<1>3. i \in 1 .. n /\ \A j \in 1 .. i - 1 : End(fb[j]) < b.off
  BY <1>1, <1>2, GapIs DEF MeetsRight
<1>4. PICK r : r = fb[i] /\ End(b) = r.off /\ r \in Elems(fb) /\ Placed(r) /\ r \notin Out
  <2>1. fb[i] \in Elems(fb) /\ Placed(fb[i])
    BY <1>1, <1>2, <1>3, SortedAt
  <2>2. End(b) = fb[i].off
    BY DEF MeetsRight
  <2> QED BY <2>1, <2>2 DEF AllocInv
<1>5. PICK q : q = Block(b.off, b.size + r.size)
  OBVIOUS
<1>6. PICK A : A = Elems(fb) \union Out
  OBVIOUS
<1>7. Partition((A \ {b, r}) \union {q}) /\ Placed(q) /\ End(q) = End(r) /\ q \notin A
  <2>1. Partition(A) /\ r \in A /\ b \in A
    BY <1>1, <1>4, <1>6 DEF AllocInv
  <2> QED BY <1>4, <1>5, <2>1, Join
<1>8. q.off = b.off /\ q \in Blocks /\ q # r
  <2>1. q.off = b.off
    BY <1>5, BlockFields
  <2>2. q # r
    BY <1>4, <1>6, <1>7
  <2>3. q \in Blocks
    BY <1>7, PlacedIs DEF Blocks
  <2> QED BY <2>1, <2>2, <2>3
<1>9. PICK t : t = [fb EXCEPT ![i] = q]
  OBVIOUS
<1>10. fb' = t
  BY <1>4, <1>5, <1>9 DEF Joined
<1>11. Puts(t, fb, i, q)
  BY <1>1, <1>2, <1>3, <1>8, <1>9, PutIs
<1>12. Sorted(t) /\ Elems(t) = (Elems(fb) \ {r}) \union {q}
  <2> HIDE <1>9
  <2>1. \A j \in 1 .. i - 1 : End(fb[j]) < q.off
    BY <1>3, <1>8
  <2>2. \A j \in i + 1 .. Len(fb) : End(q) < fb[j].off
    BY <1>1, <1>2, <1>3, <1>4, <1>7 DEF Sorted
  <2>3. i \in 1 .. Len(fb)
    BY <1>2, <1>3
  <2>4. Sorted(t) /\ Elems(t) = (Elems(fb) \ {fb[i]}) \union {q}
    <3>1. Between(fb, i - 1, i + 1, q)
      BY <2>1, <2>2 DEF Between
    <3> QED BY <1>1, <1>7, <1>11, <2>3, <3>1, SortedPut
  <2> QED BY <1>4, <2>4
<1>13. t # fb
  BY <1>2, <1>3, <1>4, <1>8, <1>11 DEF Puts
<1>14. Len(t) <= MaxFree
  BY <1>11 DEF AllocInv, Puts
<1>15. /\ Elems(t) \union (Out \ {b}) = (A \ {b, r}) \union {q}
       /\ Elems(t) \intersect (Out \ {b}) = {}
  BY <1>1, <1>4, <1>6, <1>7, <1>12 DEF AllocInv
<1> QED BY <1>7, <1>10, <1>12, <1>13, <1>14, <1>15, FreedKeeps

\* Both are met: three blocks become one.
LEMMA BothJoinKeeps ==
  ASSUME AllocInv, NEW a \in live, Free(a), NEW b, b = Block(a.off, BlockSize(a.asked)),
         NEW i, i = InsertionPoint(b.off), MeetsLeft(b, i), MeetsRight(b, i),
         fb' = JoinedLeft(b, i)
  PROVE  AllocInv'
<1>1. b \in Out /\ b \notin Elems(fb) /\ Placed(b) /\ Sorted(fb) /\ fb \in Seq(Blocks)
  BY FreeIs, SortedIs DEF AllocInv
<1>2. PICK n \in Nat : n = Len(fb)
  BY <1>1, SortedIs
<1>3. i \in 1 .. n
  BY <1>1, <1>2, GapIs DEF MeetsRight
<1>4. PICK k \in 1 .. n : k = i - 1
  BY <1>2, <1>3 DEF MeetsLeft
<1>5. PICK p : p = fb[k] /\ End(p) = b.off /\ p \in Elems(fb) /\ Placed(p) /\ p \notin Out
  <2>1. fb[k] \in Elems(fb) /\ Placed(fb[k])
    BY <1>1, <1>2, <1>4, SortedAt
  <2>2. End(fb[k]) = b.off
    BY <1>4 DEF MeetsLeft
  <2> QED BY <2>1, <2>2 DEF AllocInv
<1>6. PICK r : r = fb[i] /\ End(b) = r.off /\ r \in Elems(fb) /\ Placed(r) /\ r \notin Out
  <2>1. fb[i] \in Elems(fb) /\ Placed(fb[i])
    BY <1>1, <1>2, <1>3, SortedAt
  <2>2. End(b) = fb[i].off
    BY DEF MeetsRight
  <2> QED BY <2>1, <2>2 DEF AllocInv
<1>7. PICK q : q = Block(p.off, p.size + b.size)
  OBVIOUS
<1>8. PICK w : w = Block(q.off, q.size + r.size)
  OBVIOUS
<1>9. PICK A : A = Elems(fb) \union Out
  OBVIOUS
<1>10. Partition(A) /\ p \in A /\ b \in A /\ r \in A /\ r # p /\ r # b
  <2>1. r # p
    <3>1. k \in 1 .. Len(fb) /\ i \in 1 .. Len(fb) /\ k # i
      BY <1>2, <1>3, <1>4
    <3>2. fb[k] # fb[i]
      BY <1>1, <3>1, SortedIs
    <3> QED BY <1>5, <1>6, <3>2
  <2> QED BY <1>1, <1>5, <1>6, <1>9, <2>1 DEF AllocInv
<1>11. PICK B : B = (A \ {p, b}) \union {q}
  OBVIOUS
<1>12. Partition(B) /\ Placed(q) /\ End(q) = End(b) /\ q \notin A
  BY <1>5, <1>7, <1>10, <1>11, Join
<1>13. Partition((B \ {q, r}) \union {w}) /\ Placed(w) /\ End(w) = End(r) /\ w \notin B
  <2>1. q \in B /\ r \in B /\ End(q) = r.off
    BY <1>6, <1>10, <1>11, <1>12
  <2> QED BY <1>8, <1>12, <2>1, Join
<1>14. q.off = p.off /\ q.size = p.size + b.size /\ w.off = p.off /\ w \in Blocks
       /\ w = Block(p.off, p.size + b.size + r.size)
  <2>1. q.off = p.off /\ q.size = p.size + b.size
    BY <1>7, BlockFields
  <2>2. w.off = q.off
    BY <1>8, BlockFields
  <2> QED BY <1>8, <1>13, <2>1, <2>2, PlacedIs DEF Blocks
<1>15. PICK g : g = [fb EXCEPT ![k] = w]
  OBVIOUS
<1>16. PICK t : t = Without(g, i)
  OBVIOUS
<1>17. fb' = t
  <2>1. fb' = Without([fb EXCEPT ![k].size = @ + b.size + r.size], i)
    BY <1>4, <1>6 DEF JoinedLeft
  <2>2. [fb[k] EXCEPT !.size = @ + b.size + r.size] = w
    <3>1. p = Block(p.off, p.size)
      BY <1>5, PlacedIs
    <3>2. [Block(p.off, p.size) EXCEPT !.size = p.size + b.size + r.size]
            = Block(p.off, p.size + b.size + r.size)
      BY DEF Block
    <3> QED BY <1>5, <1>14, <3>1, <3>2
  <2>3. [fb EXCEPT ![k].size = @ + b.size + r.size] = g
    BY <1>15, <2>2
  <2> QED BY <1>16, <2>1, <2>3
<1>18. /\ g \in Seq(Blocks) /\ Len(g) = n
       /\ \A j \in 1 .. n : g[j] = IF j = k THEN w ELSE fb[j]
  <2>1. Puts(g, fb, k, w)
    BY <1>1, <1>2, <1>14, <1>15, PutIs
  <2> QED BY <1>2, <2>1 DEF Puts
<1>19. /\ t \in Seq(Blocks) /\ Len(t) = n - 1
       /\ \A j \in 1 .. n - 1 : t[j] = IF j < i THEN g[j] ELSE g[j + 1]
  <2> HIDE <1>15
  <2>1. i \in 1 .. Len(g)
    BY <1>3, <1>18
  <2>2. Drops(t, g, i)
    BY <1>16, <1>18, <2>1, WithoutIs
  <2> QED BY <1>18, <2>2 DEF Drops
<1>20. PICK v : v = Without(fb, i)
  OBVIOUS
<1>21. /\ Sorted(v) /\ Len(v) = n - 1 /\ Elems(v) = Elems(fb) \ {r} /\ v \in Seq(Blocks)
       /\ \A j \in 1 .. n - 1 : v[j] = IF j < i THEN fb[j] ELSE fb[j + 1]
  <2>1. Sorted(v) /\ Len(v) = n - 1 /\ Elems(v) = Elems(fb) \ {r}
    BY <1>1, <1>2, <1>3, <1>6, <1>20, SortedWithout
  <2>2. i \in 1 .. Len(fb)
    BY <1>2, <1>3
  <2>3. Drops(v, fb, i)
    BY <1>1, <1>20, <2>2, WithoutIs
  <2> QED BY <1>2, <2>1, <2>3 DEF Drops
<1>22. k \in 1 .. n - 1 /\ v[k] = p
  BY <1>3, <1>4, <1>5, <1>21
<1>23. \A j \in 1 .. n - 1 : t[j] = IF j = k THEN w ELSE v[j]
  <2> HIDE <1>15, <1>16, <1>20
  <2>1. \A j \in 1 .. n - 1 : j < i => t[j] = IF j = k THEN w ELSE fb[j]
    BY <1>3, <1>18, <1>19
  <2>2. \A j \in 1 .. n - 1 : ~ (j < i) => t[j] = fb[j + 1] /\ j # k
    BY <1>3, <1>4, <1>18, <1>19
  <2> QED BY <1>21, <2>1, <2>2
<1>24. Sorted(t) /\ Elems(t) = (Elems(v) \ {p}) \union {w}
  <2> HIDE <1>15, <1>16, <1>20
  <2>1. \A j \in 1 .. k - 1 : End(v[j]) < w.off
    <3> SUFFICES ASSUME NEW j \in 1 .. k - 1 PROVE End(v[j]) < w.off
      OBVIOUS
    <3>1. j \in 1 .. n - 1 /\ k \in 1 .. n - 1 /\ j < k
      BY <1>22
    <3>2. End(v[j]) < v[k].off
      BY <1>21, <3>1 DEF Sorted
    <3> QED BY <1>14, <1>22, <3>2
  <2>2. \A j \in k + 1 .. n - 1 : End(w) < v[j].off
    <3> SUFFICES ASSUME NEW j \in k + 1 .. n - 1 PROVE End(w) < v[j].off
      OBVIOUS
    <3>1. v[j] = fb[j + 1] /\ j + 1 \in 1 .. n /\ i < j + 1
      BY <1>3, <1>4, <1>21
    <3>2. End(fb[i]) < fb[j + 1].off
      BY <1>1, <1>2, <1>3, <3>1 DEF Sorted
    <3> QED BY <1>6, <1>13, <3>1, <3>2
  <2>3. Puts(t, v, k, w) /\ k \in 1 .. Len(v)
    BY <1>19, <1>21, <1>22, <1>23, LenProperties DEF Puts
  <2>4. Between(v, k - 1, k + 1, w)
    BY <1>21, <2>1, <2>2 DEF Between
  <2>5. Sorted(t) /\ Elems(t) = (Elems(v) \ {v[k]}) \union {w}
    BY <1>13, <1>21, <2>3, <2>4, SortedPut
  <2> QED BY <1>22, <2>5
<1>25. t # fb
  BY <1>2, <1>19
<1>26. Len(t) <= MaxFree
  BY <1>2, <1>19, AllocAssumption DEF AllocInv
<1>27. /\ Elems(t) \union (Out \ {b}) = (B \ {q, r}) \union {w}
       /\ Elems(t) \intersect (Out \ {b}) = {}
  <2>1. Elems(t) = (Elems(fb) \ {r, p}) \union {w}
    BY <1>21, <1>24
  <2>2. B \ {q, r} = A \ {p, b, r}
    BY <1>11, <1>12
  <2>3. Elems(t) \union (Out \ {b}) = (A \ {p, b, r}) \union {w}
    BY <1>1, <1>5, <1>6, <1>9, <2>1
  <2>4. w \notin Out \ {b}
    BY <1>5, <1>9, <1>11, <1>13
  <2>5. Elems(t) \intersect (Out \ {b}) = {}
    BY <2>1, <2>4 DEF AllocInv
  <2> QED BY <2>2, <2>3, <2>5
<1> QED BY <1>13, <1>17, <1>24, <1>25, <1>26, <1>27, FreedKeeps

LEMMA FreeKeeps ==
  ASSUME AllocInv, NEW a \in live, Free(a)
  PROVE  AllocInv'
<1>1. PICK b : b = Block(a.off, BlockSize(a.asked))
  OBVIOUS
<1>2. PICK r : r = Block(a.off, RoundUp(a.asked))
  OBVIOUS
<1>3. PICK i : i = InsertionPoint(a.off)
  OBVIOUS
<1>4. b.off = a.off /\ r.size = RoundUp(a.asked) /\ r.size \in Nat /\ (r.size > 0 => b = r)
  BY <1>1, <1>2, OwnedPlaced, SizesAre, BlockFields
<1>5. fb' = CASE r.size = 0 -> fb
              [] r.size > 0 /\ (MeetsLeft(r, i) \/ MeetsRight(r, i)) -> Joined(r, i)
              [] r.size > 0 /\ ListFull(i, r) -> fb
              [] OTHER -> Insert(fb, i, r)
  BY <1>2, <1>3 DEF Free, FreeOf
<1>6. CASE r.size = 0
  <2>1. fb' = fb
    BY <1>5, <1>6
  <2> QED BY <2>1, LostKeeps
<1>7. CASE r.size > 0
  <2>1. b = r /\ i = InsertionPoint(b.off) /\ r.size # 0
    BY <1>3, <1>4, <1>7
  <2>2. CASE MeetsLeft(b, i) \/ MeetsRight(b, i)
    <3>1. fb' = Joined(b, i)
      BY <1>5, <1>7, <2>1, <2>2 DEF ListFull
    <3>2. CASE MeetsLeft(b, i)
      <4>1. fb' = JoinedLeft(b, i)
        BY <3>1, <3>2 DEF Joined
      <4> QED BY <1>1, <2>1, <3>2, <4>1, LeftJoinKeeps, BothJoinKeeps
    <3>3. CASE ~ MeetsLeft(b, i)
      BY <1>1, <2>1, <2>2, <3>1, <3>3, RightJoinKeeps
    <3> QED BY <3>2, <3>3
  <2>3. CASE ~ MeetsLeft(b, i) /\ ~ MeetsRight(b, i)
    <3>1. CASE ListFull(i, b)
      <4>1. fb' = fb
        BY <1>5, <1>7, <2>1, <2>3, <3>1
      <4> QED BY <4>1, LostKeeps
    <3>2. CASE ~ ListFull(i, b)
      <4>1. fb' = Insert(fb, i, b)
        BY <1>5, <1>7, <2>1, <2>3, <3>2
      <4>2. Len(fb) < MaxFree
        BY <2>3, <3>2, AllocAssumption, SortedIs DEF ListFull, AllocInv
      <4> QED BY <1>1, <2>1, <2>3, <4>1, <4>2, InsertKeeps
    <3> QED BY <3>1, <3>2
  <2> QED BY <2>2, <2>3
<1> QED BY <1>4, <1>6, <1>7

\* Everything free is one block.
LEMMA WholeFree ==
  /\ Sorted(Whole) /\ Len(Whole) = 1
  /\ Partition(Elems(Whole) \union {}) /\ Elems(Whole) \intersect {} = {}
<1>1. PICK b : b = Block(Base, Size)
  OBVIOUS
<1>2. b.off = Base /\ b.size = Size /\ End(b) = Base + Size
  BY <1>1, BlockFields
<1>3. Placed(b)
  BY <1>1, <1>2, AllocAssumption DEF Placed, Aligned
<1>4. b \in Blocks
  BY <1>3, PlacedIs DEF Blocks
<1>5. Whole = <<b>>
  BY <1>1 DEF Whole
<1>6. /\ Whole \in Seq(Blocks) /\ Len(Whole) = 1 /\ Whole[1] = b /\ DOMAIN Whole = 1 .. 1
      /\ 1 .. 1 = {1}
  BY <1>4, <1>5
<1>7. Sorted(Whole)
  BY <1>3, <1>6 DEF Sorted
<1>8. Elems(Whole) = {b}
  BY <1>6 DEF Elems
<1>9. IsFiniteSet({b}) /\ Bytes({b}) = Size
  <2>1. IsFiniteSet({}) /\ Sized({}) /\ b \notin {} /\ {} \union {b} = {b}
    BY FS_EmptySet DEF Sized
  <2>2. Bytes({}) = 0 /\ b.size \in Nat /\ Size \in Nat
    BY <1>2, <2>1, BytesOneMore, AllocAssumption
  <2>3. Bytes({} \union {b}) = Bytes({}) + b.size
    BY <2>1, <2>2, BytesAddOne
  <2>4. IsFiniteSet({b})
    BY FS_Singleton
  <2> QED BY <1>2, <2>1, <2>2, <2>3, <2>4
<1>10. Partition({b})
  <2>1. \A p \in Base .. Base + Size - 1 : Covers(b, p)
    BY <1>2, AllocAssumption DEF Covers
  <2> QED BY <1>3, <1>9, <2>1 DEF Partition
<1> QED BY <1>6, <1>7, <1>8, <1>10

LEMMA InitAlloc == AllocInit => AllocInv
<1> SUFFICES ASSUME AllocInit PROVE AllocInv
  OBVIOUS
<1>1. fb = Whole /\ live = {} /\ leaked = {} /\ Owned = {} /\ Out = {}
  BY DEF AllocInit, Owned, Out
<1> QED BY <1>1, WholeFree, FS_EmptySet, AllocAssumption DEF AllocInv

LEMMA ResetKeeps == Reset => AllocInv'
<1> SUFFICES ASSUME Reset PROVE AllocInv'
  OBVIOUS
<1>1. fb' = Whole /\ live' = {} /\ leaked' = {} /\ Owned' = {} /\ Out' = {}
  BY DEF Reset, Owned, Out
<1> QED BY <1>1, WholeFree, FS_EmptySet, AllocAssumption DEF AllocInv

LEMMA AllocStepKeeps == AllocInv /\ [AllocNext]_allocVars => AllocInv'
<1> SUFFICES ASSUME AllocInv, [AllocNext]_allocVars PROVE AllocInv'
  OBVIOUS
<1>1. ASSUME NEW s \in Requests, Alloc(s) PROVE AllocInv'
  BY <1>1, AllocKeeps
<1>2. ASSUME NEW a \in live, Free(a) PROVE AllocInv'
  BY <1>2, FreeKeeps
<1>3. CASE UNCHANGED allocVars
  <2>1. fb' = fb /\ live' = live /\ leaked' = leaked
    BY <1>3 DEF allocVars
  <2>2. Owned' = Owned /\ Out' = Out
    BY <2>1 DEF Owned, Out
  <2> QED BY <2>1, <2>2 DEF AllocInv
<1> QED BY <1>1, <1>2, <1>3, ResetKeeps DEF AllocNext

\* The free list and what is out cut the region into blocks, after any sequence of
\* blt_alloc, blt_free and blt_alloc_reset.
THEOREM RegionCutUp == AllocSpec => []AllocInv
BY InitAlloc, AllocStepKeeps, PTL DEF AllocSpec

-----------------------------------------------------------------------------
(* What follows for the callers.                                           *)

LEMMA InOrder == ASSUME AllocInv PROVE FreeListOrdered
<1>1. Sorted(fb)
  BY DEF AllocInv
<1>2. Len(fb) \in Nat /\ DOMAIN fb = 1 .. Len(fb)
  BY <1>1, SortedIs
<1>3. ASSUME NEW i \in 1 .. Len(fb)
      PROVE  /\ fb[i].size > 0 /\ fb[i].off % Align = 0 /\ fb[i].size % Align = 0
             /\ fb[i].off >= Base /\ End(fb[i]) <= Base + Size
  <2>1. PICK b : b = fb[i] /\ Placed(b)
    BY <1>1 DEF Sorted
  <2>2. b.off \in Nat /\ b.size \in Nat
    BY <2>1, PlacedIs
  <2> QED BY <2>1, <2>2, AllocAssumption DEF Placed, Aligned, End
<1>4. ASSUME NEW i \in 1 .. Len(fb) - 1 PROVE End(fb[i]) < fb[i + 1].off
  <2>1. i \in 1 .. Len(fb) /\ i + 1 \in 1 .. Len(fb) /\ i < i + 1
    BY <1>2
  <2> QED BY <1>1, <2>1 DEF Sorted
<1> QED BY <1>2, <1>3, <1>4 DEF FreeListOrdered

LEMMA Conserved == ASSUME AllocInv PROVE HeapConserved
<1>1. PICK E : E = Elems(fb) /\ E = {fb[i] : i \in DOMAIN fb}
  BY DEF Elems
<1>2. Partition(E \union Out) /\ E \intersect Out = {} /\ Sorted(fb) /\ Owned \intersect leaked = {}
  BY <1>1 DEF AllocInv
<1>3. AllocTypeOK
  BY <1>2, SortedIs DEF AllocInv, AllocTypeOK, Blocks
<1>4. \A a, b \in Out \union E : a # b => End(a) <= b.off \/ End(b) <= a.off
  BY <1>2 DEF Partition, Apart
<1>5. Cardinality(Owned) = Cardinality(live)
  <2>1. PICK f : f = [a \in live |-> Block(a.off, BlockSize(a.asked))]
    OBVIOUS
  <2>2. f \in Bijection(live, Owned)
    <3>1. \A a \in live : f[a] = Block(a.off, BlockSize(a.asked))
      BY <2>1
    <3>2. \A a, c \in live : f[a] = f[c] => a = c
      <4> SUFFICES ASSUME NEW a \in live, NEW c \in live, f[a] = f[c] PROVE a = c
        OBVIOUS
      <4>1. a.off = c.off
        BY <3>1, BlockFields
      <4> QED BY <4>1 DEF AllocInv
    <3>3. f \in [live -> Owned]
      BY <2>1 DEF Owned
    <3>4. \A b \in Owned : \E a \in live : f[a] = b
      BY <3>1 DEF Owned
    <3> QED BY <3>2, <3>3, <3>4, Fun_IsBij
  <2>3. ExistsBijection(live, Owned)
    BY <2>2 DEF ExistsBijection
  <2>4. IsFiniteSet(live)
    BY DEF AllocInv
  <2> QED BY <2>3, <2>4, FS_Bijection
<1>6. Used = Bytes(Out)
  <2>1. Sized(E \union Out) /\ Bytes(E \union Out) = Size
    BY <1>2, SizedPartition DEF Partition
  <2>2. Sized(E) /\ Sized(Out)
    BY <2>1, FS_Subset DEF Sized
  <2>3. Bytes(E \union Out) = Bytes(E) + Bytes(Out)
    BY <1>2, <2>2, BytesUnion
  <2>4. Bytes(E) \in Nat /\ Bytes(Out) \in Nat
    BY <2>2, BytesAreNat
  <2>5. Used = Size - Bytes(E)
    BY <1>1 DEF Used
  <2> QED BY <2>1, <2>3, <2>4, <2>5
<1> QED BY <1>1, <1>2, <1>3, <1>4, <1>5, <1>6, InOrder DEF HeapConserved

\* HeapConserved for every region, alignment, array and set of sizes: no byte of the
\* source heap has two owners, and none is neither free, owned nor counted as lost.
THEOREM HeapIsConserved == AllocSpec => []HeapConserved
BY RegionCutUp, Conserved, PTL

\* Free blocks do not touch: the byte after one is out.
LEMMA NextIsOut ==
  ASSUME AllocInv, NEW f \in Elems(fb), NEW p, p = End(f), p < Base + Size
  PROVE  \E b \in Out : b.off = p
<1>1. Sorted(fb) /\ Partition(Elems(fb) \union Out)
  BY DEF AllocInv
<1>2. Placed(f) /\ p \in Nat /\ Base \in Nat /\ Size \in Nat /\ Base <= p
  <2>1. Placed(f) /\ Base \in Nat /\ Size \in Nat
    BY <1>1, AllocAssumption DEF Partition
  <2> QED BY <2>1, PlacedIs
<1>3. p \in Base .. Base + Size - 1
  BY <1>2
<1>4. PICK b \in Elems(fb) \union Out : Covers(b, p)
  BY <1>1, <1>3 DEF Partition
<1>5. Placed(b) /\ b.off <= p /\ p < End(b)
  BY <1>1, <1>4 DEF Partition, Covers
<1>6. b.off \in Nat /\ End(b) \in Nat /\ f.off \in Nat /\ f.off < p
  BY <1>2, <1>5, PlacedIs
<1>7. b # f
  BY <1>5, <1>6
<1>8. End(b) <= f.off \/ p <= b.off
  BY <1>1, <1>4, <1>7 DEF Partition, Apart
<1>9. b.off = p
  BY <1>2, <1>5, <1>6, <1>8
<1>10. b \notin Elems(fb)
  <2> SUFFICES ASSUME b \in Elems(fb) PROVE FALSE
    OBVIOUS
  <2>1. PICK n \in Nat : n = Len(fb)
    BY <1>1, SortedIs
  <2>2. PICK i \in 1 .. n : f = fb[i]
    BY <1>1, <2>1, SortedIs
  <2>3. PICK j \in 1 .. n : b = fb[j]
    BY <1>1, <2>1, SortedIs
  <2>4. CASE i < j
    BY <1>1, <1>2, <1>9, <2>1, <2>2, <2>3, <2>4 DEF Sorted
  <2>5. CASE j < i
    <3>1. End(b) < f.off
      BY <1>1, <2>1, <2>2, <2>3, <2>5 DEF Sorted
    <3> QED BY <1>2, <1>5, <1>6, <3>1
  <2>6. i # j
    BY <1>7, <2>2, <2>3
  <2> QED BY <2>4, <2>5, <2>6
<1> QED BY <1>4, <1>9, <1>10

LEMMA Room == ASSUME AllocInv PROVE RoomIsFound
<1> SUFFICES ASSUME NEW s \in 1 .. Size \div Align, NEW n, n = s * Align,
                    NEW k \in 0 .. (Size - n) \div Align,
                    NEW gap, gap = Block(Base + k * Align, n),
                    \A b \in Out : End(b) <= gap.off \/ End(gap) <= b.off
             PROVE  \E i \in DOMAIN fb : Fits(i, n)
  BY DEF RoomIsFound
<1>1. /\ Align \in Nat \ {0} /\ Size \in Nat \ {0} /\ Base \in Nat
  BY AllocAssumption
<1>2. /\ n \in Nat \ {0} /\ n <= Size /\ k * Align \in Nat /\ Base + k * Align + n <= Base + Size
  <2>1. Size \div Align \in Int /\ (Size \div Align) * Align <= Size
    BY <1>1
  <2>2. s \in Nat \ {0} /\ n \in Nat \ {0}
    BY <1>1, <2>1
  <2>3. \A m \in Nat : s \in 0 .. m \div Align => s * Align <= m
    BY <1>1, <2>2
  <2>4. n <= Size
    BY <1>1, <2>1, <2>2, <2>3
  <2>5. PICK m \in Nat : m = Size - n
    BY <1>1, <2>2, <2>4
  <2>6. k \in 0 .. m \div Align
    BY <2>5
  <2>7. k \in Nat /\ k * Align <= m /\ k * Align \in Nat
    BY <1>1, <2>6
  <2> QED BY <1>1, <2>2, <2>4, <2>5, <2>7
<1>3. PICK o \in Nat : o = Base + k * Align
  BY <1>1, <1>2
<1>4. gap.off = o /\ End(gap) = o + n /\ Base <= o /\ o + n <= Base + Size
  BY <1>1, <1>2, <1>3, BlockFields
<1>5. Partition(Elems(fb) \union Out) /\ Sorted(fb)
  BY DEF AllocInv
<1>6. o \in Base .. Base + Size - 1
  BY <1>1, <1>2, <1>4
<1>7. PICK f \in Elems(fb) \union Out : Covers(f, o)
  BY <1>5, <1>6 DEF Partition
<1>8. Placed(f) /\ f.off <= o /\ o < End(f)
  BY <1>5, <1>7 DEF Partition, Covers
<1>9. f.off \in Nat /\ f.size \in Nat /\ End(f) \in Nat /\ End(f) = f.off + f.size
  BY <1>8, PlacedIs
<1>10. f \in Elems(fb)
  BY <1>2, <1>4, <1>7, <1>8, <1>9
<1>11. End(f) >= o + n
  <2> SUFFICES ASSUME End(f) < o + n PROVE FALSE
    BY <1>2, <1>9
  <2>1. PICK p \in Nat : p = End(f) /\ p < Base + Size
    BY <1>1, <1>2, <1>4, <1>9
  <2>2. PICK b \in Out : b.off = p
    BY <1>10, <2>1, NextIsOut
  <2>3. Placed(b)
    BY <1>5 DEF Partition
  <2>4. End(b) \in Nat /\ p < End(b)
    BY <2>2, <2>3, PlacedIs
  <2>5. End(b) <= o \/ o + n <= p
    BY <1>4, <2>2
  <2> QED BY <1>2, <1>8, <1>9, <2>1, <2>4, <2>5
<1>12. PICK i \in DOMAIN fb : f = fb[i]
  BY <1>10 DEF Elems
<1>13. f.size >= n
  BY <1>2, <1>8, <1>9, <1>11
<1> QED BY <1>12, <1>13 DEF Fits

LEMMA FewFragments == ASSUME AllocInv PROVE FragmentsBounded
<1>1. Sorted(fb) /\ Partition(Elems(fb) \union Out)
  BY DEF AllocInv
<1>2. PICK n \in Nat : n = Len(fb)
  BY <1>1, SortedIs
<1>3. IsFiniteSet(Out) /\ Cardinality(Out) \in Nat
  BY <1>1, FS_Subset, FS_CardinalityType DEF Partition
<1>4. ASSUME NEW i \in 1 .. n - 1 PROVE \E b \in Out : b.off = End(fb[i])
  <2>1. i \in 1 .. n /\ i + 1 \in 1 .. n /\ fb[i] \in Elems(fb) /\ fb[i + 1] \in Elems(fb)
    BY <1>1, <1>2, SortedIs
  <2>2. End(fb[i]) < fb[i + 1].off
    BY <1>1, <1>2, <2>1 DEF Sorted
  <2>3. PICK c : c = fb[i + 1] /\ Placed(c)
    BY <1>1, <2>1 DEF Partition
  <2>4. c.off < End(c) /\ End(c) <= Base + Size /\ c.off \in Nat /\ End(c) \in Nat
    BY <2>3, PlacedIs
  <2>5. End(fb[i]) \in Nat
    BY <1>1, <1>2, <2>1, SortedIs
  <2>6. End(fb[i]) < Base + Size
    BY <2>2, <2>3, <2>4, <2>5, AllocAssumption
  <2> QED BY <2>1, <2>6, NextIsOut
<1>5. PICK f : f = [i \in 1 .. n - 1 |-> CHOOSE b \in Out : b.off = End(fb[i])]
  OBVIOUS
<1>6. ASSUME NEW i \in 1 .. n - 1 PROVE f[i] \in Out /\ f[i].off = End(fb[i])
  <2>1. f[i] = CHOOSE b \in Out : b.off = End(fb[i])
    BY <1>5
  <2>2. \E b \in Out : b.off = End(fb[i])
    BY <1>4
  <2> QED BY <2>1, <2>2, Zenon
<1>7. ASSUME NEW i \in 1 .. n - 1, NEW j \in 1 .. n - 1, i < j PROVE f[i] # f[j]
  <2>1. i \in 1 .. n /\ j \in 1 .. n
    BY <1>2
  <2>2. End(fb[i]) < fb[j].off /\ fb[j].off < End(fb[j])
    BY <1>1, <1>2, <1>7, <2>1, SortedIs DEF Sorted
  <2>3. PICK x \in Nat : x = End(fb[i])
    BY <1>1, <1>2, <2>1, SortedIs
  <2>4. PICK y \in Nat : y = End(fb[j])
    BY <1>1, <1>2, <2>1, SortedIs
  <2>5. PICK z \in Nat : z = fb[j].off
    BY <1>1, <1>2, <2>1, SortedIs
  <2>6. x # y
    BY <2>2, <2>3, <2>4, <2>5
  <2> QED BY <1>6, <2>3, <2>4, <2>6
<1>8. f \in Injection(1 .. n - 1, Out)
  <2>1. f \in [1 .. n - 1 -> Out]
    BY <1>5, <1>6
  <2>2. \A i, j \in 1 .. n - 1 : f[i] = f[j] => i = j
    BY <1>2, <1>7
  <2> QED BY <2>1, <2>2, Fun_IsInj
<1>9. CASE n = 0
  BY <1>2, <1>3, <1>9 DEF FragmentsBounded
<1>10. CASE n # 0
  <2>1. IsFiniteSet(1 .. n - 1) /\ Cardinality(1 .. n - 1) = n - 1
    BY <1>10, FS_Interval
  <2>2. Cardinality(1 .. n - 1) <= Cardinality(Out)
    BY <1>3, <1>8, FS_Injection DEF ExistsInjection
  <2> QED BY <1>2, <1>3, <2>1, <2>2 DEF FragmentsBounded
<1> QED BY <1>9, <1>10

\* FreeListSuffices likewise: blt_alloc fails only for want of a gap, and blt_free's
\* array holds at most one block more than there are blocks out.
THEOREM FreeListIsEnough == AllocSpec => []FreeListSuffices
<1>1. AllocInv => FreeListSuffices
  BY Room, FewFragments DEF FreeListSuffices
<1> QED BY <1>1, RegionCutUp, PTL
===============================================================================
