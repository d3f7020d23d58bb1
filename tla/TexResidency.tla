---------------------------- MODULE TexResidency ----------------------------
(***************************************************************************)
(* Texture residency in backend_mfgpu: the cache of uploaded pages, the    *)
(* DDR heap the host writes at once, and the SDRAM copy the fabric samples *)
(* from, which only a BLT_OP_STAGE command executed later brings up to     *)
(* date.  Host and fabric overlap by one frame; pages touched in the last  *)
(* two built frames are pinned.                                            *)
(*                                                                         *)
(* The submit seam is taken at the granularity BatchHandoff promises: a    *)
(* published batch is a fixed sequence of commands the fabric executes one *)
(* by one.  The drop limit is out of reach here (no batch is reclaimed).   *)
(* All pages have one size, and a texture is used through one region.      *)
(***************************************************************************)
EXTENDS Naturals, Sequences

CONSTANTS
  Keys,       \* GL texture names the game draws with
  NoKey,      \* not a texture name
  SlotCounts, \* the values of MF_TEX_CACHE_N to look at
  NPages,     \* pages the DDR heap has room for
  RingCap,    \* commands a ring holds
  MaxClock,   \* bound: touches (g_lru_clock) in a run
  MaxVer      \* bound: re-uploads of one texture in a run

ASSUME ResidencyAssumption ==
  /\ NoKey \notin Keys
  /\ SlotCounts \subseteq Nat \ {0} /\ NPages \in Nat \ {0} /\ RingCap \in Nat \ {0}
  /\ MaxClock \in Nat /\ MaxVer \in Nat

VARIABLES
  hpc,          \* "idle" between frames, "build" inside one
  dropped,      \* g_frame_dropped
  arena,        \* g_arena
  ring,         \* the emitter: commands of the frame being built, and overflow
  open,         \* g_batch: the TRILIST not yet emitted, or NoBatch
  cache,        \* g_texcache
  free,         \* pages blt_alloc may hand out
  clock,        \* g_lru_clock
  frameFloor,   \* g_lru_frame_floor
  evictFloor,   \* g_lru_evict_floor
  ver,          \* which pixels each texture has now
  heap,         \* DDR: texels per page
  sdram,        \* SDRAM: texels per page, at the same offsets
  flight,       \* the batch published last: its commands and its arena
  busy,         \* the fabric has not acknowledged it
  pos,          \* commands of it the fabric has executed
  lost          \* history: pages whose last STAGE was refused or died with its frame

frameVars  == <<hpc, dropped, arena>>
emitVars   == <<ring, open>>
cacheVars  == <<cache, free, clock>>
floorVars  == <<frameFloor, evictFloor>>
fabricVars == <<sdram, busy, pos>>
vars == <<frameVars, emitVars, cacheVars, floorVars, ver, heap, flight,
          fabricVars, lost>>

Slots   == DOMAIN cache
Pages   == 1 .. NPages
Texels  == [key : Keys, ver : 0 .. MaxVer]
Blank   == [key |-> NoKey, ver |-> 0]             \* what a page held before
Unused  == [key |-> NoKey, page |-> 0, lru |-> 0]  \* a slot without an entry
NoBatch == [page |-> 0, want |-> {}]

Entry   == [key : Keys, page : Pages, lru : 1 .. MaxClock]
Batch   == [page : Pages, want : SUBSET Texels]
Command == [op : {"stage", "draw"}, page : Pages, want : SUBSET Texels]

\* The pixels texture k has now: what a draw issued now has to show.
TexelsOf(k) == [key |-> k, ver |-> ver[k]]

\* The game has changed or deleted that texture since.
Stale(t) == t.ver < ver[t.key]

EmptyRing == [cmds |-> <<>>, overflow |-> FALSE]

Init ==
  /\ hpc = "idle" /\ dropped = FALSE /\ arena = 0
  /\ ring = EmptyRing /\ open = NoBatch
  /\ \E n \in SlotCounts : cache = [s \in 1 .. n |-> Unused]
  /\ free = Pages /\ clock = 0
  /\ frameFloor = 0 /\ evictFloor = 0
  /\ ver = [k \in Keys |-> 0]
  /\ heap = [p \in Pages |-> Blank] /\ sdram = [p \in Pages |-> Blank]
  /\ flight = [cmds |-> <<>>, arena |-> 0] /\ busy = FALSE /\ pos = 0
  /\ lost = {}

-----------------------------------------------------------------------------
(* mf_frame_begin: drop the frame if it would rewind the arena in flight,  *)
(* else retire the floors, flip the arena and start an empty ring.         *)

RewindsBusyArena == busy /\ flight.arena = 1 - arena

FrameBeginDrop ==
  /\ hpc = "idle" /\ RewindsBusyArena
  /\ hpc' = "build" /\ dropped' = TRUE
  /\ UNCHANGED <<arena, emitVars, cacheVars, floorVars, ver, heap, flight,
                 fabricVars, lost>>

RetireBoth == frameFloor' = clock /\ evictFloor' = clock   \* a mutant: one frame pinned
RetireFloors == frameFloor' = clock /\ evictFloor' = frameFloor

FrameBegin ==
  /\ hpc = "idle" /\ ~RewindsBusyArena
  /\ hpc' = "build" /\ dropped' = FALSE
  /\ RetireFloors
  /\ arena' = 1 - arena
  /\ ring' = EmptyRing /\ open' = NoBatch
  /\ UNCHANGED <<cacheVars, ver, heap, flight, fabricVars, lost>>

-----------------------------------------------------------------------------
(* The emitter: emit() appends to the ring or raises overflow.             *)

Overflowed(r) == [r EXCEPT !.overflow = TRUE]
Full(r) == Len(r.cmds) >= RingCap
Put(r, c) == IF Full(r) THEN Overflowed(r) ELSE [r EXCEPT !.cmds = Append(@, c)]

StageOf(page, t) == [op |-> "stage", page |-> page, want |-> {t}]

\* mf_batch_flush on the ring r.
FlushOnto(r) ==
  IF open = NoBatch THEN r
  ELSE Put(r, [op |-> "draw", page |-> open.page, want |-> open.want])

\* mf_emit_group: merge with the open TRILIST when its page is the same, else
\* close that one and open a new one.  r is the ring after this draw's STAGE.
Merges(page) == open # NoBatch /\ open.page = page

Group(r, page, t) ==
  IF Merges(page)
    THEN ring' = r /\ open' = [open EXCEPT !.want = @ \union {t}]
    ELSE ring' = FlushOnto(r) /\ open' = [page |-> page, want |-> {t}]

-----------------------------------------------------------------------------
(* mf_draw with texture k.                                                 *)

CanDraw == hpc = "build" /\ ~dropped /\ clock < MaxClock

Holding(k) == {s \in Slots : cache[s] # Unused /\ cache[s].key = k}

Touch(s) == [cache EXCEPT ![s].lru = clock + 1]
NoTouch(s) == cache     \* a mutant: a hit does not refresh the entry
TouchedBy(s) == Touch(s)

\* mf_tex_find hits: the resident page is reused, nothing is staged.
DrawHit(k) ==
  /\ CanDraw
  /\ \E s \in Holding(k) :
       /\ cache' = TouchedBy(s)
       /\ Group(ring, cache[s].page, TexelsOf(k))
  /\ clock' = clock + 1
  /\ UNCHANGED <<frameVars, free, floorVars, ver, heap, flight, fabricVars, lost>>

Oldest(c, S) == CHOOSE s \in S : \A r \in S : c[s].lru <= c[r].lru
Lowest(S)    == CHOOSE x \in S : \A y \in S : x <= y

\* evict_one_lru: only entries untouched for two built frames.
Evictable == {s \in Slots : cache[s] # Unused /\ cache[s].lru <= evictFloor}

\* blt_upload, evicting if it must: the page it lands on and what it evicted.
CanUpload  == free # {} \/ Evictable # {}
UploadPage == IF free # {} THEN Lowest(free)
                           ELSE cache[Oldest(cache, Evictable)].page
AfterEvict == IF free # {} THEN cache
                           ELSE [cache EXCEPT ![Oldest(cache, Evictable)] = Unused]

\* The slot the new entry goes to: a free one, else the least recently used.
SlotFor == IF \E s \in Slots : AfterEvict[s] = Unused
             THEN Lowest({s \in Slots : AfterEvict[s] = Unused})
             ELSE Oldest(AfterEvict, Slots)

SlotUsable == AfterEvict[SlotFor] # Unused => AfterEvict[SlotFor].lru <= evictFloor

Misses(k) == CanDraw /\ Holding(k) = {}

\* No page fits even after eviction: the draw is dropped, the frame overflows.
DrawRefused(k) ==
  /\ Misses(k) /\ ~CanUpload
  /\ ring' = Overflowed(ring)
  /\ UNCHANGED <<frameVars, open, cacheVars, floorVars, ver, heap, flight,
                 fabricVars, lost>>

\* The page is uploaded and its STAGE emitted, but every slot is pinned: the
\* upload is undone and the frame overflows.
KeepsPage == free \ {UploadPage}        \* a mutant: the upload is not undone
PageReturned == free \union {UploadPage}

DrawCacheFull(k) ==
  /\ Misses(k) /\ CanUpload /\ ~SlotUsable
  /\ heap' = [heap EXCEPT ![UploadPage] = TexelsOf(k)]
  /\ ring' = Overflowed(Put(ring, StageOf(UploadPage, TexelsOf(k))))
  /\ cache' = AfterEvict /\ free' = PageReturned
  /\ UNCHANGED <<frameVars, open, clock, floorVars, ver, flight, fabricVars, lost>>

\* mf_upload_and_cache succeeds, whether or not the STAGE fitted in the ring.
WithStage(page, t) == Put(ring, StageOf(page, t))

ReplacedPage == IF AfterEvict[SlotFor] = Unused THEN {} ELSE {AfterEvict[SlotFor].page}

DrawMiss(k) ==
  /\ Misses(k) /\ CanUpload /\ SlotUsable
  /\ heap' = [heap EXCEPT ![UploadPage] = TexelsOf(k)]
  /\ Group(WithStage(UploadPage, TexelsOf(k)), UploadPage, TexelsOf(k))
  /\ cache' = [AfterEvict EXCEPT ![SlotFor] =
                 [key |-> k, page |-> UploadPage, lru |-> clock + 1]]
  /\ free' = (free \ {UploadPage}) \union ReplacedPage
  /\ clock' = clock + 1
  /\ lost' = IF Full(ring) THEN lost \union {UploadPage} ELSE lost
  /\ UNCHANGED <<frameVars, floorVars, ver, flight, fabricVars>>

-----------------------------------------------------------------------------
(* mf_frame_end: flush, close the ring with END, and publish if the batch  *)
(* before it was acknowledged in time.                                     *)

EndCommand == [op |-> "end", page |-> 0, want |-> {}]
Closed == Put(FlushOnto(ring), EndCommand)

Staged(r) == {r.cmds[i].page : i \in {j \in 1 .. Len(r.cmds) : r.cmds[j].op = "stage"}}

FrameEndDropped ==
  /\ hpc = "build" /\ dropped
  /\ hpc' = "idle" /\ open' = NoBatch
  /\ UNCHANGED <<dropped, arena, ring, cacheVars, floorVars, ver, heap, flight,
                 fabricVars, lost>>

\* The frame overflowed, or the publish barrier timed out: its ring is not
\* published, and whatever it staged stays in the cache.
FrameEndLost ==
  /\ hpc = "build" /\ ~dropped
  /\ Closed.overflow \/ busy
  /\ hpc' = "idle" /\ open' = NoBatch
  /\ ring' = Closed
  /\ dropped' = ~Closed.overflow
  /\ lost' = lost \union Staged(Closed)
  /\ UNCHANGED <<arena, cacheVars, floorVars, ver, heap, flight, fabricVars>>

FrameEndPublish ==
  /\ hpc = "build" /\ ~dropped
  /\ ~Closed.overflow /\ ~busy
  /\ hpc' = "idle" /\ open' = NoBatch
  /\ ring' = Closed
  /\ flight' = [cmds |-> Closed.cmds, arena |-> arena]
  /\ busy' = TRUE /\ pos' = 0
  /\ UNCHANGED <<dropped, arena, cacheVars, floorVars, ver, heap, sdram, lost>>

-----------------------------------------------------------------------------
(* RasterBackend_MFGPU_InvalidateTex: the game re-uploads or deletes a     *)
(* texture.  Its pages are free at once: pinned or not, and whatever draws *)
(* of it the open batch, the ring and the batch in flight still hold.      *)

FreedPages(k) == {cache[s].page : s \in Holding(k)}

\* (Of a texture without an entry the cache learns nothing: not a step.)
InvalidateTex(k) ==
  /\ Holding(k) # {} /\ ver[k] < MaxVer
  /\ ver' = [ver EXCEPT ![k] = @ + 1]
  /\ free' = free \union FreedPages(k)
  /\ cache' = [s \in Slots |-> IF s \in Holding(k) THEN Unused ELSE cache[s]]
  /\ UNCHANGED <<frameVars, emitVars, clock, floorVars, heap, flight,
                 fabricVars, lost>>

-----------------------------------------------------------------------------
(* The fabric, outside this repository, as the host code describes it:     *)
(* STAGE copies a page from DDR to SDRAM when it is executed, TRILIST      *)
(* samples SDRAM, and the batch is acknowledged at its END.                *)

Current == flight.cmds[pos + 1]

FabricStage ==
  /\ busy /\ Current.op = "stage"
  /\ sdram' = [sdram EXCEPT ![Current.page] = heap[Current.page]]
  /\ pos' = pos + 1
  /\ lost' = lost \ {Current.page}
  /\ UNCHANGED <<frameVars, emitVars, cacheVars, floorVars, ver, heap, flight, busy>>

FabricDraw ==
  /\ busy /\ Current.op = "draw"
  /\ pos' = pos + 1
  /\ UNCHANGED <<frameVars, emitVars, cacheVars, floorVars, ver, heap, flight,
                 sdram, busy, lost>>

FabricAck ==
  /\ busy /\ Current.op = "end"
  /\ busy' = FALSE
  /\ UNCHANGED <<frameVars, emitVars, cacheVars, floorVars, ver, heap, flight,
                 sdram, pos, lost>>

Next ==
  \/ FrameBeginDrop \/ FrameBegin
  \/ \E k \in Keys : DrawHit(k) \/ DrawRefused(k) \/ DrawCacheFull(k) \/ DrawMiss(k)
                       \/ InvalidateTex(k)
  \/ FrameEndDropped \/ FrameEndLost \/ FrameEndPublish
  \/ FabricStage \/ FabricDraw \/ FabricAck

Spec == Init /\ [][Next]_vars

-----------------------------------------------------------------------------
(* Properties.                                                             *)

\* Every variable of the cache and its seam stays in its type.
TypeOK ==
  /\ hpc \in {"idle", "build"} /\ dropped \in BOOLEAN /\ arena \in {0, 1}
  /\ Len(ring.cmds) <= RingCap /\ ring.overflow \in BOOLEAN
  /\ open \in Batch \union {NoBatch}
  /\ \E n \in SlotCounts : cache \in [1 .. n -> Entry \union {Unused}]
  /\ free \subseteq Pages /\ clock \in 0 .. MaxClock
  /\ frameFloor \in 0 .. clock /\ evictFloor \in 0 .. frameFloor
  /\ ver \in [Keys -> 0 .. MaxVer]
  /\ heap \in [Pages -> Texels \union {Blank}]
  /\ sdram \in [Pages -> Texels \union {Blank}]
  /\ flight.arena \in {0, 1} /\ busy \in BOOLEAN
  /\ pos \in 0 .. RingCap /\ (busy => pos < Len(flight.cmds))
  /\ lost \subseteq Pages

\* No page leaks and none has two owners, whichever way a draw failed: every
\* page is free or belongs to exactly one cache entry.
HeapAccounted ==
  /\ TypeOK
  /\ \A p \in Pages :
       LET owners == {s \in Slots : cache[s] # Unused /\ cache[s].page = p}
       IN  IF p \in free THEN owners = {} ELSE \E s \in Slots : owners = {s}

InFlight == {flight.cmds[i] : i \in {j \in 1 .. Len(flight.cmds) : busy /\ j > pos}}
Pending  == InFlight \union {ring.cmds[i] :
                               i \in {j \in 1 .. Len(ring.cmds) : hpc = "build" /\ ~dropped}}

\* "textures stay pinned for two frames (B3), so the batch the fabric is reading
\* is never the one being rebuilt": for as long as the game leaves a texture alone,
\* no page a command still needs for it is handed out, whatever other textures are
\* uploaded, evicted or invalidated, and a STAGE finds the texels it was emitted for.
FlightPagesPinned ==
  \A c \in (IF ring.overflow THEN InFlight ELSE Pending) : \A t \in c.want :
    ~Stale(t) => /\ c.op = "stage" => heap[c.page] = t
                 /\ c.page \notin free

\* Every draw the fabric executes samples the texels its textures had when the
\* game issued it, "each resident page is staged exactly once; cache hits reuse
\* the SDRAM-resident copy with no re-STAGE".
DrawsSampleTheirTexture ==
  busy /\ Current.op = "draw" => \A t \in Current.want : sdram[Current.page] = t

\* The same, as far as the code gets it: a wrong texel is only ever sampled from a
\* page whose STAGE was in a frame that was dropped, or for a texture the game
\* changed while the draw was pending: never for another texture's sake.
DrawsSampleUnlessStageLost ==
  busy /\ Current.op = "draw" /\ Current.page \notin lost
    => \A t \in Current.want : Stale(t) \/ sdram[Current.page] = t

\* "so the cache never diverges from SW" (RasterBackend_MFGPU_InvalidateTex): a draw
\* issued before its texture changed shows the pixels of before, as one drawn in
\* software at once does.
DrawsKeepTheirPixels ==
  busy /\ Current.op = "draw" /\ Current.page \notin lost
    => \A t \in Current.want : sdram[Current.page] = t

=============================================================================
