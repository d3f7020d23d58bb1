---------------------------- MODULE GodotSideProofs ----------------------------
(***************************************************************************)
(* Proofs about three parts on Godot's side of the seam, which share no    *)
(* state: the textures of the bridge from its GL calls (FabricBridge), its *)
(* patched Vorbis stream (OggPcmCache) and the audio driver (AudioRing).   *)
(***************************************************************************)
EXTENDS FabricBridge, OggPcmCache, AudioRing, FiniteSetTheorems, WellFoundedInduction, TLAPS

-----------------------------------------------------------------------------
(***************************************************************************)
(* THE TEXTURES OF THE BRIDGE, for all sets of names and images.           *)
(***************************************************************************)

\* The bridge's copy is of the image GL holds, unless the bridge could not read that;
\* neither the white variant nor the two staged copies outlive the copy they are made from.
CopiesAreCurrent ==
  /\ \A n \in Names : gl[n] \notin Packed => textures[n].rgba = gl[n]
  /\ \A n \in Names : textures[n].white \in {NoImage, textures[n].rgba}
  /\ \A k \in Keys : texcache[k] \in {NoImage, textures[k.name].rgba}

\* The draw the backend would skip has left what it would leave again.  A frame that is
\* dropped keeps the draw of an earlier one, and compares nothing with it.
LastDrawShown ==
  lastDraw # NoKey /\ ~lostFrame
    => /\ view # "between"
       /\ surface[lastDraw.name] = Look(lastDraw.flash, textures[lastDraw.name].rgba)

OnlyFirstClears == cleared <=> view # "between"

ShownAsAsked == \A n \in Names : asked[n].image \notin Packed => surface[n] = asked[n]

BridgeInv ==
  /\ BridgeTypeOK /\ CopiesAreCurrent /\ LastDrawShown /\ OnlyFirstClears
  /\ ShownAsAsked

Copy == [rgba : Images \union {NoImage}, white : Images \union {NoImage}]

-----------------------------------------------------------------------------

LEMMA BlankType == Blank \in [Names -> [flash : BOOLEAN, image : Images \union {NoImage}]]
BY DEF Blank, Look

LEMMA BridgeInitInv == BridgeInit => BridgeInv
<1> SUFFICES ASSUME BridgeInit PROVE BridgeInv
  OBVIOUS
<1>1. BridgeTypeOK
  BY BlankType DEF BridgeInit, BridgeTypeOK
<1>2. CopiesAreCurrent
  BY DEF BridgeInit, CopiesAreCurrent, Keys
<1> QED BY <1>1, <1>2 DEF BridgeInit, BridgeInv, LastDrawShown, OnlyFirstClears, ShownAsAsked

\* texture_set and texture_free drop both variants with the image.
LEMMA UploadInv ==
  ASSUME BridgeInv, NEW n \in Names, NEW i \in Images \union {NoImage},
         view = "between",
         gl' = [gl EXCEPT ![n] = i],
         textures' = [textures EXCEPT ![n] = [rgba |-> i, white |-> NoImage]],
         InvalidateTex(n),
         UNCHANGED <<view, cleared, lostFrame, lastDraw, pixels>>
  PROVE  BridgeInv'
<1>1. BridgeTypeOK'
  BY DEF BridgeInv, BridgeTypeOK, InvalidateTex, pixels
<1>2. /\ \A m \in Names : gl'[m] \notin Packed => textures'[m].rgba = gl'[m]
      /\ \A m \in Names : textures'[m].white \in {NoImage, textures'[m].rgba}
  BY DEF BridgeInv, BridgeTypeOK, CopiesAreCurrent
<1>3. \A k \in Keys : texcache'[k] \in {NoImage, textures'[k.name].rgba}
  <2> TAKE k \in Keys
  <2>1. CASE k.name = n
    <3>1. k \in Invalidated(n)
      BY <2>1 DEF Keys, Invalidated, TexKey
    <3> QED BY <3>1 DEF InvalidateTex
  <2>2. CASE k.name # n
    BY <2>2 DEF Keys, InvalidateTex, Invalidated, TexKey, BridgeInv, BridgeTypeOK, CopiesAreCurrent
  <2> QED BY <2>1, <2>2
<1>4. LastDrawShown' /\ OnlyFirstClears' /\ ShownAsAsked'
  BY DEF BridgeInv, LastDrawShown, OnlyFirstClears, ShownAsAsked, pixels
<1> QED BY <1>1, <1>2, <1>3, <1>4 DEF BridgeInv, CopiesAreCurrent

\* An image that only GL can read leaves every copy as it is.
LEMMA PackedInv ==
  ASSUME BridgeInv, NEW n \in Names, NEW i \in Packed,
         gl' = [gl EXCEPT ![n] = i],
         UNCHANGED <<textures, texcache, view, cleared, lostFrame, lastDraw, pixels>>
  PROVE  BridgeInv'
<1>1. BridgeTypeOK'
  BY BridgeAssumption DEF BridgeInv, BridgeTypeOK, pixels
<1>2. CopiesAreCurrent'
  BY DEF BridgeInv, BridgeTypeOK, CopiesAreCurrent
<1> QED BY <1>1, <1>2 DEF BridgeInv, LastDrawShown, OnlyFirstClears, ShownAsAsked, pixels

LEMMA EvictInv == ASSUME BridgeInv, NEW k \in Keys, Evict(k) PROVE BridgeInv'
BY DEF BridgeInv, BridgeTypeOK, CopiesAreCurrent, LastDrawShown, OnlyFirstClears, ShownAsAsked,
       Evict, pixels

LEMMA ViewportInv ==
  ASSUME BridgeInv, NEW v \in {"sub", "root"}, ViewportBegins(v) PROVE BridgeInv'
<1>1. BridgeTypeOK'
  <2>1. surface' \in {surface, Blank} /\ asked' \in {asked, Blank} /\ lastDraw' \in {lastDraw, NoKey}
    BY DEF ViewportBegins
  <2> QED BY <2>1, BlankType DEF BridgeInv, BridgeTypeOK, ViewportBegins
<1>2. CopiesAreCurrent' /\ OnlyFirstClears'
  BY DEF BridgeInv, CopiesAreCurrent, OnlyFirstClears, ViewportBegins
<1>3. LastDrawShown' /\ ShownAsAsked'
  BY DEF BridgeInv, LastDrawShown, OnlyFirstClears, ShownAsAsked, ViewportBegins, Clears,
         BridgeTypeOK
<1> QED BY <1>1, <1>2, <1>3 DEF BridgeInv

LEMMA CompositeInv == ASSUME BridgeInv, CompositeSkipped PROVE BridgeInv'
BY DEF BridgeInv, BridgeTypeOK, CopiesAreCurrent, LastDrawShown, OnlyFirstClears, ShownAsAsked,
       CompositeSkipped, pixels

\* The variant a draw picks, and the copy it samples, are of the bridge's image.
LEMMA SamplesTheImage ==
  ASSUME BridgeInv, NEW n \in Names, NEW f \in BOOLEAN, textures[n].rgba # NoImage
  PROVE  /\ Picked(n, f) = textures[n].rgba /\ Sampled(n, f) = textures[n].rgba
         /\ TexKey(n, f) \in Keys
<1>1. TexKey(n, f) \in Keys /\ TexKey(n, f).name = n
  BY DEF TexKey, Keys
<1> QED BY <1>1 DEF BridgeInv, CopiesAreCurrent, Picked, Sampled

\* A flashing draw may make the white variant; the image stays.
LEMMA ResolvedInv ==
  ASSUME BridgeInv, NEW n \in Names, NEW f \in BOOLEAN, Resolved(n, f)
  PROVE  /\ textures' \in [Names -> Copy]
         /\ \A m \in Names : textures'[m].rgba = textures[m].rgba
         /\ \A m \in Names : textures'[m].white \in {NoImage, textures[m].rgba}
<1>1. /\ Picked(n, TRUE) = textures[n].rgba /\ textures[n].rgba \in Images \union {NoImage}
      /\ textures \in [Names -> Copy]
      /\ \A m \in Names : textures[m].white \in {NoImage, textures[m].rgba}
  BY SamplesTheImage DEF Resolved, BridgeInv, BridgeTypeOK, Copy, CopiesAreCurrent
<1>2. CASE f
  <2>1. textures' = [textures EXCEPT ![n].white = textures[n].rgba]
    BY <1>1, <1>2 DEF Resolved
  <2>2. textures'[n] = [textures[n] EXCEPT !.white = textures[n].rgba]
    BY <2>1, <1>1
  <2>3. /\ textures'[n] \in Copy /\ textures'[n].rgba = textures[n].rgba
        /\ textures'[n].white = textures[n].rgba
    BY <2>2, <1>1 DEF Copy
  <2>4. \A m \in Names : m # n => textures'[m] = textures[m]
    BY <2>1, <1>1
  <2>5. textures' \in [Names -> Copy]
    BY <2>1, <2>3, <2>4, <1>1
  <2> QED BY <2>3, <2>4, <2>5, <1>1
<1>3. CASE ~f
  BY <1>1, <1>3 DEF Resolved
<1> QED BY <1>2, <1>3

\* A draw that emits nothing: lost with its frame, the same again, or unsupported.
LEMMA UnseenDrawInv ==
  ASSUME BridgeInv, NEW n \in Names, NEW f \in BOOLEAN,
         DrawLost(n, f) \/ DrawElided(n, f) \/ DrawUnsupported(n, f)
  PROVE  BridgeInv'
<1>1. /\ Resolved(n, f) /\ UNCHANGED <<gl, texcache, view, cleared, lostFrame, surface>>
      /\ lastDraw' \in {lastDraw, NoKey}
  BY DEF DrawLost, DrawElided, DrawUnsupported, pixels
<1>2. asked' \in [Names -> [flash : BOOLEAN, image : Images \union {NoImage}]] /\ ShownAsAsked'
  <2>1. CASE asked' = asked
    BY <1>1, <2>1 DEF BridgeInv, BridgeTypeOK, ShownAsAsked
  <2>2. CASE DrawElided(n, f)
    <3>1. lastDraw # NoKey /\ lastDraw.name = n /\ lastDraw.flash = f
      BY <2>2, BridgeAssumption DEF DrawElided, TexKey, NoKey
    <3>2. surface[n] = Look(f, textures[n].rgba)
      BY <3>1, <2>2 DEF DrawElided, BridgeInv, LastDrawShown
    <3>3. asked' = [asked EXCEPT ![n] = Look(f, gl[n])] /\ surface' = surface
      BY <2>2 DEF DrawElided, Asks
    <3>4. asked' \in [Names -> [flash : BOOLEAN, image : Images \union {NoImage}]]
      BY <3>3 DEF BridgeInv, BridgeTypeOK, Look
    <3>5. Look(f, gl[n]).image = gl[n]
      BY DEF Look
    <3>6. gl[n] \notin Packed => surface[n] = Look(f, gl[n])
      BY <3>2 DEF BridgeInv, CopiesAreCurrent
    <3> QED BY <3>3, <3>4, <3>5, <3>6 DEF BridgeInv, BridgeTypeOK, ShownAsAsked
  <2>3. asked' = asked \/ DrawElided(n, f)
    BY DEF DrawLost, DrawUnsupported, pixels
  <2> QED BY <2>1, <2>2, <2>3
<1>3. CopiesAreCurrent' /\ BridgeTypeOK'
  <2>1. /\ textures' \in [Names -> Copy]
        /\ \A m \in Names : textures'[m].rgba = textures[m].rgba
        /\ \A m \in Names : textures'[m].white \in {NoImage, textures[m].rgba}
    BY <1>1, ResolvedInv
  <2>2. \A k \in Keys : k.name \in Names
    BY DEF Keys
  <2>3. CopiesAreCurrent'
    BY <1>1, <2>1, <2>2 DEF BridgeInv, CopiesAreCurrent
  <2>4. lastDraw' \in Keys \union {NoKey}
    BY <1>1 DEF BridgeInv, BridgeTypeOK
  <2>5. BridgeTypeOK'
    BY <1>1, <1>2, <2>1, <2>4 DEF BridgeInv, BridgeTypeOK, Copy
  <2> QED BY <2>3, <2>5
<1>4. LastDrawShown' /\ OnlyFirstClears'
  <2>1. CASE lastDraw' = NoKey
    BY <1>1, <2>1 DEF BridgeInv, LastDrawShown, OnlyFirstClears
  <2>2. CASE lastDraw' = lastDraw /\ lastDraw # NoKey
    <3>1. lastDraw.name \in Names
      BY <2>2 DEF BridgeInv, BridgeTypeOK, Keys
    <3>2. textures'[lastDraw.name].rgba = textures[lastDraw.name].rgba
      BY <3>1, <1>1, ResolvedInv
    <3> QED BY <1>1, <2>2, <3>2 DEF BridgeInv, LastDrawShown, OnlyFirstClears
  <2> QED BY <1>1, <2>1, <2>2
<1> QED BY <1>2, <1>3, <1>4 DEF BridgeInv

\* A texture the bridge has no copy of is one that only GL can read.
LEMMA MissingDrawInv ==
  ASSUME BridgeInv, NEW n \in Names, NEW f \in BOOLEAN, DrawMissing(n, f) PROVE BridgeInv'
<1>1. gl[n] \in Packed /\ gl[n] \in Images
  BY DEF BridgeInv, BridgeTypeOK, CopiesAreCurrent, DrawMissing, Drawable
<1>2. UNCHANGED <<gl, textures, texcache, view, cleared, lostFrame, lastDraw, surface>>
  BY DEF DrawMissing
<1>3. asked' = asked \/ asked' = [asked EXCEPT ![n] = Look(f, gl[n])]
  BY DEF DrawMissing, Asks
<1>4. Look(f, gl[n]).image = gl[n]
      /\ Look(f, gl[n]) \in [flash : BOOLEAN, image : Images \union {NoImage}]
  BY <1>1 DEF Look
<1>5. asked' \in [Names -> [flash : BOOLEAN, image : Images \union {NoImage}]] /\ ShownAsAsked'
  BY <1>1, <1>2, <1>3, <1>4 DEF BridgeInv, BridgeTypeOK, ShownAsAsked
<1> QED
  BY <1>2, <1>5 DEF BridgeInv, BridgeTypeOK, CopiesAreCurrent, LastDrawShown, OnlyFirstClears

LEMMA EmittedInv ==
  ASSUME BridgeInv, NEW n \in Names, NEW f \in BOOLEAN, DrawEmitted(n, f) \/ DrawBlended(n, f)
  PROVE  BridgeInv'
<1>1. Emitted(n, f) /\ Resolved(n, f) /\ lastDraw' \in {TexKey(n, f), NoKey} /\ gl' = gl
  BY DEF DrawEmitted, DrawBlended, Emitted
<1>2. /\ Sampled(n, f) = textures[n].rgba /\ TexKey(n, f) \in Keys
      /\ textures[n].rgba \in Images \union {NoImage} /\ gl[n] \in Images \union {NoImage}
  BY <1>1, SamplesTheImage DEF Resolved, BridgeInv, BridgeTypeOK
<1>3. CopiesAreCurrent'
  <2>1. \A k \in Keys : texcache'[k] \in {NoImage, textures[k.name].rgba}
    BY <1>1, <1>2 DEF Emitted, BridgeInv, BridgeTypeOK, CopiesAreCurrent, TexKey
  <2>2. \A k \in Keys : k.name \in Names
    BY DEF Keys
  <2> QED BY <2>1, <2>2, <1>1, ResolvedInv, Zenon DEF CopiesAreCurrent, BridgeInv
<1>4. BridgeTypeOK'
  <2>1. textures' \in [Names -> Copy]
    BY <1>1, ResolvedInv
  <2> QED BY <1>1, <1>2, <2>1 DEF Emitted, Asks, BridgeInv, BridgeTypeOK, Look, Copy
<1>5. /\ surface' = [surface EXCEPT ![n] = Look(f, textures[n].rgba)]
      /\ asked' = [asked EXCEPT ![n] = Look(f, gl[n])]
  BY <1>1, <1>2 DEF Emitted, Asks
<1>6. ShownAsAsked'
  <2>1. Look(f, gl[n]).image = gl[n]
    BY DEF Look
  <2>2. gl[n] \notin Packed => textures[n].rgba = gl[n]
    BY DEF BridgeInv, CopiesAreCurrent
  <2> QED BY <1>5, <2>1, <2>2 DEF BridgeInv, BridgeTypeOK, ShownAsAsked
<1>7. LastDrawShown' /\ OnlyFirstClears'
  <2>1. textures'[n].rgba = textures[n].rgba
    BY <1>1, ResolvedInv
  <2>2. surface'[n] = Look(f, textures[n].rgba)
    BY <1>5 DEF BridgeInv, BridgeTypeOK
  <2> QED BY <1>1, <2>1, <2>2
       DEF LastDrawShown, OnlyFirstClears, Emitted, Resolved, Drawable, BridgeInv, TexKey, Look
<1> QED BY <1>3, <1>4, <1>6, <1>7 DEF BridgeInv

LEMMA PresentInv == ASSUME BridgeInv, BridgePresent PROVE BridgeInv'
BY DEF BridgeInv, BridgeTypeOK, CopiesAreCurrent, LastDrawShown, OnlyFirstClears, ShownAsAsked,
       BridgePresent, pixels

LEMMA BridgeStepInv == BridgeInv /\ [BridgeNext]_bridgeVars => BridgeInv'
<1> SUFFICES ASSUME BridgeInv, [BridgeNext]_bridgeVars PROVE BridgeInv'
  OBVIOUS
<1>1. ASSUME NEW n \in Names, TextureFree(n) PROVE BridgeInv'
  BY <1>1, UploadInv DEF TextureFree
<1>2. ASSUME NEW n \in Names, NEW i \in Images, TextureSet(n, i) PROVE BridgeInv'
  <2>1. CASE i \in Packed
    BY <1>2, <2>1, PackedInv DEF TextureSet
  <2>2. CASE i \notin Packed
    BY <1>2, <2>2, UploadInv DEF TextureSet, Entry
  <2> QED BY <2>1, <2>2
<1>3. CASE UNCHANGED bridgeVars
  BY <1>3 DEF bridgeVars, pixels, BridgeInv, BridgeTypeOK, CopiesAreCurrent, LastDrawShown,
              OnlyFirstClears, ShownAsAsked
<1> QED BY <1>1, <1>2, <1>3, EvictInv, ViewportInv, CompositeInv, MissingDrawInv, UnseenDrawInv,
           EmittedInv, PresentInv
        DEF BridgeNext

\* Every copy of a texture is of the last image GL was given that the bridge can read, in
\* every state: texture_set and texture_free of mister_fabric_bridge.cpp with
\* RasterBackend_MFGPU_InvalidateTex.
THEOREM BridgeInvariant == BridgeSpec => []BridgeInv
<1> QED BY BridgeInitInv, BridgeStepInv, PTL DEF BridgeSpec

\* The surface shows what GL would, whatever the order of uploads, deletions, evictions,
\* skipped draws and dropped frames, except where GL shows a compressed image.
THEOREM ShowsWhatGLWould == BridgeSpec => []SurfaceShowsWhatGLWould
<1>1. BridgeInv => SurfaceShowsWhatGLWould
  BY DEF BridgeInv, SurfaceShowsWhatGLWould, ShownAsAsked
<1> QED BY <1>1, BridgeInvariant, PTL

-----------------------------------------------------------------------------
(***************************************************************************)
(* THE VORBIS STREAM.  For any number of playbacks and reloads: the two    *)
(* reference counts of a stream are the numbers of those that hold it and  *)
(* its setups, so nobody uses either after its memory is gone, and a cache *)
(* that is offered is of the sequence the stream is set to.                *)
(***************************************************************************)

One(held) == IF held THEN 1 ELSE 0

\* Playbacks that hold the stream, and those that hold its n-th setup.
Streaming  == {p \in Slots : plays[p].kind = "ogg"}
Playing(n) == {p \in Slots : plays[p].kind = "ogg" /\ plays[p].of = n}

\* The decode task's reference, from reference() to its last act.
TaskHolds == taskState = "queued" \/ wpc \in {"open", "mix", "publish", "ready", "release"}

\* The stream's own reference on its setup, given up between unref() and create().
StreamHolds(n) == alive /\ setup = n /\ mpc # "create"

DecodeHolds(n) == pb.kind = "ogg" /\ pb.of = n

Playback == [kind : {"none", "wav", "ogg"}, of : 0..MaxLoads]

OggTypes ==
  /\ OggTypeOK
  /\ plays \in [Slots -> Playback] /\ pb \in Playback
  /\ shared \in BOOLEAN /\ async \in BOOLEAN /\ short \in BOOLEAN
  /\ owner \in BOOLEAN /\ alive \in BOOLEAN /\ ready \in BOOLEAN /\ task \in BOOLEAN
  /\ mpc \in {"idle", "wait", "unref", "create", "build", "decode"}
  /\ wpc \in {"idle", "open", "mix", "publish", "ready", "release", "leave"}

RefsCounted ==
  refs = Cardinality(Streaming) + One(owner) + One(TaskHolds) + One(wpc = "mix")

SetupsCounted ==
  \A n \in 1..MaxLoads :
    setupRefs[n] = Cardinality(Playing(n)) + One(StreamHolds(n)) + One(DecodeHolds(n))

\* The destructor runs once, after the last reference.
DiesLast ==
  /\ ~alive => refs = 0
  /\ dying # "none" => alive /\ refs = 0

\* The waits: while the stream is set up anew no task runs, and what a task publishes is
\* of the sequence it found.
TaskApart ==
  /\ wpc # "idle" => taskState = "running"
  /\ ~task => taskState \in {"none", "done"}
  /\ mpc \in {"unref", "create", "build", "decode"} => ~task
  /\ mpc # "idle" => owner
  /\ mpc = "wait" => seq < MaxLoads
  /\ pb.kind = "ogg" <=> wpc = "mix"
  /\ wpc = "publish" => pb.of = seq
  /\ wpc = "ready" => cache = seq

CacheInTime ==
  /\ ready /\ mpc \in {"idle", "wait"} => cache = seq
  /\ mpc = "decode" => ~ready

\* Setups are of the sequences set before, until the new one is created.
Former(n) == n <= seq /\ (mpc \in {"unref", "create"} => n < seq)

SetupsAreFormer ==
  /\ Former(setup)
  /\ \A p \in Slots : plays[p].kind = "ogg" => Former(plays[p].of)

OggInv ==
  /\ OggTypes /\ RefsCounted /\ SetupsCounted
  /\ DiesLast /\ TaskApart /\ CacheInTime /\ SetupsAreFormer

-----------------------------------------------------------------------------
(* The counts.                                                             *)

LEMMA CountFacts ==
  /\ IsFiniteSet(Streaming) /\ Cardinality(Streaming) \in Nat
  /\ \A p \in Streaming : Cardinality(Streaming) > 0
  /\ \A n : /\ IsFiniteSet(Playing(n)) /\ Cardinality(Playing(n)) \in Nat
            /\ \A p \in Playing(n) : Cardinality(Playing(n)) > 0
<1>1. \A S \in SUBSET Slots : /\ IsFiniteSet(S) /\ Cardinality(S) \in Nat
                              /\ \A p \in S : Cardinality(S) > 0
  <2> SUFFICES ASSUME NEW S \in SUBSET Slots
               PROVE  /\ IsFiniteSet(S) /\ Cardinality(S) \in Nat
                      /\ \A p \in S : Cardinality(S) > 0
    OBVIOUS
  <2>1. IsFiniteSet(S)
    BY OggAssumption, FS_Subset DEF OggAssumption
  <2>2. Cardinality(S) \in Nat /\ (Cardinality(S) = 0 <=> S = {})
    BY <2>1, FS_CardinalityType, FS_EmptySet
  <2> QED BY <2>1, <2>2
<1>2. Streaming \in SUBSET Slots /\ \A n : Playing(n) \in SUBSET Slots
  BY DEF Streaming, Playing
<1> QED BY <1>1, <1>2

\* What Ref and Unref do to the count of a setup.
LEMMA RefFacts ==
  ASSUME OggTypes, NEW m \in 0..MaxLoads
  PROVE  /\ Ref(m) \in [1..MaxLoads -> Int] /\ Unref(m) \in [1..MaxLoads -> Int]
         /\ \A n \in 1..MaxLoads : /\ Ref(m)[n] = setupRefs[n] + One(n = m)
                                   /\ Unref(m)[n] = setupRefs[n] - One(n = m)
<1>1. MaxLoads \in Nat /\ setupRefs \in [1..MaxLoads -> Nat]
  BY OggAssumption DEF OggAssumption, OggTypes, OggTypeOK
<1>2. CASE m = 0
  BY <1>1, <1>2 DEF Ref, Unref, One
<1>3. CASE m # 0
  <2>1. m \in 1..MaxLoads
    BY <1>1, <1>3
  <2>2. Ref(m) = [setupRefs EXCEPT ![m] = @ + 1] /\ Unref(m) = [setupRefs EXCEPT ![m] = @ - 1]
    BY <1>3 DEF Ref, Unref
  <2>3. Ref(m) \in [1..MaxLoads -> Int] /\ Unref(m) \in [1..MaxLoads -> Int]
    BY <1>1, <2>1, <2>2
  <2>4. \A n \in 1..MaxLoads : /\ Ref(m)[n] = setupRefs[n] + One(n = m)
                               /\ Unref(m)[n] = setupRefs[n] - One(n = m)
    BY <1>1, <2>1, <2>2 DEF One
  <2> QED BY <2>3, <2>4
<1> QED BY <1>2, <1>3

\* A step that leaves the playbacks alone leaves their counts.
LEMMA SamePlays ==
  ASSUME plays' = plays
  PROVE  Streaming' = Streaming /\ \A n : Playing(n)' = Playing(n)
  BY DEF Streaming, Playing

\* A count that is accounted for is a natural number.
LEMMA CountsAreNat ==
  ASSUME RefsCounted', SetupsCounted',
         setupRefs' \in [1..MaxLoads -> Int],
         Cardinality(Streaming') \in Nat, \A n : Cardinality(Playing(n)') \in Nat
  PROVE  refs' \in Nat /\ setupRefs' \in [1..MaxLoads -> Nat]
<1>1. refs' \in Nat
  BY DEF RefsCounted, One
<1>2. \A n \in 1..MaxLoads : setupRefs'[n] \in Nat
  BY DEF SetupsCounted, One
<1> QED BY <1>1, <1>2

\* Who holds the stream keeps it alive.
LEMMA HeldIsAlive ==
  ASSUME OggInv
  PROVE  /\ refs \in Nat
         /\ owner \/ TaskHolds \/ (\E p \in Slots : plays[p].kind = "ogg") => refs > 0
         /\ refs > 0 => alive /\ dying = "none"
<1>1. \A p \in Slots : plays[p].kind = "ogg" => Cardinality(Streaming) > 0
  BY CountFacts DEF Streaming
<1> QED BY <1>1, CountFacts DEF OggInv, OggTypes, OggTypeOK, RefsCounted, DiesLast, One

LEMMA OggStarts == OggInit => OggInv
<1> SUFFICES ASSUME OggInit PROVE OggInv
  OBVIOUS
<1>1. Streaming = {} /\ \A n : Playing(n) = {}
  BY DEF OggInit, Streaming, Playing, Nothing
<1>2. MaxLoads \in Nat
  BY OggAssumption DEF OggAssumption
<1>3. OggTypes
  <2>1. OggTypeOK
    BY <1>2 DEF OggInit, OggTypeOK
  <2>2. plays \in [Slots -> Playback] /\ pb \in Playback
    BY <1>2 DEF OggInit, Playback, Nothing
  <2> QED BY <2>1, <2>2 DEF OggInit, OggTypes
<1>4. RefsCounted /\ SetupsCounted
  <2>1. Cardinality(Streaming) = 0 /\ \A n : Cardinality(Playing(n)) = 0
    BY <1>1, FS_EmptySet
  <2>2. ~TaskHolds /\ \A n \in 1..MaxLoads : ~StreamHolds(n) /\ ~DecodeHolds(n)
    BY DEF OggInit, TaskHolds, StreamHolds, DecodeHolds, Nothing
  <2>3. RefsCounted
    BY <2>1, <2>2 DEF OggInit, RefsCounted, One
  <2>4. SetupsCounted
    BY <2>1, <2>2 DEF OggInit, SetupsCounted, One
  <2> QED BY <2>3, <2>4
<1>5. DiesLast /\ TaskApart /\ CacheInTime /\ SetupsAreFormer
  BY <1>2 DEF OggInit, DiesLast, TaskApart, CacheInTime, SetupsAreFormer, Former, Nothing
<1> QED BY <1>3, <1>4, <1>5 DEF OggInv

-----------------------------------------------------------------------------
(* Loading.                                                                *)

LEMMA LoadKeeps ==
  ASSUME OggInv, SetPacketSequence \/ LoadNext
  PROVE  OggInv'
<1> USE DEF flags, taskVars
<1>1. Streaming' = Streaming /\ \A n : Playing(n)' = Playing(n)
  <2>1. plays' = plays
    BY DEF SetPacketSequence, LoadNext, PcmWait, UnrefSetup, CreateSetup, ClearCache, SubmitTask,
           DecodeInline
  <2> QED BY <2>1, SamePlays
<1>2. MaxLoads \in Nat
  BY OggAssumption DEF OggAssumption
<1>3. Cardinality(Streaming') \in Nat /\ \A n : Cardinality(Playing(n)') \in Nat
  BY <1>1, CountFacts
<1>4. refs > 0 => alive /\ dying = "none"
  BY HeldIsAlive
<1>5. mpc # "idle" => refs > 0
  BY HeldIsAlive DEF OggInv, TaskApart
<1>6. ~task => wpc = "idle" /\ taskState \in {"none", "done"}
  BY DEF OggInv, TaskApart
<1>7. CASE SetPacketSequence
  <2> USE <1>7 DEF SetPacketSequence
  <2>1. OggTypes'
    BY DEF OggInv, OggTypes, OggTypeOK
  <2>2. RefsCounted' /\ SetupsCounted'
    BY <1>1 DEF OggInv, RefsCounted, SetupsCounted, One, TaskHolds, StreamHolds, DecodeHolds
  <2>3. DiesLast' /\ TaskApart' /\ CacheInTime' /\ SetupsAreFormer'
    BY DEF OggInv, DiesLast, TaskApart, CacheInTime, SetupsAreFormer, Former
  <2> QED BY <2>1, <2>2, <2>3 DEF OggInv
<1>8. CASE PcmWait
  <2> USE <1>8 DEF PcmWait, TaskOver
  <2>1. wpc = "idle" /\ taskState \in {"none", "done"}
    BY <1>6 DEF OggInv, TaskApart
  <2>2. OggTypes'
    <3>1. OggTypeOK'
      BY <1>2 DEF OggInv, OggTypes, OggTypeOK, TaskApart
    <3> QED BY <3>1 DEF OggInv, OggTypes, Playback
  <2>3. RefsCounted' /\ SetupsCounted'
    BY <1>1 DEF OggInv, RefsCounted, SetupsCounted, One, TaskHolds, StreamHolds, DecodeHolds
  <2>4. DiesLast' /\ TaskApart' /\ CacheInTime'
    BY <2>1 DEF OggInv, DiesLast, TaskApart, CacheInTime
  <2>5. SetupsAreFormer'
    BY <1>2 DEF OggInv, OggTypes, OggTypeOK, Playback, SetupsAreFormer, Former
  <2> QED BY <2>2, <2>3, <2>4, <2>5 DEF OggInv
<1>9. CASE UnrefSetup
  <2> USE <1>9 DEF UnrefSetup
  <2>1. setup \in 0..MaxLoads /\ alive /\ OggTypes
    BY <1>4, <1>5 DEF OggInv, OggTypes, OggTypeOK
  <2>2. setupRefs' \in [1..MaxLoads -> Int]
        /\ \A n \in 1..MaxLoads : setupRefs'[n] = setupRefs[n] - One(n = setup)
    BY <2>1, RefFacts
  <2>3. RefsCounted'
    BY <1>1 DEF OggInv, RefsCounted, One, TaskHolds
  <2>4. SetupsCounted'
    <3> SUFFICES ASSUME NEW n \in 1..MaxLoads
                 PROVE  setupRefs'[n] = Cardinality(Playing(n)') + One(StreamHolds(n)')
                                         + One(DecodeHolds(n)')
      BY DEF SetupsCounted
    <3>1. StreamHolds(n) = (n = setup) /\ ~StreamHolds(n)' /\ DecodeHolds(n)' = DecodeHolds(n)
      BY <2>1 DEF StreamHolds, DecodeHolds
    <3>2. setupRefs[n] = Cardinality(Playing(n)) + One(n = setup) + One(DecodeHolds(n))
      BY <3>1 DEF OggInv, SetupsCounted
    <3>3. Cardinality(Playing(n)) \in Nat /\ setupRefs'[n] = setupRefs[n] - One(n = setup)
      BY <2>2, CountFacts
    <3> QED BY <3>1, <3>2, <3>3, <1>1 DEF One
  <2>5. OggTypes'
    BY <1>3, <2>2, <2>3, <2>4, CountsAreNat DEF OggInv, OggTypes, OggTypeOK
  <2>6. DiesLast' /\ TaskApart' /\ CacheInTime' /\ SetupsAreFormer'
    BY DEF OggInv, DiesLast, TaskApart, CacheInTime, SetupsAreFormer, Former
  <2> QED BY <2>3, <2>4, <2>5, <2>6 DEF OggInv
<1>10. CASE CreateSetup
  <2> USE <1>10 DEF CreateSetup
  <2>1. alive /\ ~task /\ wpc = "idle" /\ pb.kind # "ogg"
    BY <1>4, <1>5, <1>6 DEF OggInv, TaskApart
  <2>2. seq \in 1..MaxLoads
    BY <1>2 DEF OggInv, OggTypes, OggTypeOK, SetupsAreFormer, Former
  <2>3. Playing(seq) = {}
    BY <2>2 DEF OggInv, SetupsAreFormer, Former, Playing
  <2>4. setupRefs' \in [1..MaxLoads -> Int]
    BY <1>2, <2>2 DEF OggInv, OggTypes, OggTypeOK
  <2>5. RefsCounted'
    BY <1>1 DEF OggInv, RefsCounted, One, TaskHolds
  <2>6. SetupsCounted'
    <3> SUFFICES ASSUME NEW n \in 1..MaxLoads
                 PROVE  setupRefs'[n] = Cardinality(Playing(n)') + One(StreamHolds(n)')
                                         + One(DecodeHolds(n)')
      BY DEF SetupsCounted
    <3>1. ~StreamHolds(n) /\ ~DecodeHolds(n) /\ ~DecodeHolds(n)'
          /\ (StreamHolds(n)' <=> shared /\ n = seq)
      BY <2>1, <2>2 DEF StreamHolds, DecodeHolds
    <3>2. setupRefs[n] = Cardinality(Playing(n)) /\ Cardinality(Playing(n)) \in Nat
      BY <3>1, CountFacts DEF OggInv, SetupsCounted, One
    <3>3. n = seq => Cardinality(Playing(n)) = 0
      BY <2>3, FS_EmptySet
    <3>4. setupRefs'[n] = IF shared /\ n = seq THEN 1 ELSE setupRefs[n]
      BY <2>2 DEF OggInv, OggTypes, OggTypeOK
    <3> QED BY <3>1, <3>2, <3>3, <3>4, <1>1 DEF One
  <2>7. OggTypes'
    BY <1>2, <1>3, <2>2, <2>4, <2>5, <2>6, CountsAreNat DEF OggInv, OggTypes, OggTypeOK
  <2>8. DiesLast' /\ TaskApart' /\ CacheInTime'
    BY DEF OggInv, DiesLast, TaskApart, CacheInTime
  <2>9. SetupsAreFormer'
    BY <2>2 DEF OggInv, OggTypes, OggTypeOK, Playback, SetupsAreFormer, Former
  <2> QED BY <2>5, <2>6, <2>7, <2>8, <2>9 DEF OggInv
<1>11. CASE ClearCache
  <2> USE <1>11 DEF ClearCache
  <2>1. OggTypes'
    <3>1. OggTypeOK'
      BY <1>2 DEF OggInv, OggTypes, OggTypeOK
    <3> QED BY <3>1 DEF OggInv, OggTypes, Playback
  <2>2. RefsCounted' /\ SetupsCounted'
    BY <1>1 DEF OggInv, RefsCounted, SetupsCounted, One, TaskHolds, StreamHolds, DecodeHolds
  <2>3. DiesLast' /\ TaskApart' /\ CacheInTime' /\ SetupsAreFormer'
    BY <1>6 DEF OggInv, DiesLast, TaskApart, CacheInTime, SetupsAreFormer, Former
  <2> QED BY <2>1, <2>2, <2>3 DEF OggInv
<1>12. CASE SubmitTask
  <2> USE <1>12 DEF SubmitTask
  <2>1. wpc = "idle" /\ taskState # "queued"
    BY <1>6 DEF OggInv, TaskApart
  <2>2. refs \in Nat /\ refs > 0 /\ alive /\ dying = "none"
    BY <1>4, <1>5, HeldIsAlive
  <2>3. RefsCounted'
    BY <1>1, <2>1, CountFacts DEF OggInv, RefsCounted, One, TaskHolds
  <2>4. SetupsCounted'
    BY <1>1 DEF OggInv, SetupsCounted, One, StreamHolds, DecodeHolds
  <2>5. OggTypes'
    BY <2>2 DEF OggInv, OggTypes, OggTypeOK
  <2>6. DiesLast' /\ TaskApart' /\ CacheInTime' /\ SetupsAreFormer'
    BY <2>1, <2>2 DEF OggInv, DiesLast, TaskApart, CacheInTime, SetupsAreFormer, Former
  <2> QED BY <2>3, <2>4, <2>5, <2>6 DEF OggInv
<1>13. CASE DecodeInline
  <2> USE <1>13 DEF DecodeInline
  <2>1. OggTypes'
    <3>1. OggTypeOK'
      BY <1>2 DEF OggInv, OggTypes, OggTypeOK
    <3> QED BY <3>1 DEF OggInv, OggTypes, Playback
  <2>2. RefsCounted' /\ SetupsCounted'
    BY <1>1 DEF OggInv, RefsCounted, SetupsCounted, One, TaskHolds, StreamHolds, DecodeHolds
  <2>3. wpc = "idle"
    BY <1>6 DEF OggInv, TaskApart
  <2>4. short \in BOOLEAN
    BY DEF OggInv, OggTypes, OggTypeOK
  <2>5. DiesLast' /\ TaskApart' /\ SetupsAreFormer'
    BY <2>3 DEF OggInv, DiesLast, TaskApart, SetupsAreFormer, Former
  <2>6. CacheInTime'
    BY <2>3 DEF OggInv, CacheInTime
  <2> QED BY <2>1, <2>2, <2>5, <2>6 DEF OggInv
<1> QED BY <1>7, <1>8, <1>9, <1>10, <1>11, <1>12, <1>13 DEF LoadNext

-----------------------------------------------------------------------------
(* Playing and dropping.                                                   *)

LEMMA PlayKeeps ==
  ASSUME OggInv, Play
  PROVE  OggInv'
<1> USE DEF flags, taskVars
<1>0. PICK p \in Slots :
        /\ plays[p] = Nothing
        /\ plays' = [plays EXCEPT ![p] = IF UsesCache THEN Wav(cache) ELSE Ogg(setup)]
  BY DEF Play
<1>1. OggTypes /\ plays \in [Slots -> Playback] /\ setup \in 0..MaxLoads /\ cache \in 0..MaxLoads
  BY DEF OggInv, OggTypes, OggTypeOK
<1>2. plays' \in [Slots -> Playback]
  BY <1>0, <1>1 DEF Wav, Ogg, Playback
<1>3. refs \in Nat /\ refs > 0 /\ alive /\ dying = "none"
  BY HeldIsAlive DEF Play
<1>4. DiesLast' /\ TaskApart' /\ CacheInTime'
  BY <1>3 DEF OggInv, Play, DiesLast, TaskApart, CacheInTime
<1>5. CASE UsesCache
  <2>1. Streaming' = Streaming /\ \A n : Playing(n)' = Playing(n)
    BY <1>0, <1>1, <1>5 DEF Streaming, Playing, Nothing, Wav
  <2>2. RefsCounted' /\ SetupsCounted'
    BY <1>5, <2>1
       DEF OggInv, Play, RefsCounted, SetupsCounted, One, TaskHolds, StreamHolds, DecodeHolds
  <2>3. OggTypes'
    BY <1>2, <1>5 DEF Play, OggInv, OggTypes, OggTypeOK
  <2>4. SetupsAreFormer'
    BY <1>0, <1>1, <1>5 DEF OggInv, Play, SetupsAreFormer, Former, Wav
  <2> QED BY <1>4, <2>2, <2>3, <2>4 DEF OggInv
<1>6. CASE ~UsesCache
  <2>1. /\ Streaming' = Streaming \union {p} /\ p \notin Streaming
        /\ \A n : /\ p \notin Playing(n)
                  /\ Playing(n)' = IF n = setup THEN Playing(n) \union {p} ELSE Playing(n)
    BY <1>0, <1>1, <1>6 DEF Streaming, Playing, Nothing, Ogg
  <2>2. Cardinality(Streaming') = Cardinality(Streaming) + 1
    BY <2>1, CountFacts, FS_AddElement
  <2>3. \A n : Cardinality(Playing(n)') = Cardinality(Playing(n)) + One(n = setup)
    <3> SUFFICES ASSUME NEW n
                 PROVE  Cardinality(Playing(n)') = Cardinality(Playing(n)) + One(n = setup)
      OBVIOUS
    <3>1. Cardinality(Playing(n) \union {p}) = Cardinality(Playing(n)) + 1
      BY <2>1, CountFacts, FS_AddElement
    <3> QED BY <2>1, <3>1, CountFacts DEF One
  <2>4. Cardinality(Streaming) \in Nat /\ \A n : Cardinality(Playing(n)) \in Nat
    BY CountFacts
  <2>5. /\ setupRefs' \in [1..MaxLoads -> Int]
        /\ \A n \in 1..MaxLoads : setupRefs'[n] = setupRefs[n] + One(n = setup)
    BY <1>1, <1>6, RefFacts DEF Play
  <2>6. RefsCounted'
    BY <1>6, <2>2, <2>4 DEF OggInv, Play, RefsCounted, One, TaskHolds
  <2>7. SetupsCounted'
    BY <1>6, <2>3, <2>4, <2>5 DEF OggInv, Play, SetupsCounted, One, StreamHolds, DecodeHolds
  <2>8. OggTypes'
    <3>1. Cardinality(Streaming') \in Nat /\ \A n : Cardinality(Playing(n)') \in Nat
      BY <2>2, <2>3, <2>4 DEF One
    <3>2. refs' \in Nat /\ setupRefs' \in [1..MaxLoads -> Nat]
      BY <2>5, <2>6, <2>7, <3>1, CountsAreNat
    <3> QED BY <1>1, <1>2, <3>2 DEF Play, OggTypes, OggTypeOK
  <2>9. SetupsAreFormer'
    BY <1>0, <1>1, <1>6 DEF OggInv, Play, SetupsAreFormer, Former, Ogg
  <2> QED BY <1>4, <2>6, <2>7, <2>8, <2>9 DEF OggInv
<1> QED BY <1>5, <1>6

LEMMA SetLoopKeeps ==
  ASSUME OggInv, SetLoop
  PROVE  OggInv'
<1> USE DEF SetLoop, flags, taskVars
<1>1. Streaming' = Streaming /\ \A n : Playing(n)' = Playing(n)
  BY SamePlays
<1>2. RefsCounted' /\ SetupsCounted'
  BY <1>1 DEF OggInv, RefsCounted, SetupsCounted, One, TaskHolds, StreamHolds, DecodeHolds
<1>3. OggTypes'
  BY DEF OggInv, OggTypes, OggTypeOK
<1>4. DiesLast' /\ TaskApart' /\ CacheInTime' /\ SetupsAreFormer'
  BY DEF OggInv, DiesLast, TaskApart, CacheInTime, SetupsAreFormer, Former
<1> QED BY <1>2, <1>3, <1>4 DEF OggInv

LEMMA DropKeeps ==
  ASSUME OggInv, Drop
  PROVE  OggInv'
<1> USE DEF Drop, Unreference, flags, taskVars
<1>1. Streaming' = Streaming /\ \A n : Playing(n)' = Playing(n)
  BY SamePlays
<1>2. refs \in Nat /\ refs > 0 /\ alive /\ dying = "none"
  BY HeldIsAlive
<1>3. RefsCounted'
  BY <1>1, CountFacts DEF OggInv, RefsCounted, One, TaskHolds
<1>4. SetupsCounted'
  BY <1>1 DEF OggInv, SetupsCounted, One, StreamHolds, DecodeHolds
<1>5. OggTypes'
  <2>1. OggTypeOK'
    BY <1>2 DEF OggInv, OggTypes, OggTypeOK, Threads
  <2> QED BY <2>1 DEF OggInv, OggTypes, Playback
<1>6. DiesLast' /\ TaskApart' /\ CacheInTime' /\ SetupsAreFormer'
  BY <1>2 DEF OggInv, DiesLast, TaskApart, CacheInTime, SetupsAreFormer, Former
<1> QED BY <1>3, <1>4, <1>5, <1>6 DEF OggInv

LEMMA EndPlaybackKeeps ==
  ASSUME OggInv, NEW t \in {"main", "audio"}, EndPlayback(t)
  PROVE  OggInv'
<1> USE DEF flags, taskVars
<1>0. PICK p \in Slots :
        /\ plays[p] # Nothing
        /\ plays' = [plays EXCEPT ![p] = Nothing]
        /\ IF plays[p].kind = "ogg"
           THEN setupRefs' = Unref(plays[p].of) /\ Unreference(t)
           ELSE UNCHANGED <<setupRefs, refs, dying>>
  BY DEF EndPlayback
<1>1. OggTypes /\ plays \in [Slots -> Playback] /\ plays[p].of \in 0..MaxLoads
  BY DEF OggInv, OggTypes, Playback
<1>2. plays' \in [Slots -> Playback]
  BY <1>0, <1>1, OggAssumption DEF Nothing, Playback, OggAssumption
<1>3. TaskApart' /\ CacheInTime'
  BY DEF OggInv, EndPlayback, TaskApart, CacheInTime
<1>4. SetupsAreFormer'
  BY <1>0, <1>1 DEF OggInv, EndPlayback, SetupsAreFormer, Former, Nothing
<1>5. CASE plays[p].kind # "ogg"
  <2>1. Streaming' = Streaming /\ \A n : Playing(n)' = Playing(n)
    BY <1>0, <1>1, <1>5 DEF Streaming, Playing, Nothing
  <2>2. RefsCounted' /\ SetupsCounted'
    BY <1>0, <1>5, <2>1
       DEF OggInv, EndPlayback, RefsCounted, SetupsCounted, One, TaskHolds, StreamHolds, DecodeHolds
  <2>3. OggTypes' /\ DiesLast'
    BY <1>0, <1>2, <1>5 DEF EndPlayback, OggInv, OggTypes, OggTypeOK, DiesLast
  <2> QED BY <1>3, <1>4, <2>2, <2>3 DEF OggInv
<1>6. CASE plays[p].kind = "ogg"
  <2> DEFINE m == plays[p].of
  <2>1. /\ Streaming' = Streaming \ {p} /\ p \in Streaming
        /\ p \in Playing(m)
        /\ \A n : Playing(n)' = IF n = m THEN Playing(n) \ {p} ELSE Playing(n)
    BY <1>0, <1>1, <1>6 DEF Streaming, Playing, Nothing
  <2>2. Cardinality(Streaming') = Cardinality(Streaming) - 1
    BY <2>1, CountFacts, FS_RemoveElement
  <2>3. \A n : Cardinality(Playing(n)') = Cardinality(Playing(n)) - One(n = m)
    <3>1. Cardinality(Playing(m) \ {p}) = Cardinality(Playing(m)) - 1
      BY <2>1, CountFacts, FS_RemoveElement
    <3> SUFFICES ASSUME NEW n
                 PROVE  Cardinality(Playing(n)') = Cardinality(Playing(n)) - One(n = m)
      OBVIOUS
    <3>2. CASE n = m
      BY <2>1, <3>1, <3>2 DEF One
    <3>3. CASE n # m
      BY <2>1, <3>3, CountFacts DEF One
    <3> QED BY <3>2, <3>3
  <2>4. /\ Cardinality(Streaming) \in Nat /\ Cardinality(Streaming) > 0
        /\ Cardinality(Playing(m)) > 0 /\ \A n : Cardinality(Playing(n)) \in Nat
    BY <2>1, CountFacts
  <2>5. /\ setupRefs' \in [1..MaxLoads -> Int]
        /\ \A n \in 1..MaxLoads : setupRefs'[n] = setupRefs[n] - One(n = m)
    BY <1>0, <1>1, <1>6, RefFacts
  <2>6. refs' = refs - 1 /\ dying' = IF refs = 1 THEN t ELSE dying
    BY <1>0, <1>6 DEF Unreference
  <2>7. refs \in Nat /\ refs > 0 /\ alive /\ dying = "none"
    BY <1>6, HeldIsAlive
  <2>8. RefsCounted'
    BY <2>2, <2>4, <2>6 DEF OggInv, EndPlayback, RefsCounted, One, TaskHolds
  <2>9. SetupsCounted'
    <3> HIDE DEF m
    <3> QED BY <2>3, <2>4, <2>5
            DEF OggInv, EndPlayback, SetupsCounted, One, StreamHolds, DecodeHolds
  <2>10. OggTypes'
    <3>1. setupRefs' \in [1..MaxLoads -> Nat]
      <4>1. Cardinality(Streaming') \in Nat
        BY <2>2, <2>4
      <4>2. \A n : Cardinality(Playing(n)') \in Nat
        BY <2>3, <2>4 DEF One
      <4> QED BY <2>5, <2>8, <2>9, <4>1, <4>2, CountsAreNat
    <3> QED BY <1>1, <1>2, <2>6, <2>7, <3>1 DEF EndPlayback, OggTypes, OggTypeOK, Threads
  <2>11. DiesLast'
    BY <2>6, <2>7 DEF EndPlayback, DiesLast
  <2> QED BY <1>3, <1>4, <2>8, <2>9, <2>10, <2>11 DEF OggInv
<1> QED BY <1>5, <1>6

LEMMA DestroyKeeps ==
  ASSUME OggInv, NEW t \in Threads, Destroy(t)
  PROVE  OggInv'
<1> USE DEF Destroy, flags, taskVars
<1>1. Streaming' = Streaming /\ \A n : Playing(n)' = Playing(n)
  BY SamePlays
<1>2. OggTypes /\ setup \in 0..MaxLoads /\ dying # "none" /\ alive /\ refs = 0
  BY DEF OggInv, OggTypes, OggTypeOK, DiesLast, Threads
<1>3. mpc = "idle" /\ ~TaskHolds
  BY <1>2, HeldIsAlive DEF OggInv, TaskApart
<1>4. /\ setupRefs' \in [1..MaxLoads -> Int]
      /\ \A n \in 1..MaxLoads : setupRefs'[n] = setupRefs[n] - One(n = setup)
  BY <1>2, RefFacts
<1>5. RefsCounted'
  BY <1>1 DEF OggInv, RefsCounted, One, TaskHolds
<1>6. SetupsCounted'
  <2> SUFFICES ASSUME NEW n \in 1..MaxLoads
               PROVE  setupRefs'[n] = Cardinality(Playing(n)') + One(StreamHolds(n)')
                                       + One(DecodeHolds(n)')
    BY DEF SetupsCounted
  <2>1. StreamHolds(n) = (n = setup) /\ ~StreamHolds(n)' /\ DecodeHolds(n)' = DecodeHolds(n)
    BY <1>2, <1>3 DEF StreamHolds, DecodeHolds
  <2>2. setupRefs[n] = Cardinality(Playing(n)) + One(n = setup) + One(DecodeHolds(n))
    BY <2>1 DEF OggInv, SetupsCounted
  <2>3. Cardinality(Playing(n)) \in Nat /\ setupRefs'[n] = setupRefs[n] - One(n = setup)
    BY <1>4, CountFacts
  <2> QED BY <1>1, <2>1, <2>2, <2>3 DEF One
<1>7. OggTypes'
  <2>1. setupRefs' \in [1..MaxLoads -> Nat]
    BY <1>1, <1>4, <1>5, <1>6, CountFacts, CountsAreNat
  <2>2. OggTypeOK'
    BY <1>2, <2>1 DEF OggTypes, OggTypeOK
  <2>3. alive' \in BOOLEAN /\ UNCHANGED <<plays, pb, shared, async, short, owner, ready, task, mpc, wpc>>
    OBVIOUS
  <2> HIDE DEF Destroy
  <2> QED BY <1>2, <2>2, <2>3 DEF OggTypes
<1>8. DiesLast' /\ TaskApart' /\ CacheInTime' /\ SetupsAreFormer'
  BY <1>2 DEF OggInv, DiesLast, TaskApart, CacheInTime, SetupsAreFormer, Former
<1> QED BY <1>5, <1>6, <1>7, <1>8 DEF OggInv

-----------------------------------------------------------------------------
(* The decode task.                                                        *)

LEMMA TaskKeeps ==
  ASSUME OggInv, TaskNext
  PROVE  OggInv'
<1> USE DEF flags, taskVars
<1>1. Streaming' = Streaming /\ \A n : Playing(n)' = Playing(n)
  <2>1. plays' = plays
    BY DEF TaskNext, TaskStarts, DecodeOpens, DecodeEnds, TaskPublishes, TaskReady, TaskReleases,
           TaskLeaves
  <2> QED BY <2>1, SamePlays
<1>2. MaxLoads \in Nat
  BY OggAssumption DEF OggAssumption
<1>3. /\ Cardinality(Streaming) \in Nat /\ \A n : Cardinality(Playing(n)) \in Nat
      /\ Cardinality(Streaming') \in Nat /\ \A n : Cardinality(Playing(n)') \in Nat
  BY <1>1, CountFacts
<1>4. refs \in Nat /\ (TaskHolds => refs > 0 /\ alive /\ dying = "none")
  BY HeldIsAlive
<1>5. OggTypes /\ seq \in 0..MaxLoads /\ setup \in 0..MaxLoads /\ pb.of \in 0..MaxLoads
  BY DEF OggInv, OggTypes, OggTypeOK, Playback
\* A step that moves the task on but no reference.
<1>6. ASSUME TaskHolds' = TaskHolds, (wpc = "mix")' = (wpc = "mix"),
             UNCHANGED <<refs, setupRefs, owner, alive, setup, mpc>>,
             \A n \in 1..MaxLoads : DecodeHolds(n)' = DecodeHolds(n)
      PROVE  RefsCounted' /\ SetupsCounted'
  BY <1>1, <1>6 DEF OggInv, RefsCounted, SetupsCounted, StreamHolds
<1>7. CASE TaskStarts
  <2> USE <1>7 DEF TaskStarts
  <2>1. RefsCounted' /\ SetupsCounted'
    BY <1>6 DEF TaskHolds, DecodeHolds
  <2>2. OggTypes'
    <3>1. OggTypeOK'
      BY DEF OggInv, OggTypes, OggTypeOK
    <3> QED BY <3>1 DEF OggInv, OggTypes, Playback
  <2>3. DiesLast' /\ TaskApart' /\ CacheInTime' /\ SetupsAreFormer'
    BY DEF OggInv, DiesLast, TaskApart, CacheInTime, SetupsAreFormer, Former
  <2> QED BY <2>1, <2>2, <2>3 DEF OggInv
<1>8. CASE DecodeOpens
  <2> USE <1>8 DEF DecodeOpens
  <2>1. TaskHolds /\ alive /\ dying = "none" /\ refs > 0 /\ pb.kind # "ogg"
    BY <1>4 DEF TaskHolds, OggInv, TaskApart
  <2>2. /\ setupRefs' \in [1..MaxLoads -> Int]
        /\ \A n \in 1..MaxLoads : setupRefs'[n] = setupRefs[n] + One(n = setup)
    BY <1>5, RefFacts
  <2>3. RefsCounted'
    BY <1>1, <1>3, <2>1 DEF OggInv, RefsCounted, One, TaskHolds
  <2>4. SetupsCounted'
    <3> SUFFICES ASSUME NEW n \in 1..MaxLoads
                 PROVE  setupRefs'[n] = Cardinality(Playing(n)') + One(StreamHolds(n)')
                                         + One(DecodeHolds(n)')
      BY DEF SetupsCounted
    <3>1. StreamHolds(n)' = StreamHolds(n) /\ ~DecodeHolds(n) /\ (DecodeHolds(n)' <=> n = setup)
      BY <2>1 DEF StreamHolds, DecodeHolds, Ogg
    <3>2. setupRefs[n] = Cardinality(Playing(n)) + One(StreamHolds(n))
      BY <1>3, <3>1 DEF OggInv, SetupsCounted, One
    <3> QED BY <1>1, <1>3, <2>2, <3>1, <3>2 DEF One
  <2>5. OggTypes'
    <3>1. OggTypeOK'
      BY <1>3, <1>5, <2>2, <2>3, <2>4, CountsAreNat DEF OggTypes, OggTypeOK
    <3>2. pb' \in Playback
      BY <1>5 DEF Ogg, Playback
    <3> QED BY <3>1, <3>2 DEF OggInv, OggTypes
  <2>6. DiesLast' /\ CacheInTime' /\ SetupsAreFormer'
    BY <1>4, <2>1 DEF OggInv, DiesLast, CacheInTime, SetupsAreFormer, Former
  <2>7. TaskApart'
    BY DEF OggInv, TaskApart, Ogg
  <2> QED BY <2>3, <2>4, <2>5, <2>6, <2>7 DEF OggInv
<1>9. CASE DecodeEnds
  <2> USE <1>9 DEF DecodeEnds
  <2>1. TaskHolds /\ alive /\ dying = "none" /\ refs > 1 /\ pb.kind = "ogg"
    BY <1>3, <1>4 DEF TaskHolds, OggInv, TaskApart, RefsCounted, One
  <2>2. /\ setupRefs' \in [1..MaxLoads -> Int]
        /\ \A n \in 1..MaxLoads : setupRefs'[n] = setupRefs[n] - One(n = pb.of)
    BY <1>5, RefFacts
  <2>3. refs' = refs - 1 /\ dying' = "none"
    BY <1>4, <2>1 DEF Unreference
  <2>4. RefsCounted'
    BY <1>1, <1>3, <2>1, <2>3 DEF OggInv, RefsCounted, One, TaskHolds
  <2>5. SetupsCounted'
    <3> SUFFICES ASSUME NEW n \in 1..MaxLoads
                 PROVE  setupRefs'[n] = Cardinality(Playing(n)') + One(StreamHolds(n)')
                                         + One(DecodeHolds(n)')
      BY DEF SetupsCounted
    <3>1. StreamHolds(n)' = StreamHolds(n) /\ ~DecodeHolds(n)' /\ (DecodeHolds(n) <=> n = pb.of)
      BY <2>1 DEF StreamHolds, DecodeHolds, Wav
    <3>2. setupRefs[n] = Cardinality(Playing(n)) + One(StreamHolds(n)) + One(n = pb.of)
      BY <1>3, <3>1 DEF OggInv, SetupsCounted, One
    <3> QED BY <1>1, <1>3, <2>2, <3>1, <3>2 DEF One
  <2>6. OggTypes'
    <3>1. OggTypeOK'
      BY <1>3, <1>5, <2>2, <2>3, <2>4, <2>5, CountsAreNat DEF OggTypes, OggTypeOK
    <3>2. pb' \in Playback
      BY <1>5 DEF Wav, Playback
    <3> QED BY <3>1, <3>2 DEF OggInv, OggTypes
  <2>7. DiesLast' /\ CacheInTime' /\ SetupsAreFormer'
    BY <2>1, <2>3 DEF OggInv, DiesLast, CacheInTime, SetupsAreFormer, Former
  <2>8. TaskApart'
    BY DEF OggInv, TaskApart, Wav
  <2> QED BY <2>4, <2>5, <2>6, <2>7, <2>8 DEF OggInv
<1>10. CASE TaskPublishes
  <2> USE <1>10 DEF TaskPublishes
  <2>1. RefsCounted' /\ SetupsCounted'
    BY <1>6 DEF TaskHolds, DecodeHolds
  <2>2. OggTypes'
    <3>1. OggTypeOK'
      BY <1>5 DEF OggTypes, OggTypeOK
    <3> QED BY <3>1 DEF OggInv, OggTypes
  <2>3. DiesLast' /\ TaskApart' /\ CacheInTime' /\ SetupsAreFormer'
    BY DEF OggInv, DiesLast, TaskApart, CacheInTime, SetupsAreFormer, Former
  <2> QED BY <2>1, <2>2, <2>3 DEF OggInv
<1>11. CASE TaskReady
  <2> USE <1>11 DEF TaskReady
  <2>1. RefsCounted' /\ SetupsCounted'
    <3>1. \A n \in 1..MaxLoads : ~DecodeHolds(n) /\ ~DecodeHolds(n)'
      BY DEF OggInv, TaskApart, DecodeHolds, Nothing
    <3>2. \A n \in 1..MaxLoads : DecodeHolds(n)' = DecodeHolds(n)
      BY <3>1 DEF DecodeHolds
    <3>3. TaskHolds' = TaskHolds /\ (wpc = "mix")' = (wpc = "mix")
      BY DEF TaskHolds
    <3> QED BY <1>6, <3>2, <3>3
  <2>2. OggTypes'
    <3>1. OggTypeOK'
      BY <1>5 DEF OggTypes, OggTypeOK
    <3>2. pb' \in Playback
      BY <1>2 DEF Nothing, Playback
    <3> QED BY <3>1, <3>2 DEF OggInv, OggTypes
  <2>3. DiesLast' /\ CacheInTime' /\ SetupsAreFormer'
    BY DEF OggInv, DiesLast, TaskApart, CacheInTime, SetupsAreFormer, Former
  <2>4. TaskApart'
    BY DEF OggInv, TaskApart, Nothing
  <2> QED BY <2>1, <2>2, <2>3, <2>4 DEF OggInv
<1>12. CASE TaskReleases
  <2> USE <1>12 DEF TaskReleases
  <2>1. TaskHolds /\ taskState = "running" /\ alive /\ dying = "none" /\ refs > 0
    BY <1>4 DEF TaskHolds, OggInv, TaskApart
  <2>2. refs' = refs - 1 /\ dying' \in Threads \union {"none"} /\ (dying' # "none" => refs' = 0)
    BY <1>4, <2>1 DEF Unreference, Threads
  <2>3. RefsCounted'
    BY <1>1, <1>3, <2>1, <2>2 DEF OggInv, RefsCounted, One, TaskHolds
  <2>4. SetupsCounted'
    BY <1>1 DEF OggInv, SetupsCounted, One, StreamHolds, DecodeHolds
  <2>5. OggTypes'
    <3>1. OggTypeOK'
      BY <1>4, <1>5, <2>1, <2>2 DEF OggTypes, OggTypeOK
    <3> QED BY <3>1 DEF OggInv, OggTypes
  <2>6. DiesLast' /\ TaskApart' /\ CacheInTime' /\ SetupsAreFormer'
    BY <2>1, <2>2 DEF OggInv, DiesLast, TaskApart, CacheInTime, SetupsAreFormer, Former
  <2> QED BY <2>3, <2>4, <2>5, <2>6 DEF OggInv
<1>13. CASE TaskLeaves
  <2> USE <1>13 DEF TaskLeaves
  <2>1. taskState = "running"
    BY DEF OggInv, TaskApart
  <2>2. RefsCounted' /\ SetupsCounted'
    BY <1>6, <2>1 DEF TaskHolds, DecodeHolds
  <2>3. OggTypes'
    <3>1. OggTypeOK'
      BY <1>5 DEF OggTypes, OggTypeOK
    <3> QED BY <3>1 DEF OggInv, OggTypes
  <2>4. DiesLast' /\ TaskApart' /\ CacheInTime' /\ SetupsAreFormer'
    BY DEF OggInv, DiesLast, TaskApart, CacheInTime, SetupsAreFormer, Former
  <2> QED BY <2>2, <2>3, <2>4 DEF OggInv
<1> QED BY <1>7, <1>8, <1>9, <1>10, <1>11, <1>12, <1>13 DEF TaskNext

-----------------------------------------------------------------------------
(* The theorems.                                                           *)

\* Both reference counts of a stream, with the waits of its loads, are right in every
\* state: reference() and unreference() of _build_pcm_cache and _pcm_task, the ref() and
\* unref() of the shared setup, instantiate_playback and the destructor.
THEOREM OggInvariant == OggSpec => []OggInv
<1>1. OggInit => OggInv
  BY OggStarts
<1>2. OggInv /\ [OggNext]_oggVars => OggInv'
  <2> SUFFICES ASSUME OggInv, [OggNext]_oggVars PROVE OggInv'
    OBVIOUS
  <2>1. CASE UNCHANGED oggVars
    <3> USE <2>1 DEF oggVars, flags, taskVars
    <3>1. Streaming' = Streaming /\ \A n : Playing(n)' = Playing(n)
      BY SamePlays
    <3>2. RefsCounted' /\ SetupsCounted'
      BY <3>1 DEF OggInv, RefsCounted, SetupsCounted, One, TaskHolds, StreamHolds, DecodeHolds
    <3>3. OggTypes'
      BY DEF OggInv, OggTypes, OggTypeOK
    <3>4. DiesLast' /\ TaskApart' /\ CacheInTime' /\ SetupsAreFormer'
      BY DEF OggInv, DiesLast, TaskApart, CacheInTime, SetupsAreFormer, Former
    <3> QED BY <3>2, <3>3, <3>4 DEF OggInv
  <2> QED
    BY <2>1, LoadKeeps, PlayKeeps, SetLoopKeeps, DropKeeps, EndPlaybackKeeps, DestroyKeeps, TaskKeeps
       DEF OggNext
<1> QED BY <1>1, <1>2, PTL DEF OggSpec

\* Whatever the order of reloads, plays, drops, the decode task and the audio thread,
\* nobody uses the stream or a setup after it is freed, and a play from the cache is of
\* the packets the stream is set to.
THEOREM PlaysAreLiveAndCurrent == OggSpec => []PcmIsLiveAndCurrent
<1>1. OggInv => PcmIsLiveAndCurrent
  <2> SUFFICES ASSUME OggInv PROVE PcmIsLiveAndCurrent
    OBVIOUS
  <2>1. OggTypeOK /\ CacheIsCurrent
    BY DEF OggInv, OggTypes, CacheInTime, CacheIsCurrent
  <2>2. (mpc # "idle" \/ wpc \in {"open", "mix", "publish", "ready", "release"}) => alive
    BY HeldIsAlive DEF OggInv, TaskApart, TaskHolds
  <2>3. \A n : Cardinality(Playing(n)) \in Nat
    BY CountFacts
  <2>4. ASSUME NEW p \in Slots, plays[p].kind = "ogg"
        PROVE  alive /\ (plays[p].of # 0 => setupRefs[plays[p].of] > 0)
    <3>1. alive
      BY <2>4, HeldIsAlive
    <3>2. ASSUME plays[p].of # 0
          PROVE  setupRefs[plays[p].of] > 0
      <4>1. plays[p].of \in 1..MaxLoads
        BY <3>2, OggAssumption DEF OggInv, OggTypes, Playback, OggAssumption
      <4>2. Cardinality(Playing(plays[p].of)) > 0
        BY <2>4, CountFacts DEF Playing
      <4> QED BY <2>3, <4>1, <4>2 DEF OggInv, SetupsCounted, One
    <3> QED BY <3>1, <3>2
  <2>5. pb.kind = "ogg" /\ pb.of # 0 => setupRefs[pb.of] > 0
    <3> SUFFICES ASSUME pb.kind = "ogg", pb.of # 0 PROVE setupRefs[pb.of] > 0
      OBVIOUS
    <3>1. pb.of \in 1..MaxLoads /\ DecodeHolds(pb.of)
      BY OggAssumption DEF OggInv, OggTypes, Playback, OggAssumption, DecodeHolds
    <3> QED BY <2>3, <3>1 DEF OggInv, SetupsCounted, One
  <2>6. alive /\ setup # 0 /\ mpc # "create" => setupRefs[setup] > 0
    <3> SUFFICES ASSUME alive, setup # 0, mpc # "create" PROVE setupRefs[setup] > 0
      OBVIOUS
    <3>1. setup \in 1..MaxLoads /\ StreamHolds(setup)
      BY OggAssumption DEF OggInv, OggTypes, OggTypeOK, OggAssumption, StreamHolds
    <3> QED BY <2>3, <3>1 DEF OggInv, SetupsCounted, One
  <2> QED BY <2>1, <2>2, <2>4, <2>5, <2>6 DEF PcmIsLiveAndCurrent, NoUseAfterFree
<1> QED BY <1>1, OggInvariant, PTL

-----------------------------------------------------------------------------
(***************************************************************************)
(* THE AUDIO DRIVER: what the core plays is what was mixed, for every      *)
(* ring, period and depth target: no frame is overwritten before it was    *)
(* played, and a published period never makes the pointers meet.  The      *)
(* argument is the room the mixer saw before it took a period: only the    *)
(* core moves rd, and rd only makes more room, so the frames it writes     *)
(* stay clear of those still to be played for as long as the copy takes.   *)
(***************************************************************************)

Live == {"running", "joining"}

-----------------------------------------------------------------------------
(* Arithmetic around the ring and around the stamps.                       *)

\* Remainders of a number within one turn of the divisor.
LEMMA Turns ==
  ASSUME NEW n \in Nat \ {0}, NEW a \in Int
  PROVE  /\ a \in 0 .. n - 1 => a % n = a
         /\ a \in n .. 2 * n - 1 => a % n = a - n
         /\ a \in -n .. -1 => a % n = a + n
  OBVIOUS

\* A position n frames on.
LEMMA AdvanceOnce ==
  ASSUME NEW p \in Frames, NEW n \in 0 .. Ring - 1
  PROVE  /\ Advance(p, n) = IF p + n < Ring THEN p + n ELSE p + n - Ring
         /\ Advance(p, n) \in Frames
<1>1. Ring \in Nat \ {0} /\ p + n \in Int /\ p + n \in 0 .. 2 * Ring - 1
  BY AudioAssumption DEF Frames
<1>2. PICK a \in Int : a = p + n
  BY <1>1
<1>3. /\ a \in 0 .. Ring - 1 => a % Ring = a
      /\ a \in Ring .. 2 * Ring - 1 => a % Ring = a - Ring
  BY <1>1, Turns
<1> QED BY <1>1, <1>2, <1>3, AudioAssumption DEF Advance, Frames

\* How far one pointer is behind another.
LEMMA BehindOnce ==
  ASSUME NEW w \in Frames, NEW r \in Frames
  PROVE  /\ (w - r) % Ring = IF r <= w THEN w - r ELSE w - r + Ring
         /\ (w - r) % Ring \in Frames
<1>1. Ring \in Nat \ {0} /\ w - r \in Int /\ w - r \in -Ring .. Ring - 1
  BY AudioAssumption DEF Frames
<1>2. /\ w - r \in 0 .. Ring - 1 => (w - r) % Ring = w - r
      /\ w - r \in -Ring .. -1 => (w - r) % Ring = w - r + Ring
  BY <1>1, Turns
<1> QED BY <1>1, <1>2, AudioAssumption DEF Frames

\* The stamp n frames on, and the stamp of the frame that is b-th from the last.
LEMMA StampOn ==
  ASSUME NEW s \in Stamp, NEW n \in 1 .. Ring
  PROVE  /\ After(s, n) = IF s + n <= Stamps THEN s + n ELSE s + n - Stamps
         /\ After(s, n) \in Stamp
<1>1. /\ Stamps \in Nat \ {0} /\ s + n - 1 \in Int
      /\ s + n - 1 \in 0 .. 2 * Stamps - 1
  BY AudioAssumption DEF Stamp
<1>2. PICK a \in Int : a = s + n - 1
  BY <1>1
<1>3. /\ a \in 0 .. Stamps - 1 => a % Stamps = a
      /\ a \in Stamps .. 2 * Stamps - 1 => a % Stamps = a - Stamps
  BY <1>1, Turns
<1> QED BY <1>1, <1>2, <1>3, AudioAssumption DEF After, Stamp

LEMMA StampBack ==
  ASSUME NEW s \in Stamp, NEW b \in 1 .. Ring
  PROVE  After(s + Stamps, 1 - b) = IF b <= s THEN s - b + 1 ELSE s - b + 1 + Stamps
<1>1. /\ Stamps \in Nat \ {0} /\ s + Stamps - b \in Int
      /\ s + Stamps - b \in 0 .. 2 * Stamps - 1
  BY AudioAssumption DEF Stamp
<1>2. (s + Stamps) + (1 - b) - 1 = s + Stamps - b
  BY <1>1 DEF Stamp
<1>3. LET a == s + Stamps - b
      IN  /\ a \in 0 .. Stamps - 1 => a % Stamps = a
          /\ a \in Stamps .. 2 * Stamps - 1 => a % Stamps = a - Stamps
  BY <1>1, Turns
<1> QED BY <1>1, <1>2, <1>3, AudioAssumption DEF After, Stamp

\* Two distinct offsets of less than a lap are two distinct positions.
LEMMA OffsetsApart ==
  ASSUME NEW p \in Frames, NEW n \in 0 .. Ring - 1, NEW k \in 0 .. Ring - 1, n # k
  PROVE  Advance(p, n) # Advance(p, k)
<1>1. /\ Advance(p, n) = IF p + n < Ring THEN p + n ELSE p + n - Ring
      /\ Advance(p, k) = IF p + k < Ring THEN p + k ELSE p + k - Ring
  BY AdvanceOnce
<1> QED BY <1>1, AudioAssumption DEF Frames

\* A position ahead of the writer, counted from the reader.
LEMMA CountedFromReader ==
  ASSUME NEW w \in Frames, NEW r \in Frames, NEW c \in 0 .. Ring - 1,
         ((w - r) % Ring) + c < Ring
  PROVE  Advance(w, c) = Advance(r, ((w - r) % Ring) + c)
<1>1. PICK d \in Frames : d = (w - r) % Ring
  BY BehindOnce
<1>2. d = IF r <= w THEN w - r ELSE w - r + Ring
  BY <1>1, BehindOnce
<1>3. d + c \in 0 .. Ring - 1
  BY <1>1, AudioAssumption DEF Frames
<1>4. /\ Advance(w, c) = IF w + c < Ring THEN w + c ELSE w + c - Ring
      /\ Advance(r, d + c) = IF r + (d + c) < Ring THEN r + (d + c) ELSE r + (d + c) - Ring
  BY <1>3, AdvanceOnce
<1>5. Advance(w, c) = Advance(r, d + c)
  BY <1>2, <1>3, <1>4, AudioAssumption DEF Frames
<1> QED BY <1>1, <1>5

\* A writer that moves n frames on is n frames further from the reader.
LEMMA FurtherFromReader ==
  ASSUME NEW w \in Frames, NEW r \in Frames, NEW n \in 0 .. Ring - 1,
         ((w - r) % Ring) + n < Ring
  PROVE  (Advance(w, n) - r) % Ring = ((w - r) % Ring) + n
<1>1. PICK d \in Frames : d = (w - r) % Ring
  BY BehindOnce
<1>2. d = IF r <= w THEN w - r ELSE w - r + Ring
  BY <1>1, BehindOnce
<1>3. PICK v \in Frames : v = Advance(w, n)
  BY AdvanceOnce
<1>4. v = IF w + n < Ring THEN w + n ELSE w + n - Ring
  BY <1>3, AdvanceOnce
<1>5. (v - r) % Ring = IF r <= v THEN v - r ELSE v - r + Ring
  BY BehindOnce
<1>6. (v - r) % Ring = d + n
  BY <1>1, <1>2, <1>4, <1>5, AudioAssumption DEF Frames
<1> QED BY <1>1, <1>3, <1>6

\* Counted from a later last stamp, the stamps given before are the same ones.
LEMMA StampsFollow ==
  ASSUME NEW s \in Stamp, NEW n \in 1 .. Ring
  PROVE  /\ \A b \in 1 .. Ring : b + n <= Ring =>
              After(After(s, n) + Stamps, 1 - (b + n)) = After(s + Stamps, 1 - b)
         /\ \A c \in 0 .. n - 1 :
              After(After(s, n) + Stamps, 1 - (n - c)) = After(s, c + 1)
<1>1. PICK t \in Stamp : t = After(s, n)
  BY StampOn
<1>2. t = IF s + n <= Stamps THEN s + n ELSE s + n - Stamps
  BY <1>1, StampOn
<1>3. ASSUME NEW b \in 1 .. Ring, b + n <= Ring
      PROVE  After(t + Stamps, 1 - (b + n)) = After(s + Stamps, 1 - b)
  <2>1. b + n \in 1 .. Ring
    BY <1>3, AudioAssumption
  <2>2. After(t + Stamps, 1 - (b + n)) =
          IF b + n <= t THEN t - (b + n) + 1 ELSE t - (b + n) + 1 + Stamps
    BY <2>1, StampBack
  <2>3. After(s + Stamps, 1 - b) = IF b <= s THEN s - b + 1 ELSE s - b + 1 + Stamps
    BY StampBack
  <2> QED BY <1>2, <1>3, <2>2, <2>3, AudioAssumption DEF Stamp
<1>4. ASSUME NEW c \in 0 .. n - 1
      PROVE  After(t + Stamps, 1 - (n - c)) = After(s, c + 1)
  <2>1. n - c \in 1 .. Ring /\ c + 1 \in 1 .. Ring
    BY AudioAssumption
  <2>2. After(t + Stamps, 1 - (n - c)) =
          IF n - c <= t THEN t - (n - c) + 1 ELSE t - (n - c) + 1 + Stamps
    BY <2>1, StampBack
  <2>3. After(s, c + 1) = IF s + (c + 1) <= Stamps THEN s + (c + 1) ELSE s + (c + 1) - Stamps
    BY <2>1, StampOn
  <2> QED BY <1>2, <2>2, <2>3, AudioAssumption DEF Stamp
<1> QED BY <1>1, <1>3, <1>4

-----------------------------------------------------------------------------
(* The inductive invariant.                                                *)

\* The mixer lives only inside a driver whose pointers were set.
MixerHasItsRing == tpc # "none" => hpc \in Live

\* What the mixer believes of the write pointer is what the core reads.
OnePointer == hpc \in Live => wr = localWr

\* The room the mixer saw is still there when it writes: the core only drains.
RoomKept == tpc \in {"mix", "mixing", "copy"} => Depth <= MaxUsed

\* Nothing mixed is in the ring before the write pointer is set.
SilentAtFirst == hpc = "opening" => fresh = 0 /\ \A i \in Frames : ring[i] = Silence

\* The frames copied and not yet published carry the next stamps.
CopiedSoFar == tpc = "copy" =>
  \A c \in 0 .. copied - 1 : ring[Slot(c)] = After(sent, c + 1)

AudioInv ==
  /\ PlaysWhatWasMixed
  /\ MixerHasItsRing
  /\ OnePointer
  /\ RoomKept
  /\ SilentAtFirst
  /\ CopiedSoFar

LEMMA AudioInit == Init => AudioInv
<1> SUFFICES ASSUME Init PROVE AudioInv
  OBVIOUS
<1>1. 0 \in Frames /\ Stamps \in Stamp /\ 0 \in 0 .. Period /\ 0 \in 0 .. Ring
  BY AudioAssumption DEF Frames, Stamp
<1>2. TypeOK
  BY <1>1 DEF Init, TypeOK, MainPoints
<1> QED
  BY <1>2 DEF Init, AudioInv, PlaysWhatWasMixed, MixerHasItsRing, OnePointer, RoomKept,
              SilentAtFirst, CopiedSoFar, Live

LEMMA TypeKept == TypeOK /\ [Next]_vars => TypeOK'
<1> SUFFICES ASSUME TypeOK, [Next]_vars PROVE TypeOK'
  OBVIOUS
<1> USE DEF TypeOK
<1>1. CASE Open
  <2>1. Stamps \in Stamp /\ 0 \in 0 .. Period /\ 0 \in 0 .. Ring
    BY AudioAssumption DEF Stamp
  <2> QED BY <1>1, <2>1 DEF Open, MainPoints
<1>2. CASE OpenPointer
  BY <1>2 DEF OpenPointer, history, MainPoints
<1>3. CASE StartMixing \/ Lock \/ Unlock
  BY <1>3 DEF StartMixing, Lock, Unlock, mainVars, mixVars, ringVars, history
<1>4. CASE Finish \/ FinishJoin \/ FinishPointer \/ Exit
  BY <1>4 DEF Finish, FinishJoin, FinishPointer, Exit, mixVars, ringVars, history, MainPoints
<1>5. CASE MixerExits \/ MixerPolls \/ MixerLocks \/ MixerMixed
  BY <1>5, AudioAssumption
     DEF MixerExits, MixerPolls, MixerLocks, MixerMixed, mainVars, ringVars, history
<1>6. CASE MixerCopies
  <2>1. copied + 1 \in 1 .. Ring /\ copied \in 0 .. Ring - 1 /\ copied + 1 \in 0 .. Period
    BY <1>6, AudioAssumption DEF MixerCopies
  <2>2. Slot(copied) \in Frames /\ After(sent, copied + 1) \in Stamp
    BY <2>1, AdvanceOnce, StampOn DEF Slot
  <2> QED
    BY <1>6, <2>1, <2>2 DEF MixerCopies, mainVars, history
<1>7. CASE MixerPublishes
  <2>1. Period \in 1 .. Ring /\ Period \in 0 .. Ring - 1
    BY AudioAssumption
  <2>2. Advance(localWr, Period) \in Frames /\ After(sent, Period) \in Stamp
    BY <2>1, AdvanceOnce, StampOn
  <2>3. fresh' \in 0 .. Ring
    BY <1>7, AudioAssumption DEF MixerPublishes
  <2> QED
    BY <1>7, <2>2, <2>3 DEF MixerPublishes, PublishedPointer, mainVars
<1>8. CASE CorePlays
  <2>1. Advance(rd, 1) \in Frames
    BY AdvanceOnce, AudioAssumption
  <2> QED
    BY <1>8, <2>1 DEF CorePlays, mainVars, mixVars, history
<1>9. CASE UNCHANGED vars
  BY <1>9 DEF vars, mainVars, mixVars, ringVars, history
<1> QED
  BY <1>1, <1>2, <1>3, <1>4, <1>5, <1>6, <1>7, <1>8, <1>9 DEF Next, Mixer

-----------------------------------------------------------------------------
(* What the steps of the core and of the mixer do to what is to be played.  *)

\* A frame played leaves one fewer, and what is to be played is otherwise the same.
LEMMA PlayDrains ==
  ASSUME TypeOK, CorePlays
  PROVE  /\ Depth \in 1 .. Ring - 1 /\ Depth' = Depth - 1
         /\ \A k \in 0 .. Depth' - 1 : Advance(rd', k) = Advance(rd, k + 1)
<1>1. wr \in Frames /\ rd \in Frames /\ rd' = Advance(rd, 1) /\ wr' = wr /\ rd # wr
  BY DEF TypeOK, CorePlays
<1>2. rd' = IF rd + 1 < Ring THEN rd + 1 ELSE 0
  <2>1. 1 \in 0 .. Ring - 1
    BY AudioAssumption
  <2>2. Advance(rd, 1) = IF rd + 1 < Ring THEN rd + 1 ELSE rd + 1 - Ring
    BY <1>1, <2>1, AdvanceOnce
  <2> QED BY <1>1, <2>2, AudioAssumption DEF Frames
<1>3. rd' \in Frames
  BY <1>2, <1>1, AudioAssumption DEF Frames
<1>4. Depth = IF rd <= wr THEN wr - rd ELSE wr - rd + Ring
  BY <1>1, BehindOnce DEF Depth
<1>5. Depth' = IF rd' <= wr THEN wr - rd' ELSE wr - rd' + Ring
  BY <1>1, <1>3, BehindOnce DEF Depth
<1>6. Depth \in 1 .. Ring - 1 /\ Depth' = Depth - 1
  BY <1>1, <1>2, <1>4, <1>5, AudioAssumption DEF Frames
<1>7. ASSUME NEW k \in 0 .. Depth' - 1
      PROVE  Advance(rd', k) = Advance(rd, k + 1)
  <2>1. k \in 0 .. Ring - 1 /\ k + 1 \in 0 .. Ring - 1
    BY <1>6, AudioAssumption
  <2>2. Advance(rd', k) = IF rd' + k < Ring THEN rd' + k ELSE rd' + k - Ring
    BY <1>3, <2>1, AdvanceOnce
  <2>3. Advance(rd, k + 1) = IF rd + (k + 1) < Ring THEN rd + (k + 1) ELSE rd + (k + 1) - Ring
    BY <1>1, <2>1, AdvanceOnce
  <2> QED BY <1>1, <1>2, <2>1, <2>2, <2>3, AudioAssumption DEF Frames
<1> QED BY <1>6, <1>7

\* A frame copied beyond the write pointer is none of those still to be played, and
\* none of those copied before it.
LEMMA CopyMissesTheQueue ==
  ASSUME AudioInv, MixerCopies
  PROVE  /\ Slot(copied) \in Frames
         /\ \A k \in 0 .. Depth - 1 : Advance(rd, k) # Slot(copied)
         /\ \A c \in 0 .. copied - 1 : Slot(c) # Slot(copied)
<1>1. /\ wr \in Frames /\ rd \in Frames /\ wr = localWr
      /\ copied \in 0 .. Period - 1 /\ copied \in 0 .. Ring - 1
  BY AudioAssumption
     DEF AudioInv, PlaysWhatWasMixed, TypeOK, MixerHasItsRing, OnePointer, Live, MixerCopies
<1>2. Depth \in Frames /\ Depth <= Ring - 1 - Period
  BY <1>1, BehindOnce DEF AudioInv, RoomKept, MixerCopies, Depth, MaxUsed
<1>3. Depth + copied \in 0 .. Ring - 1 /\ Depth + copied < Ring
  BY <1>1, <1>2, AudioAssumption DEF Frames
<1>4. Slot(copied) = Advance(rd, Depth + copied)
  BY <1>1, <1>3, CountedFromReader DEF Slot, Depth
<1>5. ASSUME NEW k \in 0 .. Depth - 1
      PROVE  Advance(rd, k) # Slot(copied)
  <2>1. k \in 0 .. Ring - 1 /\ k # Depth + copied
    BY <1>1, <1>2, AudioAssumption DEF Frames
  <2> QED BY <1>1, <1>3, <1>4, <2>1, OffsetsApart
<1>6. ASSUME NEW c \in 0 .. copied - 1
      PROVE  Slot(c) # Slot(copied)
  <2>1. c \in 0 .. Ring - 1 /\ c # copied
    BY <1>1, AudioAssumption
  <2> QED BY <1>1, <2>1, OffsetsApart DEF Slot
<1>7. Slot(copied) \in Frames
  BY <1>1, AdvanceOnce DEF Slot
<1> QED BY <1>5, <1>6, <1>7

\* A published period is in the queue, behind all that was there.
LEMMA PublishQueues ==
  ASSUME AudioInv, MixerPublishes
  PROVE  /\ Depth' = Depth + Period /\ Depth' < Ring
         /\ \A c \in 0 .. Period - 1 : Slot(c) = Advance(rd, Depth + c)
<1>1. wr \in Frames /\ rd \in Frames /\ wr = localWr /\ rd' = rd /\ wr' = Advance(wr, Period)
  BY DEF AudioInv, PlaysWhatWasMixed, TypeOK, MixerHasItsRing, OnePointer, Live,
         MixerPublishes, PublishedPointer
<1>2. Depth \in Frames /\ Depth <= Ring - 1 - Period
  BY <1>1, BehindOnce DEF AudioInv, RoomKept, MixerPublishes, Depth, MaxUsed
<1>3. Period \in 0 .. Ring - 1 /\ Depth + Period < Ring
  BY <1>2, AudioAssumption DEF Frames
<1>4. Depth' = Depth + Period
  BY <1>1, <1>3, FurtherFromReader DEF Depth
<1>5. ASSUME NEW c \in 0 .. Period - 1
      PROVE  Slot(c) = Advance(rd, Depth + c)
  <2>1. c \in 0 .. Ring - 1 /\ Depth + c < Ring
    BY <1>2, AudioAssumption DEF Frames
  <2> QED BY <1>1, <2>1, CountedFromReader DEF Slot, Depth
<1> QED BY <1>3, <1>4, <1>5

-----------------------------------------------------------------------------
(* One step preserves the invariant.                                       *)

\* The steps that leave the ring, its pointers and the history alone.
LEMMA QuietSteps ==
  ASSUME AudioInv, TypeOK',
         \/ StartMixing \/ Lock \/ Unlock \/ Finish \/ FinishJoin \/ Exit
         \/ MixerExits \/ MixerLocks \/ MixerMixed \/ MixerPolls \/ UNCHANGED vars
  PROVE  AudioInv'
<1>1. UNCHANGED <<ring, wr, rd, localWr, sent, fresh>>
  BY DEF StartMixing, Lock, Unlock, Finish, FinishJoin, Exit, MixerExits, MixerLocks,
         MixerMixed, MixerPolls, vars, mainVars, mixVars, ringVars, history
<1>2. hpc' \in Live => hpc \in Live
  BY DEF StartMixing, Lock, Unlock, Finish, FinishJoin, Exit, MixerExits, MixerLocks,
         MixerMixed, MixerPolls, vars, mainVars, Live
<1>3. Depth' = Depth
  BY <1>1 DEF Depth
<1>4. PlaysWhatWasMixed'
  BY <1>1, <1>2, <1>3 DEF AudioInv, PlaysWhatWasMixed, Live
<1>5. MixerHasItsRing'
  BY DEF AudioInv, MixerHasItsRing, StartMixing, Lock, Unlock, Finish, FinishJoin, Exit,
         MixerExits, MixerLocks, MixerMixed, MixerPolls, vars, mainVars, mixVars, Live
<1>6. OnePointer'
  BY <1>1, <1>2 DEF AudioInv, OnePointer
<1>7. RoomKept'
  <2>1. CASE MixerPolls
    <3>1. wr = localWr
      BY <2>1 DEF AudioInv, MixerHasItsRing, OnePointer, MixerPolls
    <3> QED BY <1>3, <2>1, <3>1 DEF MixerPolls, RoomKept, Used, Depth, MaxUsed
  <2>2. CASE ~MixerPolls
    BY <1>3, <2>2
       DEF AudioInv, RoomKept, StartMixing, Lock, Unlock, Finish, FinishJoin, Exit,
           MixerExits, MixerLocks, MixerMixed, vars, mainVars, mixVars, MaxUsed
  <2> QED BY <2>1, <2>2
<1>8. SilentAtFirst'
  BY <1>1
     DEF AudioInv, SilentAtFirst, StartMixing, Lock, Unlock, Finish, FinishJoin, Exit,
         MixerExits, MixerLocks, MixerMixed, MixerPolls, vars, mainVars
<1>9. CopiedSoFar'
  <2>1. CASE MixerMixed
    BY <2>1 DEF MixerMixed, CopiedSoFar
  <2>2. CASE ~MixerMixed
    BY <1>1, <2>2
       DEF AudioInv, CopiedSoFar, Slot, StartMixing, Lock, Unlock, Finish, FinishJoin, Exit,
           MixerExits, MixerLocks, MixerPolls, vars, mainVars, mixVars
  <2> QED BY <2>1, <2>2
<1> QED
  BY <1>4, <1>5, <1>6, <1>7, <1>8, <1>9 DEF AudioInv

LEMMA OpenKeeps ==
  ASSUME AudioInv, TypeOK', Open \/ OpenPointer \/ FinishPointer
  PROVE  AudioInv'
<1>1. CASE Open
  BY <1>1
     DEF Open, AudioInv, PlaysWhatWasMixed, MixerHasItsRing, OnePointer, RoomKept,
         SilentAtFirst, CopiedSoFar, Live
<1>2. CASE OpenPointer
  <2>1. fresh' = 0 /\ \A i \in Frames : ring'[i] = Silence
    BY <1>2 DEF OpenPointer, AudioInv, SilentAtFirst, history
  <2>2. PICK d \in 0 .. Ring - 1 : d = Depth'
    BY BehindOnce DEF TypeOK, Depth, Frames
  <2>3. ASSUME NEW k \in 0 .. d - 1
        PROVE  Advance(rd', k) \in Frames /\ ~ (d - k <= 0)
    <3>1. k \in 0 .. Ring - 1 /\ ~ (d - k <= 0)
      BY AudioAssumption
    <3>2. Advance(rd', k) \in Frames
      BY <3>1, AdvanceOnce DEF TypeOK
    <3> QED BY <3>1, <3>2
  <2>4. PlaysWhatWasMixed'
    BY <2>1, <2>2, <2>3 DEF PlaysWhatWasMixed
  <2> QED
    BY <1>2, <2>4
       DEF OpenPointer, AudioInv, MixerHasItsRing, OnePointer, RoomKept, SilentAtFirst,
           CopiedSoFar, Live
<1>3. CASE FinishPointer
  BY <1>3
     DEF FinishPointer, AudioInv, PlaysWhatWasMixed, MixerHasItsRing, OnePointer, RoomKept,
         SilentAtFirst, CopiedSoFar, Live, mixVars
<1> QED BY <1>1, <1>2, <1>3

LEMMA CopyKeeps ==
  ASSUME AudioInv, TypeOK', MixerCopies
  PROVE  AudioInv'
<1>1. /\ UNCHANGED <<hpc, tpc, localWr, wr, rd, sent, fresh>>
      /\ ring' = [ring EXCEPT ![Slot(copied)] = After(sent, copied + 1)]
      /\ copied' = copied + 1 /\ copied \in 0 .. Period /\ ring \in [Frames -> Stamp \union {Silence, Stale}]
      /\ tpc = "copy"
  BY DEF MixerCopies, mainVars, history, AudioInv, PlaysWhatWasMixed, TypeOK
<1>2. Depth' = Depth /\ \A n : Slot(n)' = Slot(n)
  BY <1>1 DEF Depth, Slot
<1>3. \A i \in Frames : i # Slot(copied) => ring'[i] = ring[i]
  BY <1>1
<1>4. ring'[Slot(copied)] = After(sent, copied + 1)
  BY <1>1, CopyMissesTheQueue
<1>5. Depth \in Frames
  BY BehindOnce DEF AudioInv, PlaysWhatWasMixed, TypeOK, Depth
<1>6. PlaysWhatWasMixed'
  <2>1. ASSUME NEW k \in 0 .. Depth - 1
        PROVE  ring'[Advance(rd, k)] = ring[Advance(rd, k)]
    <3>1. k \in 0 .. Ring - 1
      BY <1>5, AudioAssumption DEF Frames
    <3>2. Advance(rd, k) \in Frames
      BY <3>1, AdvanceOnce DEF AudioInv, PlaysWhatWasMixed, TypeOK
    <3> QED BY <1>3, <3>2, CopyMissesTheQueue
  <2> QED
    BY <1>1, <1>2, <2>1 DEF AudioInv, PlaysWhatWasMixed
<1>7. CopiedSoFar'
  <2>1. ASSUME NEW c \in 0 .. copied - 1
        PROVE  ring'[Slot(c)] = After(sent, c + 1)
    <3>1. c \in 0 .. Ring - 1
      BY <1>1, AudioAssumption
    <3>2. Slot(c) \in Frames
      BY <3>1, AdvanceOnce DEF AudioInv, PlaysWhatWasMixed, TypeOK, Slot
    <3> QED BY <1>1, <1>3, <3>2, CopyMissesTheQueue DEF AudioInv, CopiedSoFar
  <2>2. \A c \in 0 .. copied : c = copied \/ c \in 0 .. copied - 1
    BY <1>1, AudioAssumption
  <2>3. \A c \in 0 .. copied : ring'[Slot(c)] = After(sent, c + 1)
    BY <1>4, <2>1, <2>2
  <2>4. copied' - 1 = copied
    BY <1>1, AudioAssumption
  <2> QED BY <1>1, <1>2, <2>3, <2>4 DEF CopiedSoFar
<1> QED
  BY <1>1, <1>2, <1>6, <1>7
     DEF AudioInv, MixerHasItsRing, OnePointer, RoomKept, SilentAtFirst, MaxUsed, Live

LEMMA PublishKeeps ==
  ASSUME AudioInv, TypeOK', MixerPublishes
  PROVE  AudioInv'
<1>1. /\ UNCHANGED <<hpc, rd, ring>> /\ tpc = "copy" /\ copied = Period
      /\ localWr' = wr' /\ sent' = After(sent, Period) /\ tpc' = "poll"
      /\ fresh' = IF fresh + Period < Ring THEN fresh + Period ELSE Ring
      /\ hpc \in Live /\ sent \in Stamp /\ fresh \in 0 .. Ring
  BY DEF MixerPublishes, PublishedPointer, mainVars, AudioInv, PlaysWhatWasMixed, TypeOK,
         MixerHasItsRing, OnePointer
<1>2. Depth \in 0 .. Ring - 1 - Period /\ Depth' = Depth + Period /\ Period \in 1 .. Ring
  <2>1. Depth \in Frames
    BY BehindOnce DEF AudioInv, PlaysWhatWasMixed, TypeOK, Depth
  <2> QED
    BY <2>1, PublishQueues, AudioAssumption DEF Frames
<1>3. ASSUME NEW k \in 0 .. Depth' - 1
      PROVE  ring'[Advance(rd', k)] =
               IF Depth' - k <= fresh' THEN After(sent' + Stamps, 1 - (Depth' - k)) ELSE Silence
  <2>1. CASE k \in 0 .. Depth - 1
    <3>1. PICK b \in 1 .. Ring : b = Depth - k
      BY <1>2, <2>1, AudioAssumption
    <3>2. ring[Advance(rd, k)] = IF b <= fresh THEN After(sent + Stamps, 1 - b) ELSE Silence
      BY <1>1, <2>1, <3>1 DEF AudioInv, PlaysWhatWasMixed, Live
    <3>3. b + Period <= Ring /\ Depth' - k = b + Period
      BY <1>2, <2>1, <3>1, AudioAssumption
    <3>4. After(sent' + Stamps, 1 - (b + Period)) = After(sent + Stamps, 1 - b)
      BY <1>1, <1>2, <3>3, StampsFollow
    <3>5. b + Period <= fresh' <=> b <= fresh
      BY <1>1, <1>2, <3>1, <2>1, AudioAssumption
    <3> QED BY <1>1, <3>2, <3>3, <3>4, <3>5
  <2>2. CASE k \notin 0 .. Depth - 1
    <3>1. PICK c \in 0 .. Period - 1 : k = Depth + c
      <4>1. k - Depth \in 0 .. Period - 1 /\ k = Depth + (k - Depth)
        BY <1>2, <2>2, AudioAssumption
      <4> QED BY <4>1
    <3>2. ring[Advance(rd, k)] = After(sent, c + 1)
      BY <1>1, <3>1, PublishQueues DEF AudioInv, CopiedSoFar
    <3>3. Depth' - k = Period - c /\ Period - c <= fresh'
      BY <1>1, <1>2, <3>1, AudioAssumption
    <3>4. After(sent' + Stamps, 1 - (Period - c)) = After(sent, c + 1)
      BY <1>1, <1>2, StampsFollow
    <3> QED BY <1>1, <3>2, <3>3, <3>4
  <2> QED BY <2>1, <2>2
<1>4. PlaysWhatWasMixed'
  BY <1>3 DEF PlaysWhatWasMixed
<1> QED
  BY <1>1, <1>4
     DEF AudioInv, MixerHasItsRing, OnePointer, RoomKept, SilentAtFirst, CopiedSoFar, Live

LEMMA CorePlaysKeeps ==
  ASSUME AudioInv, TypeOK', CorePlays
  PROVE  AudioInv'
<1>1. UNCHANGED <<hpc, tpc, localWr, wr, ring, sent, fresh, copied>>
  BY DEF CorePlays, mainVars, mixVars, history
<1>2. /\ Depth \in 1 .. Ring - 1 /\ Depth' = Depth - 1
      /\ \A k \in 0 .. Depth' - 1 : Advance(rd', k) = Advance(rd, k + 1)
  BY PlayDrains DEF AudioInv, PlaysWhatWasMixed
<1>3. PlaysWhatWasMixed'
  <2>1. ASSUME NEW k \in 0 .. Depth' - 1
        PROVE  /\ k + 1 \in 0 .. Depth - 1 /\ Depth' - k = Depth - (k + 1)
               /\ Advance(rd', k) = Advance(rd, k + 1)
    BY <1>2, AudioAssumption
  <2> QED
    BY <1>1, <2>1 DEF AudioInv, PlaysWhatWasMixed
<1>4. RoomKept'
  BY <1>1, <1>2, AudioAssumption DEF AudioInv, RoomKept, MaxUsed
<1> QED
  BY <1>1, <1>3, <1>4
     DEF AudioInv, MixerHasItsRing, OnePointer, SilentAtFirst, CopiedSoFar, Slot, Live

LEMMA AudioStep == AudioInv /\ [Next]_vars => AudioInv'
<1> SUFFICES ASSUME AudioInv, [Next]_vars PROVE AudioInv'
  OBVIOUS
<1>1. TypeOK'
  BY TypeKept DEF AudioInv, PlaysWhatWasMixed
<1> QED
  BY <1>1, QuietSteps, OpenKeeps, CopyKeeps, PublishKeeps, CorePlaysKeeps DEF Next, Mixer

-----------------------------------------------------------------------------
(* Theorems.                                                               *)

\* The driver's invariant: one pointer, room kept from the look to the write, and the
\* queue of the core intact.
THEOREM AudioInvariant == Spec => []AudioInv
<1> QED BY AudioInit, AudioStep, PTL DEF Spec

\* What the core plays next is what was mixed, in order and complete (_write, thread_func
\* and the core's drain, in any interleaving and across processes killed at any point).
THEOREM CorePlaysWhatWasMixed == Spec => []PlaysWhatWasMixed
<1>1. AudioInv => PlaysWhatWasMixed
  BY DEF AudioInv
<1> QED BY <1>1, AudioInvariant, PTL

\* Publishing a period lengthens the queue by exactly that period: the pointers never
\* meet, and no lap of sound is lost (the safety half of SoundGoesOn).
THEOREM PublishedPeriodsQueue == Spec => PeriodsQueued
<1>1. AudioInv /\ [Next]_vars
        => [localWr' # localWr /\ tpc = "copy" => Depth' = Depth + Period]_vars
  <2> SUFFICES ASSUME AudioInv, [Next]_vars, localWr' # localWr, tpc = "copy"
               PROVE  Depth' = Depth + Period
    OBVIOUS
  <2>1. CASE MixerPublishes
    BY <2>1, PublishQueues
  <2>2. CASE Open
    BY <2>2 DEF Open, AudioInv, MixerHasItsRing, Live
  <2>3. CASE ~MixerPublishes /\ ~Open
    BY <2>3
       DEF Next, Mixer, OpenPointer, StartMixing, Lock, Unlock, Finish, FinishJoin,
           FinishPointer, Exit, MixerExits, MixerPolls, MixerLocks, MixerMixed, MixerCopies,
           CorePlays, vars, mainVars, mixVars
  <2> QED BY <2>1, <2>2, <2>3
<1> QED BY <1>1, AudioInvariant, PTL DEF Spec, PeriodsQueued
=============================================================================
