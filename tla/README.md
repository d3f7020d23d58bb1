# Verification of the MiSTer fabric port

TLA+ models of the code that lets a Godot game draw through an FPGA blitter on
a MiSTer board, and of the scripts that build, drive and measure it: the frame
loop that hands command batches to the blitter, the texture cache and its
allocator, the rewriting of the draw stream, the engine's bridge, the bring-up
and teardown of the shared control block, the audio ring, the frame pacer, the
patcher of the engine's sources, the Vorbis stream it patches, the scripted
player, the debugger client and the scripts that read logs and traces.
TLC checks every module on small instances. TLAPS proves the safety of seventeen
of them for every value of their constants.

Paths below are relative to the repository. `RB` is
`src/vendor/mister/raster_backend_mfgpu.cpp`, `PATCH` is
`scripts/apply_godot_mister.py`.

To check one run: `tlc -config MCFabricSeam_safety.cfg MCFabricSeam`.
To check the proofs: `tlapm` on each of `FabricSeamProofs.tla`,
`FabricLifecycleProofs.tla`, `TexMemoryProofs.tla`, `TriCoverProofs.tla`,
`ScanoutPacingProofs.tla`, `DrawStreamProofs.tla`, `GodotSideProofs.tla`,
`ScriptProofs.tla`.
`PROJECT.json` lists the runs, the mutants (for each property a plausible
bug that breaks it), the source lines behind every definition, the findings and
the hazards.


## 1. The system

On the board two kinds of actors share uncached memory at fixed physical
addresses, with no lock and no interrupt: the ARM program (Godot, its audio
mixer thread, its worker pool) and the FPGA core (blitter, scanout, audio
player). The program polls. Beside it, scripts write the joystick word or talk
to the engine's debugger; off the board, scripts patch the sources of the engine and
read what a capture recorded.

| component | state | operations | talks to |
|---|---|---|---|
| submit seam, `RB` frame loop | arena in use, open frame, published batch and its sequence, drop run, publish depth, control words | frame begin, emit, frame end, publish barrier, await, publish | blitter through control block C0 (sequence, count, doorbell, acknowledgement) |
| command emitter, `vendor/mfgpu/host/blt_emitter.c` | ring, cursor, sequence, overflow flag | begin frame, emit, end frame | owned by the seam |
| texture residency, `RB` 2040-2560, 4186-4196 | cache slots with LRU stamps, page of each entry, floors of the last two frames | lookup, upload, stage, evict, invalidate | allocator; blitter through STAGE commands |
| source heap, `vendor/mfgpu/host/blt_alloc.c` | sorted list of free blocks, of fixed capacity | init, alloc, free, reset | texture residency |
| draw stream, `RB` 2270-3420, `mf_pending_clear.h` | open batch, deferred clear, current target, last draw | clear, draw, present, overlay | emitter |
| rasterizer rule, `refmodel/blt_tri.c` | none (a function) | which pixels a triangle writes | the cover proof of the draw stream |
| lifecycle, `RB` 1700-2040 | what the control block and both rings held when the process started, sequence base | wait for idle, clear, park, probe, retry, soft-fail, teardown | the same control block; earlier and later processes |
| audio driver, `godot/platform/linuxbsd/mister/audio_driver_mister.cpp` | ring, read and write pointers, mutex, flags of the mixer thread | init, start, lock, unlock, finish, the mixer loop | the core's audio player |
| pacing, `fabric/mister_fabric.cpp` | last counter seen, time of the last boundary, timer schedule, give-up flag | present with either pacer, change of mode | scanout counter; the seam publishes |
| engine bridge, `godot/drivers/gles3/mister_fabric_bridge.cpp` | a copy of every texture and its white variant, the clear of this frame | texture set and free, target clear, emit rect and polygon, present | fabric C ABI |
| tree patcher, `PATCH` | the engine's source tree | copy files, one anchored edit after the other, stop at a missing anchor | the tree an earlier run left |
| patched Vorbis stream, `PATCH` 203-450 | packet sequence, counted setup, decoded samples, decode task, reference count | load, play, drop, decode in the pool, destroy | worker pool; audio thread |
| scripted player, `scripts/stutter/joy_drive.py`, `scripts/joy_inject.py`, and the poll of `joypad_mister.cpp` | joystick word, last state line read, tap of the menu sequence | follow the log, tap, steer, clear; poll once a frame | the game through a DDR page; `run.sh` kills it |
| debugger profiler, `scripts/godot_dbg_profile.py` | signatures learnt | switch the profiler on, go on from breaks, name the functions of a frame | the game's debugger over TCP |
| frame log and analysis, `scripts/stutter/frames.py` | intervals of CPU0, frames of a capture | load trace, overlap, blame, windows | the bridge's frame records; perf |
| boot log, `mister_prof` and `scripts/boot/load_self.py`, `prof_phases.py` | nested scopes, booked times, lines | begin and end of loads, phases | the engine's loader |
| video writer, `native_video_writer.c` | two buffers, control word | write a frame, flip | scanout |
| GDScript name cache, effect pools, seam statistics, other scripts | local | | one thread |

What is hard here:

- The blitter may read the control words, the ring or the vertex arena while
  the program writes them. Nothing but the program's comparison of two counters
  keeps them apart.
- The blitter may be late or stop for ever. The program must neither block nor
  overwrite what may still be read, and must render again afterwards.
- Processes die at any instruction and leave a half-rung doorbell and old
  commands in memory that survives them. A terminating signal runs the teardown
  on whatever thread the kernel picks.
- Several optimisations (two-frame pins, deferred clears, duplicate elision,
  batching, cached variants) each hold only because of the order in which another
  one acts.
- The audio pointers and the scanout counter are moved by hardware between two
  reads of the same function.
- A stream is decoded by a pool thread while it is reloaded, played and
  dropped, and may be destroyed by the decode itself.
- The scripted player decides on a log line that is a frame old and presses
  later still; a press shorter than a frame is lost.
- The patcher runs on trees that other runs left, some of them killed half-way.
- The analysis scripts see only what was logged between two moments, with
  intervals open at both ends and lines written when things end.

`PROJECT.json` "hazards" gives each of these at the line where it bites.

What makes each part correct:

- seam: the blitter executes the batch that was published, or one that was
  given up on; one batch is in flight; the loop never stops rendering.
- residency: a draw samples the texture it names; no page of a pending draw is
  freed; every page is free, cached or pinned, exactly once.
- allocator: no byte in two hands, none lost unless the list is full.
- draw stream: the screen equals what an immediate painter would have drawn.
- bridge: the surface shows every texture as GL holds it, in every variant; a
  rect cut into cells writes what the whole one would.
- rasterizer: the triangles of a quad neither overlap nor leave a gap.
- lifecycle: nobody executes or believes what a dead process left.
- audio: what is played is what was mixed, in order; the ring starts empty.
- pacing: every frame published is displayed, none twice in one boundary.
- patcher: a run that finishes leaves the tree of one undisturbed run.
- Vorbis stream: no use after free, no leak, no play of former samples.
- player: it starts a game again, never pauses one, leaves no button pressed.
- debugger client: no thread stays in a break, each function has its own name.
- analysis: what is reported is what happened, to the tick, or within one frame for
  each frame whose counter was read late.


## 2. Modules

| module | models | of |
|---|---|---|
| `BatchHandoff` | abstract specification: offers answered in order or given up | |
| `FabricSeam` | frame loop, emitter, control block, blitter front end | `RB` 1490-1610, 2080-2270, 2950-3020, 3730-3760; `blt_emitter.c` |
| `TexResidency` | texture cache, pages, STAGE commands, two frames in flight | `RB` 2040-2560, 4186-4196 |
| `BltAlloc` | the free-list allocator | `blt_alloc.c` |
| `DrawStream` | the rewriting of clears and draws against an immediate painter | `RB` 2270-3420; `mf_pending_clear.h` |
| `FabricBridge` | textures from GL to the surface, the clear of a frame, elision | `mister_fabric_bridge.cpp`; `RB` |
| `TriCover` | top-left rule and cover test | `blt_tri.c`; `mf_pending_clear.h` |
| `RectSplit` | cells of a large rect, mirroring, snapping, rounding to the wire | `mister_fabric_bridge.cpp`; `raster_backend_convert.h` |
| `FabricLifecycle` | bring-up, probe, frames, teardown, restarts | `RB` 1700-2040, 3744 |
| `AudioRing` | mixer thread, main thread, player | `audio_driver_mister.cpp` |
| `ScanoutPacing` | both pacers, scanout, change of mode | `mister_fabric.cpp` |
| `TreePatch`, `GodotEdits` | the patcher; the list of its edits | `PATCH` |
| `OggPcmCache` | the patched stream, its setups, cache and decode task | `PATCH` |
| `JoyDrive` | scripted players, poll, end of a capture | `joy_drive.py`, `joy_inject.py`, `joypad_mister.cpp`, `run.sh` |
| `DebugProfiler` | the message loop of the debugger client | `godot_dbg_profile.py` |
| `Cpu0Trace`, `FrameCapture` | intervals and blame; windows of frames | `frames.py` |
| `BootLog` | scopes and lines of the boot log, its two readers | `mister_prof.cpp` and edits in `PATCH`; `load_self.py`, `prof_phases.py` |
| `FabricSeamProofs`, `FabricLifecycleProofs`, `TriCoverProofs`, `ScanoutPacingProofs`, `DrawStreamProofs` | proofs about the module each is named for, `TriCoverProofs` about `RectSplit` too | |
| `TexMemoryProofs` | proofs about `TexResidency` and `BltAlloc` | |
| `GodotSideProofs` | proofs about `FabricBridge`, `OggPcmCache` and `AudioRing`, which share no state | |
| `ScriptProofs` | proofs about `JoyDrive`, `TreePatch`, `DebugProfiler`, `FrameCapture`, `BootLog` and `Cpu0Trace`, which share no state | |

Each `MC<module>` extends its module and gives the constants that a `.cfg`
cannot write (sets of records, symmetry). Some of them put several modules
side by side: `MCTexResidency` the cache and the allocator, `MCDrawStream` the
draw stream and the bridge, `MCBesideGame` the player, the debugger client and
the Vorbis stream, `MCOffline` the patcher and the three readers of logs. There
a variable chosen in the initial state says which one a behaviour runs, and the
others stay where they begin. That composes nothing (their state spaces add up,
they do not multiply); it is one run for components that share no state.

Definitions commented "a mutant" are wrong variants of the definition below
them; nothing in the specification uses them.

### FabricSeam

`hpc` is where the frame loop stands, `fpc` where the blitter stands. A frame is
`FrameBeginBuild`, some `Emit`, `FrameEnd`; then `BarrierFree`, or
`BarrierAwait`/`BarrierSkipAwait` and `Resolve*`; then `PublishWords`,
`PublishSel`, `PublishDoorbell`, one step for each store of the control block
that the blitter can see on its own. The blitter notices the doorbell, latches
the words one by one, executes a command per step from the ring it finds then,
and acknowledges.

`ring[a]` holds the command slots of arena `a`, each tagged with the frame that
wrote it, so that "executed a slot of another frame" is visible. What a command
does is abstracted away. Sequences are taken modulo `SeqMod`: with `Wrap`
TRUE they wrap as the 32-bit counter does, with FALSE the model ends before.
`Commands` bounds what a frame emits and `RingCap` the ring; a frame longer than
the ring overflows, as in `blt_emitter.c`.

Left out: the escape hatches read from the environment for tests, the
statistics (`mf_seam_stat.h`), and the CRT strip.

### TexResidency

`cache` is `g_texcache`, with the least-recently-used stamp and the page of each
entry; `Init` picks how many slots it has, from `SlotCounts`. A frame builds a
ring of STAGE and draw commands while the frame before it may be with the
blitter. `sdram` is what a page holds as far as the blitter knows. A draw is
right when the page it samples was staged with the texture, in the version, that
the draw named. Every texture needs one page of one size. `MaxClock` bounds the
frames, `MaxVer` the versions. A texture may be changed or
deleted at any moment (`InvalidateTex`); the bridge does so between frames, with the
last batch still in flight. Whatever draw of it is pending, its page is free at once. A draw that named the version before is then `Stale`, and
the properties say of it only that it hurts no other texture's.

### BltAlloc

Addresses are real, the list is a sequence of records in address order, one
action for a call of each function. `MaxFree` is the capacity of the free list.
History: `leaked` holds the blocks that `blt_free` could not enter.

### DrawStream

A draw is a record of its target, texture, blend and what it covers; a surface
is the sequence of layers painted on it since it was last fully covered.
`FramesShowWhatWasDrawn` compares, at each present, the executed stream
with an immediate painter that executes each call as it comes. Emission never
fails here; that is the seam's concern. A premultiplied blend, which the
fabric does not support (`mister_fabric.h` 26), is drawn by the software rasterizer
on a surface nobody scans out (`SoftwareDraw`): it is dropped, and the pictures
compared are those without it.

### FabricBridge

`gl` is the book GL keeps: the image uploaded last under a name. `textures` is
the bridge's own map (`rgba`, and `white` as long as a flashing draw has made
it), `texcache` the backend's staged copies under the keys the bridge derives from a
name, with and without `FLASH_BIT`. `surface` is what a texture's place shows,
`asked` what GL would show there. Two viewports draw on the one surface, and
only the first clears it. The game's own composite of the SubViewport, the first
draw of the root viewport, is skipped (`CompositeSkipped`); a draw of a texture
the bridge does not have is not made (`DrawMissing`); a premultiplied one is made
and dropped by the backend (`DrawUnsupported`), and is not part of what is asked. A
compressed image (`Packed`) reaches GL alone: the bridge keeps the copy it had.
Where GL would show such an image the property says nothing, as no copy of it exists.
A draw that equals the one before it is elided, also
across viewports; one into a dropped frame is lost. Uploads come between frames,
where the engine makes them. An image stands for its size too.

Left out: copied polygons (a map from an id that is never reused to data that
never changes), draws without a texture, frames that overflow in the middle, the
other blend modes, the statistics.

### TriCover and RectSplit

`Edge` and `TopLeft` are those of `blt_raster_tri`, `One` is the sub-pixel
scale, `IsCover` is `mf_pc_is_cover`. A behaviour draws two triangles
and counts the hits on each pixel. Texel fetches and interpolation are left out.

`RectSplit` extends `TriCover`, so that a rect of the canvas goes all the way to
pixels: `Cells` and `Corner` are the cutting, mirroring and snapping of
`emit_rect`, `Wire` is the rounding of `rbc_lroundf`, half away from zero, and
`CellTris` the two triangles of a cell. Positions are exact fractions (`Fine`
positions to a sub-pixel unit, and a numerator over the number of cells), where the
code has floats. The clip to the guard band and texture coordinates are left out.

### FabricLifecycle

Processes run one after the other on one control block. `Start` finds whatever
the last one left. `Kill` may happen anywhere, also in the middle of a bring-up
or a publish. `TeardownCall` and `TeardownSignal` are the ways into the
teardown on the main thread: the signal stops the loop where it is. `TeardownBeside`
is the signal on another thread, as the kernel may choose: `other` says where
that handler is while the frame loop goes on, and `At`/`GoTo` let both run the
same steps. A ring's contents are abstracted to whose frame they are. A wait or a
probe may run out of its budget at any time (`OutOfTime`).

`astray` remembers, across processes, that a budget ran out or that a handler began
beside a frame that had already passed its check of the shutdown flag. Some
properties hold only as long as neither has happened, and say so.

### AudioRing

The mixer thread's loop, the main thread's calls and the player interleave
access by access where the order matters: `init` and `finish` read the pointer
of the player and store their own in two steps; the mixer copies a period and
publishes it in two steps. Samples are stamps, numbered in the order mixed,
modulo more than two ring lengths, so that an old frame cannot pass for a new one.
Each process picks its target depth from `Targets`, as the environment variables
of the driver let it.
`Exit` kills the process at any point and the next one finds the ring as it is.

### ScanoutPacing

Time counts in ticks. A program step takes no time; only naps, work and the
blitter do. A process has mapped the fabric's window or has not (`mapped`, chosen by
`Init`); without it the counter cannot be read (`ObserveFails`), nothing is
published and nothing is paced. `present` is a poll loop over a counter that the core advances each
`Period`. A frame published before the boundary by at least the blitter's time
is latched by that boundary, unless another overdraws it first. Simplifications:
the counter and the clock are read at one instant, the publish and the
observation that follows it are one step, the period reported by the core
is exact, and one poll is a tick (coarser, relative to the period, than the
real poll). `since` (publishes since the last boundary) counts to three. The mode
changes just before a present, which is when it is next read.

Two assumptions on the constants are needed by the code, not by the model alone.
`StallAssumption`: the stall budget is at least a margin and a period; the code's are
50 ms against 3 ms and 16.7 ms, and only a very large `MISTER_FABRIC_MARGIN_US`
breaks it. `WrapAssumption`: the clock stops before the counter is half way round, so
that the signed difference of two readings is their true one; half of the 32-bit
counter is more than a year of play.

### TreePatch and GodotEdits

`GodotEdits` is the list of all `edit` calls in the order of the script. A file
is the set of the pieces of text that some edit looks for: anchors, markers,
text a later edit is anchored on, and `Ending`, what comes after the last of
them. `Insert`, `Replace` and `With` say which pieces an edit adds and takes
away. `TreePatch` takes any such list: copies, then one edit after the other,
each skipped (`AlreadyApplied`), refused (`AnchorNotFound`) or written in two
steps (`Truncate`, `Patched`), so that a kill finds the file empty or cut
off. `RunAgain` starts the script on whatever is there; `MaxRuns` bounds how
often. `torn` remembers the edited files that were killed in a write.

### OggPcmCache

One stream. `mpc` is the main thread in `set_packet_sequence`, `wpc` the pool
thread in `_pcm_task`; each step between two of their accesses to shared fields
is an action. `refs` counts the stream, `setupRefs` each setup; a playback
streams (and holds both) or plays the cache. `Destroy(t)` is the destructor on
the thread that let the last reference go, which may be the decode task's own.
`Slots` bounds the playbacks at a time, `MaxLoads` the sequences set.
Decodes succeed: a broken clip is left out.

### JoyDrive

`dpc` is where the script is, `word` the joystick word, `pad` what the engine polled
last, `logged` the last STATE line. The game is external: menus in which OK or
start leads on, an intro of at least `IntroFrames`, play, short states between.
`Frame` polls, logs and moves the game. A look at the log and the press after it
span at most one frame (`late`); a press may be over before the next frame. `EndCapture` and
`ClearWord` are `run.sh`. Random choices are nondeterministic. Left out: the
rotation of the log.

### DebugProfiler

`toTool` and `toGame` are the connection, one queue to the script and one to
each thread of the game. The game is external: it breaks on any thread, numbers
its functions anew when the profiler is switched on, and may leave the profiler
off after a break. `Named` walks the flat array of a profile frame as
`parse_frame` does. The codec of engine values is left out: a message that
cannot be decoded is one kind of message.

### Cpu0Trace, FrameCapture, BootLog

Each runs what is logged tick by tick, with the truth in history variables, and
states what the script makes of the log as operators:
`LoadCpu0` (a fold over the lines), `Overlap` and `Cause` of `frames.py` over a
trace that begins and ends anywhere; its `WindowStarts`, `SlidingCounts` and `DisplayedIn`
over frame records whose scanout counter is read some time after the publish; `LoadSelf`
of `load_self.py` and `Other` of `prof_phases.py` over the boot log. Percentiles,
tables and argument parsing are left out.


## 3. What the runs check

Each property named here includes the type invariant of its module where the
module has one and no other property does. Deadlock is checked for
`tex_game`, `audio_play` and `seam_wrap`. The other configurations say in a
comment why the model may stop (a counter at its bound, the last process gone,
a game that quits).

### Seam

- `seam_safety`: one ordinary command besides the end command, a ring of two, which
  longer frames overflow, a drop limit of 1 or 2 (`Init` picks it from
  `DropLimits`), six sequences. Six frames suffice for two full drop runs with a
  reclaim, a late answer to the abandoned batch, and frames after it. The blitter
  may stop for ever.
  `ExecutesItsOwnBatch`, `ControlBlockQuiet`, `OneBatchInFlight`,
  `OneBlockingAwaitPerBatch`, `WedgeSettlesAtFrameBegin`,
  `ReclaimOnlyAfterFullRun`, the refinement `ImplementsHandoff`.
- `seam_wrap`: drop limit 1, at which the reclaim at the barrier can be reached
  (see section 6), or 3, at which two frames in a row are dropped before a reclaim,
  and a sequence that wraps after three. A drop that is not counted would leave the
  run below its limit for ever; the code's limit, 60, only makes the run longer.
  `FramesKeepComing`:
  whatever the blitter does, the loop reaches the doorbell again and again, as
  long as the program goes on making frames. `EveryDoorbellAnswered`: a blitter that
  runs answers every doorbell, or its batch was given up; weak fairness of the
  blitter is an assumption inside that property, not of the specification.

Fairness (`WedgedSpec`): weak fairness of the steps of the frame loop, a
sequential program that never blocks, and of its `FrameEnd`; strong fairness of a
frame that fits, because a game does not overflow the ring in every frame. None
of the blitter.

### Residency and allocator

- `tex_game`, in a behaviour of the cache: three textures, two pages, one slot or
  three, so that the slots or the pages run out. A ring of four takes two textures
  with their STAGEs, or overflows; four frames are one more than the two-frame pin
  and its release. One change of a texture, at any
  moment. `HeapAccounted`, `FlightPagesPinned`,
  `DrawsSampleUnlessStageLost`. In a behaviour of the allocator: seven units of 8
  bytes, a list of three, allocations of four sizes, frees in any order,
  resets. `HeapConserved` (the list is sorted and coalesced, and with what is
  out and what was lost covers the region once), `FreeListSuffices` (room is
  found where there is some, and the list needs no more entries than there are blocks
  out, plus one). Three separated free blocks fill the list, and `blt_free` loses
  a fourth.
- `tex_loststage`: finding.

Three textures are enough because an eviction looks at one victim at a time; a
fourth adds no new relation between the victim, the page and the two frames in
flight. The keys are symmetric: the code compares them only for equality.

### Draw stream, bridge and rasterizer

- `stream_game`, in a behaviour of the draw stream: draws on an application
  surface that is then composited to the screen, and draws on the screen as this
  port makes them, with the FPS overlay; up to four operations. Four are enough
  for a clear, two draws and a present, or a present and a second frame that
  repeats the first one's draw. `FramesShowWhatWasDrawn`, which also says that
  nothing is lost in flight. In a behaviour of the bridge: two names, three images, one
  of them compressed, frames without bound. A name interacts with another only through the last draw and the one
  surface, an image with another only as old and new. `SurfaceShowsWhatGLWould`.
- `tri_quads`: every pair of triangles with corners among nine points of a 2x2
  target: its corners, points on pixel centres, and points that overhang it on
  the left, so that edges pass through and between centres.
  `QuadsWriteNoPixelTwice`, `QuadsLeaveNoGap`, `CoverWritesEveryPixel`. And every
  rect, mirrored or not, snapped or not, whose sides begin at one of five positions
  in and left of the target and have one of six lengths, from less than a
  pixel to more than the three cells of two pixels that an axis may be cut
  into; two positions to a sub-pixel unit, so that corners are rounded
  both ways. `SplitDrawsTheRect`.
- `tri_edges`: finding.

### Lifecycle

- `life_restart`: two processes, three frames each, two bring-up attempts, killed
  or signalled anywhere, on either thread, budgets that may run out. The first
  process already finds junk in the rings and a half-rung doorbell (`Init`), so
  that two processes give three generations. `RunsOnlyItsBatch` (that no dead
  process's command is executed, always; that only the published batch is, until
  a step goes astray), `AckMeansExecutedInTime` and `ParkedStaysIdle` (until
  then); `HandshakeCompletes`, under weak fairness of the process and of the
  blitter and none of running out of time: bring-up then ends with an
  acknowledgement, a soft failure or the end of the process.

### Audio

- `audio_play`: ring 7, period 2, target depth 3, or 9, deeper than the ring,
  which two environment variables can select. The ring is three periods and one
  frame, so that a period wraps at every offset. Processes are opened, killed,
  finished and opened again without bound. `PlaysWhatWasMixed`;
  `SoundGoesOn` (a published period joins what is still to be played, periods keep
  coming, and `finish` returns) under weak fairness of the mixer thread, of the player, of the join and
  of the main thread's unlock, and strong fairness of the mixer's lock: the main
  thread may take the mutex again and again, but not so that the mixer never gets it.

### Pacing

- `pace_game`: work that is short, just over one period and over two, naps up
  to more than the stall budget, changes of mode, a counter that wraps at 16 and
  may stop, with and without the fabric's window. `TimedFramesShown` speaks of frames whose reference was late by no
  more than the margin less the blitter's time; the first frame after a cold start
  has no such reference and may be lost. `NeverTwiceInABoundary`,
  `FallsBackOnlyWhenStalled`. The horizon is six periods: enough for several
  frames, one stall and the frames after it.

### Beside the game

- `beside_run`. The player: both scripts, `joy_inject.py` with a script that
  starts a game, a word a killed script left, an intro of one frame, which is the
  shortest and so the most likely to be paused; it runs without bound.
  `NeverPausesAGame`; `DrivenPlayResumes` (a game over is started again; a killed
  capture leaves no button pressed) under `JoyFairness`: frames, the script, its
  sleeps and `run.sh` go on, and strong fairness of a frame that falls inside a
  press of a button: a frame may be longer than a press, but not for ever at each
  of them. The debugger: two functions, two threads, two frames, two breaks, one
  other message; two of each are enough for a numbering and its successor
  under way at once and for two threads in a break. `FramesAreNamed`;
  `DebuggedGameGoesOn` under weak fairness of delivery. The stream: two
  playbacks, two loads, every setting of the switches: a former and a current
  sequence, with a streaming playback of each. `PcmIsLiveAndCurrent`;
  `LoadsReturnAndMemoryReturns` under weak fairness of the main thread in a load,
  of the pool and of a destructor. Nobody has to load, play or drop.

### Off line

- `offline_run`. The patcher with the whole edit list, two runs, killed anywhere:
  `FinishedTreeIsFresh`, `NoEditTwice`. Two runs are enough for those properties to be
  broken; the proof below has no bound. The trace: four tasks, two of
  them under one name in the report or not, four ticks, four events:
  `AttributionIsTrue` (sums are exact and a verdict is earned) for every window
  over every such trace; four events make an interval open at either end and an
  interrupt across a switch. The capture: four ticks, five scanout
  periods, windows of three: `WindowsCountRight`. In a window of three periods a count
  can be wrong by two, which one of two periods cannot show. The boot log: one loading thread,
  four ticks, three loads or scopes, two phases, depth three: `BootTimesAddUp`.


## 4. What is proved

`FabricSeamProofs`, for every `Commands`, `RingCap`, `DropLimits` and `SeqMod`
that satisfy `SeamAssumption`, as long as the sequence does not wrap (`Wrap`
FALSE; 2^32 frames are two years of play at 60 Hz; wrapping is left to
`seam_wrap`):

- `TypesHold`, then `SeamInvariant`: `Spec => []SeamInv`.
- From it `FabricExecutesItsOwnBatch`, `ControlBlockStaysQuiet`,
  `AtMostOneBatchInFlight`, `AwaitsOncePerBatch`, `WedgesSettleAtFrameBegin`,
  `ReclaimsOnlyAfterFullRun`.
- `SeamImplementsHandoff`: `Spec => Handoff!HandoffSpec`.

None of these is inductive on its own. That the blitter executes its own batch
depends on which arena the host builds in, that on whether a batch is in flight,
and that on the order of three sequences. `SeamInv` is the conjunction of

- `HostControl`: what each point of the frame loop implies about the frame;
- `SequenceOrder`: acknowledged, published and emitter sequence in order;
- `BatchStatus`: a batch that is not pending was answered or given up;
- `DropAccounting`: the drop run is below its limit and counts this batch;
- `ArenaContents`: the ring of the batch in flight holds that batch, the ring
  under construction only the new one;
- `Latched`: what the blitter has latched so far is what was published.

`TypeOK` is proved first, then each conjunct for each action relative to it.

`FabricLifecycleProofs`, for any number of processes (`MaxLives`), frames
(`MaxFrames`) and bring-up attempts (`Tries`), with the teardown from a call,
from a signal, and beside the frame loop: `LifeInvariant`, and from it
`FabricRunsOnlyItsBatch`, `AckedMeansExecuted`, `ParkedIsIdle`. `LifeInv` is
`TypeOK` and

- `Control`: where a handler may stand beside the frame loop, and that nothing
  parked is parked again;
- `RingsAreOwn`: past the clear of bring-up, both rings are zero or this
  process's own;
- unless a wait has run out (`astray`): `FabricTracks` (the words stand still
  under a fabric that has not answered), `QuietWhileParking` (bring-up and
  teardown write only after the answer), `SequencesRise`, `PublishesInTurn` and
  `BatchInFlight` (of the frame loop: what is built, what is half published, what
  the fabric owes), `StaysParked` (a teardown ends publishing).

The three theorems are about the fabric's latch and the acknowledgement; what
carries them from one step to the next is who may write the words when, and
across a kill that is only what bring-up waits for.

`TexMemoryProofs`, for any number of textures, slots, pages, ring entries and
touches, with textures changed and deleted at any moment. `PagesAccounted`:
`Spec => []HeapAccounted`; `ResidencyInvariant`, and from it `PendingPagesPinned` and
`DrawsSampleOrLost`. Both speak of the textures of a command that the game has left
alone since, texel by texel; section 5 shows what happens to a draw of one that it has
not. The invariant has three layers, each proved relative to those before it:

- `HeapInv`: types, where a batch ends, and `PagesOwned` (each page free or with one
  owner). An upload, an eviction and the undoing of an upload each move an owner.
- `PinInv`: every command of the two frames is `Held`: for each of its textures that
  is not `Stale`, its page belongs to an entry touched since the floor of its frame,
  with the texels the command was issued for. An action keeps this up (`HeldOn`) if
  it spares the pages so kept (`Spares`); an invalidation does not spare its own
  page, but makes stale whatever was held there.
  Which floor is that of the batch in flight depends on its arena (`FlightFloor`),
  so `BuiltApart` is needed: a frame is built in the other arena. An upload takes only
  free pages and those of entries older than both floors (`UploadGoes`), so it
  spares what is held.
- `CopyInv`: the SDRAM copy of a cached page is up to date, lost, or its STAGE is
  still to come in the batch in flight or the ring being built (`CopyComes`), and
  before the draws that need it, those with a texture left alone (`Live`;
  `FlightInOrder`, `RingInOrder`).

That a page and a slot are
chosen at all (`Least`) rests on the library's theorem that the order of the naturals is
well-founded.

The allocator (in `TexMemoryProofs`), for every region, alignment, capacity of the array and
set of sizes of `AllocAssumption`: `RegionCutUp` (`AllocSpec => []AllocInv`), and from it `HeapIsConserved`:
`AllocSpec => []HeapConserved`, and `FreeListIsEnough`: `AllocSpec => []FreeListSuffices`.
`HeapConserved` does not carry itself: that the bytes add up says nothing of where
they are, and that blocks are apart does not say that they cover the region.

- `Partition` says both: the free blocks and those that are out are aligned, apart,
  cover every byte of the region, and their sizes add up to it. `Split` and `Join` are
  the two ways a partition becomes another; an exact fit, an insertion and a lost block
  leave it and only move a block from one side to the other.
- `Sorted` is the array: in order, and no two blocks touch. Each change of the array
  (`Without`, `Insert`, a replaced entry) has a lemma on its positions and one
  on its set of blocks; the four ways of `blt_free` are a lemma each, the joining on
  both sides two `Join`s.
- Since no two free blocks touch, the byte after a free block is out (`NextIsOut`).
  So a run of free bytes lies in one block (`RoomIsFound`), and of the free blocks all but
  the last have a block of their own behind them that is out (`FragmentsBounded`, an injection).

The number of bytes is a sum over a set (`MapThenSumSet`), in the order of `CHOOSE`.
That the recursive function behind it exists, and that the sum of one block more is its
size more in whatever order (`BytesAddOne`), is by a set of least size for which it would fail.

`GodotSideProofs` has three parts. The bridge, for all names and images: `BridgeInvariant`, and from it
`ShowsWhatGLWould`: `BridgeSpec => []SurfaceShowsWhatGLWould`. That the surface
is right after a draw needs `CopiesAreCurrent` (the bridge's copy of a name whose
image is not compressed is that image, and the white variant and the cached pages,
in either variant, are made from the bridge's copy, whatever it is); that an
elided draw loses nothing needs `LastDrawShown`; that the SubViewport's
picture survives needs `OnlyFirstClears`.

The Vorbis stream, for every number of playbacks and loads: `OggInvariant`, and
from it `PlaysAreLiveAndCurrent`: `OggSpec => []PcmIsLiveAndCurrent`. "Not used
after it was freed" is not inductive, since a count says nothing of who holds it:
`RefsCounted` and `SetupsCounted` equate both counts with the number of their
holders (owner, playbacks, decode task, its playback), `DiesLast` says that the
destructor comes after the last of them, `TaskApart` what the waits guarantee of
a running task, `CacheInTime` when a cache may be offered, `SetupsAreFormer` that
no one holds a setup yet to come. The counts are cardinalities, handled with the
library's theorems on finite sets.

The audio driver, for every ring, period, set of targets and stamp count of
`AudioAssumption`: `AudioInvariant`, and from it `CorePlaysWhatWasMixed` and
`PublishedPeriodsQueue`, the safety half of `SoundGoesOn` (`PeriodsQueued`). The mixer looks at the depth once and writes a
period later, with the player moving all the time. What carries the look to the write is
that only the player moves `rd`, and only towards `wr`: room once seen is kept
(`AudioInv`), also while the frames go into the ring one by one behind the
published pointer. The rest is arithmetic of positions modulo the ring: two offsets of
less than a lap are two frames (`OffsetsApart`).

`ScriptProofs` has six parts. The scripted player, for every length of the intro and every script:
`PlayerInvariant`, and `PlayerNeverPauses`: `JoySpec => []NeverPausesAGame`. The
invariant bounds how far the game can have come since each thing the script
believes: the line (`LineIsRecent`), the look (`LookIsRecent`), the press
(`StartComesEarly`).

The tree patcher, for every list of edits in which an edit adds its marker and
none takes away a marker of its file (`EditsAssumption`, which TLC evaluates on
the real list), and any number of runs: `PatchInvariant`; `EveryEditInItsFile`: a
finished run leaves every edit in its file unless it was torn; and
`NothingInsertedTwice`: `PatchSpec => NoEditTwice`. The invariant is
`MarkersStay`, for the edits made and those the run is past, and
`WritesWhatIsMissing`. `FinishedTreesAreFresh`: `PatchSpec => []FinishedTreeIsFresh`.
Between two writes the edited files are what the first `m` edits of an undisturbed
run leave, for some `m`, and the run is not past edit `m + 1` (`FreshAt`): the
edits behind `m` are skipped, for their markers are there (`FreshHasMarkers`), and
the next is made or skipped as the first time. That each edit was made
once needs `OwnMarkers` too: no stock file and no earlier edit's text has its
marker (again an assumption that TLC evaluates on the real list).

The debugger's client, for every finite set of functions, every set of
threads and all bounds: `FramesKeepTheirNames`: `DebugSpec => []FramesAreNamed`. Two facts
carry it. The ids `parse_frame` reads out of the flat array are those the game put there,
whichever of the two lists of servers comes before them (`ReadsTheIds`, with `WordsAre` for
the five words of a function and `StepsOver` for the servers). And the invariant
(`DebugInv`) looks at the connection from the script's end: the name an id has at a
message is the last one signed before it, under way or already taken in (`KnownIn`); with
it every frame under way will be named right when it is read (`WillBeNamed`), and what
the script knows behind the last message is the game's numbering of now
(`Agree`). A new numbering signs its ids again behind all frames of the former one.

The windows of frames, for every length of a second, frame rate, number of boundaries and
capture of `CaptureAssumption`: `WindowsAreCountedRight`: `CaptureSpec =>
[]WindowsCountRight`. `CaptureInv` ties the records to the boundaries: each frame was published
before its counter was read, the next one after, and a boundary shows something new exactly if
a frame was published between it and the one before (`ShowsThePublished`). `frames.py` places a
frame at the boundary after the counter it read. So the boundaries it counts and the real ones
can be paired by their frames, and a pair differs only if that counter was read late; what
falls in or out at the two ends of a window is at most one boundary for each such frame
(`LateFramesOnly`, by the library's theorems on cardinalities). The sliding window is a
statement about the records alone (`SlidingWindowsSuffice`).

The boot log, for any number of loads, phases and scopes and any depth. `PhaseReportAddsUp`:
`BootSpec => [](BootTypeOK /\ PhasesAddUp)`, for any set of loading threads.
`BootReportsAddUp`: `Loaders = {"main"} => (BootSpec => []BootTimesAddUp)`. The hypothesis is
the game's: it loads on no other thread (`PLAN.md` 931; a loading thread was tried and
dropped, `PLAN.md` 1126). `load_self.py` keeps one sum per depth and would mix those of two threads.

- `ScopesAdd`: at every height of the stack of scopes, what has been booked since a scope was
  opened is the time of the scopes that ended within it. What is left of the clock (`IdleTime`)
  is then the time outside all scopes, and `IdleByPhase`, `EndsLogged` and `DumpsLogged` say
  that the dump after a phase holds that time for the phases so far: differences of
  dumps are times of phases.
- `LoadsOpen`, `LoadsLogged` and `LoadsNest`: which scope is that of which open load, and that
  the dump at a cut belongs to the load it is named for.
- `SelfRead`, about what `load_self.py` has read when it has read the whole log so far: what is
  pending one below an open load is the time of the ended loads within it, nothing is pending
  below the innermost, and the time a load was the innermost is what is left of it.

`load_self.py` is a fold over the lines; that one more line is one more step of it
(`ReadOneMore`) is by the same argument as in the draw stream.

The trace of CPU0, for every finite set of tasks of `TraceAssumption`, every trace and every
window: `ReportsAreTrue`: `TraceSpec => []AttributionIsTrue`.

- `overlap()` of any intervals in succession counts the ticks of the window that lie in one of
  the key (`OverlapCounts`): the search by halves says how many intervals begin before the
  window (`BisectCounts`), the interval the window begins in is the last of those, the loop
  leaves out nothing (`TakesThose`), and a sum over sets that are apart is the size of their
  union (`SumOfApart`).
- What `load_cpu0` has read so far (`TraceInv`). Of tasks: its intervals lie end to end, each of
  the task that ran, and the task of the last switch has run since (`TasksRead`). Of interrupts:
  each interval is of one that was being handled, a tick of one that was handled is in an
  interval, in what is open, or has no entry before it in the trace (`TakenFound`), and as long
  as none came during another, the intervals are in succession (`Unnested`).
- A window within the trace is then divided among the tasks (`TaskTimeIs`), and a covered one's
  interrupts are all in intervals (`IrqTimeIs`). The blame is arithmetic of these sizes
  (`BlameIsRight`): what main, idle and the others took add up to the window
  (`TicksAreShared`), and the largest share is not zero when the sum is not.

`TraceAssumption` has it that no task has the name of a verdict; the report writes a task's name
behind `preempted:`, which keeps them apart.

`DrawStreamProofs`, for every set of draws and colours, batch size and number of
operations of `StreamAssumption`, with the batch and the deferral each on or off:
`StreamInvariant`, and from it `NoPixelChanges`:
`Spec => []FramesShowWhatWasDrawn`. The hypothesis, `WholeClears`, is that a game
that clears in part does not run with deferred clears (the run's configuration, and
this port: section 6).

- `Amounts` says what a state of the emitter is worth: the ring
  as the fabric executes it, then the open command over the run of vertices it names,
  then the deferred clears over both. Each rewrite has a lemma of its own that says
  what it does to that value: flushing, selecting a target and discharging a
  clear leave it as it is, a group, in its own command (`UnbatchedDraw`) or in
  the open one (`BatchedDraw`), adds one layer to one surface (`Painted`).
- The invariant is that in a frame the emitter amounts to what painting each operation
  at once has left (`intended`). Beside it stands that painting the last
  draw again would leave `intended` as it is, which is what makes its elision
  invisible (`DrawnTwice`: a layer that copies, or copies behind a colorkey, is not
  seen twice, provided the draw does not sample the surface it paints).
- A clear is dropped under a covering draw because a full opaque layer leaves the
  same surface whatever was below. A draw that samples the application surface needs that
  surface's clear painted before it, in the list as well as in a command of its own.

The ring and the groups under a header are folds (`FoldLeft` of the community modules),
over lists of any length. What an appended command does to a fold is `FoldAppended`:
a fold's value is a function over sets of positions; that the function exists, and
that two lists agree as far as their elements do, is by the least position at which it
would fail (`Smallest`).

`TriCoverProofs`, for every target size, scale and set of points:

- `HitsAreCounted`: the counters are the numbers of triangles that write a pixel.
- `QuadsHaveNoSeam`: `Spec => []QuadsWriteNoPixelTwice`. The edge function
  changes its sign with the direction of the edge; of two opposite directions
  only one is top-left; so a centre on the common edge belongs to one side.
- `QuadsHaveNoGap`: `Spec => []QuadsLeaveNoGap`. A centre strictly inside a triangle
  is written by it, bounding box and orientation included. For a centre between the
  ends of the common edge the three edge values of a triangle add up to its area,
  and the two other values are positive; the common edge itself is claimed by
  one of the two sides.
- `CoversAreComplete`: for a mesh, `Spec => []CoverWritesEveryPixel`. Four corners
  that overhang the target put every centre strictly inside all four sides of their
  quad (`WalkedSides`), and either diagonal leaves a centre on one side, on the
  other, or between its ends (`DiagonalSplits`). `Mesh` is what the run assumes too:
  for loose triangles the property is false (section 5).
- `RectsAreDrawnWhole`: for `RectSplit`, `SplitSpec => []SplitDrawsTheRect`, for every screen,
  rect and cell size. The lines between cells keep their order when they are snapped and rounded
  to the wire, and the first and the last are the rect's own sides, so a centre between these has
  one cell per axis (`OneCellHasIt`); a cell the bridge leaves out as off the screen has no centre
  of the target (`OffScreenIsEmpty`); and the two triangles of a cell have each of its centres
  once, by the side of the diagonal it is on (`CellIsShared`).

`ScanoutPacingProofs`, for every period, margin, stall budget, set of naps and works,
counter width and horizon of the three assumptions: `PaceInvariant`, and from it
`OnePublishPerBoundary`, `TimedFramesAreShown`, `FallsBackFromAStoppedCounter`. The
pacer knows a boundary by its number modulo the counter's width. `At(b)` is the
time at which boundary number `b` happens; while the core counts it does not move,
though the count and the last boundary both do, and across a wrap. In terms of
it the invariant says

- `RefTrue`: the reference time is not before its boundary and not in the future;
- `GoalTrue`: the target is ahead of the reference, at most a margin and a period
  from where the wait began, and a frame published for it was done before it.

The first makes a target late enough for a frame to be seen, the second early enough for a
live counter to reach it within the stall budget.

Only model-checked: every liveness property (the prover does not treat `ENABLED`).
Every invariant and every other action property of a passing run is the
statement of a theorem. The library's induction theorems take a predicate as a
parameter, which the installed provers cannot instantiate; a least counterexample
stands in for them where a fold had to be reasoned about (the list of the draw stream,
the byte counts of the allocator, the fresh tree of the patcher, the flat array of the
debugger, the readers of the boot log and of the trace, their sums and the search by halves).

## 5. What disagrees with the code's own words

Two runs are expected to find a violation; `PROJECT.json` "findings" quotes the
comment each contradicts.

| run | what happens |
|---|---|
| `tex_loststage` | a page is cached when its STAGE is in the ring; a frame dropped afterwards loses the STAGE and keeps the cache entry |
| `tri_edges` | the rule that calls itself top-left (`blt_tri.c` 33) gives a pixel centre on a side of a rect to the rect on its left. The trace is of one rect whose sides are apart on the wire and both on pixel centres: it leaves out the pixel on its left side and writes the one on its right. In general the sides it treats as inside are the right and the bottom ones. Quads still meet without overlap or gap |

More configurations each show one behaviour that a passing run excludes by a
constant or by a condition of its property. They are kept to be run by hand; each
ends with the counterexample.

| configuration | property | what happens |
|---|---|---|
| `MCFabricLifecycle_latebatch` | `AckMeansExecuted` | after a soft-failed probe the first batch has the probe's sequence and takes its late answer; or a handler on another thread parks the block between the words of a publish |
| `MCAudioRing_start` | `StartsEmpty` | the player moves between the read of its pointer and the store of the other: the "empty" ring is almost full |
| `MCAudioRing_finish` | `LeavesEmpty` | the same in `finish()` |
| `MCTexResidency_reupload` | `DrawsKeepTheirPixels` | invalidation frees the page of a pending draw without the pin check of eviction (`RB` 4193), and the draw of the old version samples whatever is uploaded there next; the comment at `RB` 2502 knows of it |
| `MCDrawStream_partial` | `FramesShowWhatWasDrawn` | a partial clear is emitted at once, the full clear deferred before it later (`RB` 2333); this port never clears partially |
| `MCTriCover_loose` | `CoverWritesEveryPixel` | two triangles whose overhanging corners differ pass the cover test (`mf_pending_clear.h` 164, "THE PROOF IS EXACT") and leave pixels unwritten |
| `MCBltAlloc_empty` | `FreeUndoesAlloc` | a block of size 0 takes 8 bytes and is never given back (`blt_alloc.c` 44) |
| `MCScanoutPacing_drift` | `EveryFrameShown` | slow frames drag the time of the last boundary (`mister_fabric.cpp` 81) until a frame is overdrawn undisplayed |
| `MCScanoutPacing_debt` | `NeverFasterThanScanout` | after a hitch the timer publishes faster than scanout (`mister_fabric.cpp` 97) |

Three properties have no configuration of their own and are violated when added to
`MCOffline_run.cfg`: `CountedIsShown` (`mister_framelog.h` 36 calls the counter of a record that
of right after the publish, but `present()` reads it after the wait for the next ring; a
boundary may lie between, and `frames.py` 188 then counts the one after the boundary that showed
the frame: a window is off by at most one for each such frame), `IrqTimeIsExact` (`overlap` in `frames.py` takes sorted
intervals, but a hard interrupt inside a soft one is written before it) and
`FinishedMeansComplete` (a source cut off by a kill in the middle of a write keeps
its marker, and the next run takes it for patched).


## 6. Seen while modelling, not backed by a run

- `blt_alloc.h` says that `blt_alloc` fails when the free list is full. It does
  not look; it is `blt_free` that then drops the block.
- The comment at `RB` 2150-2160 calls the reclaim at the barrier harder to
  reach. With a drop limit above 1 it cannot be reached at all
  (`WedgeSettlesAtFrameBegin`, proved).
- `RasterBackend_MFGPU_InvalidateTex` does not reset the last draw, so a draw
  repeated after its texture changed within a frame would compare equal and be
  elided. Uploads come between frames, and a frame begins with no last draw, so
  the bridge cannot get there (`LastDrawShown`, proved).
- `mf_clear` of a frame buffer that is not the application surface clears the
  work surface. Nobody in the repository calls `SetAppSurface`: this port draws
  to the work surface only.
- A teardown that parks the block after its wait ran out of time does so under
  a busy blitter. The next process compares the submitted sequence with the
  acknowledged one, both as the park left them, and takes the block for idle.
  This is why `astray` is remembered across processes.


## 7. Not modelled, and the plan

Left out of modules that exist: the test hooks and statistics of the seam; texel
conversion, several page sizes; UV clamp, CRT strip and emission failures inside
a draw; the guard-band clip and its backstop; copied polygons; 16-bit conversion
of samples; the rotation of the state log; the codec of the debugger's values;
two threads loading at once in the boot log (the module has them, the run does
not: `load_self.py` reads the lines of one); wrap of the 32-bit scanout counter in a capture.

Next, in this order:

1. `NativeVideo`: the double buffer against the scanout.
2. The GDScript pools and the name cache.
3. Vertex clip to the guard band, against a reference clip.
4. A size of 0 in the allocator and partial clears in the draw stream as
   properties of their own.
5. SDRAM mode of the emitter, the reference blitter as an interpreter, the
   sample pairing of the seam statistics.

Abstract specifications still worth stating: the audio ring as a bounded queue,
the texture cache as a map from names to contents, the Vorbis stream as samples by
sequence.

Not planned: the display server (forwards calls), the null GL driver
(constants), the scripts that make one pass over a finished file or register and print a
table (`boot_poll.py`, `boot_report.py`, `boot_prof.py`, `profile_summary.py`, `rides.py`,
`scan.py`, `pck4_inspect.py`: no state outlives a line), the probes in GDScript, build and release shell scripts, the
software rasterizer (floating-point sampling).
