----------------------------- MODULE OggPcmCache -----------------------------
(***************************************************************************)
(* AudioStreamOggVorbis as scripts/apply_godot_mister.py leaves it: the    *)
(* headers and codebooks of a stream (OggVorbisSharedSetup) are shared by  *)
(* its playbacks, and a short clip is decoded once by a worker task into a *)
(* PCM cache that later plays use.  One stream object, which its owner     *)
(* loads, reloads, plays and drops on the main thread while a pool thread  *)
(* decodes and the audio thread lets playbacks go.                         *)
(***************************************************************************)
EXTENDS Integers, FiniteSets

CONSTANTS
  Slots,      \* bound: playbacks alive at a time
  MaxLoads    \* bound: packet sequences set on the stream

ASSUME OggAssumption == MaxLoads \in Nat \ {0} /\ IsFiniteSet(Slots)

Threads == {"main", "audio", "pool"}

VARIABLES
  shared, async, short,  \* MISTER_OGG_SHARED, MISTER_OGG_PCM_ASYNC; clip within PCM_MAX_S
  seq,        \* packet_sequence: 0 is none, n the n-th one set
  setup,      \* shared_setup: 0 is nullptr, n the setup made for the n-th sequence
  setupRefs,  \* reference count of every setup: freed at 0
  cache,      \* pcm_cache: 0 is null, n the samples of the n-th sequence
  ready,      \* pcm_ready
  loop,       \* loop
  task,       \* pcm_task is a task of the pool
  taskState,  \* of that task in the pool: "none" | "queued" | "running" | "done"
  taskThread, \* pcm_task_thread
  refs,       \* the stream's reference count
  alive,      \* its memory
  owner,      \* the game still holds it
  plays,      \* [Slots -> playback]
  mpc,        \* main thread: "idle", or where in set_packet_sequence
  wpc,        \* pool thread: "idle", or where in _pcm_task
  pb,         \* the playback _decode_pcm decodes through
  dying       \* the thread in the destructor, or "none"

flags     == <<shared, async, short>>
taskVars  == <<task, taskState, taskThread>>
oggVars   == <<flags, seq, setup, setupRefs, cache, ready, loop, taskVars, refs, alive, owner,
               plays, mpc, wpc, pb, dying>>

Nothing     == [kind |-> "none", of |-> 0]
Wav(n)      == [kind |-> "wav",  of |-> n]      \* AudioStreamPlaybackWAV of the cache
Ogg(n)      == [kind |-> "ogg",  of |-> n]      \* streams, with setup n (0: its own info)

Ref(n)   == IF n = 0 THEN setupRefs ELSE [setupRefs EXCEPT ![n] = @ + 1]
Unref(n) == IF n = 0 THEN setupRefs ELSE [setupRefs EXCEPT ![n] = @ - 1]

OggInit ==
  /\ shared \in BOOLEAN /\ async \in BOOLEAN /\ short \in BOOLEAN
  /\ seq = 0 /\ setup = 0 /\ setupRefs = [n \in 1..MaxLoads |-> 0]
  /\ cache = 0 /\ ready = FALSE /\ loop = FALSE
  /\ task = FALSE /\ taskState = "none" /\ taskThread = "none"
  /\ refs = 1 /\ alive = TRUE /\ owner = TRUE
  /\ plays = [p \in Slots |-> Nothing]
  /\ mpc = "idle" /\ wpc = "idle" /\ pb = Nothing /\ dying = "none"

-----------------------------------------------------------------------------
(* The main thread: set_packet_sequence, maybe_update_info, _build_pcm_cache *)

NoWait   == TRUE                             \* a mutant: loads do not wait for the decode
TaskOver == ~task \/ taskState = "done"      \* wait_for_task_completion returns

SetPacketSequence ==
  /\ mpc = "idle" /\ owner /\ seq < MaxLoads
  /\ mpc' = "wait"
  /\ UNCHANGED <<flags, seq, setup, setupRefs, cache, ready, loop, taskVars, refs, alive, owner,
                 plays, wpc, pb, dying>>

PcmWait ==
  /\ mpc = "wait" /\ TaskOver
  /\ task' = FALSE
  /\ seq' = seq + 1
  /\ mpc' = "unref"
  /\ UNCHANGED <<flags, setup, setupRefs, cache, ready, loop, taskState, taskThread, refs, alive,
                 owner, plays, wpc, pb, dying>>

\* shared_setup->unref(): the pointer is cleared by the next statement.
UnrefSetup ==
  /\ mpc = "unref"
  /\ setupRefs' = Unref(setup)
  /\ mpc' = "create"
  /\ UNCHANGED <<flags, seq, setup, cache, ready, loop, taskVars, refs, alive, owner, plays, wpc, pb,
                 dying>>

CreateSetup ==
  /\ mpc = "create"
  /\ setup' = IF shared THEN seq ELSE 0
  /\ setupRefs' = IF shared THEN [setupRefs EXCEPT ![seq] = 1] ELSE setupRefs
  /\ mpc' = "build"
  /\ UNCHANGED <<flags, seq, cache, ready, loop, taskVars, refs, alive, owner, plays, wpc, pb, dying>>

Submits == short /\ async /\ refs > 0

ClearCache ==
  /\ mpc = "build" /\ TaskOver
  /\ ready' = FALSE /\ cache' = 0
  /\ task' = FALSE
  /\ mpc' = "decode"
  /\ UNCHANGED <<flags, seq, setup, setupRefs, loop, taskState, taskThread, refs, alive, owner, plays,
                 wpc, pb, dying>>

SubmitTask ==
  /\ mpc = "decode" /\ Submits
  /\ refs' = refs + 1                          \* reference()
  /\ task' = TRUE /\ taskState' = "queued"
  /\ mpc' = "idle"
  /\ UNCHANGED <<flags, seq, setup, setupRefs, cache, ready, loop, taskThread, alive, owner, plays,
                 wpc, pb, dying>>

DecodeInline ==
  /\ mpc = "decode" /\ ~Submits
  /\ cache' = IF short THEN seq ELSE 0
  /\ ready' = short
  /\ mpc' = "idle"
  /\ UNCHANGED <<flags, seq, setup, setupRefs, loop, taskVars, refs, alive, owner, plays, wpc, pb,
                 dying>>

-----------------------------------------------------------------------------
(* The main thread: playing and dropping the stream.                       *)

UsesCache == ready /\ ~loop

\* instantiate_playback: of the cache, or one that streams and holds the stream.
Play ==
  /\ mpc = "idle" /\ owner /\ seq > 0
  /\ \E p \in Slots :
       /\ plays[p] = Nothing
       /\ plays' = [plays EXCEPT ![p] = IF UsesCache THEN Wav(cache) ELSE Ogg(setup)]
  /\ setupRefs' = IF UsesCache THEN setupRefs ELSE Ref(setup)
  /\ refs' = IF UsesCache THEN refs ELSE refs + 1
  /\ UNCHANGED <<flags, seq, setup, cache, ready, loop, taskVars, alive, owner, mpc, wpc, pb, dying>>

SetLoop ==
  /\ mpc = "idle" /\ owner
  /\ loop' = ~loop
  /\ UNCHANGED <<flags, seq, setup, setupRefs, cache, ready, taskVars, refs, alive, owner, plays, mpc,
                 wpc, pb, dying>>

\* Ref::unref: the thread that lets the last reference go runs the destructor.
Unreference(t) ==
  /\ refs' = refs - 1
  /\ dying' = IF refs = 1 THEN t ELSE dying

Drop ==
  /\ mpc = "idle" /\ owner
  /\ owner' = FALSE
  /\ Unreference("main")
  /\ UNCHANGED <<flags, seq, setup, setupRefs, cache, ready, loop, taskVars, alive, plays, mpc, wpc,
                 pb>>

EndPlayback(t) ==
  /\ t = "main" => mpc = "idle"
  /\ \E p \in Slots :
       /\ plays[p] # Nothing
       /\ plays' = [plays EXCEPT ![p] = Nothing]
       /\ IF plays[p].kind = "ogg"
          THEN setupRefs' = Unref(plays[p].of) /\ Unreference(t)
          ELSE UNCHANGED <<setupRefs, refs, dying>>
  /\ UNCHANGED <<flags, seq, setup, cache, ready, loop, taskVars, alive, owner, mpc, wpc, pb>>

\* ~AudioStreamOggVorbis: reclaim the task, unless this is the task's own last act.
MayDestroyAfterTask(t) == ~task \/ taskState = "done"      \* a mutant: the task waits for itself
MayDestroy(t) == ~task \/ taskThread = t \/ taskState = "done"

Destroy(t) ==
  /\ dying = t /\ MayDestroy(t)
  /\ alive' = FALSE
  /\ setupRefs' = Unref(setup)
  /\ dying' = "none"
  /\ UNCHANGED <<flags, seq, setup, cache, ready, loop, taskVars, refs, owner, plays, mpc, wpc, pb>>

-----------------------------------------------------------------------------
(* The pool thread: _pcm_task and _decode_pcm.                             *)

TaskStarts ==
  /\ wpc = "idle" /\ taskState = "queued"
  /\ taskState' = "running" /\ taskThread' = "pool"
  /\ wpc' = "open"
  /\ UNCHANGED <<flags, seq, setup, setupRefs, cache, ready, loop, task, refs, alive, owner, plays,
                 mpc, pb, dying>>

\* Its playback holds the stream and the setup for the time of the decode.
DecodeOpens ==
  /\ wpc = "open"
  /\ pb' = Ogg(setup) /\ setupRefs' = Ref(setup) /\ refs' = refs + 1
  /\ wpc' = "mix"
  /\ UNCHANGED <<flags, seq, setup, cache, ready, loop, taskVars, alive, owner, plays, mpc, dying>>

DecodeEnds ==
  /\ wpc = "mix"
  /\ setupRefs' = Unref(pb.of) /\ Unreference("pool")
  /\ pb' = Wav(seq)                            \* w, the decoded samples
  /\ wpc' = "publish"
  /\ UNCHANGED <<flags, seq, setup, cache, ready, loop, taskVars, alive, owner, plays, mpc>>

TaskPublishes ==
  /\ wpc = "publish"
  /\ cache' = pb.of
  /\ wpc' = "ready"
  /\ UNCHANGED <<flags, seq, setup, setupRefs, ready, loop, taskVars, refs, alive, owner, plays, mpc,
                 pb, dying>>

TaskReady ==
  /\ wpc = "ready"
  /\ ready' = TRUE
  /\ pb' = Nothing
  /\ wpc' = "release"
  /\ UNCHANGED <<flags, seq, setup, setupRefs, cache, loop, taskVars, refs, alive, owner, plays, mpc,
                 dying>>

TaskReleases ==
  /\ wpc = "release"
  /\ Unreference("pool")
  /\ wpc' = "leave"
  /\ UNCHANGED <<flags, seq, setup, setupRefs, cache, ready, loop, taskVars, alive, owner, plays, mpc,
                 pb>>

TaskLeaves ==
  /\ wpc = "leave" /\ dying # "pool"
  /\ taskState' = "done"
  /\ wpc' = "idle"
  /\ UNCHANGED <<flags, seq, setup, setupRefs, cache, ready, loop, task, taskThread, refs, alive,
                 owner, plays, mpc, pb, dying>>

-----------------------------------------------------------------------------
LoadNext == PcmWait \/ UnrefSetup \/ CreateSetup \/ ClearCache \/ SubmitTask \/ DecodeInline

TaskNext == TaskStarts \/ DecodeOpens \/ DecodeEnds \/ TaskPublishes \/ TaskReady \/ TaskReleases
            \/ TaskLeaves

OggNext ==
  \/ SetPacketSequence \/ LoadNext
  \/ Play \/ SetLoop \/ Drop
  \/ \E t \in {"main", "audio"} : EndPlayback(t)
  \/ \E t \in Threads : Destroy(t)
  \/ TaskNext

\* The main thread finishes what it is in, the pool runs its tasks, a destructor goes on.
\* Nobody has to load, play, stop or drop anything.
OggFairness ==
  /\ WF_oggVars(LoadNext)
  /\ WF_oggVars(TaskNext)
  /\ \A t \in Threads : WF_oggVars(Destroy(t))

OggSpec == OggInit /\ [][OggNext]_oggVars /\ OggFairness

-----------------------------------------------------------------------------
OggTypeOK ==
  /\ seq \in 0..MaxLoads /\ setup \in 0..MaxLoads /\ cache \in 0..MaxLoads
  /\ setupRefs \in [1..MaxLoads -> Nat] /\ refs \in Nat
  /\ taskState \in {"none", "queued", "running", "done"}
  /\ dying \in Threads \union {"none"}

\* Nobody works on the stream, or on a setup, after its memory is gone, and no setup is
\* let go more often than it was taken: the task, a reload, a playback still mixing and
\* the destructor in every order.  (The task's own reference, the setup's count and the
\* waits of set_packet_sequence and _build_pcm_cache are what keeps them apart.)
NoUseAfterFree ==
  /\ OggTypeOK
  /\ (mpc # "idle" \/ wpc \in {"open", "mix", "publish", "ready", "release"}) => alive
  /\ \A p \in Slots : plays[p].kind = "ogg" =>
                        alive /\ (plays[p].of # 0 => setupRefs[plays[p].of] > 0)
  /\ pb.kind = "ogg" /\ pb.of # 0 => setupRefs[pb.of] > 0
  /\ alive /\ setup # 0 /\ mpc # "create" => setupRefs[setup] > 0

\* A play from the cache plays the sequence the stream has now: a cache that is offered
\* is complete, and never that of the sequence before a reload.
CacheIsCurrent == mpc = "idle" /\ ready => cache = seq

\* What is played, decoded or let go is there, and is what the stream is set to.
PcmIsLiveAndCurrent == NoUseAfterFree /\ CacheIsCurrent

\* set_packet_sequence returns, whatever the pool is doing; and once the game holds
\* neither the stream nor a playback, the stream and every setup are freed.
LoadsReturnAndMemoryReturns ==
  /\ mpc # "idle" ~> mpc = "idle"
  /\ (~owner /\ \A p \in Slots : plays[p] = Nothing)
       ~> (~alive /\ \A n \in 1..MaxLoads : setupRefs[n] = 0)
=============================================================================
