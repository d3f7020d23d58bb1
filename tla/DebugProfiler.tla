---------------------------- MODULE DebugProfiler ----------------------------
(***************************************************************************)
(* scripts/godot_dbg_profile.py: a stand-in for the editor's profiler.  It *)
(* switches the game's profiler on over the remote-debugger connection,    *)
(* lets every break go on at once, and writes a line per profiled frame,   *)
(* its functions named by the signatures the game sent before.             *)
(*                                                                         *)
(* The game is external: it sends a function's signature, under an id of   *)
(* its choice, before the first frame that has it; it may give the ids     *)
(* anew when its profiler is switched on, and a break may switch it off.   *)
(* The messages of a thread reach that thread.                             *)
(***************************************************************************)
EXTENDS Integers, Sequences, SequencesExt

CONSTANTS
  Functions,     \* what the game's scripts call
  GameThreads,   \* threads that may break, "main" among them
  MaxFrames,     \* bound: frames profiled
  MaxBreaks,     \* bound: breaks
  MaxOthers      \* bound: other messages, among them some that cannot be decoded

ASSUME DebugAssumption ==
  "main" \in GameThreads /\ IsFiniteSet(Functions)
    /\ {MaxFrames, MaxBreaks, MaxOthers} \subseteq Nat

VARIABLES
  toTool,      \* messages on their way to the script
  toGame,      \* [GameThreads -> messages on their way to that thread]
  breaking,    \* threads in a break
  profiling,   \* the game's profiler is on
  ids,         \* the ids the game gave, in order: the n-th is that of ids[n]
  sigs,        \* [id -> name] of the script
  written,     \* lines of the output: what the script made of a frame, and what it was
  tool,        \* the script: "connect" | "listen" | "ended" | "eof"
  budget       \* [frames, breaks, others] still to come

debugVars == <<toTool, toGame, breaking, profiling, ids, sigs, written, tool, budget>>

DebugInit ==
  /\ toTool = <<>> /\ toGame = [t \in GameThreads |-> <<>>]
  /\ breaking = {} /\ profiling = FALSE /\ ids = <<>>
  /\ sigs = <<>> /\ written = {} /\ tool = "connect"
  /\ budget = [frames |-> MaxFrames, breaks |-> MaxBreaks, others |-> MaxOthers]

Gone == tool \in {"ended", "eof"}
Send(t, msg) == toGame' = [toGame EXCEPT ![t] = Append(@, msg)]

-----------------------------------------------------------------------------
(* The game.                                                               *)

\* The flat array of a profile frame: 6 numbers, the servers, 5 numbers per function.
Flat(servers, called) ==
  <<0, 0, 0, 0, 0, 0, Len(servers)>>
    \o FlattenSeq([i \in DOMAIN servers |-> <<"server", 2 * servers[i]>>
                                              \o [k \in 1..(2 * servers[i]) |-> 0]])
    \o <<5 * Len(called)>>
    \o FlattenSeq([i \in DOMAIN called |-> <<called[i].id, 1, 1, 1, 1>>])

IdOf(known, f) == CHOOSE n \in DOMAIN known : known[n] = f

\* A frame that calls the functions of `called`: new signatures first.
ProfileFrame ==
  /\ profiling /\ breaking = {} /\ ~Gone /\ budget.frames > 0
  /\ \E called \in SUBSET Functions, servers \in {<<>>, <<0, 1>>} :
       LET fresh == SetToSeq(called \ ToSet(ids))
           known == ids \o fresh
           new   == [i \in DOMAIN fresh |-> [msg |-> "signature", id |-> IdOf(known, fresh[i]),
                                             name |-> fresh[i]]]
           calls == SetToSeq(called)
       IN /\ ids' = known
          /\ toTool' = toTool \o new \o
               <<[msg |-> "frame", called |-> called,
                  data |-> Flat(servers, [i \in DOMAIN calls |-> [id |-> IdOf(known, calls[i])]])]>>
  /\ budget' = [budget EXCEPT !.frames = @ - 1]
  /\ UNCHANGED <<toGame, breaking, profiling, sigs, written, tool>>

OtherMessage ==
  /\ ~Gone /\ tool # "connect" /\ budget.others > 0
  /\ \E kind \in {"other", "undecodable"} : toTool' = Append(toTool, [msg |-> kind])
  /\ budget' = [budget EXCEPT !.others = @ - 1]
  /\ UNCHANGED <<toGame, breaking, profiling, ids, sigs, written, tool>>

Break(t) ==
  /\ ~Gone /\ tool # "connect" /\ t \notin breaking /\ budget.breaks > 0
  /\ breaking' = breaking \union {t}
  /\ toTool' = Append(toTool, [msg |-> "debug_enter", tid |-> t])
  /\ budget' = [budget EXCEPT !.breaks = @ - 1]
  /\ UNCHANGED <<toGame, profiling, ids, sigs, written, tool>>

\* Thread t takes its next message; only a thread in a break knows "continue".
GameReceives(t) ==
  /\ toGame[t] # <<>> /\ tool # "eof"
  /\ toGame' = [toGame EXCEPT ![t] = Tail(@)]
  /\ LET msg == Head(toGame[t]) IN
       \/ /\ msg = "continue" /\ t \in breaking
          /\ breaking' = breaking \ {t}
          /\ \E on \in {profiling, FALSE} : profiling' = on
          /\ toTool' = Append(toTool, [msg |-> "debug_exit", tid |-> t])
          /\ UNCHANGED ids
       \/ /\ msg = "continue" /\ t \notin breaking
          /\ UNCHANGED <<breaking, profiling, ids, toTool>>
       \/ /\ msg = "profiler on"
          /\ profiling' = TRUE
          /\ \E given \in {ids, <<>>} : ids' = given
          /\ UNCHANGED <<breaking, toTool>>
       \/ /\ msg = "profiler off"
          /\ profiling' = FALSE
          /\ UNCHANGED <<breaking, ids, toTool>>
  /\ UNCHANGED <<sigs, written, tool, budget>>

GameQuits ==
  /\ tool = "listen"
  /\ tool' = "eof"                         \* recv_exact: EOFError
  /\ UNCHANGED <<toTool, toGame, breaking, profiling, ids, sigs, written, budget>>

-----------------------------------------------------------------------------
(* The script.                                                             *)

Connect ==
  /\ tool = "connect"
  /\ Send("main", "profiler on")
  /\ tool' = "listen"
  /\ UNCHANGED <<toTool, breaking, profiling, ids, sigs, written, budget>>

\* parse_frame: where the functions begin, behind servers of differing lengths.
ScriptsAt(d) == FoldLeft(LAMBDA i, k : i + 2 + d[i + 1], 8, [k \in 1..d[7] |-> k])

Named(d) ==
  LET i == ScriptsAt(d)
  IN {IF id \in DOMAIN sigs THEN sigs[id] ELSE "unknown" :
        id \in {d[i + 1 + 5 * k] : k \in 0..((d[i] \div 5) - 1)}}

KeepsFirst(msg) == sigs @@ (msg.id :> msg.name)        \* a mutant: a known id keeps its name
Learned(msg) ==
  [id \in DOMAIN sigs \union {msg.id} |-> IF id = msg.id THEN msg.name ELSE sigs[id]]

ToMain(msg) == "main"                                  \* a mutant: every message to MAIN_ID
BrokenThread(msg) == msg.tid

Receive ==
  /\ tool = "listen" /\ toTool # <<>>
  /\ toTool' = Tail(toTool)
  /\ LET msg == Head(toTool) IN
       \/ /\ msg.msg = "signature"
          /\ sigs' = Learned(msg)
          /\ UNCHANGED <<toGame, written>>
       \/ /\ msg.msg = "frame"
          /\ written' = written \union {[named |-> Named(msg.data), called |-> msg.called]}
          /\ UNCHANGED <<toGame, sigs>>
       \/ /\ msg.msg = "debug_enter"
          /\ Send(BrokenThread(msg), "continue")
          /\ UNCHANGED <<sigs, written>>
       \/ /\ msg.msg = "debug_exit"
          /\ Send("main", "profiler on")
          /\ UNCHANGED <<sigs, written>>
       \/ /\ msg.msg \in {"other", "undecodable"}
          /\ UNCHANGED <<toGame, sigs, written>>
  /\ UNCHANGED <<breaking, profiling, ids, tool, budget>>

\* The clock is looked at between two messages only.
ListenEnds ==
  /\ tool = "listen"
  /\ Send("main", "profiler off")
  /\ tool' = "ended"
  /\ UNCHANGED <<toTool, breaking, profiling, ids, sigs, written, budget>>

DebugNext ==
  \/ ProfileFrame \/ OtherMessage \/ GameQuits
  \/ \E t \in GameThreads : Break(t) \/ GameReceives(t)
  \/ Connect \/ Receive \/ ListenEnds

\* The connection delivers: each side takes what is there.
DebugFairness ==
  /\ WF_debugVars(Receive)
  /\ WF_debugVars(Connect)
  /\ \A t \in GameThreads : WF_debugVars(GameReceives(t))

DebugSpec == DebugInit /\ [][DebugNext]_debugVars /\ DebugFairness

-----------------------------------------------------------------------------
DebugTypeOK ==
  /\ breaking \subseteq GameThreads /\ profiling \in BOOLEAN
  /\ ToSet(ids) \subseteq Functions /\ DOMAIN sigs \subseteq Nat
  /\ tool \in {"connect", "listen", "ended", "eof"}

\* Every line names the functions the game measured, though the game numbers them anew
\* whenever its profiler is switched on again, with frames of both numberings under way.
FramesAreNamed == DebugTypeOK /\ \A line \in written : line.named = line.called

GoesOn(t) == t \notin breaking \/ Gone
Profiles  == profiling \/ Gone

Unprofiled == ~profiling \/ tool = "eof"

\* No thread of the game stays in a break, and the profiler does not stay off, as long
\* as the script listens: whichever thread broke, and however many at a time.  When the
\* script is done the profiler goes off, whatever was still on its way to the game.
BreaksGoOn ==
  /\ \A t \in GameThreads : t \in breaking ~> GoesOn(t)
  /\ ~profiling ~> Profiles
  /\ tool = "ended" ~> Unprofiled
=============================================================================
