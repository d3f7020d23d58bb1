---------------------------- MODULE MCBesideGame ----------------------------
(* What runs beside the game: the scripted player, the profiling debugger   *)
(* and the decoding of a clip in the background.  A behaviour runs one of   *)
(* them, the others stay where they begin.                                  *)
EXTENDS JoyDrive, DebugProfiler, OggPcmCache

VARIABLE bench      \* which runs: "joy" | "debug" | "ogg"

besideVars == <<bench, joyVars, debugVars, oggVars>>

\* To the title screen, and into a game.
InjectScript == <<[do |-> "tap", button |-> "start"], [do |-> "wait", button |-> "a"],
                  [do |-> "tap", button |-> "a"], [do |-> "play", button |-> "a"]>>

BesideInit ==
  /\ bench \in {"joy", "debug", "ogg"}
  /\ JoyInit /\ (bench # "joy" => mode = "drive" /\ word = {})
  /\ DebugInit
  /\ OggInit /\ (bench # "ogg" => shared /\ async /\ short)

BesideNext ==
  /\ UNCHANGED bench
  /\ \/ bench = "joy"   /\ JoyNext   /\ UNCHANGED <<debugVars, oggVars>>
     \/ bench = "debug" /\ DebugNext /\ UNCHANGED <<joyVars, oggVars>>
     \/ bench = "ogg"   /\ OggNext   /\ UNCHANGED <<joyVars, debugVars>>

\* JoyFairness, DebugFairness and OggFairness, each of the behaviours it is about.
BesideFairness ==
  /\ WF_joyVars(bench = "joy" /\ Frame)
  /\ WF_joyVars(bench = "joy" /\ DriverStep)
  /\ WF_joyVars(bench = "joy" /\ TwoSeconds)
  /\ WF_joyVars(bench = "joy" /\ ClearWord)
  /\ SF_joyVars(bench = "joy" /\ Frame /\ "a" \in Pressed)
  /\ SF_joyVars(bench = "joy" /\ Frame /\ "start" \in Pressed)
  /\ WF_debugVars(bench = "debug" /\ Receive)
  /\ WF_debugVars(bench = "debug" /\ Connect)
  /\ \A t \in GameThreads : WF_debugVars(bench = "debug" /\ GameReceives(t))
  /\ WF_oggVars(bench = "ogg" /\ LoadNext)
  /\ WF_oggVars(bench = "ogg" /\ TaskNext)
  /\ \A t \in Threads : WF_oggVars(bench = "ogg" /\ Destroy(t))

BesideSpec == BesideInit /\ [][BesideNext]_besideVars /\ BesideFairness

\* PlayResumesAndButtonsRelease of joy_drive.py, where it runs: a game that is over is
\* started again, and no button stays pressed once run.sh has cleared the word.
DrivenPlayResumes ==
  /\ (bench = "joy" /\ AwaitsPlay) ~> NoLonger
  /\ capture = "cleared" ~> Released

\* BreaksGoOn of godot_dbg_profile.py, where it runs: every break of every thread of the
\* game goes on, the profiler is on again, and off once the script is done.
DebuggedGameGoesOn ==
  /\ \A t \in GameThreads : t \in breaking ~> GoesOn(t)
  /\ (bench = "debug" /\ ~profiling) ~> Profiles
  /\ tool = "ended" ~> Unprofiled
=============================================================================
