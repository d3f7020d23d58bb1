------------------------------ MODULE JoyDrive ------------------------------
(***************************************************************************)
(* The scripted player of a stutter capture.  scripts/stutter/joy_drive.py *)
(* writes the joystick word of a DDR page, following the game's state from *)
(* the STATE lines a probe in the engine logs; scripts/joy_inject.py plays *)
(* a fixed script instead.  scripts/stutter/run.sh starts one of them and  *)
(* kills it when the capture is over.  The engine polls the word once a    *)
(* frame (JoypadMister::poll) and hands the game what changed.             *)
(*                                                                         *)
(* The game is external: menus that a press of OK or start takes forward,  *)
(* an intro, play, and short states between (hurt pause, level end).       *)
(***************************************************************************)
EXTENDS Integers, Sequences

CONSTANTS
  Script,       \* the steps of joy_inject.py: [do, button]
  IntroFrames   \* frames from the last menu to play, at the least

Directions == {"right", "left"}
Buttons == Directions \union {"a", "start"}

ASSUME JoyAssumption ==
  /\ IntroFrames \in Nat \ {0}
  /\ \A i \in DOMAIN Script : Script[i].button \in Buttons

VARIABLES
  mode,      \* which script runs: "drive" | "inject"
  word,      \* buttons set in the joystick word
  pad,       \* last_word of the engine: what the game holds for pressed
  game,      \* game_state: "over" | "intro" | "play" | "between"
  menu,      \* in "over": "scores" | "title" | "mode"
  intro,     \* frames the intro has lasted
  paused,    \* a start press paused the game
  logged,    \* state of the last STATE line, "none" before the first
  dpc,       \* where the script is
  step,      \* the tap of the menu sequence, or the step of Script, it is at
  over,      \* over_since: "none" | "counting" | "long" (2 s ago)
  late,      \* a frame has passed since the state was read
  capture    \* run.sh: "on" | "killed" | "cleared"

gameVars == <<game, menu, intro, paused>>
joyVars  == <<mode, word, pad, gameVars, logged, dpc, step, over, late, capture>>

JoyInit ==
  /\ mode \in {"drive", "inject"}
  /\ word \in {{}, {"a"}}                  \* what a killed script left
  /\ pad = {}
  /\ game = "over" /\ menu = "title" /\ intro = 0 /\ paused = FALSE
  /\ logged = "none"
  /\ dpc = "start" /\ step = 1 /\ over = "none" /\ late = FALSE
  /\ capture = "on"

-----------------------------------------------------------------------------
(* The engine: one frame polls the word, logs a changed state, runs the game. *)

Pressed == word \ pad

Answer == [scores |-> "a", title |-> "start", mode |-> "a"]
Answered == game = "over" /\ Answer[menu] \in Pressed

MenuMoves ==
  \/ menu = "scores" /\ menu' = "title" /\ UNCHANGED <<game, intro, paused>>
  \/ menu = "title" /\ menu' = "mode" /\ UNCHANGED <<game, intro, paused>>
  \/ menu = "mode" /\ game' = "intro" /\ intro' = 0 /\ UNCHANGED <<menu, paused>>

GameMoves ==
  \/ /\ game = "intro" /\ intro < IntroFrames
     /\ intro' = intro + 1 /\ UNCHANGED <<game, menu, paused>>
  \/ /\ game = "intro" /\ intro = IntroFrames
     /\ game' = "play" /\ UNCHANGED <<menu, intro, paused>>
  \/ /\ game = "play" /\ ~paused
     /\ \E s \in {"between", "over"} : game' = s
     /\ menu' = "scores" /\ UNCHANGED <<intro, paused>>
  \/ /\ game = "between"
     /\ \E s \in {"play", "over"} : game' = s
     /\ menu' = "scores" /\ UNCHANGED <<intro, paused>>
  \/ UNCHANGED gameVars

\* A start press in play pauses, whatever else happens.
Pauses == game = "play" /\ "start" \in Pressed

\* JoypadMister::poll: report what changed and keep the word.
Poll == pad' = word

Frame ==
  /\ dpc = "press" => ~late                \* a read and the press after it span one frame
  /\ Poll
  /\ logged' = game                        \* the probe runs before the game's own nodes
  /\ CASE Pauses   -> paused' = TRUE /\ UNCHANGED <<game, menu, intro>>
       [] Answered -> MenuMoves
       [] OTHER    -> GameMoves
  /\ late' = TRUE
  /\ UNCHANGED <<mode, word, dpc, step, over, capture>>

-----------------------------------------------------------------------------
(* joy_drive.py                                                            *)

MenuSequence == <<"a", "a", "a", "a", "a", "start", "a", "a", "a", "a">>

Active(s) == s \in {"play"}
InMenus(s) == s \in {"over", "none"}       \* GAME_OVER, None

Put(w) == word' = w

Start ==
  /\ dpc = "start"
  /\ Put({})
  /\ dpc' = IF mode = "drive" THEN "loop" ELSE "script"
  /\ step' = 1
  /\ UNCHANGED <<mode, pad, gameVars, logged, over, late, capture>>

\* state(): `logged`, the last STATE line of what was appended since the last call.
ReadState == late' = FALSE

FollowPlay ==
  /\ dpc = "loop" /\ Active(logged)
  /\ ReadState
  /\ over' = "none"
  /\ dpc' = "steer"
  /\ UNCHANGED <<mode, word, pad, gameVars, logged, step, capture>>

OverLongEnough == over = "long"
ForgetsSince == "none"                     \* a mutant: the time is not kept
OverSince == IF over = "none" THEN "counting" ELSE over

WaitOver ==
  /\ dpc = "loop" /\ InMenus(logged) /\ ~OverLongEnough
  /\ ReadState /\ Put({})
  /\ over' = OverSince
  /\ UNCHANGED <<mode, pad, gameVars, logged, dpc, step, capture>>

TwoSeconds ==
  /\ over = "counting" /\ dpc \notin {"done", "killed"}
  /\ over' = "long"
  /\ UNCHANGED <<mode, word, pad, gameVars, logged, dpc, step, late, capture>>

BeginMenus ==
  /\ dpc = "loop" /\ InMenus(logged) /\ OverLongEnough
  /\ ReadState /\ Put({})
  /\ step' = 1 /\ dpc' = "menu"
  /\ UNCHANGED <<mode, pad, gameVars, logged, over, capture>>

Idle ==
  /\ dpc = "loop" /\ ~Active(logged) /\ ~InMenus(logged)
  /\ ReadState /\ Put({})
  /\ over' = "none"
  /\ UNCHANGED <<mode, pad, gameVars, logged, dpc, step, capture>>

\* Start would pause a game: each tap is preceded by a look at the state.
TapsBlind(s) == TRUE                       \* a mutant: no look before a tap
MayTap(s) == InMenus(s)

CheckTap ==
  /\ dpc = "menu" /\ step \in DOMAIN MenuSequence
  /\ ReadState
  /\ dpc' = IF MayTap(logged) THEN "press" ELSE "loop"
  /\ over' = "long"                        \* re-check at once next loop
  /\ UNCHANGED <<mode, word, pad, gameVars, logged, step, capture>>

MenusDone ==
  /\ dpc = "menu" /\ step \notin DOMAIN MenuSequence
  /\ over' = "long" /\ dpc' = "loop"
  /\ UNCHANGED <<mode, word, pad, gameVars, logged, step, late, capture>>

Tapped == IF mode = "drive" THEN MenuSequence[step] ELSE Script[step].button

Press ==
  /\ dpc = "press"
  /\ Put({Tapped})
  /\ dpc' = "held"
  /\ UNCHANGED <<mode, pad, gameVars, logged, step, over, late, capture>>

Release ==
  /\ dpc = "held"
  /\ Put({})
  /\ step' = step + 1
  /\ dpc' = IF mode = "drive" THEN "menu" ELSE "script"
  /\ UNCHANGED <<mode, pad, gameVars, logged, over, late, capture>>

\* Random running and jumping: a direction, perhaps with a jump, then without.
Steer ==
  /\ dpc = "steer"
  /\ \E d \in Directions, jump \in {{}, {"a"}} : Put({d} \union jump)
  /\ dpc' = "run"
  /\ UNCHANGED <<mode, pad, gameVars, logged, step, over, late, capture>>

Run ==
  /\ dpc = "run"
  /\ Put(word \ {"a"})
  /\ dpc' = "stop"
  /\ UNCHANGED <<mode, pad, gameVars, logged, step, over, late, capture>>

Stop ==
  /\ dpc = "stop"
  /\ IF mode = "drive" THEN Put({}) /\ dpc' = "loop" /\ step' = step
     ELSE \/ UNCHANGED <<word, step>> /\ dpc' = "steer"      \* play S: until its end
          \/ Put({}) /\ dpc' = "script" /\ step' = step + 1
  /\ UNCHANGED <<mode, pad, gameVars, logged, over, late, capture>>

TimeUp ==
  /\ dpc = "loop"
  /\ Put({}) /\ dpc' = "done"
  /\ UNCHANGED <<mode, pad, gameVars, logged, step, over, late, capture>>

-----------------------------------------------------------------------------
(* joy_inject.py, which run.sh starts again when it ends.                  *)

TakeStep ==
  /\ dpc = "script" /\ step \in DOMAIN Script
  /\ CASE Script[step].do = "play" -> dpc' = "steer" /\ step' = step
       [] Script[step].do = "wait" -> dpc' = "script" /\ step' = step + 1
       [] OTHER                    -> dpc' = "press" /\ step' = step
  /\ late' = FALSE
  /\ UNCHANGED <<mode, word, pad, gameVars, logged, over, capture>>

InjectEnds ==
  /\ dpc = "script" /\ step \notin DOMAIN Script
  /\ Put({}) /\ dpc' = "start"
  /\ UNCHANGED <<mode, pad, gameVars, logged, step, over, late, capture>>
-----------------------------------------------------------------------------
(* run.sh: kill the script, then write 0 into the word.                    *)

EndCapture ==
  /\ capture = "on"
  /\ capture' = "killed"
  /\ dpc' = "killed"
  /\ UNCHANGED <<mode, word, pad, gameVars, logged, step, over, late>>

Cleared == {}

ClearWord ==
  /\ capture = "killed"
  /\ Put(Cleared)
  /\ capture' = "cleared"
  /\ UNCHANGED <<mode, pad, gameVars, logged, dpc, step, over, late>>

-----------------------------------------------------------------------------
DriverStep ==
  \/ Start \/ FollowPlay \/ WaitOver \/ BeginMenus \/ Idle
  \/ CheckTap \/ MenusDone \/ Press \/ Release \/ Steer \/ Run \/ Stop
  \/ TakeStep \/ InjectEnds

JoyNext == Frame \/ DriverStep \/ TwoSeconds \/ TimeUp \/ EndCapture \/ ClearWord

\* Frames go on, the script runs, its sleeps end, and run.sh clears the word it left.
\* A frame may take longer than a tap, which is then never seen; but not every tap of
\* a button, as often as it is tried.
JoyFairness ==
  /\ WF_joyVars(Frame)
  /\ WF_joyVars(DriverStep)
  /\ WF_joyVars(TwoSeconds)
  /\ WF_joyVars(ClearWord)
  /\ SF_joyVars(Frame /\ "a" \in Pressed)
  /\ SF_joyVars(Frame /\ "start" \in Pressed)

JoySpec == JoyInit /\ [][JoyNext]_joyVars /\ JoyFairness

-----------------------------------------------------------------------------
JoyTypeOK ==
  /\ word \subseteq Buttons /\ pad \subseteq Buttons
  /\ game \in {"over", "intro", "play", "between"}
  /\ logged \in {"none", "over", "intro", "play", "between"}
  /\ menu \in {"scores", "title", "mode"} /\ intro \in 0..IntroFrames /\ paused \in BOOLEAN
  /\ dpc \in {"start", "loop", "menu", "press", "held", "steer", "run", "stop", "script",
              "done", "killed"}
  /\ over \in {"none", "counting", "long"} /\ capture \in {"on", "killed", "cleared"}

\* A tap of start meant for the menus never reaches a game in play, where it would pause
\* it for the rest of the capture: the game moves on under the script, whose view of it
\* is a frame old and gets older between the look and the press.
\* (joy_drive.py: "Stop as soon as the state leaves GAME_OVER: start would pause a game.")
NeverPausesAGame == JoyTypeOK /\ (mode = "drive" => ~paused)

AwaitsPlay == mode = "drive" /\ game = "over"
NoLonger   == game # "over" \/ dpc \in {"done", "killed"}
Released   == pad = {}

\* A game that is over is started again, though single taps are lost to long frames and
\* the sequence breaks off at any point; and whatever the script was doing when it was
\* killed, the game ends with every button released.
PlayResumesAndButtonsRelease ==
  /\ AwaitsPlay ~> NoLonger
  /\ capture = "cleared" ~> Released
=============================================================================
