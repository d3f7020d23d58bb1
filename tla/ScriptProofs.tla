----------------------------- MODULE ScriptProofs -----------------------------
(***************************************************************************)
(* Proofs about the scripts around the game, which share no state: the     *)
(* player that presses its buttons (JoyDrive), the one that patches        *)
(* Godot's source tree (TreePatch), the debugger's client (DebugProfiler)  *)
(* and the readers of frame records (FrameCapture), of the boot log        *)
(* (BootLog) and of the scheduler's trace (Cpu0Trace).                     *)
(***************************************************************************)
EXTENDS JoyDrive, TreePatch, DebugProfiler, FrameCapture, BootLog, Cpu0Trace,
        FiniteSetTheorems, WellFoundedInduction, TLAPS

-----------------------------------------------------------------------------
(***************************************************************************)
(* THE SCRIPTED PLAYER of joy_drive.py never pauses a game, for every      *)
(* length of the intro and every script of joy_inject.py: what it knows of *)
(* the game is out of date by less than the game needs to begin to play.   *)
(***************************************************************************)

\* Frames the game is on its way to play at the most, since the menus.
Near(n) == game = "over" \/ (game = "intro" /\ intro <= n)

\* What a script is at, and the tap it is to make.
ScriptPoint ==
  /\ mode \in {"drive", "inject"}
  /\ mode = "drive" => dpc # "script"
  /\ mode = "inject" => dpc \notin {"loop", "menu"}
  /\ dpc = "press" => step \in DOMAIN (IF mode = "drive" THEN MenuSequence ELSE Script)

\* A line that says the menus is at most a frame old.
LineIsRecent == InMenus(logged) => Near(0)

\* The press is at most a frame later than the look.
LookIsRecent == mode = "drive" /\ dpc = "press" => Near(IF late THEN 1 ELSE 0)

\* A start the game has not seen yet comes before play.
StartComesEarly == mode = "drive" /\ "start" \in Pressed => Near(1)

JoyInv ==
  /\ NeverPausesAGame /\ late \in BOOLEAN
  /\ ScriptPoint /\ LineIsRecent /\ LookIsRecent /\ StartComesEarly

LEMMA JoyInitInv == JoyInit => JoyInv
<1> SUFFICES ASSUME JoyInit PROVE JoyInv
  OBVIOUS
<1>1. JoyTypeOK
  <2>1. word \subseteq Buttons /\ pad \subseteq Buttons
    BY DEF JoyInit, Buttons
  <2>2. intro \in 0..IntroFrames
    BY JoyAssumption DEF JoyInit
  <2> QED BY <2>1, <2>2 DEF JoyInit, JoyTypeOK
<1>2. "start" \notin Pressed
  BY DEF JoyInit, Pressed
<1> QED
  BY <1>1, <1>2 DEF JoyInit, JoyInv, NeverPausesAGame, ScriptPoint, LineIsRecent, LookIsRecent,
                    StartComesEarly, Near

\* The taps of the menus are of buttons.
LEMMA MenuButtons == \A i \in DOMAIN MenuSequence : MenuSequence[i] \in Buttons
  BY DEF MenuSequence, Buttons

\* A frame takes the game at most one frame nearer to play.
LEMMA FrameInv == JoyInv /\ Frame => JoyInv'
<1> SUFFICES ASSUME JoyInv, Frame PROVE JoyInv'
  OBVIOUS
<1> USE DEF JoyInv
<1>1. /\ pad' = word /\ word' = word /\ logged' = game /\ late' = TRUE
      /\ mode' = mode /\ dpc' = dpc /\ step' = step /\ over' = over /\ capture' = capture
      /\ dpc = "press" => ~late
  BY DEF Frame, Poll
<1>2. mode = "drive" => ~Pauses
  BY DEF StartComesEarly, Pauses, Near
<1>3. CASE Pauses
  <2>1. paused' = TRUE /\ game' = game /\ menu' = menu /\ intro' = intro /\ game = "play"
    <3>1. game = "play" /\ ~Answered
      BY <1>3 DEF Pauses, Answered
    <3> QED BY <1>3, <3>1 DEF Frame
  <2>2. mode # "drive"
    BY <1>2, <1>3
  <2>3. (NeverPausesAGame /\ ScriptPoint)'
    BY <1>1, <2>1, <2>2 DEF NeverPausesAGame, JoyTypeOK, ScriptPoint
  <2> QED
    BY <1>1, <2>1, <2>2, <2>3 DEF LineIsRecent, LookIsRecent, StartComesEarly, InMenus
<1>4. CASE ~Pauses
  <2>1. (Answered /\ MenuMoves) \/ GameMoves
    BY <1>4 DEF Frame
  <2>2. paused' = paused /\ game' \in {"over", "intro", "play", "between"}
        /\ menu' \in {"scores", "title", "mode"} /\ intro' \in 0..IntroFrames
    BY <2>1, JoyAssumption DEF MenuMoves, GameMoves, gameVars, NeverPausesAGame, JoyTypeOK, Answered
  <2>3. game = "over" => Near(0)'
    BY <2>1 DEF MenuMoves, GameMoves, gameVars, Near, Answered
  <2>4. Near(0) => Near(1)'
    BY <2>1, JoyAssumption DEF MenuMoves, GameMoves, gameVars, Near, Answered, NeverPausesAGame,
                               JoyTypeOK
  <2>5. (NeverPausesAGame /\ ScriptPoint)'
    BY <1>1, <2>2 DEF NeverPausesAGame, JoyTypeOK, ScriptPoint
  <2>6. (LineIsRecent /\ LookIsRecent /\ StartComesEarly)'
    BY <1>1, <2>3, <2>4 DEF LineIsRecent, LookIsRecent, StartComesEarly, InMenus, Pressed,
                            NeverPausesAGame, JoyTypeOK, Near
  <2> QED BY <1>1, <2>5, <2>6
<1> QED BY <1>3, <1>4

\* A tap is decided on a line about the menus, and none but a tap presses start.
LEMMA DriverInv == JoyInv /\ DriverStep => JoyInv'
<1> SUFFICES ASSUME JoyInv, DriverStep PROVE JoyInv'
  OBVIOUS
<1> USE DEF JoyInv
<1>1. pad' = pad /\ mode' = mode /\ gameVars' = gameVars /\ logged' = logged /\ capture' = capture
  BY DEF DriverStep, Start, FollowPlay, WaitOver, BeginMenus, Idle, CheckTap, MenusDone, Press,
         Release, Steer, Run, Stop, TakeStep, InjectEnds, gameVars
<1>2. LineIsRecent'
  BY <1>1 DEF LineIsRecent, Near, gameVars
<1>3. CASE Press
  <2>1. Tapped \in Buttons
    BY <1>3, MenuButtons, JoyAssumption DEF Press, Tapped, ScriptPoint
  <2>2. (NeverPausesAGame /\ ScriptPoint /\ LookIsRecent)' /\ late' \in BOOLEAN
    BY <1>1, <1>3, <2>1 DEF Press, Put, NeverPausesAGame, JoyTypeOK, ScriptPoint, LookIsRecent, gameVars
  <2>3. mode = "drive" => Near(1)'
    BY <1>1, <1>3 DEF Press, LookIsRecent, Near, gameVars, NeverPausesAGame, JoyTypeOK
  <2> QED BY <1>1, <1>2, <2>2, <2>3 DEF StartComesEarly
<1>4. CASE CheckTap
  <2>1. mode = "drive" /\ dpc' = "press" => Near(0)
    BY <1>4 DEF CheckTap, LineIsRecent, MayTap
  <2>2. (NeverPausesAGame /\ StartComesEarly)' /\ late' = FALSE
    BY <1>1, <1>4 DEF CheckTap, ReadState, NeverPausesAGame, JoyTypeOK, StartComesEarly, Pressed,
                      Near, gameVars
  <2>3. ScriptPoint'
    BY <1>1, <1>4 DEF CheckTap, ScriptPoint
  <2>4. LookIsRecent'
    BY <1>1, <2>1, <2>2 DEF LookIsRecent, Near, gameVars
  <2> QED BY <1>2, <2>2, <2>3, <2>4
<1>5. CASE TakeStep
  BY <1>1, <1>2, <1>5 DEF TakeStep, NeverPausesAGame, JoyTypeOK, ScriptPoint, LookIsRecent,
                          StartComesEarly, Pressed, Near, gameVars
<1>6. CASE /\ ~(Press \/ CheckTap \/ TakeStep)
  <2>1. /\ word' \subseteq word \union Directions \union {"a"}
        /\ dpc' \in {"loop", "menu", "steer", "run", "stop", "script", "held", "start"}
        /\ mode = "drive" => dpc' # "script"
        /\ mode = "inject" => dpc' \notin {"loop", "menu"}
        /\ late' \in BOOLEAN /\ over' \in {"none", "counting", "long"}
    <3> USE DEF Put, ReadState, OverSince, NeverPausesAGame, JoyTypeOK, ScriptPoint
    <3>1. CASE Start \/ FollowPlay \/ WaitOver \/ BeginMenus \/ Idle
      BY <3>1 DEF Start, FollowPlay, WaitOver, BeginMenus, Idle
    <3>2. CASE MenusDone \/ Release \/ InjectEnds
      BY <3>2 DEF MenusDone, Release, InjectEnds
    <3>3. CASE Steer
      BY <3>3 DEF Steer, Directions
    <3>4. CASE Run \/ Stop
      BY <3>4 DEF Run, Stop
    <3> QED BY <1>6, <3>1, <3>2, <3>3, <3>4 DEF DriverStep
  <2>2. word' \subseteq Buttons /\ ("start" \in word' => "start" \in word)
    BY <2>1 DEF Buttons, Directions, NeverPausesAGame, JoyTypeOK
  <2>3. (NeverPausesAGame /\ ScriptPoint /\ LookIsRecent)'
    BY <1>1, <2>1, <2>2 DEF NeverPausesAGame, JoyTypeOK, ScriptPoint, LookIsRecent, gameVars
  <2>4. StartComesEarly'
    BY <1>1, <2>2 DEF StartComesEarly, Pressed, Near, gameVars
  <2> QED BY <1>2, <2>1, <2>3, <2>4
<1> QED BY <1>3, <1>4, <1>5, <1>6

\* What the clock and run.sh do touches neither the game nor what it holds.
LEMMA OutsideInv == JoyInv /\ (TwoSeconds \/ TimeUp \/ EndCapture \/ ClearWord) => JoyInv'
<1> SUFFICES ASSUME JoyInv, TwoSeconds \/ TimeUp \/ EndCapture \/ ClearWord PROVE JoyInv'
  OBVIOUS
<1>1. /\ pad' = pad /\ mode' = mode /\ gameVars' = gameVars /\ logged' = logged /\ late' = late
      /\ step' = step /\ (word' = word \/ word' = {})
      /\ dpc' = dpc \/ dpc' \in {"done", "killed"}
      /\ over' \in {over, "long"} /\ capture' \in {capture, "killed", "cleared"}
  BY DEF TwoSeconds, TimeUp, EndCapture, ClearWord, Put, Cleared, gameVars
<1> QED
  BY <1>1 DEF JoyInv, NeverPausesAGame, JoyTypeOK, ScriptPoint, LineIsRecent, LookIsRecent,
              StartComesEarly, Near, Pressed, gameVars

LEMMA JoyStepInv == JoyInv /\ [JoyNext]_joyVars => JoyInv'
<1> SUFFICES ASSUME JoyInv, [JoyNext]_joyVars PROVE JoyInv'
  OBVIOUS
<1>1. CASE UNCHANGED joyVars
  BY <1>1 DEF joyVars, gameVars, JoyInv, NeverPausesAGame, JoyTypeOK, ScriptPoint, LineIsRecent,
              LookIsRecent, StartComesEarly, Near, Pressed, InMenus
<1> QED BY <1>1, FrameInv, DriverInv, OutsideInv DEF JoyNext

\* The player's view of the game is never older than the game's way from the menus to
\* play: the log line is a frame old, the press a frame more (JoyDrive, joy_drive.py).
THEOREM PlayerInvariant == JoySpec => []JoyInv
<1> QED BY JoyInitInv, JoyStepInv, PTL DEF JoySpec

\* A tap of start meant for the menus never pauses a game (joy_drive.py:86).
THEOREM PlayerNeverPauses == JoySpec => []NeverPausesAGame
<1>1. JoyInv => NeverPausesAGame
  BY DEF JoyInv
<1> QED BY <1>1, PlayerInvariant, PTL

-----------------------------------------------------------------------------
(***************************************************************************)
(* THE TREE PATCHER, for every list of edits in which an edit adds its     *)
(* marker and none takes one away.                                         *)
(***************************************************************************)

\* The edits the tree has to hold: those made, and those the current run is past.
Past(i) == i \in applied \/ (spc \in {"edit", "write", "done"} /\ i < next)

MarkersStay ==
  \A i \in DOMAIN Edits :
    Past(i) /\ Edits[i].file \notin torn => Edits[i].marker \in tree[Edits[i].file]

WritesWhatIsMissing ==
  spc = "write" => Edits[next].marker \notin tree[Edits[next].file]

DoneIsPastTheList == spc = "done" => next \notin DOMAIN Edits

PatchInv ==
  /\ PatchTypeOK /\ MarkersStay /\ WritesWhatIsMissing /\ DoneIsPastTheList
  /\ spc = "copy" => next = 1

\* What the assumption says of one edit and of two edits of one file.
LEMMA EditFacts ==
  ASSUME NEW i \in DOMAIN Edits
  PROVE  /\ Edits[i].file \in Edited
         /\ Edits[i].marker \in Edits[i].adds
         /\ Edits[i].adds \subseteq STRING /\ Edits[i].drops \subseteq STRING
         /\ \A j \in DOMAIN Edits : Edits[i].file = Edits[j].file =>
                                      Edits[i].marker \notin Edits[j].drops
         /\ i \in Nat \ {0} /\ i <= Len(Edits)
         /\ DOMAIN Edits = 1..Len(Edits) /\ Len(Edits) \in Nat
<1> DEFINE Rec == [file : Edited, marker : STRING, anchor : STRING,
                   adds : SUBSET STRING, drops : SUBSET STRING]
<1>1. Edits \in Seq(Rec)
  BY EditsAssumption DEF EditsAssumption
<1>2. DOMAIN Edits = 1..Len(Edits) /\ Len(Edits) \in Nat /\ Edits[i] \in Rec
  <2> HIDE DEF Rec
  <2>1. DOMAIN Edits = 1..Len(Edits) /\ Len(Edits) \in Nat
    BY <1>1
  <2> QED BY <1>1, <2>1
<1>3. /\ Edits[i].marker \in Edits[i].adds
      /\ \A j \in DOMAIN Edits : Edits[i].file = Edits[j].file =>
                                   Edits[i].marker \notin Edits[j].drops
  BY EditsAssumption DEF EditsAssumption
<1> QED BY <1>2, <1>3

LEMMA ListFacts == DOMAIN Edits = 1..Len(Edits) /\ Len(Edits) \in Nat
  BY EditsAssumption DEF EditsAssumption

LEMMA InitInv == PatchInit => PatchInv
<1> SUFFICES ASSUME PatchInit PROVE PatchInv
  OBVIOUS
<1>1. PatchTypeOK
  BY EditsAssumption, ListFacts DEF PatchInit, PatchTypeOK, EditsAssumption
<1> QED
  BY <1>1 DEF PatchInit, PatchInv, MarkersStay, Past, WritesWhatIsMissing, DoneIsPastTheList

\* Rewriting a file keeps the markers it has and adds the edit's own.
LEMMA RewriteKeepsMarkers ==
  ASSUME NEW i \in DOMAIN Edits, NEW j \in DOMAIN Edits, NEW text,
         Edits[i].file = Edits[j].file, Edits[i].marker \in text \/ i = j
  PROVE  Edits[i].marker \in Rewritten(Edits[j], text)
  BY EditFacts DEF Rewritten

LEMMA PatchedInv == PatchInv /\ Patched => PatchInv'
<1> SUFFICES ASSUME PatchInv, Patched PROVE PatchInv'
  OBVIOUS
<1> USE DEF PatchInv
<1>0. next \in DOMAIN Edits /\ spc = "write" /\ spc' = "edit" /\ next' = next + 1
      /\ torn' = torn /\ left' = left /\ applied' = applied \union {next}
  BY DEF Patched, PatchTypeOK
<1>1. PatchTypeOK'
  <2>1. next' \in 1..(Len(Edits) + 1)
    BY <1>0, EditFacts DEF PatchTypeOK
  <2>2. tree' \in [Edited \union Copied -> SUBSET STRING]
    BY <1>0, EditFacts DEF Patched, PatchTypeOK, Rewritten
  <2> QED BY <1>0, <2>1, <2>2 DEF PatchTypeOK
<1>2. MarkersStay'
  <2> SUFFICES ASSUME NEW i \in DOMAIN Edits, Past(i)', Edits[i].file \notin torn
               PROVE  Edits[i].marker \in tree'[Edits[i].file]
    BY <1>0 DEF MarkersStay
  <2>1. i = next \/ Past(i)
    BY <1>0, EditFacts DEF Past
  <2>2. Edits[i].marker \in tree[Edits[i].file] \/ i = next
    BY <2>1 DEF MarkersStay
  <2>3. CASE Edits[i].file = Edits[next].file
    <3>1. tree'[Edits[i].file] = Rewritten(Edits[next], tree[Edits[i].file])
      BY <1>0, <2>3, EditFacts DEF Patched, PatchTypeOK
    <3> QED BY <1>0, <2>2, <2>3, <3>1, RewriteKeepsMarkers
  <2>4. CASE Edits[i].file # Edits[next].file
    <3>1. tree'[Edits[i].file] = tree[Edits[i].file]
      BY <1>0, <2>4, EditFacts DEF Patched, PatchTypeOK
    <3> QED BY <2>2, <2>4, <3>1
  <2> QED BY <2>3, <2>4
<1> QED BY <1>0, <1>1, <1>2 DEF WritesWhatIsMissing, DoneIsPastTheList

LEMMA SkipInv == PatchInv /\ AlreadyApplied => PatchInv'
<1> SUFFICES ASSUME PatchInv, AlreadyApplied PROVE PatchInv'
  OBVIOUS
<1> USE DEF PatchInv
<1>0. /\ next \in DOMAIN Edits /\ spc = "edit" /\ spc' = "edit" /\ next' = next + 1
      /\ tree' = tree /\ torn' = torn /\ left' = left /\ applied' = applied
      /\ Edits[next].marker \in tree[Edits[next].file]
  BY DEF AlreadyApplied, HasMarker
<1>1. PatchTypeOK'
  BY <1>0, EditFacts DEF PatchTypeOK
<1>2. MarkersStay'
  <2> SUFFICES ASSUME NEW i \in DOMAIN Edits, Past(i)', Edits[i].file \notin torn
               PROVE  Edits[i].marker \in tree[Edits[i].file]
    BY <1>0 DEF MarkersStay
  <2>1. i = next \/ Past(i)
    BY <1>0, EditFacts DEF Past
  <2> QED BY <1>0, <2>1 DEF MarkersStay
<1> QED BY <1>0, <1>1, <1>2 DEF WritesWhatIsMissing, DoneIsPastTheList

LEMMA KillInWriteInv == PatchInv /\ KillInWrite => PatchInv'
<1> SUFFICES ASSUME PatchInv, KillInWrite PROVE PatchInv'
  OBVIOUS
<1> USE DEF PatchInv
<1> DEFINE f == Edits[next].file
<1>0. /\ next \in DOMAIN Edits /\ spc = "write" /\ spc' = "killed" /\ next' = next
      /\ torn' = torn \union {f} /\ left' = left /\ applied' = applied
  BY DEF KillInWrite, PatchTypeOK
<1>1. PICK part \in Written(Edits[next], tree[f]) : tree' = [tree EXCEPT ![f] = part]
  BY DEF KillInWrite
<1>2. f \in Edited /\ part \subseteq STRING
  BY <1>0, <1>1, EditFacts DEF Written, Rewritten, PatchTypeOK
<1>3. PatchTypeOK'
  BY <1>0, <1>1, <1>2 DEF PatchTypeOK
<1>4. MarkersStay'
  <2> SUFFICES ASSUME NEW i \in DOMAIN Edits, Past(i)', Edits[i].file \notin torn'
               PROVE  Edits[i].marker \in tree'[Edits[i].file]
    BY DEF MarkersStay
  <2>1. Past(i) /\ Edits[i].file # f /\ Edits[i].file \notin torn
    BY <1>0 DEF Past
  <2>2. tree'[Edits[i].file] = tree[Edits[i].file]
    BY <1>1, <2>1, EditFacts DEF PatchTypeOK
  <2> QED BY <2>1, <2>2 DEF MarkersStay
<1> QED BY <1>0, <1>3, <1>4 DEF WritesWhatIsMissing, DoneIsPastTheList

\* A write of a copied file disturbs no edited one.
LEMMA CopyInv ==
  ASSUME PatchInv, NEW g \in Copied, NEW text \in SUBSET STRING, spc = "copy",
         tree' = [tree EXCEPT ![g] = text], next' = next, torn' = torn, applied' = applied,
         left' \subseteq Copied, spc' = "copy" \/ spc' = "killed"
  PROVE  PatchInv'
<1> USE DEF PatchInv
<1>1. PatchTypeOK'
  BY DEF PatchTypeOK
<1>2. MarkersStay'
  <2> SUFFICES ASSUME NEW i \in DOMAIN Edits, Past(i)', Edits[i].file \notin torn
               PROVE  Edits[i].marker \in tree'[Edits[i].file]
    BY DEF MarkersStay
  <2>1. Past(i)
    BY DEF Past
  <2>2. tree'[Edits[i].file] = tree[Edits[i].file]
    BY EditFacts, EditsAssumption DEF PatchTypeOK, EditsAssumption
  <2> QED BY <2>1, <2>2 DEF MarkersStay
<1> QED BY <1>1, <1>2 DEF WritesWhatIsMissing, DoneIsPastTheList

LEMMA StepInv == PatchInv /\ [PatchNext]_patchVars => PatchInv'
<1> SUFFICES ASSUME PatchInv, [PatchNext]_patchVars PROVE PatchInv'
  OBVIOUS
<1>1. CASE CopyFile
  <2>1. PICK g \in left : tree' = [tree EXCEPT ![g] = Whole]
    BY <1>1 DEF CopyFile
  <2>2. g \in Copied /\ Whole \in SUBSET STRING /\ left' \subseteq Copied
    BY <1>1, <2>1, EditsAssumption DEF PatchInv, PatchTypeOK, CopyFile, Whole, EditsAssumption
  <2> QED BY <1>1, <2>1, <2>2, CopyInv DEF CopyFile
<1>2. CASE StartEdits
  BY <1>2, ListFacts DEF StartEdits, PatchInv, PatchTypeOK, MarkersStay, Past, WritesWhatIsMissing,
     DoneIsPastTheList
<1>3. CASE AlreadyApplied
  BY <1>3, SkipInv
<1>4. CASE AnchorNotFound
  BY <1>4 DEF AnchorNotFound, PatchInv, PatchTypeOK, MarkersStay, Past, WritesWhatIsMissing,
     DoneIsPastTheList
<1>5. CASE Truncate
  BY <1>5 DEF Truncate, HasMarker, PatchInv, PatchTypeOK, MarkersStay, Past, WritesWhatIsMissing,
     DoneIsPastTheList
<1>6. CASE Patched
  BY <1>6, PatchedInv
<1>7. CASE ScriptEnds
  BY <1>7 DEF ScriptEnds, PatchInv, PatchTypeOK, MarkersStay, Past, WritesWhatIsMissing,
     DoneIsPastTheList
<1>8. CASE Kill
  BY <1>8 DEF Kill, PatchInv, PatchTypeOK, MarkersStay, Past, WritesWhatIsMissing, DoneIsPastTheList
<1>9. CASE KillInCopy
  <2>1. PICK g \in left : tree' = [tree EXCEPT ![g] = {}]
    BY <1>9 DEF KillInCopy
  <2>2. g \in Copied /\ left' \subseteq Copied
    BY <1>9, <2>1 DEF KillInCopy, PatchInv, PatchTypeOK
  <2> QED BY <1>9, <2>1, <2>2, CopyInv DEF KillInCopy
<1>10. CASE KillInWrite
  BY <1>10, KillInWriteInv
<1>11. CASE RunAgain
  BY <1>11, ListFacts DEF RunAgain, PatchInv, PatchTypeOK, MarkersStay, Past, WritesWhatIsMissing,
     DoneIsPastTheList
<1>12. CASE UNCHANGED patchVars
  BY <1>12 DEF patchVars, PatchInv, PatchTypeOK, MarkersStay, Past, WritesWhatIsMissing,
     DoneIsPastTheList
<1> QED
  BY <1>1, <1>2, <1>3, <1>4, <1>5, <1>6, <1>7, <1>8, <1>9, <1>10, <1>11, <1>12 DEF PatchNext

THEOREM PatchInvariant == PatchSpec => []PatchInv
<1>1. PatchInit => PatchInv
  BY InitInv
<1>2. PatchInv /\ [PatchNext]_patchVars => PatchInv'
  BY StepInv
<1> QED BY <1>1, <1>2, PTL DEF PatchSpec

\* Whatever kills and reruns came before, a run that finishes leaves the marker of every
\* edit in its file, unless a write of that file was cut off.
THEOREM EveryEditInItsFile == PatchSpec => []FinishedHasEveryEdit
<1>1. PatchInv => FinishedHasEveryEdit
  <2> SUFFICES ASSUME PatchInv, spc = "done", NEW i \in DOMAIN Edits, Edits[i].file \notin torn
               PROVE  Edits[i].marker \in tree[Edits[i].file]
    BY DEF FinishedHasEveryEdit
  <2>1. i < next
    BY EditFacts DEF PatchInv, PatchTypeOK, DoneIsPastTheList
  <2> QED BY <2>1 DEF PatchInv, MarkersStay, Past
<1> QED BY <1>1, PatchInvariant, PTL

\* No run writes the text of an edit into a file that has it from an earlier one.
THEOREM NothingInsertedTwice == PatchSpec => NoEditTwice
<1> DEFINE Twice == \A i \in applied : Edits[i].file \notin torn =>
                                         ~(spc = "write" /\ spc' = "edit" /\ next = i)
<1>1. PatchInv /\ [PatchNext]_patchVars => [Twice]_patchVars
  <2> SUFFICES ASSUME PatchInv, NEW i \in applied, Edits[i].file \notin torn,
                      spc = "write", next = i
               PROVE  FALSE
    OBVIOUS
  <2> QED
    BY DEF PatchInv, PatchTypeOK, MarkersStay, Past, WritesWhatIsMissing
<1> QED BY <1>1, PatchInvariant, PTL DEF PatchSpec, NoEditTwice

(***************************************************************************)
(* A finished tree is the tree of one undisturbed run.  Between two edits  *)
(* the files are what some first edits of the list leave of stock sources, *)
(* and the run is not ahead of them: of those it skips every one, for its  *)
(* marker is there, and the next is made, or skipped, as in the first run. *)
(***************************************************************************)

\* Of the numbers up to n, a set that has 0 and with each number the next has all.
LEMMA ClimbsToAll ==
  ASSUME NEW n \in Nat, NEW S \in SUBSET (0 .. n), 0 \in S,
         \A k \in 0 .. n - 1 : k \in S => k + 1 \in S
  PROVE  S = 0 .. n
<1> SUFFICES ASSUME (0 .. n) \ S # {} PROVE FALSE
  OBVIOUS
<1> DEFINE R == {ss \in Nat \X Nat : ss[1] < ss[2]}
<1>1. PICK m \in (0 .. n) \ S : \A k \in (0 .. n) \ S : <<k, m>> \notin R
  <2>1. (0 .. n) \ S \subseteq Nat
    OBVIOUS
  <2>2. IsWellFoundedOn(R, Nat)
    BY NatLessThanWellFounded, Zenon DEF OpToRel
  <2> HIDE DEF R
  <2> QED BY <2>1, <2>2, WFMin
<1>2. m - 1 \in 0 .. n - 1 /\ m - 1 < m /\ m \in Nat /\ m - 1 \in Nat
  OBVIOUS
<1>3. m - 1 \in S
  <2>1. <<m - 1, m>> \in R
    BY <1>2
  <2> HIDE DEF R
  <2> QED BY <1>1, <1>2, <2>1
<1>4. m - 1 + 1 = m
  OBVIOUS
<1> QED BY <1>1, <1>2, <1>3, <1>4

\* What edit n makes of the files before it, in an undisturbed run.
AfterEdit(n, before) ==
  LET e == Edits[n]
  IN  IF e.marker \in before[e.file] THEN before
      ELSE [before EXCEPT ![e.file] = (@ \ e.drops) \union e.adds]

IsFreshTo(h, n) == h = [m \in 0 .. n |-> IF m = 0 THEN Upstream ELSE AfterEdit(m, h[m - 1])]

LEMMA FreshExists ==
  ASSUME NEW n \in Nat
  PROVE  \E h : IsFreshTo(h, n)
<1>1. PICK S \in SUBSET (0 .. n) : S = {m \in 0 .. n : \E h : IsFreshTo(h, m)}
  OBVIOUS
<1>2. 0 \in S
  <2>1. IsFreshTo([m \in 0 .. 0 |-> Upstream], 0)
    BY DEF IsFreshTo
  <2> QED BY <1>1, <2>1
<1>3. ASSUME NEW k \in 0 .. n - 1, k \in S
      PROVE  k + 1 \in S
  <2>1. PICK f : IsFreshTo(f, k)
    BY <1>1, <1>3
  <2>2. PICK h : h = [m \in 0 .. k + 1 |-> IF m = k + 1 THEN AfterEdit(k + 1, f[k]) ELSE f[m]]
    OBVIOUS
  <2>3. ASSUME NEW m \in 0 .. k + 1
        PROVE  h[m] = IF m = 0 THEN Upstream ELSE AfterEdit(m, h[m - 1])
    <3>1. CASE m = k + 1
      <4>1. h[m] = AfterEdit(k + 1, f[k]) /\ h[k] = f[k] /\ m # 0 /\ m - 1 = k
        BY <2>2, <3>1
      <4> QED BY <3>1, <4>1
    <3>2. CASE m # k + 1
      <4>1. m \in 0 .. k /\ h[m] = f[m]
        BY <2>2, <3>2
      <4>2. m # 0 => h[m - 1] = f[m - 1]
        BY <2>2, <4>1
      <4> QED BY <2>1, <4>1, <4>2 DEF IsFreshTo
    <3> QED BY <3>1, <3>2
  <2>4. h = [m \in 0 .. k + 1 |-> h[m]]
    BY <2>2
  <2>5. IsFreshTo(h, k + 1)
    BY <2>3, <2>4 DEF IsFreshTo
  <2> QED BY <1>1, <2>5
<1>4. S = 0 .. n
  BY <1>2, <1>3, ClimbsToAll
<1> QED BY <1>1, <1>4

LEMMA FreshSteps ==
  /\ Fresh[0] = Upstream
  /\ \A n \in 1 .. Len(Edits) : Fresh[n] = AfterEdit(n, Fresh[n - 1])
<1>1. PICK g : IsFreshTo(g, Len(Edits))
  BY ListFacts, FreshExists
<1>2. IsFreshTo(Fresh, Len(Edits))
  <2>1. Fresh = CHOOSE h : IsFreshTo(h, Len(Edits))
    BY DEF Fresh, IsFreshTo, AfterEdit
  <2> QED BY <1>1, <2>1
<1>3. 0 \in 0 .. Len(Edits) /\ \A n \in 1 .. Len(Edits) : n \in 0 .. Len(Edits) /\ n # 0
  BY ListFacts
<1> HIDE DEF Fresh
<1> QED BY <1>2, <1>3 DEF IsFreshTo

LEMMA FreshIsTyped ==
  \A n \in 0 .. Len(Edits) : Fresh[n] \in [Edited -> SUBSET STRING]
<1>1. PICK S \in SUBSET (0 .. Len(Edits)) :
        S = {n \in 0 .. Len(Edits) : Fresh[n] \in [Edited -> SUBSET STRING]}
  OBVIOUS
<1>2. 0 \in S
  BY <1>1, ListFacts, FreshSteps, EditsAssumption DEF EditsAssumption
<1>3. ASSUME NEW k \in 0 .. Len(Edits) - 1, k \in S
      PROVE  k + 1 \in S
  <2>1. k + 1 \in 1 .. Len(Edits) /\ k + 1 - 1 = k /\ k + 1 \in 0 .. Len(Edits)
    BY ListFacts
  <2>2. Fresh[k + 1] = AfterEdit(k + 1, Fresh[k]) /\ Fresh[k] \in [Edited -> SUBSET STRING]
    BY <1>1, <1>3, <2>1, FreshSteps
  <2>3. Edits[k + 1].adds \subseteq STRING
    BY <2>1, ListFacts, EditFacts
  <2>4. AfterEdit(k + 1, Fresh[k]) \in [Edited -> SUBSET STRING]
    BY <2>2, <2>3 DEF AfterEdit
  <2> QED BY <1>1, <2>1, <2>2, <2>4
<1>4. S = 0 .. Len(Edits)
  <2> SUFFICES Len(Edits) \in Nat
    BY <1>2, <1>3, ClimbsToAll
  <2> QED BY ListFacts
<1> QED BY <1>1, <1>4

\* What a file holds is its own text or that of an edit so far.
LEMMA FreshComesFrom ==
  ASSUME NEW n \in 0 .. Len(Edits), NEW f \in Edited, NEW x \in Fresh[n][f]
  PROVE  x \in Upstream[f] \/ \E j \in 1 .. n : Edits[j].file = f /\ x \in Edits[j].adds
<1> DEFINE From(m) == \/ x \in Upstream[f]
                      \/ \E j \in 1 .. m : Edits[j].file = f /\ x \in Edits[j].adds
<1>1. PICK S \in SUBSET (0 .. Len(Edits)) :
        S = {m \in 0 .. Len(Edits) : x \in Fresh[m][f] => From(m)}
  OBVIOUS
<1>2. 0 \in S
  BY <1>1, ListFacts, FreshSteps
<1>3. ASSUME NEW k \in 0 .. Len(Edits) - 1, k \in S
      PROVE  k + 1 \in S
  <2> SUFFICES ASSUME x \in Fresh[k + 1][f] PROVE From(k + 1)
    BY <1>1, ListFacts
  <2>1. /\ k + 1 \in 1 .. Len(Edits) /\ k + 1 - 1 = k /\ k \in 0 .. Len(Edits)
        /\ k \in Nat /\ \A j \in 1 .. k : j \in 1 .. k + 1
    BY ListFacts
  <2>2. PICK e : e = Edits[k + 1]
    OBVIOUS
  <2>3. PICK before \in [Edited -> SUBSET STRING] : before = Fresh[k]
    BY <2>1, FreshIsTyped
  <2>4. x \in before[f] \/ (e.file = f /\ x \in e.adds)
    <3>1. Fresh[k + 1] = AfterEdit(k + 1, Fresh[k])
      BY <2>1, FreshSteps
    <3>2. Fresh[k + 1] = before
            \/ Fresh[k + 1] = [before EXCEPT ![e.file] = (@ \ e.drops) \union e.adds]
      BY <2>2, <2>3, <3>1 DEF AfterEdit
    <3>3. CASE Fresh[k + 1] = before
      BY <3>3
    <3>4. CASE Fresh[k + 1] = [before EXCEPT ![e.file] = (@ \ e.drops) \union e.adds]
      BY <2>3, <3>4
    <3> QED BY <3>2, <3>3, <3>4
  <2>5. CASE x \in before[f]
    BY <1>1, <1>3, <2>1, <2>3, <2>5
  <2>6. CASE e.file = f /\ x \in e.adds
    <3>1. k + 1 \in 1 .. k + 1
      BY <2>1
    <3> QED BY <2>2, <2>6, <3>1
  <2> QED BY <2>4, <2>5, <2>6
<1>4. S = 0 .. Len(Edits)
  <2> SUFFICES Len(Edits) \in Nat
    BY <1>2, <1>3, ClimbsToAll
  <2> QED BY ListFacts
<1> QED BY <1>1, <1>4

\* The markers of the edits so far are there.
LEMMA FreshHasMarkers ==
  ASSUME NEW i \in DOMAIN Edits, NEW n \in i .. Len(Edits)
  PROVE  Edits[i].marker \in Fresh[n][Edits[i].file]
<1>1. i \in 1 .. Len(Edits) /\ Len(Edits) \in Nat /\ Edits[i].file \in Edited
  BY ListFacts, EditFacts
<1>2. PICK S \in SUBSET (0 .. Len(Edits)) :
        S = {m \in 0 .. Len(Edits) : m >= i => Edits[i].marker \in Fresh[m][Edits[i].file]}
  OBVIOUS
<1>3. 0 \in S
  BY <1>1, <1>2
<1>4. ASSUME NEW k \in 0 .. Len(Edits) - 1, k \in S
      PROVE  k + 1 \in S
  <2> SUFFICES ASSUME k + 1 >= i
               PROVE  Edits[i].marker \in Fresh[k + 1][Edits[i].file]
    BY <1>1, <1>2
  <2>1. k + 1 \in 1 .. Len(Edits) /\ k + 1 - 1 = k /\ k \in 0 .. Len(Edits)
    BY <1>1
  <2>2. PICK e : e = Edits[k + 1]
    OBVIOUS
  <2>3. PICK before \in [Edited -> SUBSET STRING] : before = Fresh[k]
    BY <2>1, FreshIsTyped
  <2>4. Fresh[k + 1] = IF e.marker \in before[e.file] THEN before
                       ELSE [before EXCEPT ![e.file] = (@ \ e.drops) \union e.adds]
    <3>1. Fresh[k + 1] = AfterEdit(k + 1, Fresh[k])
      BY <2>1, FreshSteps
    <3> HIDE DEF Fresh
    <3> QED BY <2>2, <2>3, <3>1 DEF AfterEdit
  <2>5. k + 1 = i \/ Edits[i].marker \in before[Edits[i].file]
    BY <1>1, <1>2, <1>4, <2>3
  <2>6. e.file \in Edited /\ (Edits[i].file = e.file => Edits[i].marker \notin e.drops)
    BY <2>1, <2>2, ListFacts, EditFacts
  <2>7. k + 1 = i => Edits[i].marker \in e.adds /\ Edits[i] = e
    BY <2>2, EditFacts
  <2>8. CASE e.marker \in before[e.file]
    BY <2>4, <2>5, <2>7, <2>8
  <2>9. CASE e.marker \notin before[e.file]
    <3>1. Fresh[k + 1] = [before EXCEPT ![e.file] = (@ \ e.drops) \union e.adds]
      BY <2>4, <2>9
    <3>2. CASE Edits[i].file = e.file
      <4>1. Fresh[k + 1][Edits[i].file] = (before[e.file] \ e.drops) \union e.adds
        BY <2>6, <3>1, <3>2
      <4> QED BY <2>5, <2>6, <2>7, <3>2, <4>1
    <3>3. CASE Edits[i].file # e.file
      <4>1. Fresh[k + 1][Edits[i].file] = before[Edits[i].file] /\ k + 1 # i
        BY <1>1, <2>2, <3>1, <3>3
      <4> QED BY <2>5, <4>1
    <3> QED BY <3>2, <3>3
  <2> QED BY <2>8, <2>9
<1>5. n \in S /\ n >= i
  BY <1>1, <1>3, <1>4, ClimbsToAll
<1> QED BY <1>2, <1>5

\* The edited files are what the first m edits of an undisturbed run leave.  The current
\* run is not past the next of them, and each of them was made, or was there already.
FreshAt(m) ==
  /\ m \in 0 .. Len(Edits)
  /\ \A f \in Edited : tree[f] = Fresh[m][f]
  /\ spc \in {"edit", "write", "done"} => next <= m + 1
  /\ \A i \in 1 .. m : i \in applied \/ Edits[i].marker \in Fresh[i - 1][Edits[i].file]

CopiesAreWhole ==
  /\ spc = "copy" => \A f \in Copied \ left : tree[f] = Whole
  /\ spc \in {"edit", "write", "done"} => \A f \in Copied : tree[f] = Whole

FreshInv ==
  /\ CopiesAreWhole
  /\ torn = {} => \E m \in 0 .. Len(Edits) : FreshAt(m)

\* An edit the run comes to is the next one of an undisturbed run, or is behind it.
LEMMA SkippedIsFresh ==
  ASSUME NEW m, FreshAt(m), PatchTypeOK, AlreadyApplied
  PROVE  \E n \in 0 .. Len(Edits) : FreshAt(n)'
<1>0. /\ next \in 1 .. Len(Edits) /\ Len(Edits) \in Nat /\ m \in 0 .. Len(Edits)
      /\ next' = next + 1 /\ tree' = tree /\ applied' = applied /\ spc' = "edit"
      /\ next <= m + 1 /\ Edits[next].marker \in tree[Edits[next].file]
      /\ Edits[next].file \in Edited
  BY ListFacts, EditFacts DEF AlreadyApplied, HasMarker, FreshAt
<1>1. CASE next <= m
  <2>1. FreshAt(m)'
    BY <1>0, <1>1 DEF FreshAt
  <2> QED BY <1>0, <2>1
<1>2. CASE next = m + 1
  <2>1. m + 1 \in 1 .. Len(Edits) /\ m + 1 \in 0 .. Len(Edits) /\ m + 1 - 1 = m
    BY <1>0, <1>2
  <2>2. Edits[m + 1].marker \in Fresh[m][Edits[m + 1].file]
    BY <1>0, <1>2 DEF FreshAt
  <2>3. Fresh[m + 1] = Fresh[m]
    <3>1. Fresh[m + 1] = AfterEdit(m + 1, Fresh[m])
      <4> PICK n \in 1 .. Len(Edits) : n = m + 1 /\ n - 1 = m
        BY <1>0, <2>1
      <4> QED BY FreshSteps
    <3> QED BY <2>2, <3>1 DEF AfterEdit
  <2>4. \A i \in 1 .. m + 1 : i \in applied \/ Edits[i].marker \in Fresh[i - 1][Edits[i].file]
    <3>1. \A i \in 1 .. m + 1 : i \in 1 .. m \/ i = m + 1
      BY <1>0
    <3> QED BY <2>1, <2>2, <3>1 DEF FreshAt
  <2>5. FreshAt(m + 1)'
    BY <1>0, <1>2, <2>1, <2>3, <2>4 DEF FreshAt
  <2> QED BY <2>1, <2>5
<1> QED BY <1>0, <1>1, <1>2

LEMMA PatchedIsFresh ==
  ASSUME NEW m, FreshAt(m), PatchTypeOK, WritesWhatIsMissing, Patched
  PROVE  \E n \in 0 .. Len(Edits) : FreshAt(n)'
<1>0. /\ next \in 1 .. Len(Edits) /\ Len(Edits) \in Nat /\ m \in 0 .. Len(Edits)
      /\ next' = next + 1 /\ applied' = applied \union {next} /\ spc' = "edit"
      /\ next <= m + 1 /\ Edits[next].marker \notin tree[Edits[next].file]
      /\ Edits[next].file \in Edited
  BY ListFacts, EditFacts DEF Patched, WritesWhatIsMissing, PatchTypeOK, FreshAt
<1>1. next = m + 1
  <2> SUFFICES ASSUME next <= m PROVE FALSE
    BY <1>0
  <2>1. m \in next .. Len(Edits) /\ next \in DOMAIN Edits
    BY <1>0, ListFacts
  <2>2. Edits[next].marker \in Fresh[m][Edits[next].file]
    BY <2>1, FreshHasMarkers
  <2> QED BY <1>0, <2>2 DEF FreshAt
<1>2. m + 1 \in 1 .. Len(Edits) /\ m + 1 \in 0 .. Len(Edits) /\ m + 1 - 1 = m
  BY <1>0, <1>1
<1>3. PICK e : e = Edits[next]
  OBVIOUS
<1>4. PICK before \in [Edited -> SUBSET STRING] : before = Fresh[m]
  BY <1>0, FreshIsTyped
<1>5. tree[e.file] = before[e.file] /\ e.marker \notin before[e.file] /\ e.file \in Edited
  BY <1>0, <1>3, <1>4 DEF FreshAt
<1>6. Fresh[m + 1] = [before EXCEPT ![e.file] = (@ \ e.drops) \union e.adds]
  <2>1. Fresh[m + 1] = AfterEdit(m + 1, Fresh[m])
    <3> PICK n \in 1 .. Len(Edits) : n = m + 1 /\ n - 1 = m
      BY <1>0, <1>2
    <3> QED BY FreshSteps
  <2> QED BY <1>1, <1>3, <1>4, <1>5, <2>1 DEF AfterEdit
<1>7. tree' = [tree EXCEPT ![e.file] = (@ \ e.drops) \union e.adds]
  BY <1>3 DEF Patched, Rewritten
<1>8. \A f \in Edited : tree'[f] = Fresh[m + 1][f]
  <2> TAKE f \in Edited
  <2>1. tree[f] = before[f] /\ f \in DOMAIN tree
    BY <1>4 DEF FreshAt, PatchTypeOK
  <2>2. CASE f = e.file
    BY <1>4, <1>5, <1>6, <1>7, <2>1, <2>2
  <2>3. CASE f # e.file
    BY <1>4, <1>5, <1>6, <1>7, <2>1, <2>3
  <2> QED BY <2>2, <2>3
<1>9. \A i \in 1 .. m + 1 : i \in applied' \/ Edits[i].marker \in Fresh[i - 1][Edits[i].file]
  <2>1. \A i \in 1 .. m + 1 : i \in 1 .. m \/ i = m + 1
    BY <1>0
  <2> QED BY <1>0, <1>1, <2>1 DEF FreshAt
<1>10. FreshAt(m + 1)'
  BY <1>0, <1>1, <1>2, <1>8, <1>9 DEF FreshAt
<1> QED BY <1>2, <1>10

\* Copies and edits do not meet, and the files edited are all there are.
LEMMA CopyKeepsFresh ==
  ASSUME PatchTypeOK, FreshInv, NEW g \in Copied, NEW text,
         tree' = [tree EXCEPT ![g] = text], torn' = torn, applied' = applied,
         spc' \in {"copy", "killed"}
  PROVE  torn' = {} => \E m \in 0 .. Len(Edits) : FreshAt(m)'
<1> SUFFICES ASSUME torn = {} PROVE \E m \in 0 .. Len(Edits) : FreshAt(m)'
  OBVIOUS
<1>1. PICK m \in 0 .. Len(Edits) : FreshAt(m)
  BY DEF FreshInv
<1>2. \A f \in Edited : tree'[f] = tree[f]
  BY EditsAssumption DEF PatchTypeOK, EditsAssumption
<1>3. FreshAt(m)'
  BY <1>1, <1>2 DEF FreshAt
<1> QED BY <1>3

\* Nothing that leaves the files and the record of edits alone disturbs it, as long as
\* the run does not go forward.
LEMMA RestIsFresh ==
  ASSUME FreshInv, tree' = tree, torn' = torn, applied' = applied,
         spc' \in {"edit", "write", "done"} =>
           next' = 1 \/ (next' = next /\ spc \in {"edit", "write", "done"})
  PROVE  torn' = {} => \E m \in 0 .. Len(Edits) : FreshAt(m)'
<1> SUFFICES ASSUME torn = {} PROVE \E m \in 0 .. Len(Edits) : FreshAt(m)'
  OBVIOUS
<1>1. PICK m \in 0 .. Len(Edits) : FreshAt(m)
  BY DEF FreshInv
<1>2. m \in Nat
  BY ListFacts
<1>3. FreshAt(m)'
  BY <1>1, <1>2 DEF FreshAt
<1> QED BY <1>3

LEMMA FreshStep == PatchInv /\ FreshInv /\ [PatchNext]_patchVars => FreshInv'
<1> SUFFICES ASSUME PatchInv, FreshInv, [PatchNext]_patchVars PROVE FreshInv'
  OBVIOUS
<1>0. PatchTypeOK /\ WritesWhatIsMissing /\ CopiesAreWhole /\ (spc = "copy" => next = 1)
  BY DEF PatchInv, FreshInv
<1>1. CASE CopyFile
  <2>1. PICK g \in left : tree' = [tree EXCEPT ![g] = Whole] /\ left' = left \ {g}
    BY <1>1 DEF CopyFile
  <2>2. g \in Copied /\ spc = "copy" /\ spc' = "copy" /\ torn' = torn /\ applied' = applied
    BY <1>0, <1>1, <2>1 DEF CopyFile, PatchTypeOK
  <2>3. CopiesAreWhole'
    BY <1>0, <2>1, <2>2 DEF CopiesAreWhole, PatchTypeOK
  <2> QED BY <1>0, <2>1, <2>2, <2>3, CopyKeepsFresh DEF FreshInv
<1>2. CASE StartEdits
  <2>1. /\ tree' = tree /\ torn' = torn /\ applied' = applied /\ left = {} /\ spc = "copy"
        /\ next' = 1 /\ spc' = "edit"
    BY <1>0, <1>2 DEF StartEdits, AllCopied
  <2>2. CopiesAreWhole'
    BY <1>0, <2>1 DEF CopiesAreWhole
  <2> QED BY <2>1, <2>2, RestIsFresh DEF FreshInv
<1>3. CASE AlreadyApplied
  <2>1. CopiesAreWhole'
    BY <1>0, <1>3 DEF AlreadyApplied, CopiesAreWhole
  <2>2. torn' = torn
    BY <1>3 DEF AlreadyApplied
  <2>3. torn = {} => \E m \in 0 .. Len(Edits) : FreshAt(m)'
    BY <1>0, <1>3, SkippedIsFresh DEF FreshInv
  <2> QED BY <2>1, <2>2, <2>3 DEF FreshInv
<1>4. CASE AnchorNotFound
  <2>1. CopiesAreWhole'
    BY <1>4 DEF AnchorNotFound, CopiesAreWhole
  <2> QED BY <1>4, <2>1, RestIsFresh DEF AnchorNotFound, FreshInv
<1>5. CASE Truncate
  <2>1. CopiesAreWhole'
    BY <1>0, <1>5 DEF Truncate, CopiesAreWhole
  <2> QED BY <1>5, <2>1, RestIsFresh DEF Truncate, FreshInv
<1>6. CASE Patched
  <2>1. Edits[next].file \in Edited
    BY <1>0, <1>6, EditFacts DEF Patched, PatchTypeOK
  <2>2. \A f \in Copied : tree'[f] = tree[f]
    BY <1>0, <1>6, <2>1, EditsAssumption DEF Patched, PatchTypeOK, EditsAssumption
  <2>3. CopiesAreWhole'
    BY <1>0, <1>6, <2>2 DEF Patched, CopiesAreWhole
  <2>4. torn' = torn
    BY <1>6 DEF Patched
  <2>5. torn = {} => \E m \in 0 .. Len(Edits) : FreshAt(m)'
    BY <1>0, <1>6, PatchedIsFresh DEF FreshInv
  <2> QED BY <2>3, <2>4, <2>5 DEF FreshInv
<1>7. CASE ScriptEnds
  <2>1. CopiesAreWhole'
    BY <1>0, <1>7 DEF ScriptEnds, CopiesAreWhole
  <2> QED BY <1>7, <2>1, RestIsFresh DEF ScriptEnds, FreshInv
<1>8. CASE Kill
  <2>1. CopiesAreWhole'
    BY <1>8 DEF Kill, CopiesAreWhole
  <2> QED BY <1>8, <2>1, RestIsFresh DEF Kill, FreshInv
<1>9. CASE KillInCopy
  <2>1. PICK g \in left : tree' = [tree EXCEPT ![g] = {}]
    BY <1>9 DEF KillInCopy
  <2>2. g \in Copied /\ spc' = "killed" /\ torn' = torn /\ applied' = applied
    BY <1>0, <1>9, <2>1 DEF KillInCopy, PatchTypeOK
  <2>3. CopiesAreWhole'
    BY <2>2 DEF CopiesAreWhole
  <2> QED BY <1>0, <2>1, <2>2, <2>3, CopyKeepsFresh DEF FreshInv
<1>10. CASE KillInWrite
  <2>1. torn' # {} /\ spc' = "killed"
    BY <1>10 DEF KillInWrite
  <2> QED BY <2>1 DEF CopiesAreWhole, FreshInv
<1>11. CASE RunAgain
  <2>1. CopiesAreWhole'
    BY <1>11 DEF RunAgain, CopiesAreWhole
  <2> QED BY <1>11, <2>1, RestIsFresh DEF RunAgain, FreshInv
<1>12. CASE UNCHANGED patchVars
  <2>1. CopiesAreWhole'
    BY <1>0, <1>12 DEF patchVars, CopiesAreWhole
  <2> QED BY <1>12, <2>1, RestIsFresh DEF patchVars, FreshInv
<1> QED
  BY <1>1, <1>2, <1>3, <1>4, <1>5, <1>6, <1>7, <1>8, <1>9, <1>10, <1>11, <1>12 DEF PatchNext

\* Whatever kills between writes, copies cut off and reruns came before, a run that ends
\* leaves the tree of one undisturbed run on stock sources.
THEOREM FinishedTreesAreFresh == PatchSpec => []FinishedTreeIsFresh
<1>1. PatchInit => FreshInv
  <2> SUFFICES ASSUME PatchInit PROVE FreshInv
    OBVIOUS
  <2>1. 0 \in 0 .. Len(Edits) /\ 1 .. 0 = {}
    BY ListFacts
  <2>2. \A f \in Edited : tree[f] = Upstream[f]
    BY DEF PatchInit
  <2>3. FreshAt(0)
    BY <2>1, <2>2, FreshSteps DEF FreshAt, PatchInit
  <2>4. CopiesAreWhole
    BY DEF CopiesAreWhole, PatchInit
  <2> QED BY <2>1, <2>3, <2>4 DEF FreshInv
<1>2. PatchInv /\ PatchInv' /\ FreshInv /\ [PatchNext]_patchVars => FreshInv'
  BY FreshStep
<1>3. PatchInv /\ FreshInv => FinishedTreeIsFresh
  <2> SUFFICES ASSUME PatchInv, FreshInv, spc = "done", torn = {}
               PROVE  /\ \A f \in Edited \union Copied :
                           tree[f] = IF f \in Edited THEN Fresh[Len(Edits)][f] ELSE Whole
                      /\ \A i \in DOMAIN Edits \ applied :
                           \E j \in 1 .. (i - 1) : Edits[j] = Edits[i]
    BY DEF FinishedTreeIsFresh
  <2>1. PICK m \in 0 .. Len(Edits) : FreshAt(m)
    BY DEF FreshInv
  <2>2. next = Len(Edits) + 1
    BY ListFacts DEF PatchInv, PatchTypeOK, DoneIsPastTheList
  <2>3. m = Len(Edits)
    <3>1. Len(Edits) + 1 <= m + 1 /\ Len(Edits) \in Nat
      BY <2>1, <2>2, ListFacts DEF FreshAt
    <3> QED BY <3>1
  <2>4. \A f \in Edited \union Copied :
          tree[f] = IF f \in Edited THEN Fresh[Len(Edits)][f] ELSE Whole
    BY <2>1, <2>3 DEF FreshAt, FreshInv, CopiesAreWhole
  <2>5. \A i \in DOMAIN Edits \ applied : Edits[i].marker \in Fresh[i - 1][Edits[i].file]
    BY <2>1, <2>3, ListFacts DEF FreshAt
  <2>6. ASSUME NEW i \in DOMAIN Edits \ applied
        PROVE  \E j \in 1 .. (i - 1) : Edits[j] = Edits[i]
    <3>1. i - 1 \in 0 .. Len(Edits) /\ Edits[i].file \in Edited
      BY ListFacts, EditFacts
    <3>2. Edits[i].marker \notin Upstream[Edits[i].file]
      BY OwnMarkers DEF OwnMarkers
    <3>3. PICK j \in 1 .. (i - 1) :
            Edits[j].file = Edits[i].file /\ Edits[i].marker \in Edits[j].adds
      <4>1. PICK n \in 0 .. Len(Edits) : n = i - 1
        BY <3>1
      <4>2. Edits[i].marker \in Fresh[n][Edits[i].file]
        BY <2>5, <4>1
      <4>3. \E j \in 1 .. n :
              Edits[j].file = Edits[i].file /\ Edits[i].marker \in Edits[j].adds
        BY <3>1, <3>2, <4>2, FreshComesFrom
      <4> QED BY <4>1, <4>3
    <3> QED BY <3>3, OwnMarkers DEF OwnMarkers
  <2> QED BY <2>4, <2>6
<1> QED BY <1>1, <1>2, <1>3, PatchInvariant, PTL DEF PatchSpec

-----------------------------------------------------------------------------
(***************************************************************************)
(* THE DEBUGGER'S CLIENT, for every finite set of functions.  First what   *)
(* parse_frame finds in the flat array of a frame; then that the           *)
(* signatures under way and those the client has give each frame under way *)
(* its names.                                                              *)
(***************************************************************************)
\* SetToSeq lists each element of a finite set once.
LEMMA ListsTheSet ==
  ASSUME NEW S, IsFiniteSet(S)
  PROVE  /\ SetToSeq(S) \in Seq(S) /\ Len(SetToSeq(S)) = Cardinality(S)
         /\ \A x \in S : \E i \in DOMAIN SetToSeq(S) : SetToSeq(S)[i] = x
         /\ \A i, j \in DOMAIN SetToSeq(S) : SetToSeq(S)[i] = SetToSeq(S)[j] => i = j
<1>1. PICK n \in Nat : n = Cardinality(S)
  BY FS_CardinalityType
<1>2. PICK f \in [1 .. n -> S] : IsInjective(f)
  <2>1. PICK f \in Bijection(1 .. n, S) : TRUE
    BY <1>1, FS_CardinalityType DEF ExistsBijection
  <2> QED BY <2>1 DEF Bijection, Injection
<1>3. PICK g \in [1 .. n -> S] : g = SetToSeq(S) /\ IsInjective(g)
  BY <1>1, <1>2 DEF SetToSeq
<1>4. g \in Seq(S) /\ Len(g) = n /\ DOMAIN g = 1 .. n
  OBVIOUS
<1>5. \A i, j \in 1 .. n : g[i] = g[j] => i = j
  BY <1>3, <1>4 DEF IsInjective
<1>6. \A x \in S : \E i \in 1 .. n : g[i] = x
  <2>1. g \in Injection(1 .. n, S)
    BY <1>3 DEF Injection
  <2>2. IsFiniteSet(1 .. n) /\ Cardinality(1 .. n) = n
    BY FS_Interval
  <2>3. g \in Surjection(1 .. n, S)
    BY <1>1, <2>1, <2>2, FS_Injection
  <2> QED BY <1>4, <2>3 DEF Surjection
<1> QED BY <1>1, <1>3, <1>4, <1>5, <1>6

\* A sequence that is s and t, one after the other.
Follows(both, A, s, t) ==
  /\ both \in Seq(A) /\ Len(both) = Len(s) + Len(t)
  /\ \A i \in 1 .. Len(s) : both[i] = s[i]
  /\ \A i \in 1 .. Len(t) : both[Len(s) + i] = t[i]

LEMMA Joined ==
  ASSUME NEW A, NEW s \in Seq(A), NEW t \in Seq(A)
  PROVE  Follows(s \o t, A, s, t)
<1>1. ASSUME NEW i \in 1 .. Len(t)
      PROVE  (s \o t)[Len(s) + i] = t[i]
  <2>1. Len(s) + i \in 1 .. Len(s) + Len(t)
    OBVIOUS
  <2> QED BY <2>1
<1>2. \A i \in 1 .. Len(s) : (s \o t)[i] = s[i]
  OBVIOUS
<1> QED BY <1>1, <1>2 DEF Follows

Word == Nat \union {"server"}

\* The p words of the front, then n, then w.
Holds(d, front, p, n, w) ==
  /\ \A i \in 1 .. p : d[i] = front[i]
  /\ d[p + 1] = n
  /\ \A i \in 1 .. Len(w) : d[p + 1 + i] = w[i]

LEMMA BehindServers ==
  ASSUME NEW front \in Seq(Word), NEW p \in Nat, Len(front) = p,
         NEW n \in Nat, NEW w \in Seq(Word)
  PROVE  Holds(front \o <<n>> \o w, front, p, n, w)
<1> DEFINE d == front \o <<n>> \o w
<1>1. PICK b \in Seq(Word) : b = <<n>> /\ Len(b) = 1 /\ b[1] = n
  <2>1. n \in Word
    BY DEF Word
  <2>2. <<n>> \in Seq(Word) /\ Len(<<n>>) = 1 /\ <<n>>[1] = n
    BY <2>1
  <2> QED BY <2>2, Zenon
<1>2. PICK c : c = front \o b
  OBVIOUS
<1>3. Follows(c, Word, front, b)
  BY <1>1, <1>2, Joined
<1>4. c \in Seq(Word) /\ Len(c) = p + 1
  BY <1>1, <1>3 DEF Follows
<1>5. Follows(d, Word, c, w)
  BY <1>1, <1>2, <1>4, Joined
<1>6. 1 \in 1 .. Len(b) /\ p + 1 \in 1 .. Len(c) /\ \A i \in 1 .. p : i \in 1 .. Len(c)
  BY <1>1, <1>4
<1> HIDE DEF d
<1>7. c[p + 1] = b[1] /\ \A i \in 1 .. p : c[i] = front[i]
  BY <1>3, <1>6, Zenon DEF Follows
<1>8. d[p + 1] = c[p + 1] /\ \A i \in 1 .. p : d[i] = c[i]
  BY <1>5, <1>6, Zenon DEF Follows
<1>9. \A i \in 1 .. Len(w) : d[p + 1 + i] = w[i]
  BY <1>4, <1>5, Zenon DEF Follows
<1>10. Holds(d, front, p, n, w)
  BY <1>1, <1>7, <1>8, <1>9, Zenon DEF Holds
<1> QED BY <1>10 DEF d

\* The seven words before the servers.
LEMMA SevenWords ==
  ASSUME NEW n \in Nat
  PROVE  /\ <<0, 0, 0, 0, 0, 0, n>> \in Seq(Word) /\ Len(<<0, 0, 0, 0, 0, 0, n>>) = 7
         /\ <<0, 0, 0, 0, 0, 0, n>>[7] = n
<1>1. n \in Word /\ 0 \in Word
  BY DEF Word
<1> QED BY <1>1

LEMMA TwoServers ==
  ASSUME NEW b, b = (<<"server", 0>> \o [k \in 1 .. 0 |-> 0]) \o (<<"server", 2>> \o [k \in 1 .. 2 |-> 0])
  PROVE  b \in Seq(Word) /\ Len(b) = 6 /\ b[2] = 0 /\ b[4] = 2
<1>0. "server" \in Word /\ 0 \in Word /\ 2 \in Word
  BY DEF Word
<1>1. PICK s \in Seq(Word) : s = <<"server", 0>> /\ Len(s) = 2 /\ s[2] = 0
  <2>1. <<"server", 0>> \in Seq(Word) /\ Len(<<"server", 0>>) = 2 /\ <<"server", 0>>[2] = 0
    BY <1>0
  <2> QED BY <2>1, Zenon
<1>2. PICK t \in Seq(Word) : t = <<"server", 2>> /\ Len(t) = 2 /\ t[2] = 2
  <2>1. <<"server", 2>> \in Seq(Word) /\ Len(<<"server", 2>>) = 2 /\ <<"server", 2>>[2] = 2
    BY <1>0
  <2> QED BY <2>1, Zenon
<1>3. PICK z \in Seq(Word) : z = [k \in 1 .. 2 |-> 0] /\ Len(z) = 2
  <2>1. [k \in 1 .. 2 |-> 0] \in Seq(Word) /\ Len([k \in 1 .. 2 |-> 0]) = 2
    BY <1>0
  <2> QED BY <2>1
<1>4. <<"server", 0>> \o [k \in 1 .. 0 |-> 0] = s
  BY <1>1
<1>5. PICK c : c = t \o z
  OBVIOUS
<1>6. Follows(c, Word, t, z)
  BY <1>2, <1>3, <1>5, Joined
<1>7. c \in Seq(Word) /\ Len(c) = 4
  BY <1>2, <1>3, <1>6 DEF Follows
<1>8. b = s \o c
  BY <1>2, <1>3, <1>4, <1>5
<1>9. Follows(b, Word, s, c)
  BY <1>1, <1>7, <1>8, Joined
<1>10. 2 \in 1 .. Len(s) /\ 2 \in 1 .. Len(t) /\ 2 \in 1 .. Len(c) /\ Len(s) + 2 = 4
  BY <1>1, <1>2, <1>7
<1>11. b[2] = s[2] /\ b[Len(s) + 2] = c[2]
  BY <1>9, <1>10, Zenon DEF Follows
<1>12. c[2] = t[2]
  BY <1>6, <1>10, Zenon DEF Follows
<1>13. b \in Seq(Word) /\ Len(b) = 6
  BY <1>1, <1>7, <1>9 DEF Follows
<1> QED BY <1>1, <1>2, <1>10, <1>11, <1>12, <1>13, Zenon

LEMMA ElementOf ==
  ASSUME NEW S, NEW s \in Seq(S), NEW i \in 1 .. Len(s)
  PROVE  s[i] \in S
  OBVIOUS

\* The functions of a frame, five words each.
Words(called) == FlattenSeq([i \in DOMAIN called |-> <<called[i].id, 1, 1, 1, 1>>])

\* f is the flattening of s.
FlattensTo(s, f) == f = [i \in 1 .. Len(s) |-> IF i = 1 THEN s[i] ELSE f[i - 1] \o s[i]]

LEMMA FlatteningExists ==
  ASSUME NEW s, NEW n \in Nat, Len(s) = n
  PROVE  \E f : FlattensTo(s, f)
<1> DEFINE Up(m, f) == f = [i \in 1 .. m |-> IF i = 1 THEN s[i] ELSE f[i - 1] \o s[i]]
<1>1. PICK S \in SUBSET (0 .. n) : S = {m \in 0 .. n : \E f : Up(m, f)}
  OBVIOUS
<1>2. 0 \in S
  <2>1. Up(0, [i \in 1 .. 0 |-> 0])
    OBVIOUS
  <2> HIDE DEF Up
  <2> QED BY <1>1, <2>1
<1>3. ASSUME NEW k \in 0 .. n - 1, k \in S
      PROVE  k + 1 \in S
  <2>1. PICK f : Up(k, f)
    BY <1>1, <1>3
  <2>2. PICK g : g = [i \in 1 .. k + 1 |-> IF i = 1 THEN s[i]
                                           ELSE IF i = k + 1 THEN f[k] \o s[i] ELSE f[i]]
    OBVIOUS
  <2>3. ASSUME NEW i \in 1 .. k + 1
        PROVE  g[i] = IF i = 1 THEN s[i] ELSE g[i - 1] \o s[i]
    <3>1. CASE i = 1
      BY <2>2, <3>1
    <3>2. CASE i # 1
      <4>1. i - 1 \in 1 .. k /\ g[i - 1] = f[i - 1]
        BY <2>1, <2>2, <3>2
      <4>2. g[i] = f[i - 1] \o s[i]
        <5>1. CASE i = k + 1
          <6>1. i - 1 = k
            BY <5>1
          <6> QED BY <2>2, <3>2, <5>1, <6>1
        <5>2. CASE i # k + 1
          <6>1. g[i] = f[i] /\ i \in 1 .. k
            BY <2>2, <3>2, <5>2
          <6> QED BY <2>1, <3>2, <6>1
        <5> QED BY <5>1, <5>2
      <4> QED BY <3>2, <4>1, <4>2
    <3> QED BY <3>1, <3>2
  <2>4. g = [i \in 1 .. k + 1 |-> g[i]]
    BY <2>2
  <2>5. Up(k + 1, g)
    BY <2>3, <2>4
  <2> HIDE DEF Up
  <2> QED BY <1>1, <2>5
<1>4. S = 0 .. n
  BY <1>2, <1>3, ClimbsToAll
<1>5. PICK f : Up(n, f)
  <2>1. n \in 0 .. n
    OBVIOUS
  <2> HIDE DEF Up
  <2> QED BY <1>1, <1>4, <2>1
<1> QED BY <1>5 DEF FlattensTo

\* A flat frame has five words a function, the first of them its id.
LEMMA WordsAre ==
  ASSUME NEW called \in Seq([id : Nat])
  PROVE  /\ Words(called) \in Seq(Nat) /\ Len(Words(called)) = 5 * Len(called)
         /\ \A k \in 1 .. Len(called) : Words(called)[5 * k - 4] = called[k].id
<1>1. PICK n \in Nat : n = Len(called) /\ DOMAIN called = 1 .. n
  OBVIOUS
<1>2. PICK s \in Seq(Seq(Nat)) :
        /\ s = [i \in DOMAIN called |-> <<called[i].id, 1, 1, 1, 1>>]
        /\ Len(s) = n
        /\ \A i \in 1 .. n : s[i] \in Seq(Nat) /\ Len(s[i]) = 5 /\ s[i][1] = called[i].id
  <2>1. PICK s : s = [i \in 1 .. n |-> <<called[i].id, 1, 1, 1, 1>>]
    OBVIOUS
  <2>2. ASSUME NEW i \in 1 .. n
        PROVE  s[i] \in Seq(Nat) /\ Len(s[i]) = 5 /\ s[i][1] = called[i].id
    <3>1. called[i] \in [id : Nat]
      BY <1>1, ElementOf
    <3>2. PICK x \in Nat : x = called[i].id
      BY <3>1
    <3>3. s[i] = <<x, 1, 1, 1, 1>>
      BY <2>1, <3>2
    <3> QED BY <3>2, <3>3
  <2>3. s \in Seq(Seq(Nat)) /\ Len(s) = n
    BY <2>1, <2>2
  <2> QED BY <1>1, <2>1, <2>2, <2>3
<1>3. CASE n = 0
  <2>1. Words(called) = s
    BY <1>2, <1>3 DEF Words, FlattenSeq
  <2>2. s = <<>>
    BY <1>2, <1>3
  <2> QED BY <1>1, <1>3, <2>1, <2>2
<1>4. CASE n # 0
  <2>1. PICK f : FlattensTo(s, f) /\ Words(called) = f[n]
    <3>1. \E f : FlattensTo(s, f)
      BY <1>2, FlatteningExists
    <3>2. Words(called) = (CHOOSE f : FlattensTo(s, f))[n]
      BY <1>2, <1>4 DEF Words, FlattenSeq, FlattensTo
    <3> QED BY <3>1, <3>2
  <2>2. \A i \in 1 .. n : f[i] = IF i = 1 THEN s[i] ELSE f[i - 1] \o s[i]
    BY <1>2, <2>1 DEF FlattensTo
  <2>3. PICK S \in SUBSET (0 .. n) :
          S = {m \in 0 .. n : m # 0 => /\ f[m] \in Seq(Nat) /\ Len(f[m]) = 5 * m
                                       /\ \A k \in 1 .. m : f[m][5 * k - 4] = called[k].id}
    OBVIOUS
  <2>4. 0 \in S
    BY <2>3
  <2>5. ASSUME NEW k \in 0 .. n - 1, k \in S
        PROVE  k + 1 \in S
    <3>0. PICK m \in 1 .. n : m = k + 1 /\ k = m - 1 /\ m \in 0 .. n
      OBVIOUS
    <3>1. CASE k = 0
      <4>1. m = 1 /\ f[1] = s[1] /\ 1 \in 1 .. n
        <5>1. m = 1 /\ 1 \in 1 .. n
          BY <3>0, <3>1
        <5>2. f[1] = IF 1 = 1 THEN s[1] ELSE f[1 - 1] \o s[1]
          BY <2>2, <5>1, Zenon
        <5> QED BY <5>1, <5>2
      <4>2. /\ f[1] \in Seq(Nat) /\ Len(f[1]) = 5 * 1
            /\ \A j \in 1 .. 1 : f[1][5 * j - 4] = called[j].id
        BY <1>2, <4>1
      <4>3. f[m] \in Seq(Nat) /\ Len(f[m]) = 5 * m
        BY <4>1, <4>2
      <4>4. \A j \in 1 .. m : f[m][5 * j - 4] = called[j].id
        BY <4>1, <4>2, Zenon
      <4>5. m \in S
        BY <2>3, <3>0, <4>3, <4>4, Zenon
      <4> QED BY <3>0, <4>5
    <3>2. CASE k # 0
      <4>1. k \in 1 .. n /\ f[k] \in Seq(Nat) /\ Len(f[k]) = 5 * k
            /\ \A j \in 1 .. k : f[k][5 * j - 4] = called[j].id
        BY <2>3, <2>5, <3>2
      <4>2. f[m] = f[k] \o s[m]
        <5>1. m \in 1 .. n /\ m # 1 /\ m - 1 = k
          BY <3>0, <3>2
        <5>2. f[m] = IF m = 1 THEN s[m] ELSE f[m - 1] \o s[m]
          BY <2>2, <5>1
        <5> QED BY <5>1, <5>2
      <4>3. f[k] \in Seq(Nat) /\ s[m] \in Seq(Nat) /\ Len(s[m]) = 5 /\ s[m][1] = called[m].id
        BY <1>2, <3>0, <4>1
      <4>4. PICK p \in Nat : p = 5 * k /\ Len(f[k]) = p
        BY <4>1
      <4>5. Follows(f[m], Nat, f[k], s[m])
        BY <4>2, <4>3, Joined
      <4>6. /\ f[m] \in Seq(Nat) /\ Len(f[m]) = p + 5
            /\ \A i \in 1 .. p : f[m][i] = f[k][i]
            /\ f[m][p + 1] = called[m].id
        <5>0. 1 \in 1 .. Len(s[m])
          BY <4>3
        <5>1. /\ f[m] \in Seq(Nat) /\ Len(f[m]) = Len(f[k]) + Len(s[m])
              /\ \A i \in 1 .. Len(f[k]) : f[m][i] = f[k][i]
              /\ f[m][Len(f[k]) + 1] = s[m][1]
          BY <4>5, <5>0 DEF Follows
        <5>2. Len(f[k]) = p /\ Len(s[m]) = 5
          BY <4>3, <4>4
        <5>3. f[m][p + 1] = s[m][1] /\ \A i \in 1 .. p : f[m][i] = f[k][i]
          BY <5>1, <5>2, Zenon
        <5>4. Len(f[m]) = p + 5
          BY <5>1, <5>2, Zenon
        <5> QED BY <4>3, <5>1, <5>3, <5>4, Zenon
      <4>7. \A j \in 1 .. m : f[m][5 * j - 4] = called[j].id
        <5> TAKE j \in 1 .. m
        <5>1. CASE j = m
          <6>1. 5 * j - 4 = p + 1
            BY <3>0, <4>4, <5>1
          <6> QED BY <4>6, <5>1, <6>1
        <5>2. CASE j # m
          <6>1. j \in 1 .. k /\ 5 * j - 4 \in 1 .. p
            BY <3>0, <4>4, <5>2
          <6> QED BY <4>1, <4>6, <6>1
        <5> QED BY <5>1, <5>2
      <4>8. p + 5 = 5 * m
        BY <3>0, <4>4
      <4> QED BY <2>3, <3>0, <4>6, <4>7, <4>8
    <3> QED BY <3>1, <3>2
  <2>6. S = 0 .. n
    BY <2>4, <2>5, ClimbsToAll
  <2>7. /\ f[n] \in Seq(Nat) /\ Len(f[n]) = 5 * n
        /\ \A k \in 1 .. n : f[n][5 * k - 4] = called[k].id
    <3>1. n \in 0 .. n
      OBVIOUS
    <3> QED BY <1>4, <2>3, <2>6, <3>1
  <2> QED BY <1>1, <2>1, <2>7
<1> QED BY <1>3, <1>4

\* parse_frame steps over each server by the length it states.
LEMMA StepsOver ==
  ASSUME NEW d, d[7] = 0 \/ (d[7] = 2 /\ d[9] = 0 /\ d[11] = 2)
  PROVE  ScriptsAt(d) = IF d[7] = 0 THEN 8 ELSE 14
<1> DEFINE P(f) == f = [s \in SUBSET (1 .. d[7]) |->
                         IF s = {} THEN 8 ELSE f[s \ {Max(s)}] + 2 + d[f[s \ {Max(s)}] + 1]]
<1>1. ScriptsAt(d) = (CHOOSE f : P(f))[1 .. d[7]]
  <2>1. DOMAIN [k \in 1 .. d[7] |-> k] = 1 .. d[7]
    OBVIOUS
  <2> QED BY <2>1 DEF ScriptsAt, FoldLeft, MapThenFoldSet
<1>2. CASE d[7] = 0
  <2>1. 1 .. d[7] = {}
    BY <1>2
  <2>2. P([s \in SUBSET (1 .. d[7]) |-> 8])
    BY <2>1
  <2>3. P(CHOOSE f : P(f))
    <3> HIDE DEF P
    <3> QED BY <2>2, Zenon
  <2>4. PICK f : P(f) /\ f = CHOOSE g : P(g)
    <3> HIDE DEF P
    <3> QED BY <2>3
  <2>5. f[{}] = 8
    BY <2>1, <2>4
  <2> HIDE DEF P
  <2> QED BY <1>1, <1>2, <2>1, <2>4, <2>5
<1>3. CASE d[7] = 2 /\ d[9] = 0 /\ d[11] = 2
  <2>1. PICK T : T = 1 .. d[7] /\ T = {1, 2}
    <3>1. 1 .. 2 = {1, 2}
      OBVIOUS
    <3> QED BY <1>3, <3>1
  <2>2. /\ Max({1}) = 1 /\ Max({2}) = 2 /\ Max({1, 2}) = 2
        /\ {1} \ {1} = {} /\ {2} \ {2} = {} /\ {1, 2} \ {2} = {1}
    <3>1. Max({1}) = 1
      BY DEF Max
    <3>2. Max({2}) = 2
      BY DEF Max
    <3>3. Max({1, 2}) = 2
      <4>1. \A x \in {1, 2} : (\A y \in {1, 2} : x >= y) <=> x = 2
        OBVIOUS
      <4> QED BY <4>1 DEF Max
    <3> QED BY <3>1, <3>2, <3>3
  <2>3. \A s \in SUBSET T : s = {} \/ s = {1} \/ s = {2} \/ s = {1, 2}
    BY <2>1
  <2>4. PICK g : g = [s \in SUBSET T |-> IF s = {} THEN 8 ELSE IF s = {1, 2} THEN 14 ELSE 10]
    OBVIOUS
  <2>5. g[{}] = 8 /\ g[{1}] = 10 /\ g[{2}] = 10 /\ g[{1, 2}] = 14
    BY <2>1, <2>4
  <2>6. ASSUME NEW s \in SUBSET T
        PROVE  g[s] = IF s = {} THEN 8 ELSE g[s \ {Max(s)}] + 2 + d[g[s \ {Max(s)}] + 1]
    <3>1. CASE s = {}
      BY <2>5, <3>1
    <3>2. CASE s = {1}
      BY <1>3, <2>2, <2>5, <3>2
    <3>3. CASE s = {2}
      BY <1>3, <2>2, <2>5, <3>3
    <3>4. CASE s = {1, 2}
      BY <1>3, <2>2, <2>5, <3>4
    <3> QED BY <2>3, <3>1, <3>2, <3>3, <3>4
  <2>7. P(g)
    BY <2>1, <2>4, <2>6
  <2>8. PICK f : P(f) /\ f = CHOOSE h : P(h)
    <3> HIDE DEF P
    <3>1. P(CHOOSE f : P(f))
      BY <2>7, Zenon
    <3> QED BY <3>1
  <2>9. f[{}] = 8
    BY <2>8
  <2>10. f[{1}] = 10
    <3>0. {1} \in SUBSET (1 .. d[7]) /\ {1} # {}
      BY <2>1
    <3>1. f[{1}] = f[{1} \ {Max({1})}] + 2 + d[f[{1} \ {Max({1})}] + 1]
      BY <2>8, <3>0
    <3> HIDE DEF P
    <3> QED BY <1>3, <2>2, <2>9, <3>1
  <2>11. f[{1, 2}] = 14
    <3>1. f[{1, 2}] = f[{1, 2} \ {Max({1, 2})}] + 2 + d[f[{1, 2} \ {Max({1, 2})}] + 1]
      BY <2>1, <2>8, ZenonT(60)
    <3> HIDE DEF P
    <3> QED BY <1>3, <2>2, <2>10, <3>1
  <2> HIDE DEF P
  <2> QED BY <1>1, <1>3, <2>1, <2>8, <2>11
<1> QED BY <1>2, <1>3

\* The ids parse_frame reads out of a flat frame.
IdsIn(d) == LET i == ScriptsAt(d) IN {d[i + 1 + 5 * k] : k \in 0 .. ((d[i] \div 5) - 1)}

\* They are those the game put there, whatever servers come before.
LEMMA ReadsTheIds ==
  ASSUME NEW called \in Seq([id : Nat]), NEW servers \in {<<>>, <<0, 1>>}
  PROVE  IdsIn(Flat(servers, called)) = {called[k].id : k \in DOMAIN called}
<1>1. PICK n \in Nat : n = Len(called) /\ DOMAIN called = 1 .. n
  OBVIOUS
<1>2. PICK w \in Seq(Word) : /\ w = Words(called) /\ Len(w) = 5 * n
                             /\ \A k \in 1 .. n : w[5 * k - 4] = called[k].id
  <2>1. \A s \in Seq(Nat) : s \in Seq(Word)
    <3>1. Nat \subseteq Word
      BY DEF Word
    <3> QED BY <3>1
  <2> QED BY <1>1, <2>1, WordsAre
<1>3. PICK d : d = Flat(servers, called)
  OBVIOUS
<1>4. PICK p \in Nat :
        /\ ScriptsAt(d) = p + 1 /\ d[p + 1] = 5 * n
        /\ \A i \in 1 .. Len(w) : d[p + 1 + i] = w[i]
  <2>1. CASE servers = <<>>
    <3>1. FlattenSeq([i \in DOMAIN servers |-> <<"server", 2 * servers[i]>>
                                                 \o [k \in 1 .. (2 * servers[i]) |-> 0]]) = <<>>
      BY <2>1 DEF FlattenSeq
    <3>2. PICK front \in Seq(Word) : /\ front = <<0, 0, 0, 0, 0, 0, Len(servers)>>
                                     /\ Len(front) = 7 /\ front[7] = 0
      <4>1. Len(servers) = 0
        BY <2>1
      <4>2. /\ <<0, 0, 0, 0, 0, 0, 0>> \in Seq(Word) /\ Len(<<0, 0, 0, 0, 0, 0, 0>>) = 7
            /\ <<0, 0, 0, 0, 0, 0, 0>>[7] = 0
        BY SevenWords
      <4>3. <<0, 0, 0, 0, 0, 0, Len(servers)>> = <<0, 0, 0, 0, 0, 0, 0>>
        BY <4>1
      <4> QED BY <4>2, <4>3, Zenon
    <3>3. front \o <<>> = front
      BY <3>2
    <3>4. d = front \o <<5 * n>> \o w
      BY <1>1, <1>2, <1>3, <3>1, <3>2, <3>3 DEF Flat, Words
    <3>5. 5 * n \in Nat /\ 7 \in 1 .. 7
      OBVIOUS
    <3>6. Holds(d, front, 7, 5 * n, w)
      BY <1>2, <3>2, <3>4, <3>5, BehindServers
    <3>7. d[7] = 0
      BY <3>2, <3>5, <3>6 DEF Holds
    <3>8. ScriptsAt(d) = 7 + 1
      BY <3>7, StepsOver
    <3> QED BY <3>6, <3>8 DEF Holds
  <2>2. CASE servers = <<0, 1>>
    <3>1. PICK b : b = FlattenSeq([i \in DOMAIN servers |-> <<"server", 2 * servers[i]>>
                                                 \o [k \in 1 .. (2 * servers[i]) |-> 0]])
      OBVIOUS
    <3>2. b = (<<"server", 0>> \o [k \in 1 .. 0 |-> 0]) \o (<<"server", 2>> \o [k \in 1 .. 2 |-> 0])
      <4>1. PICK s : s = [i \in DOMAIN servers |-> <<"server", 2 * servers[i]>>
                                                     \o [k \in 1 .. (2 * servers[i]) |-> 0]]
        OBVIOUS
      <4>2. /\ Len(s) = 2 /\ s[1] = <<"server", 0>> \o [k \in 1 .. 0 |-> 0]
            /\ s[2] = <<"server", 2>> \o [k \in 1 .. 2 |-> 0]
        <5>1. /\ DOMAIN servers = 1 .. 2 /\ 2 * servers[1] = 0 /\ 2 * servers[2] = 2
              /\ 1 \in 1 .. 2 /\ 2 \in 1 .. 2
          BY <2>2
        <5>2. Len(s) = 2
          BY <4>1, <5>1
        <5>3. s[1] = <<"server", 2 * servers[1]>> \o [k \in 1 .. (2 * servers[1]) |-> 0]
          BY <4>1, <5>1, Zenon
        <5>4. s[2] = <<"server", 2 * servers[2]>> \o [k \in 1 .. (2 * servers[2]) |-> 0]
          BY <4>1, <5>1, Zenon
        <5> QED BY <5>1, <5>2, <5>3, <5>4, Zenon
      <4>3. PICK f : FlattensTo(s, f) /\ b = f[Len(s)]
        <5>1. \E f : FlattensTo(s, f)
          <6>1. PICK m \in Nat : m = 2
            OBVIOUS
          <6> QED BY <4>2, <6>1, FlatteningExists
        <5>2. FlattenSeq(s) = (CHOOSE f : FlattensTo(s, f))[Len(s)]
          BY <4>2 DEF FlattenSeq, FlattensTo
        <5> QED BY <3>1, <4>1, <5>1, <5>2
      <4>4. f[1] = s[1] /\ f[2] = f[1] \o s[2]
        <5>1. \A i \in 1 .. 2 : f[i] = IF i = 1 THEN s[i] ELSE f[i - 1] \o s[i]
          BY <4>2, <4>3 DEF FlattensTo
        <5>2. 1 \in 1 .. 2 /\ 2 \in 1 .. 2 /\ 2 - 1 = 1 /\ 2 # 1
          OBVIOUS
        <5> QED BY <5>1, <5>2
      <4> QED BY <4>2, <4>3, <4>4, Zenon
    <3>3. b \in Seq(Word) /\ Len(b) = 6 /\ b[2] = 0 /\ b[4] = 2
      BY <3>2, TwoServers
    <3>4. PICK a \in Seq(Word) : /\ a = <<0, 0, 0, 0, 0, 0, Len(servers)>>
                                 /\ Len(a) = 7 /\ a[7] = 2
      <4>1. Len(servers) = 2
        BY <2>2
      <4> QED BY <4>1, SevenWords
    <3>5. PICK front : front = a \o b
      OBVIOUS
    <3>6. Follows(front, Word, a, b)
      BY <3>3, <3>4, <3>5, Joined
    <3>7. front \in Seq(Word) /\ Len(front) = 13
      BY <3>3, <3>4, <3>6 DEF Follows
    <3>8. front[7] = 2 /\ front[9] = 0 /\ front[11] = 2
      <4>1. /\ 7 \in 1 .. Len(a) /\ 2 \in 1 .. Len(b) /\ 4 \in 1 .. Len(b)
            /\ Len(a) + 2 = 9 /\ Len(a) + 4 = 11
        BY <3>3, <3>4
      <4>2. front[7] = a[7] /\ front[Len(a) + 2] = b[2] /\ front[Len(a) + 4] = b[4]
        BY <3>6, <4>1, Zenon DEF Follows
      <4> QED BY <3>3, <3>4, <4>1, <4>2, Zenon
    <3>9. d = front \o <<5 * n>> \o w
      BY <1>1, <1>2, <1>3, <3>1, <3>4, <3>5, Zenon DEF Flat, Words
    <3>10. 5 * n \in Nat /\ 7 \in 1 .. 13 /\ 9 \in 1 .. 13 /\ 11 \in 1 .. 13
      OBVIOUS
    <3>11. Holds(d, front, 13, 5 * n, w)
      BY <1>2, <3>7, <3>9, <3>10, BehindServers
    <3>12. d[7] = 2 /\ d[9] = 0 /\ d[11] = 2
      BY <3>8, <3>10, <3>11, Zenon DEF Holds
    <3>13. ScriptsAt(d) = 13 + 1
      BY <3>12, StepsOver
    <3> QED BY <3>11, <3>13 DEF Holds
  <2> QED BY <2>1, <2>2
<1>5. d[p + 1] \div 5 = n
  BY <1>4
<1>6. \A k \in 0 .. n - 1 : d[p + 1 + 1 + 5 * k] = called[k + 1].id
  <2> TAKE k \in 0 .. n - 1
  <2>1. PICK j \in 1 .. n : j = k + 1
    BY <1>1
  <2>2. 5 * j - 4 \in 1 .. Len(w) /\ p + 1 + (5 * j - 4) = p + 1 + 1 + 5 * k
    BY <1>2, <1>4, <2>1
  <2>3. d[p + 1 + (5 * j - 4)] = w[5 * j - 4]
    BY <1>4, <2>2
  <2> QED BY <1>2, <2>1, <2>2, <2>3
<1>7. IdsIn(d) = {d[p + 1 + 1 + 5 * k] : k \in 0 .. n - 1}
  BY <1>4, <1>5, Zenon DEF IdsIn
<1>8. \A k \in 1 .. n : \E j \in 0 .. n - 1 : j + 1 = k
  BY <1>1
<1>9. \A j \in 0 .. n - 1 : j + 1 \in 1 .. n
  BY <1>1
<1>10. \A x : x \in IdsIn(d) <=> \E k \in 0 .. n - 1 : x = called[k + 1].id
  BY <1>6, <1>7, Zenon
<1>11. \A x : (\E k \in 0 .. n - 1 : x = called[k + 1].id) <=> \E k \in 1 .. n : x = called[k].id
  <2>1. ASSUME NEW k \in 1 .. n
        PROVE  \E j \in 0 .. n - 1 : called[k].id = called[j + 1].id
    BY <1>8
  <2> QED BY <1>9, <2>1, Zenon
<1> QED BY <1>1, <1>3, <1>10, <1>11, ZenonT(60)

-----------------------------------------------------------------------------
\* Message m gives id a name.
Signs(m, id) == m.msg = "signature" /\ m.id = id

\* Where the script comes to message k of q, starting with signatures s, it has this name
\* for id: the last one signed before k, or the one in s.
KnownIn(q, s, k, id, name) ==
  \/ \E j \in 1 .. k - 1 : /\ Signs(q[j], id) /\ q[j].name = name
                           /\ \A l \in j + 1 .. k - 1 : ~Signs(q[l], id)
  \/ /\ id \in DOMAIN s /\ s[id] = name
     /\ \A l \in 1 .. k - 1 : ~Signs(q[l], id)

\* When the script comes to frame k it will know the ids of the frame, each for a function
\* the frame called, and each of these by an id.
WillBeNamed(q, s, k) ==
  q[k].msg = "frame" =>
    /\ \A id \in IdsIn(q[k].data) : \E name \in q[k].called : KnownIn(q, s, k, id, name)
    /\ \A name \in q[k].called : \E id \in IdsIn(q[k].data) : KnownIn(q, s, k, id, name)

Arrays == {Flat(servers, called) : servers \in {<<>>, <<0, 1>>}, called \in Seq([id : Nat])}

Messages ==
  [msg : {"signature"}, id : Nat, name : Functions]
    \union [msg : {"frame"}, called : SUBSET Functions, data : Arrays]
    \union [msg : {"debug_enter", "debug_exit"}, tid : GameThreads]
    \union [msg : {"other", "undecodable"}]

\* Every frame under way will be named, and when the script has taken all there is it
\* knows the game's ids as they are now.
Agree(q, s, known) ==
  /\ \A k \in 1 .. Len(q) : WillBeNamed(q, s, k)
  /\ \A n \in 1 .. Len(known) : KnownIn(q, s, Len(q) + 1, n, known[n])

DebugInv ==
  /\ DebugTypeOK
  /\ toTool \in Seq(Messages) /\ ids \in Seq(Functions)
  /\ Agree(toTool, sigs, ids)
  /\ \A line \in written : line.named = line.called

LEMMA OnlyBefore ==
  ASSUME NEW q, NEW r, NEW s, NEW k \in Nat, NEW id, NEW name,
         \A l \in 1 .. k - 1 : r[l] = q[l], KnownIn(q, s, k, id, name)
  PROVE  KnownIn(r, s, k, id, name)
<1>1. CASE id \in DOMAIN s /\ s[id] = name /\ \A l \in 1 .. k - 1 : ~Signs(q[l], id)
  BY <1>1 DEF KnownIn
<1>2. CASE \E j \in 1 .. k - 1 : /\ Signs(q[j], id) /\ q[j].name = name
                                 /\ \A l \in j + 1 .. k - 1 : ~Signs(q[l], id)
  <2>1. PICK j \in 1 .. k - 1 : /\ Signs(q[j], id) /\ q[j].name = name
                                /\ \A l \in j + 1 .. k - 1 : ~Signs(q[l], id)
    BY <1>2
  <2>2. \A l \in j + 1 .. k - 1 : l \in 1 .. k - 1
    OBVIOUS
  <2> QED BY <2>1, <2>2 DEF KnownIn
<1> QED BY <1>1, <1>2 DEF KnownIn

LEMMA StillKnown ==
  ASSUME NEW q, NEW s, NEW k \in Nat \ {0}, NEW m \in Nat, k <= m, NEW id, NEW name,
         \A l \in k .. m - 1 : ~Signs(q[l], id), KnownIn(q, s, k, id, name)
  PROVE  KnownIn(q, s, m, id, name)
<1>1. CASE id \in DOMAIN s /\ s[id] = name /\ \A l \in 1 .. k - 1 : ~Signs(q[l], id)
  <2>1. \A l \in 1 .. m - 1 : l \in 1 .. k - 1 \/ l \in k .. m - 1
    OBVIOUS
  <2> QED BY <1>1, <2>1 DEF KnownIn
<1>2. CASE \E j \in 1 .. k - 1 : /\ Signs(q[j], id) /\ q[j].name = name
                                 /\ \A l \in j + 1 .. k - 1 : ~Signs(q[l], id)
  <2>1. PICK j \in 1 .. k - 1 : /\ Signs(q[j], id) /\ q[j].name = name
                                /\ \A l \in j + 1 .. k - 1 : ~Signs(q[l], id)
    BY <1>2
  <2>2. j \in 1 .. m - 1 /\ \A l \in j + 1 .. m - 1 : l \in j + 1 .. k - 1 \/ l \in k .. m - 1
    OBVIOUS
  <2> QED BY <2>1, <2>2 DEF KnownIn
<1> QED BY <1>1, <1>2 DEF KnownIn

\* The script takes the first message.
LEMMA TakesOne ==
  ASSUME NEW q, NEW r, NEW s, NEW t, NEW k \in Nat \ {0}, NEW id, NEW name,
         \A l \in 1 .. k - 1 : r[l] = q[l + 1],
         q[1].msg = "signature" =>
           t = [i \in DOMAIN s \union {q[1].id} |-> IF i = q[1].id THEN q[1].name ELSE s[i]],
         q[1].msg # "signature" => t = s,
         KnownIn(q, s, k + 1, id, name)
  PROVE  KnownIn(r, t, k, id, name)
<1>0. k + 1 - 1 = k /\ 1 \in 1 .. k
  OBVIOUS
<1>1. CASE id \in DOMAIN s /\ s[id] = name /\ \A l \in 1 .. k : ~Signs(q[l], id)
  <2>1. ~Signs(q[1], id)
    BY <1>0, <1>1
  <2>2. id \in DOMAIN t /\ t[id] = name
    BY <1>1, <2>1 DEF Signs
  <2>3. \A l \in 1 .. k - 1 : l + 1 \in 1 .. k
    OBVIOUS
  <2> QED BY <1>1, <2>2, <2>3 DEF KnownIn
<1>2. CASE \E j \in 1 .. k : /\ Signs(q[j], id) /\ q[j].name = name
                             /\ \A l \in j + 1 .. k : ~Signs(q[l], id)
  <2>1. PICK j \in 1 .. k : /\ Signs(q[j], id) /\ q[j].name = name
                            /\ \A l \in j + 1 .. k : ~Signs(q[l], id)
    BY <1>2
  <2>2. CASE j = 1
    <3>1. id \in DOMAIN t /\ t[id] = name
      BY <2>1, <2>2 DEF Signs
    <3>2. \A l \in 1 .. k - 1 : l + 1 \in j + 1 .. k
      BY <2>2
    <3> QED BY <2>1, <3>1, <3>2 DEF KnownIn
  <2>3. CASE j # 1
    <3>1. PICK i \in 1 .. k - 1 : i + 1 = j
      <4>1. j - 1 \in 1 .. k - 1 /\ j - 1 + 1 = j
        BY <2>3
      <4> QED BY <4>1
    <3>2. \A l \in i + 1 .. k - 1 : l \in 1 .. k - 1 /\ l + 1 \in j + 1 .. k
      BY <3>1
    <3>3. r[i] = q[j] /\ \A l \in i + 1 .. k - 1 : r[l] = q[l + 1]
      BY <3>1, <3>2
    <3> QED BY <2>1, <3>1, <3>2, <3>3 DEF KnownIn
  <2> QED BY <2>2, <2>3
<1> QED BY <1>0, <1>1, <1>2 DEF KnownIn

\* A message that is neither a signature nor a frame.
LEMMA OtherSent ==
  ASSUME NEW q \in Seq(Messages), NEW m \in Messages, m.msg \notin {"signature", "frame"},
         NEW s, NEW known, Agree(q, s, known)
  PROVE  Append(q, m) \in Seq(Messages) /\ Agree(Append(q, m), s, known)
<1>1. PICK r \in Seq(Messages) : r = Append(q, m)
  <2>1. Append(q, m) \in Seq(Messages)
    OBVIOUS
  <2> QED BY <2>1
<1>2. PICK n \in Nat : n = Len(q)
  OBVIOUS
<1>3. Len(r) = n + 1 /\ r[n + 1] = m /\ \A l \in 1 .. n : r[l] = q[l]
  BY <1>1, <1>2
<1>4. ASSUME NEW k \in 1 .. n + 1
      PROVE  WillBeNamed(r, s, k)
  <2>1. CASE k = n + 1
    BY <1>3, <2>1 DEF WillBeNamed
  <2>2. CASE k # n + 1
    <3>1. k \in 1 .. n /\ k \in Nat /\ r[k] = q[k] /\ \A l \in 1 .. k - 1 : r[l] = q[l]
      BY <1>3, <2>2
    <3>2. WillBeNamed(q, s, k)
      BY <1>2, <3>1 DEF Agree
    <3>3. \A id, name : KnownIn(q, s, k, id, name) => KnownIn(r, s, k, id, name)
      BY <3>1, OnlyBefore
    <3> QED BY <3>1, <3>2, <3>3 DEF WillBeNamed
  <2> QED BY <2>1, <2>2
<1>5. ASSUME NEW i \in 1 .. Len(known)
      PROVE  KnownIn(r, s, n + 2, i, known[i])
  <2>1. KnownIn(q, s, n + 1, i, known[i])
    BY <1>2 DEF Agree
  <2>2. n + 1 \in Nat \ {0} /\ n + 2 \in Nat /\ n + 1 <= n + 2 /\ n + 1 - 1 = n
    OBVIOUS
  <2>3. KnownIn(r, s, n + 1, i, known[i])
    BY <1>3, <2>1, <2>2, OnlyBefore
  <2>4. \A l \in n + 1 .. n + 2 - 1 : ~Signs(r[l], i)
    BY <1>3 DEF Signs
  <2> QED BY <2>2, <2>3, <2>4, StillKnown
<1>6. n + 1 + 1 = n + 2
  OBVIOUS
<1> QED BY <1>1, <1>3, <1>4, <1>5, <1>6 DEF Agree

\* The signatures of the functions a frame is the first to call, given the ids after the
\* n that were given before.
SignsAll(new, n, unnamed) ==
  /\ Len(new) = Len(unnamed)
  /\ \A i \in 1 .. Len(unnamed) : /\ new[i].msg = "signature" /\ new[i].id = n + i
                                /\ new[i].name = unnamed[i]

\* Where the parts of two sequences and one element more are.
LEMMA BehindBoth ==
  ASSUME NEW A, NEW q \in Seq(A), NEW w \in Seq(A), NEW x \in A,
         NEW n \in Nat, n = Len(q), NEW m \in Nat, m = Len(w),
         NEW r, r = (q \o w) \o <<x>>
  PROVE  /\ r \in Seq(A) /\ Len(r) = n + m + 1 /\ r[n + m + 1] = x
         /\ \A l \in 1 .. n : r[l] = q[l]
         /\ \A i \in 1 .. m : r[n + i] = w[i]
<1>1. PICK b \in Seq(A) : b = q \o w /\ Follows(b, A, q, w)
  <2>1. q \o w \in Seq(A)
    OBVIOUS
  <2> QED BY <2>1, Joined
<1>2. PICK p \in Nat : r = b \o <<x>> /\ Len(b) = p /\ p = n + m
  BY <1>1 DEF Follows
<1>3. r \in Seq(A) /\ Len(r) = p + 1 /\ r[p + 1] = x /\ \A l \in 1 .. p : r[l] = b[l]
  BY <1>2
<1>4. \A l \in 1 .. n : b[l] = q[l]
  BY <1>1 DEF Follows
<1>5. \A i \in 1 .. m : b[n + i] = w[i]
  BY <1>1 DEF Follows
<1>6. \A l \in 1 .. n : l \in 1 .. n + m
  OBVIOUS
<1>7. \A i \in 1 .. m : n + i \in 1 .. n + m
  OBVIOUS
<1> QED BY <1>2, <1>3, <1>4, <1>5, <1>6, <1>7, Zenon

\* Behind these signatures the script knows all ids, the old ones and the new.
LEMMA SignedBefore ==
  ASSUME NEW q \in Seq(Messages), NEW s, NEW given \in Seq(Functions), Agree(q, s, given),
         NEW unnamed \in Seq(Functions), NEW new \in Seq(Messages),
         SignsAll(new, Len(given), unnamed),
         NEW last \in Messages,
         NEW r, r = (q \o new) \o <<last>>
  PROVE  \A k \in 1 .. Len(given \o unnamed) :
           KnownIn(r, s, Len(q) + Len(unnamed) + 1, k, (given \o unnamed)[k])
<1>1. PICK n \in Nat : n = Len(q)
  OBVIOUS
<1>2. PICK m \in Nat : m = Len(unnamed) /\ m = Len(new)
  BY DEF SignsAll
<1>3. PICK g \in Nat : g = Len(given)
  OBVIOUS
<1>4. PICK known \in Seq(Functions) : known = given \o unnamed
  <2>1. given \o unnamed \in Seq(Functions)
    OBVIOUS
  <2> QED BY <2>1, Zenon
<1>5. /\ Len(known) = g + m /\ \A k \in 1 .. g : known[k] = given[k]
      /\ \A i \in 1 .. m : known[g + i] = unnamed[i]
  <2>1. Follows(known, Functions, given, unnamed)
    BY <1>4, Joined
  <2> QED BY <1>2, <1>3, <2>1 DEF Follows
<1>6. /\ \A l \in 1 .. n : r[l] = q[l]
      /\ \A i \in 1 .. m : r[n + i] = new[i]
  BY <1>1, <1>2, BehindBoth
<1>7. \A i \in 1 .. m : /\ r[n + i].msg = "signature" /\ r[n + i].id = g + i
                        /\ r[n + i].name = unnamed[i]
  BY <1>2, <1>3, <1>6 DEF SignsAll
<1>8. ASSUME NEW k \in 1 .. g + m
      PROVE  KnownIn(r, s, n + m + 1, k, known[k])
  <2>1. CASE k \in 1 .. g
    <3>1. KnownIn(q, s, n + 1, k, known[k])
      BY <1>1, <1>3, <1>5, <2>1 DEF Agree
    <3>2. PICK p \in Nat \ {0} : p = n + 1
      OBVIOUS
    <3>3. PICK name : name = known[k]
      OBVIOUS
    <3>6. \A l \in 1 .. p - 1 : r[l] = q[l]
      <4>1. p - 1 = n
        BY <3>2
      <4> QED BY <1>6, <4>1, Zenon
    <3>7. KnownIn(q, s, p, k, name)
      BY <3>1, <3>2, <3>3, Zenon
    <3>8. KnownIn(r, s, p, k, name)
      BY <3>6, <3>7, OnlyBefore
    <3>9. PICK t \in Nat : t = n + m + 1 /\ p <= t
      <4>1. n + m + 1 \in Nat /\ p <= n + m + 1
        BY <3>2
      <4> QED BY <4>1, Zenon
    <3>4. ASSUME NEW l \in p .. t - 1
          PROVE  ~Signs(r[l], k)
      <4>1. PICK i \in 1 .. m : n + i = l
        <5>1. l - n \in 1 .. m /\ n + (l - n) = l
          BY <3>2, <3>9
        <5> QED BY <5>1
      <4>2. g + i # k
        BY <2>1, <4>1
      <4>3. r[l].id = g + i
        BY <1>7, <4>1, Zenon
      <4> QED BY <4>2, <4>3, Zenon DEF Signs
    <3>10. KnownIn(r, s, t, k, name)
      BY <3>4, <3>8, <3>9, StillKnown
    <3> QED BY <3>3, <3>9, <3>10, Zenon
  <2>2. CASE k \notin 1 .. g
    <3>1. PICK i \in 1 .. m : g + i = k
      <4>1. k - g \in 1 .. m /\ g + (k - g) = k
        BY <2>2
      <4> QED BY <4>1
    <3>2. PICK j : j = n + i /\ j \in 1 .. n + m
      OBVIOUS
    <3>3. Signs(r[j], k) /\ r[j].name = known[k]
      BY <1>5, <1>7, <3>1, <3>2 DEF Signs
    <3>4. ASSUME NEW l \in j + 1 .. n + m
          PROVE  ~Signs(r[l], k)
      <4>1. PICK h \in 1 .. m : n + h = l /\ h # i
        <5>1. l - n \in 1 .. m /\ n + (l - n) = l /\ l - n # i
          BY <3>2
        <5> QED BY <5>1
      <4>2. g + h # g + i
        BY <4>1
      <4>3. r[l].id = g + h
        BY <1>7, <4>1, Zenon
      <4> QED BY <3>1, <4>2, <4>3, Zenon DEF Signs
    <3>5. n + m + 1 - 1 = n + m
      OBVIOUS
    <3>6. PICK t : t = n + m + 1 /\ t - 1 = n + m
      BY <3>5
    <3>7. KnownIn(r, s, t, k, known[k])
      BY <3>2, <3>3, <3>4, <3>6 DEF KnownIn
    <3> QED BY <3>6, <3>7, Zenon
  <2> QED BY <2>1, <2>2
<1> QED BY <1>1, <1>2, <1>4, <1>5, <1>8

\* The ids of frame x are those of the functions it called.
CallsHaveIds(x, known) ==
  /\ \A id \in IdsIn(x.data) : id \in 1 .. Len(known) /\ known[id] \in x.called
  /\ \A name \in x.called : \E id \in IdsIn(x.data) :
       id \in 1 .. Len(known) /\ known[id] = name

LEMMA LastIsNamed ==
  ASSUME NEW r, NEW s, NEW k, NEW known, NEW x, r[k] = x,
         \A i \in 1 .. Len(known) : KnownIn(r, s, k, i, known[i]),
         CallsHaveIds(x, known)
  PROVE  WillBeNamed(r, s, k)
<1>1. \A id \in IdsIn(x.data) : \E name \in x.called : KnownIn(r, s, k, id, name)
  BY DEF CallsHaveIds
<1>2. \A name \in x.called : \E id \in IdsIn(x.data) : KnownIn(r, s, k, id, name)
  BY DEF CallsHaveIds
<1> QED BY <1>1, <1>2 DEF WillBeNamed

\* Signatures and a frame whose ids they, or earlier ones, gave.
LEMMA FrameSent ==
  ASSUME NEW q \in Seq(Messages), NEW s, NEW given \in Seq(Functions), Agree(q, s, given),
         NEW unnamed \in Seq(Functions), NEW new \in Seq(Messages),
         SignsAll(new, Len(given), unnamed),
         NEW last \in Messages, last.msg = "frame",
         NEW known, known = given \o unnamed,
         CallsHaveIds(last, known),
         NEW r, r = (q \o new) \o <<last>>
  PROVE  r \in Seq(Messages) /\ Agree(r, s, known)
<1>1. PICK n \in Nat : n = Len(q)
  OBVIOUS
<1>2. PICK m \in Nat : m = Len(unnamed) /\ m = Len(new)
  BY DEF SignsAll
<1>5. /\ r \in Seq(Messages) /\ Len(r) = n + m + 1 /\ r[n + m + 1] = last
      /\ \A l \in 1 .. n : r[l] = q[l]
      /\ \A i \in 1 .. m : r[n + i] = new[i]
  BY <1>1, <1>2, BehindBoth
<1>6. \A k \in 1 .. Len(known) : KnownIn(r, s, n + m + 1, k, known[k])
  BY <1>1, <1>2, SignedBefore
<1>7. ASSUME NEW k \in 1 .. n + m + 1
      PROVE  WillBeNamed(r, s, k)
  <2>1. CASE k \in 1 .. n
    <3>1. k \in Nat /\ r[k] = q[k] /\ \A l \in 1 .. k - 1 : r[l] = q[l]
      <4>1. k \in Nat /\ \A l \in 1 .. k - 1 : l \in 1 .. n
        BY <2>1
      <4> QED BY <1>5, <2>1, <4>1, Zenon
    <3>2. WillBeNamed(q, s, k)
      BY <1>1, <2>1 DEF Agree
    <3>3. \A id, name : KnownIn(q, s, k, id, name) => KnownIn(r, s, k, id, name)
      BY <3>1, OnlyBefore
    <3> QED BY <3>1, <3>2, <3>3 DEF WillBeNamed
  <2>2. CASE k \in n + 1 .. n + m
    <3>1. PICK i \in 1 .. m : n + i = k
      <4>1. k - n \in 1 .. m /\ n + (k - n) = k
        BY <2>2
      <4> QED BY <4>1
    <3>2. new[i].msg = "signature"
      BY <1>2, <3>1, Zenon DEF SignsAll
    <3>3. r[k].msg = "signature"
      BY <1>5, <3>1, <3>2, Zenon
    <3> QED BY <3>3 DEF WillBeNamed
  <2>3. CASE k = n + m + 1
    <3>1. r[k] = last
      BY <1>5, <2>3
    <3>2. \A i \in 1 .. Len(known) : KnownIn(r, s, k, i, known[i])
      BY <1>6, <2>3, Zenon
    <3> QED BY <3>1, <3>2, LastIsNamed
  <2>4. k \in 1 .. n \/ k \in n + 1 .. n + m \/ k = n + m + 1
    OBVIOUS
  <2> QED BY <2>1, <2>2, <2>3, <2>4, Zenon
<1>8. ASSUME NEW k \in 1 .. Len(known)
      PROVE  KnownIn(r, s, Len(r) + 1, k, known[k])
  <2>1. KnownIn(r, s, n + m + 1, k, known[k])
    BY <1>6
  <2>2. ~Signs(last, k)
    BY DEF Signs
  <2>3. PICK h \in Nat \ {0}, u \in Nat : h = n + m + 1 /\ u = Len(r) + 1 /\ h <= u /\ u = h + 1
    BY <1>5
  <2>4. \A l \in h .. u - 1 : ~Signs(r[l], k)
    <3>1. \A l \in h .. u - 1 : l = h
      BY <2>3
    <3> QED BY <1>5, <2>2, <2>3, <3>1
  <2>5. KnownIn(r, s, u, k, known[k])
    BY <2>1, <2>3, <2>4, StillKnown
  <2> QED BY <2>3, <2>5, Zenon
<1> QED BY <1>5, <1>7, <1>8 DEF Agree

\* A function of the list has an id.
LEMMA IdFound ==
  ASSUME NEW known, NEW n \in DOMAIN known
  PROVE  IdOf(known, known[n]) \in DOMAIN known /\ known[IdOf(known, known[n])] = known[n]
BY DEF IdOf

Signature(id, name) == [msg |-> "signature", id |-> id, name |-> name]

LEMMA SignatureSays ==
  ASSUME NEW x, NEW id, NEW name, x = Signature(id, name)
  PROVE  /\ x.msg = "signature" /\ x.id = id /\ x.name = name
         /\ id \in Nat /\ name \in Functions => x \in Messages
BY DEF Signature, Messages

\* The signatures ProfileFrame sends are of the functions without an id, in the order of
\* the ids it gives them.
LEMMA SignsTheFresh ==
  ASSUME NEW given \in Seq(Functions), NEW unnamed \in Seq(Functions),
         \A i \in 1 .. Len(unnamed) : unnamed[i] \notin ToSet(given),
         \A i, j \in 1 .. Len(unnamed) : unnamed[i] = unnamed[j] => i = j,
         NEW new, new = [i \in DOMAIN unnamed |->
                           [msg |-> "signature", id |-> IdOf(given \o unnamed, unnamed[i]),
                            name |-> unnamed[i]]]
  PROVE  new \in Seq(Messages) /\ SignsAll(new, Len(given), unnamed)
<1>1. PICK g \in Nat : g = Len(given)
  OBVIOUS
<1>2. PICK m \in Nat : m = Len(unnamed) /\ DOMAIN unnamed = 1 .. m
  OBVIOUS
<1>3. PICK known \in Seq(Functions) : /\ known = given \o unnamed
                                      /\ Follows(known, Functions, given, unnamed)
  <2>1. given \o unnamed \in Seq(Functions)
    OBVIOUS
  <2> QED BY <2>1, Joined
<1>4. /\ DOMAIN known = 1 .. g + m
      /\ \A k \in 1 .. g : known[k] = given[k]
      /\ \A i \in 1 .. m : known[g + i] = unnamed[i]
  BY <1>1, <1>2, <1>3 DEF Follows
<1>5. ASSUME NEW i \in 1 .. m
      PROVE  IdOf(known, unnamed[i]) = g + i
  <2>1. g + i \in DOMAIN known /\ known[g + i] = unnamed[i]
    BY <1>4
  <2>2. ASSUME NEW k \in DOMAIN known, known[k] = unnamed[i]
        PROVE  k = g + i
    <3>1. CASE k \in 1 .. g
      <4>1. given[k] \in ToSet(given)
        BY <1>1, <3>1 DEF ToSet
      <4> QED BY <1>2, <1>4, <2>2, <3>1, <4>1
    <3>2. CASE k \notin 1 .. g
      <4>1. PICK j \in 1 .. m : g + j = k
        <5>1. k - g \in 1 .. m /\ g + (k - g) = k
          BY <1>4, <3>2
        <5> QED BY <5>1
      <4>2. unnamed[j] = unnamed[i]
        BY <1>4, <2>2, <4>1
      <4> QED BY <1>2, <4>1, <4>2
    <3> QED BY <3>1, <3>2
  <2> QED BY <2>1, <2>2 DEF IdOf
<1>6. \A i \in 1 .. m : new[i] = Signature(g + i, unnamed[i])
  BY <1>2, <1>3, <1>5 DEF Signature
<1>7. new \in [1 .. m -> Messages] /\ Len(new) = m
  <2>1. DOMAIN new = 1 .. m /\ new = [i \in 1 .. m |-> new[i]]
    BY <1>2
  <2>2. \A i \in 1 .. m : g + i \in Nat /\ unnamed[i] \in Functions
    BY <1>2
  <2>3. ASSUME NEW i \in 1 .. m
        PROVE  new[i] \in Messages
    <3>1. new[i] = Signature(g + i, unnamed[i]) /\ g + i \in Nat /\ unnamed[i] \in Functions
      BY <1>6, <2>2, Zenon
    <3> QED BY <3>1, SignatureSays
  <2> QED BY <2>1, <2>3
<1>8. new \in Seq(Messages)
  BY <1>7
<1>9. ASSUME NEW i \in 1 .. m
      PROVE  new[i].msg = "signature" /\ new[i].id = g + i /\ new[i].name = unnamed[i]
  <2>1. new[i] = Signature(g + i, unnamed[i])
    BY <1>6, Zenon
  <2> QED BY <2>1, SignatureSays
<1> QED BY <1>1, <1>2, <1>7, <1>8, <1>9, Zenon DEF SignsAll

LEMMA ProfileFrameIsNamed ==
  ASSUME DebugInv, ProfileFrame
  PROVE  DebugInv'
<1>1. PICK called \in SUBSET Functions, servers \in {<<>>, <<0, 1>>} :
        LET unnamed == SetToSeq(called \ ToSet(ids))
            known == ids \o unnamed
            new   == [i \in DOMAIN unnamed |-> [msg |-> "signature", id |-> IdOf(known, unnamed[i]),
                                              name |-> unnamed[i]]]
            calls == SetToSeq(called)
        IN /\ ids' = known
           /\ toTool' = toTool \o new \o
                <<[msg |-> "frame", called |-> called,
                   data |-> Flat(servers, [i \in DOMAIN calls |-> [id |-> IdOf(known, calls[i])]])]>>
  BY Zenon DEF ProfileFrame
<1>2. PICK unnamed : unnamed = SetToSeq(called \ ToSet(ids))
  OBVIOUS
<1>3. PICK calls : calls = SetToSeq(called)
  OBVIOUS
<1>4. PICK known : known = ids \o unnamed
  OBVIOUS
<1>5. PICK new : new = [i \in DOMAIN unnamed |->
                          [msg |-> "signature", id |-> IdOf(known, unnamed[i]), name |-> unnamed[i]]]
  OBVIOUS
<1>6. PICK list : list = [i \in DOMAIN calls |-> [id |-> IdOf(known, calls[i])]]
  OBVIOUS
<1>7. PICK last : last = [msg |-> "frame", called |-> called, data |-> Flat(servers, list)]
  OBVIOUS
<1>8. ids' = known /\ toTool' = toTool \o new \o <<last>>
  BY <1>1, <1>2, <1>3, <1>4, <1>5, <1>6, <1>7, Zenon
<1>9. toTool \in Seq(Messages) /\ ids \in Seq(Functions) /\ Agree(toTool, sigs, ids)
  BY DEF DebugInv
<1>10. IsFiniteSet(called) /\ IsFiniteSet(called \ ToSet(ids))
  BY DebugAssumption, FS_Subset
<1>11. /\ unnamed \in Seq(Functions) /\ DOMAIN unnamed = 1 .. Len(unnamed)
       /\ \A i \in 1 .. Len(unnamed) : unnamed[i] \in called \ ToSet(ids)
       /\ \A f \in called \ ToSet(ids) : \E i \in 1 .. Len(unnamed) : unnamed[i] = f
       /\ \A i, j \in 1 .. Len(unnamed) : unnamed[i] = unnamed[j] => i = j
  <2>1. /\ unnamed \in Seq(called \ ToSet(ids))
        /\ \A f \in called \ ToSet(ids) : \E i \in DOMAIN unnamed : unnamed[i] = f
        /\ \A i, j \in DOMAIN unnamed : unnamed[i] = unnamed[j] => i = j
    BY <1>2, <1>10, ListsTheSet, Zenon
  <2>2. DOMAIN unnamed = 1 .. Len(unnamed) /\ unnamed \in Seq(Functions)
    BY <2>1
  <2>3. \A i \in 1 .. Len(unnamed) : unnamed[i] \in called \ ToSet(ids)
    BY <2>1, ElementOf
  <2> QED BY <2>1, <2>2, <2>3, Zenon
<1>12. /\ calls \in Seq(called) /\ DOMAIN calls = 1 .. Len(calls)
       /\ \A i \in DOMAIN calls : calls[i] \in called
       /\ \A f \in called : \E i \in DOMAIN calls : calls[i] = f
  <2>1. /\ calls \in Seq(called)
        /\ \A f \in called : \E i \in DOMAIN calls : calls[i] = f
    BY <1>3, <1>10, ListsTheSet, Zenon
  <2>2. DOMAIN calls = 1 .. Len(calls)
    BY <2>1
  <2>3. \A i \in 1 .. Len(calls) : calls[i] \in called
    BY <2>1, ElementOf
  <2> QED BY <2>1, <2>2, <2>3, Zenon
<1>13. new \in Seq(Messages) /\ SignsAll(new, Len(ids), unnamed)
  <2>1. new = [i \in DOMAIN unnamed |-> [msg |-> "signature", id |-> IdOf(ids \o unnamed, unnamed[i]),
                                       name |-> unnamed[i]]]
    BY <1>4, <1>5, Zenon
  <2>2. ids \in Seq(Functions) /\ unnamed \in Seq(Functions)
    BY <1>9, <1>11, Zenon
  <2>3. \A i \in 1 .. Len(unnamed) : unnamed[i] \notin ToSet(ids)
    BY <1>11
  <2>4. \A i, j \in 1 .. Len(unnamed) : unnamed[i] = unnamed[j] => i = j
    BY <1>11, Zenon
  <2> QED BY <2>1, <2>2, <2>3, <2>4, SignsTheFresh, Zenon
<1>14. known \in Seq(Functions) /\ DOMAIN known = 1 .. Len(known)
  BY <1>4, <1>9, <1>11
<1>15. ASSUME NEW f \in called
       PROVE  IdOf(known, f) \in 1 .. Len(known) /\ known[IdOf(known, f)] = f
  <2>1. \E n \in DOMAIN known : known[n] = f
    <3>1. Follows(known, Functions, ids, unnamed)
      BY <1>4, <1>9, <1>11, Joined
    <3>2. PICK g \in Nat : g = Len(ids) /\ DOMAIN ids = 1 .. g
      BY <1>9
    <3>3. PICK m \in Nat : m = Len(unnamed)
      <4>1. Len(unnamed) \in Nat
        BY <1>11
      <4> QED BY <4>1, Zenon
    <3>4. Len(known) = g + m
      BY <3>1, <3>2, <3>3 DEF Follows
    <3>5. CASE f \in ToSet(ids)
      <4>1. PICK k \in 1 .. g : ids[k] = f
        BY <3>2, <3>5 DEF ToSet
      <4>2. known[k] = f
        BY <3>1, <3>2, <4>1 DEF Follows
      <4>3. k \in 1 .. Len(known)
        BY <3>4, <4>1
      <4> QED BY <1>14, <4>2, <4>3
    <3>6. CASE f \notin ToSet(ids)
      <4>1. PICK i \in 1 .. m : unnamed[i] = f
        BY <1>11, <3>3, <3>6
      <4>2. known[g + i] = f
        BY <3>1, <3>2, <3>3, <4>1 DEF Follows
      <4>3. g + i \in 1 .. Len(known)
        BY <3>4, <4>1
      <4> QED BY <1>14, <4>2, <4>3
    <3> QED BY <3>5, <3>6
  <2> QED BY <1>14, <2>1, IdFound
<1>16. list \in Seq([id : Nat]) /\ DOMAIN list = DOMAIN calls
  <2>1. PICK n \in Nat : n = Len(calls)
    <3>1. Len(calls) \in Nat
      BY <1>12
    <3> QED BY <3>1, Zenon
  <2>2. \A i \in 1 .. n : [id |-> IdOf(known, calls[i])] \in [id : Nat]
    <3>1. \A i \in 1 .. n : calls[i] \in called
      BY <1>12, <2>1
    <3>2. \A f \in called : IdOf(known, f) \in Nat
      BY <1>15
    <3> QED BY <3>1, <3>2
  <2>3. list \in [1 .. n -> [id : Nat]]
    BY <1>6, <1>12, <2>1, <2>2
  <2>4. list \in Seq([id : Nat]) /\ DOMAIN list = 1 .. n
    <3>1. \A R : list \in [1 .. n -> R] => list \in Seq(R) /\ DOMAIN list = 1 .. n
      BY <2>1
    <3> QED BY <2>3, <3>1, Zenon
  <2> QED BY <1>12, <2>1, <2>4, Zenon
<1>17. IdsIn(last.data) = {IdOf(known, f) : f \in called}
  <2>1. IdsIn(last.data) = {list[k].id : k \in DOMAIN list}
    BY <1>7, <1>16, ReadsTheIds
  <2>2. \A k \in DOMAIN list : list[k].id = IdOf(known, calls[k])
    BY <1>6, <1>16
  <2> QED BY <1>12, <1>16, <2>1, <2>2
<1>18. last \in Messages /\ last.msg = "frame" /\ last.called = called
  <2>1. Flat(servers, list) \in Arrays
    BY <1>16 DEF Arrays
  <2> QED BY <1>7, <2>1 DEF Messages
<1>19. CallsHaveIds(last, known)
  <2>1. \A id \in IdsIn(last.data) : id \in 1 .. Len(known) /\ known[id] \in last.called
    BY <1>15, <1>17, <1>18
  <2>2. \A name \in last.called : \E id \in IdsIn(last.data) :
          id \in 1 .. Len(known) /\ known[id] = name
    BY <1>15, <1>17, <1>18
  <2> QED BY <2>1, <2>2, Zenon DEF CallsHaveIds
<1>23. toTool' \in Seq(Messages) /\ Agree(toTool', sigs, known)
  BY <1>4, <1>8, <1>9, <1>11, <1>13, <1>18, <1>19, FrameSent
<1>20. UNCHANGED <<breaking, profiling, sigs, written, tool>>
  BY DEF ProfileFrame
<1>21. DebugTypeOK'
  <2>1. ToSet(known) \subseteq Functions
    BY <1>14 DEF ToSet
  <2> QED BY <1>8, <1>20, <2>1 DEF DebugInv, DebugTypeOK
<1>22. Agree(toTool', sigs', ids') /\ ids' \in Seq(Functions)
  BY <1>8, <1>14, <1>23, <1>20, Zenon
<1> QED BY <1>23, <1>20, <1>21, <1>22 DEF DebugInv

\* What the script comes to know of the first message, and what it makes of a frame.
LEMMA TakesTheFirst ==
  ASSUME NEW q \in Seq(Messages), q # <<>>, NEW s, NEW t, NEW known, Agree(q, s, known),
         q[1].msg = "signature" =>
           t = [i \in DOMAIN s \union {q[1].id} |-> IF i = q[1].id THEN q[1].name ELSE s[i]],
         q[1].msg # "signature" => t = s
  PROVE  Tail(q) \in Seq(Messages) /\ Agree(Tail(q), t, known)
<1>1. PICK n \in Nat : Len(q) = n + 1
  <2>1. Len(q) - 1 \in Nat /\ Len(q) = Len(q) - 1 + 1
    OBVIOUS
  <2> QED BY <2>1, Zenon
<1>2. PICK r \in Seq(Messages) : r = Tail(q)
  <2>1. Tail(q) \in Seq(Messages)
    OBVIOUS
  <2> QED BY <2>1, Zenon
<1>3. Len(r) = n /\ \A l \in 1 .. n : r[l] = q[l + 1]
  BY <1>1, <1>2
<1>4. ASSUME NEW k \in 1 .. n + 1, NEW id, NEW name, KnownIn(q, s, k + 1, id, name)
      PROVE  KnownIn(r, t, k, id, name)
  <2>1. k \in Nat \ {0} /\ \A l \in 1 .. k - 1 : r[l] = q[l + 1]
    BY <1>3
  <2> QED BY <1>4, <2>1, TakesOne
<1>5. ASSUME NEW k \in 1 .. n
      PROVE  WillBeNamed(r, t, k)
  <2>1. r[k] = q[k + 1] /\ k + 1 \in 1 .. Len(q) /\ k \in 1 .. n + 1
    BY <1>1, <1>3
  <2>2. WillBeNamed(q, s, k + 1)
    BY <2>1 DEF Agree
  <2> QED BY <1>4, <2>1, <2>2 DEF WillBeNamed
<1>6. ASSUME NEW i \in 1 .. Len(known)
      PROVE  KnownIn(r, t, n + 1, i, known[i])
  <2>1. KnownIn(q, s, n + 1 + 1, i, known[i])
    BY <1>1 DEF Agree
  <2>2. n + 1 \in 1 .. n + 1
    OBVIOUS
  <2> QED BY <1>4, <2>1, <2>2
<1> QED BY <1>2, <1>3, <1>5, <1>6 DEF Agree

LEMMA NamesTheFrame ==
  ASSUME WillBeNamed(toTool, sigs, 1), toTool[1].msg = "frame"
  PROVE  Named(toTool[1].data) = toTool[1].called
<1>1. \A id, name : KnownIn(toTool, sigs, 1, id, name) => id \in DOMAIN sigs /\ sigs[id] = name
  <2>1. 1 .. 1 - 1 = {}
    OBVIOUS
  <2> QED BY <2>1 DEF KnownIn
<1>2. \A id \in IdsIn(toTool[1].data) : id \in DOMAIN sigs /\ sigs[id] \in toTool[1].called
  BY <1>1 DEF WillBeNamed
<1>3. \A name \in toTool[1].called : \E id \in IdsIn(toTool[1].data) :
        id \in DOMAIN sigs /\ sigs[id] = name
  BY <1>1 DEF WillBeNamed
<1>4. Named(toTool[1].data) = {IF id \in DOMAIN sigs THEN sigs[id] ELSE "unknown" :
                                 id \in IdsIn(toTool[1].data)}
  BY Zenon DEF Named, IdsIn
<1> QED BY <1>2, <1>3, <1>4

LEMMA ReceiveIsNamed ==
  ASSUME DebugInv, Receive
  PROVE  DebugInv'
<1>1. /\ toTool \in Seq(Messages) /\ ids \in Seq(Functions) /\ Agree(toTool, sigs, ids)
      /\ toTool # <<>> /\ toTool' = Tail(toTool) /\ Head(toTool) = toTool[1]
      /\ UNCHANGED <<breaking, profiling, ids, tool>>
  <2>1. toTool \in Seq(Messages) /\ ids \in Seq(Functions) /\ Agree(toTool, sigs, ids)
    BY DEF DebugInv
  <2>2. /\ toTool # <<>> /\ toTool' = Tail(toTool)
        /\ UNCHANGED <<breaking, profiling, ids, tool>>
    BY DEF Receive
  <2>3. Head(toTool) = toTool[1]
    BY <2>1, <2>2
  <2> QED BY <2>1, <2>2, <2>3
<1>2. 1 \in 1 .. Len(toTool) /\ toTool[1] \in Messages
  BY <1>1
<1>3. \/ toTool[1].msg = "signature" /\ sigs' = Learned(toTool[1]) /\ UNCHANGED written
      \/ /\ toTool[1].msg = "frame" /\ UNCHANGED sigs
         /\ written' = written \union {[named |-> Named(toTool[1].data),
                                        called |-> toTool[1].called]}
      \/ toTool[1].msg \notin {"signature", "frame"} /\ UNCHANGED <<sigs, written>>
  BY <1>1 DEF Receive
<1>4. /\ toTool[1].msg = "signature" =>
           sigs' = [i \in DOMAIN sigs \union {toTool[1].id} |->
                      IF i = toTool[1].id THEN toTool[1].name ELSE sigs[i]]
      /\ toTool[1].msg # "signature" => sigs' = sigs
  BY <1>3 DEF Learned
<1>5. toTool' \in Seq(Messages) /\ Agree(toTool', sigs', ids')
  <2>1. Tail(toTool) \in Seq(Messages) /\ Agree(Tail(toTool), sigs', ids)
    BY <1>1, <1>4, TakesTheFirst
  <2> QED BY <1>1, <2>1, Zenon
<1>6. \A line \in written' : line.named = line.called
  <2>1. CASE toTool[1].msg = "frame"
    <3>1. Named(toTool[1].data) = toTool[1].called
      <4>1. WillBeNamed(toTool, sigs, 1)
        BY <1>1, <1>2 DEF Agree
      <4> QED BY <2>1, <4>1, NamesTheFrame
    <3> QED BY <1>3, <2>1, <3>1 DEF DebugInv
  <2>2. CASE toTool[1].msg # "frame"
    BY <1>3, <2>2 DEF DebugInv
  <2> QED BY <2>1, <2>2
<1>7. DOMAIN sigs' \subseteq Nat
  <2>1. DOMAIN sigs \subseteq Nat
    BY DEF DebugInv, DebugTypeOK
  <2>2. CASE toTool[1].msg = "signature"
    <3>1. toTool[1].id \in Nat
      BY <1>2, <2>2 DEF Messages
    <3> QED BY <1>4, <2>1, <2>2, <3>1
  <2>3. CASE toTool[1].msg # "signature"
    BY <1>4, <2>1, <2>3
  <2> QED BY <2>2, <2>3
<1> QED BY <1>1, <1>5, <1>6, <1>7 DEF DebugInv, DebugTypeOK

\* Any message that is neither a signature nor a frame may be sent at any time.
LEMMA OthersAreNamed ==
  ASSUME DebugInv, NEW m \in Messages, m.msg \notin {"signature", "frame"},
         toTool' = Append(toTool, m), UNCHANGED <<ids, sigs, written>>, DebugTypeOK'
  PROVE  DebugInv'
<1>1. toTool \in Seq(Messages) /\ Agree(toTool, sigs, ids)
  BY DEF DebugInv
<1>2. Append(toTool, m) \in Seq(Messages) /\ Agree(Append(toTool, m), sigs, ids)
  BY <1>1, OtherSent
<1>3. toTool' \in Seq(Messages) /\ Agree(toTool', sigs', ids')
  BY <1>2, Zenon
<1> QED BY <1>3 DEF DebugInv

LEMMA GameReceivesIsNamed ==
  ASSUME DebugInv, NEW t \in GameThreads, GameReceives(t)
  PROVE  DebugInv'
<1>1. UNCHANGED <<sigs, written, tool>>
  BY DEF GameReceives
<1>2. CASE /\ breaking' = breaking \ {t} /\ profiling' \in BOOLEAN /\ UNCHANGED ids
           /\ toTool' = Append(toTool, [msg |-> "debug_exit", tid |-> t])
  <2>1. [msg |-> "debug_exit", tid |-> t] \in Messages
    BY DEF Messages
  <2>2. DebugTypeOK'
    BY <1>1, <1>2 DEF DebugInv, DebugTypeOK
  <2> QED BY <1>1, <1>2, <2>1, <2>2, OthersAreNamed
<1>3. CASE /\ breaking' = breaking /\ profiling' \in BOOLEAN /\ UNCHANGED <<ids, toTool>>
  BY <1>1, <1>3 DEF DebugInv, DebugTypeOK, Agree
<1>4. CASE /\ breaking' = breaking /\ profiling' \in BOOLEAN /\ ids' = <<>> /\ UNCHANGED toTool
  <2>1. ids' \in Seq(Functions) /\ ToSet(ids') \subseteq Functions /\ 1 .. Len(ids') = {}
    BY <1>4 DEF ToSet
  <2>2. DebugTypeOK'
    BY <1>1, <1>4, <2>1 DEF DebugInv, DebugTypeOK
  <2>3. Agree(toTool', sigs', ids')
    BY <1>1, <1>4, <2>1 DEF DebugInv, Agree
  <2> QED BY <1>1, <1>4, <2>1, <2>2, <2>3 DEF DebugInv
<1>5. profiling' \in BOOLEAN
  BY DEF GameReceives, DebugInv, DebugTypeOK
<1> QED BY <1>2, <1>3, <1>4, <1>5 DEF GameReceives

LEMMA DebugStep ==
  ASSUME DebugInv, [DebugNext]_debugVars
  PROVE  DebugInv'
<1>1. CASE ProfileFrame
  BY <1>1, ProfileFrameIsNamed
<1>2. CASE OtherMessage
  <2>1. PICK kind \in {"other", "undecodable"} : toTool' = Append(toTool, [msg |-> kind])
    BY <1>2 DEF OtherMessage
  <2>2. [msg |-> kind] \in Messages
    BY DEF Messages
  <2>3. UNCHANGED <<breaking, profiling, ids, sigs, written, tool>>
    BY <1>2 DEF OtherMessage
  <2>4. DebugTypeOK'
    BY <2>3 DEF DebugInv, DebugTypeOK
  <2> QED BY <2>1, <2>2, <2>3, <2>4, OthersAreNamed
<1>3. CASE \E t \in GameThreads : Break(t)
  <2>1. PICK t \in GameThreads : Break(t)
    BY <1>3
  <2>2. [msg |-> "debug_enter", tid |-> t] \in Messages
    BY DEF Messages
  <2>3. /\ toTool' = Append(toTool, [msg |-> "debug_enter", tid |-> t])
        /\ UNCHANGED <<profiling, ids, sigs, written, tool>> /\ breaking' = breaking \union {t}
    BY <2>1 DEF Break
  <2>4. DebugTypeOK'
    BY <2>3 DEF DebugInv, DebugTypeOK
  <2> QED BY <2>2, <2>3, <2>4, OthersAreNamed
<1>4. CASE \E t \in GameThreads : GameReceives(t)
  BY <1>4, GameReceivesIsNamed
<1>5. CASE Receive
  BY <1>5, ReceiveIsNamed
<1>6. CASE Connect \/ ListenEnds \/ GameQuits \/ UNCHANGED debugVars
  <2>1. /\ UNCHANGED <<toTool, breaking, profiling, ids, sigs, written>>
        /\ tool' \in {"connect", "listen", "ended", "eof"}
    BY <1>6 DEF Connect, ListenEnds, GameQuits, debugVars, DebugInv, DebugTypeOK
  <2> QED BY <2>1 DEF DebugInv, DebugTypeOK, Agree
<1> QED BY <1>1, <1>2, <1>3, <1>4, <1>5, <1>6 DEF DebugNext

\* Whatever the game calls and however often its ids are given anew, every line the script
\* writes names what the frame called (godot_dbg_profile.py's handle and parse_frame).
THEOREM FramesKeepTheirNames == DebugSpec => []FramesAreNamed
<1>1. DebugInit => DebugInv
  <2> SUFFICES ASSUME DebugInit PROVE DebugInv
    OBVIOUS
  <2>1. toTool = <<>> /\ ids = <<>> /\ sigs = <<>> /\ written = {}
    BY DEF DebugInit
  <2>2. /\ toTool \in Seq(Messages) /\ ids \in Seq(Functions) /\ ToSet(ids) \subseteq Functions
        /\ 1 .. Len(toTool) = {} /\ 1 .. Len(ids) = {} /\ DOMAIN sigs \subseteq Nat
    BY <2>1 DEF ToSet
  <2> QED BY <2>1, <2>2 DEF DebugInit, DebugInv, DebugTypeOK, Agree
<1>2. DebugInv /\ [DebugNext]_debugVars => DebugInv'
  BY DebugStep
<1>3. DebugInv => FramesAreNamed
  BY DEF DebugInv, FramesAreNamed
<1> QED BY <1>1, <1>2, <1>3, PTL DEF DebugSpec

-----------------------------------------------------------------------------
(***************************************************************************)
(* THE WINDOWS OF A CAPTURE, for every length of a window and of a         *)
(* capture.                                                                *)
(***************************************************************************)

Records == [tpres : Nat, scan : Nat, play : BOOLEAN, pub : Nat]

CaptureTypes ==
  /\ now \in 0 .. MaxNow /\ scanned \in 1 .. MaxScans /\ published \in Nat
  /\ {presenting, playing, queued, saved} \subseteq BOOLEAN
  /\ frames \in Seq(Records)

\* A frame is published, its counter is read, and then the next one is published.
InOrder ==
  /\ \A i \in 1 .. Len(frames) : /\ frames[i].pub <= frames[i].scan /\ frames[i].scan <= scanned
                                 /\ 1 <= frames[i].pub /\ frames[i].tpres <= now
  /\ \A i, j \in 1 .. Len(frames) : i < j => /\ frames[i].scan <= frames[j].pub
                                             /\ frames[i].tpres < frames[j].tpres

Underway ==
  presenting => /\ 1 <= published /\ published <= scanned
                /\ \A i \in 1 .. Len(frames) : /\ frames[i].scan <= published
                                               /\ frames[i].tpres < now

\* The periods in which a frame was published.
Pubs == {frames[i].pub : i \in 1 .. Len(frames)} \union {p \in {published} : presenting}

\* The display shows the frames published before a boundary from that boundary on.
ShowsThePublished ==
  /\ queued <=> scanned \in Pubs
  /\ newAt = {p + 1 : p \in {q \in Pubs : q < scanned}}

CaptureInv ==
  /\ CaptureTypes /\ InOrder /\ Underway /\ ShowsThePublished
  /\ saved => ~presenting

LEMMA RecordAt ==
  ASSUME CaptureTypes, NEW i \in 1 .. Len(frames)
  PROVE  /\ frames[i].tpres \in Nat /\ frames[i].scan \in Nat /\ frames[i].pub \in Nat
         /\ frames[i].play \in BOOLEAN
<1>1. PICK rec \in Records : rec = frames[i]
  BY DEF CaptureTypes
<1> QED BY <1>1 DEF Records

LEMMA CaptureBegins == CaptureInit => CaptureInv
<1> SUFFICES ASSUME CaptureInit PROVE CaptureInv
  OBVIOUS
<1>1. /\ frames = <<>> /\ frames \in Seq(Records) /\ Len(frames) = 0 /\ 1 .. Len(frames) = {}
  BY DEF CaptureInit
<1>2. Pubs = {}
  BY <1>1 DEF CaptureInit, Pubs
<1>3. CaptureTypes
  <2>1. MaxNow \in Nat /\ MaxScans \in Nat /\ MaxScans # 0
    BY CaptureAssumption
  <2>2. 0 \in 0 .. MaxNow /\ 1 \in 1 .. MaxScans
    BY <2>1
  <2> QED BY <1>1, <2>2 DEF CaptureInit, CaptureTypes
<1>4. InOrder /\ Underway
  BY <1>1 DEF CaptureInit, InOrder, Underway
<1>5. ShowsThePublished
  <2>1. {p + 1 : p \in {q \in Pubs : q < scanned}} = {}
    BY <1>2
  <2> QED BY <1>2, <2>1 DEF CaptureInit, ShowsThePublished
<1> QED BY <1>3, <1>4, <1>5 DEF CaptureInit, CaptureInv

LEMMA BoundaryKeeps == ASSUME CaptureInv, Boundary PROVE CaptureInv'
<1>1. /\ scanned' = scanned + 1 /\ scanned < MaxScans /\ queued' = FALSE
      /\ newAt' = IF queued THEN newAt \union {scanned + 1} ELSE newAt
      /\ UNCHANGED <<now, presenting, published, playing, frames, saved>>
  BY DEF Boundary
<1>2. Pubs' = Pubs /\ \A p \in Pubs : p \in Nat /\ p <= scanned
  <2>1. ASSUME NEW i \in 1 .. Len(frames) PROVE frames[i].pub \in Nat /\ frames[i].pub <= scanned
    <3>1. frames[i].pub <= frames[i].scan /\ frames[i].scan <= scanned
      BY DEF CaptureInv, InOrder
    <3> QED BY <3>1, RecordAt DEF CaptureInv, CaptureTypes
  <2>2. presenting => published \in Nat /\ published <= scanned
    BY DEF CaptureInv, CaptureTypes, Underway
  <2> QED BY <1>1, <2>1, <2>2 DEF Pubs
<1>3. scanned \in Nat /\ scanned' \in 1 .. MaxScans
  BY <1>1, CaptureAssumption DEF CaptureInv, CaptureTypes
<1>4. ShowsThePublished'
  <2>1. queued <=> scanned \in Pubs
    BY DEF CaptureInv, ShowsThePublished
  <2>2. newAt = {p + 1 : p \in {q \in Pubs : q < scanned}}
    BY DEF CaptureInv, ShowsThePublished
  <2>3. scanned' \notin Pubs'
    BY <1>1, <1>2, <1>3
  <2>4. {q \in Pubs : q < scanned'} = {q \in Pubs : q < scanned} \union {q \in {scanned} : queued}
    BY <1>1, <1>2, <1>3, <2>1
  <2>5. newAt' = {p + 1 : p \in {q \in Pubs : q < scanned'}}
    BY <1>1, <2>2, <2>4
  <2> QED BY <1>1, <1>2, <2>3, <2>5 DEF ShowsThePublished
<1>5. InOrder'
  <2>1. ASSUME NEW i \in 1 .. Len(frames) PROVE frames[i].scan <= scanned'
    <3>1. frames[i].scan <= scanned /\ frames[i].scan \in Nat
      BY RecordAt DEF CaptureInv, InOrder
    <3> QED BY <1>1, <1>3, <3>1
  <2> QED BY <1>1, <2>1 DEF CaptureInv, InOrder
<1>6. Underway'
  BY <1>1, <1>3 DEF CaptureInv, CaptureTypes, Underway
<1> QED BY <1>1, <1>3, <1>4, <1>5, <1>6 DEF CaptureInv, CaptureTypes

LEMMA PublishKeepsOrder == ASSUME CaptureInv, Publish PROVE CaptureInv'
<1>1. /\ queued' = TRUE /\ presenting' = TRUE /\ published' = scanned /\ ~presenting
      /\ frames # <<>> => frames[Len(frames)].tpres < now
      /\ ~saved /\ UNCHANGED <<now, scanned, newAt, playing, frames, saved>>
  BY DEF Publish
<1>2. PICK n \in Nat : n = Len(frames) /\ (n # 0 => frames # <<>>)
  BY DEF CaptureInv, CaptureTypes
<1>3. \A i \in 1 .. n : frames[i].tpres \in Nat /\ frames[i].scan \in Nat /\ frames[i].pub \in Nat
  BY <1>2, RecordAt DEF CaptureInv
<1>4. now \in Nat /\ scanned \in Nat /\ 1 <= scanned
  BY DEF CaptureInv, CaptureTypes
<1>5. Pubs' = Pubs \union {scanned}
  BY <1>1 DEF Pubs
<1>6. ShowsThePublished'
  <2>1. {q \in Pubs' : q < scanned'} = {q \in Pubs : q < scanned}
    BY <1>1, <1>4, <1>5
  <2> QED BY <1>1, <1>5, <2>1 DEF CaptureInv, ShowsThePublished
<1>7. Underway'
  <2>1. ASSUME NEW i \in 1 .. n PROVE frames[i].tpres < now
    <3>1. frames[n].tpres < now /\ n \in 1 .. n
      BY <1>1, <1>2, <2>1
    <3>2. i < n => frames[i].tpres < frames[n].tpres
      BY <1>2, <3>1 DEF CaptureInv, InOrder
    <3> QED BY <1>3, <1>4, <3>1, <3>2
  <2>2. \A i \in 1 .. n : frames[i].scan <= scanned
    BY <1>2 DEF CaptureInv, InOrder
  <2> QED BY <1>1, <1>2, <1>4, <2>1, <2>2 DEF Underway
<1>8. InOrder'
  BY <1>1 DEF CaptureInv, InOrder
<1> QED BY <1>1, <1>4, <1>6, <1>7, <1>8 DEF CaptureInv, CaptureTypes

LEMMA RecordKeeps == ASSUME CaptureInv, Record PROVE CaptureInv'
<1>1. PICK rec : rec = [tpres |-> now, scan |-> scanned, play |-> playing, pub |-> published]
  OBVIOUS
<1>2. /\ frames' = Append(frames, rec) /\ presenting' = FALSE /\ presenting /\ ~saved
      /\ UNCHANGED <<now, scanned, queued, newAt, published, playing, saved>>
  BY <1>1 DEF Record
<1>3. now \in Nat /\ scanned \in Nat /\ published \in Nat /\ playing \in BOOLEAN
  BY DEF CaptureInv, CaptureTypes
<1>4. /\ rec \in Records /\ rec.tpres = now /\ rec.scan = scanned /\ rec.pub = published
  BY <1>1, <1>3 DEF Records
<1>5. PICK n \in Nat : n = Len(frames)
  BY DEF CaptureInv, CaptureTypes
<1>6. /\ frames' \in Seq(Records) /\ Len(frames') = n + 1 /\ frames'[n + 1] = rec
      /\ \A i \in 1 .. n : frames'[i] = frames[i]
  BY <1>2, <1>4, <1>5 DEF CaptureInv, CaptureTypes
<1>7. /\ 1 <= published /\ published <= scanned
      /\ \A i \in 1 .. n : frames[i].scan <= published /\ frames[i].tpres < now
  BY <1>2, <1>5 DEF CaptureInv, Underway
<1>8. \A i \in 1 .. n + 1 : i \in 1 .. n \/ i = n + 1
  OBVIOUS
<1>9. \A i \in 1 .. n : /\ frames[i].pub <= frames[i].scan /\ frames[i].scan <= scanned
                        /\ 1 <= frames[i].pub /\ frames[i].tpres <= now
  BY <1>5 DEF CaptureInv, InOrder
<1>10. \A i, j \in 1 .. n : i < j => /\ frames[i].scan <= frames[j].pub
                                     /\ frames[i].tpres < frames[j].tpres
  BY <1>5 DEF CaptureInv, InOrder
<1>11. InOrder'
  <2>1. \A i \in 1 .. n + 1 : /\ frames'[i].pub <= frames'[i].scan /\ frames'[i].scan <= scanned
                              /\ 1 <= frames'[i].pub /\ frames'[i].tpres <= now
    BY <1>3, <1>4, <1>6, <1>7, <1>8, <1>9
  <2>2. ASSUME NEW i \in 1 .. n + 1, NEW j \in 1 .. n + 1, i < j
        PROVE  frames'[i].scan <= frames'[j].pub /\ frames'[i].tpres < frames'[j].tpres
    <3>1. i \in 1 .. n
      BY <2>2
    <3>2. CASE j = n + 1
      BY <1>4, <1>6, <1>7, <3>1, <3>2
    <3>3. CASE j \in 1 .. n
      BY <1>6, <1>10, <2>2, <3>1, <3>3
    <3> QED BY <1>8, <3>2, <3>3
  <2> QED BY <1>2, <1>6, <2>1, <2>2 DEF InOrder
<1>12. Pubs' = Pubs
  <2>1. {frames'[i].pub : i \in 1 .. n + 1} = {frames[i].pub : i \in 1 .. n} \union {published}
    <3>1. \A i \in 1 .. n : i \in 1 .. n + 1
      OBVIOUS
    <3>2. n + 1 \in 1 .. n + 1
      OBVIOUS
    <3> QED BY <1>4, <1>6, <1>8, <3>1, <3>2
  <2> QED BY <1>2, <1>5, <1>6, <2>1 DEF Pubs
<1> QED BY <1>2, <1>6, <1>11, <1>12
       DEF CaptureInv, CaptureTypes, Underway, ShowsThePublished

LEMMA CaptureStep == ASSUME CaptureInv, [CaptureNext]_captureVars PROVE CaptureInv'
<1>1. CASE Boundary
  BY <1>1, BoundaryKeeps
<1>2. CASE CaptureTick
  <2>1. /\ now' = now + 1 /\ now < MaxNow
        /\ UNCHANGED <<scanned, queued, newAt, presenting, published, playing, frames, saved>>
    BY <1>2 DEF CaptureTick
  <2>2. now \in Nat /\ now' \in 0 .. MaxNow
    BY <2>1, CaptureAssumption DEF CaptureInv, CaptureTypes
  <2>3. InOrder'
    <3>1. ASSUME NEW i \in 1 .. Len(frames) PROVE frames[i].tpres <= now'
      <4>1. frames[i].tpres <= now /\ frames[i].tpres \in Nat
        BY RecordAt DEF CaptureInv, InOrder
      <4> QED BY <2>1, <2>2, <4>1
    <3> QED BY <2>1, <3>1 DEF CaptureInv, InOrder
  <2>4. Underway'
    <3>1. ASSUME presenting, NEW i \in 1 .. Len(frames) PROVE frames[i].tpres < now'
      <4>1. frames[i].tpres < now /\ frames[i].tpres \in Nat
        BY <3>1, RecordAt DEF CaptureInv, Underway
      <4> QED BY <2>1, <2>2, <4>1
    <3> QED BY <2>1, <3>1 DEF CaptureInv, Underway
  <2>5. ShowsThePublished'
    BY <2>1 DEF CaptureInv, ShowsThePublished, Pubs
  <2> QED BY <2>1, <2>2, <2>3, <2>4, <2>5 DEF CaptureInv, CaptureTypes
<1>3. CASE Publish
  BY <1>3, PublishKeepsOrder
<1>4. CASE Record
  BY <1>4, RecordKeeps
<1>5. CASE StateChange \/ Save \/ UNCHANGED captureVars
  <2>1. /\ UNCHANGED <<now, scanned, queued, newAt, presenting, published, frames>>
        /\ playing' \in BOOLEAN /\ saved' \in BOOLEAN /\ (saved' => ~presenting)
    <3>1. playing \in BOOLEAN /\ saved \in BOOLEAN /\ (saved => ~presenting)
      BY DEF CaptureInv, CaptureTypes
    <3>2. CASE StateChange
      BY <3>1, <3>2 DEF StateChange
    <3>3. CASE Save
      BY <3>1, <3>3 DEF Save
    <3>4. CASE UNCHANGED captureVars
      BY <3>1, <3>4 DEF captureVars
    <3> QED BY <1>5, <3>2, <3>3, <3>4
  <2>2. CaptureTypes'
    BY <2>1 DEF CaptureInv, CaptureTypes
  <2>3. InOrder' /\ Underway'
    BY <2>1 DEF CaptureInv, InOrder, Underway
  <2>4. ShowsThePublished'
    BY <2>1 DEF CaptureInv, ShowsThePublished, Pubs
  <2> QED BY <2>1, <2>2, <2>3, <2>4 DEF CaptureInv
<1> QED BY <1>1, <1>2, <1>3, <1>4, <1>5 DEF CaptureNext


LEMMA LeastOf ==
  ASSUME NEW S \in SUBSET Nat, S # {}
  PROVE  \E m \in S : \A k \in S : m <= k
<1> DEFINE R == {ss \in Nat \X Nat : ss[1] < ss[2]}
<1>1. PICK m \in S : \A k \in S : <<k, m>> \notin R
  <2>1. IsWellFoundedOn(R, Nat)
    BY NatLessThanWellFounded, Zenon DEF OpToRel
  <2> HIDE DEF R
  <2> QED BY <2>1, WFMin
<1>2. ASSUME NEW k \in S PROVE m <= k
  <2>1. k \in Nat /\ m \in Nat /\ <<k, m>> \notin R
    BY <1>1
  <2> QED BY <2>1
<1> QED BY <1>1, <1>2

LEMMA ImageIsNoLarger ==
  ASSUME NEW S, IsFiniteSet(S), NEW f
  PROVE  /\ IsFiniteSet({f[x] : x \in S})
         /\ Cardinality({f[x] : x \in S}) <= Cardinality(S)
<1>1. PICK T : T = {f[x] : x \in S}
  OBVIOUS
<1>2. PICK g : g = [x \in S |-> f[x]]
  OBVIOUS
<1>3. g \in Surjection(S, T)
  BY <1>1, <1>2 DEF Surjection
<1>4. IsFiniteSet(T) /\ Cardinality(T) <= Cardinality(S)
  BY <1>3, FS_Surjection
<1> QED BY <1>1, <1>4

\* Two sets of which each is part of the other but for the image of a third.
LEMMA AsManyButFor ==
  ASSUME NEW A, NEW B, NEW L, IsFiniteSet(A), IsFiniteSet(B), IsFiniteSet(L), NEW f, NEW g,
         A \subseteq B \union {f[x] : x \in L}, B \subseteq A \union {g[x] : x \in L}
  PROVE  Cardinality(A) \in (Cardinality(B) - Cardinality(L)) .. (Cardinality(B) + Cardinality(L))
<1>1. PICK F, G : F = {f[x] : x \in L} /\ G = {g[x] : x \in L}
  OBVIOUS
<1>2. /\ IsFiniteSet(F) /\ Cardinality(F) <= Cardinality(L)
      /\ IsFiniteSet(G) /\ Cardinality(G) <= Cardinality(L)
  BY <1>1, ImageIsNoLarger
<1>3. /\ Cardinality(A) \in Nat /\ Cardinality(B) \in Nat /\ Cardinality(L) \in Nat
      /\ Cardinality(F) \in Nat /\ Cardinality(G) \in Nat
  BY <1>2, FS_CardinalityType
<1>4. ASSUME NEW P, NEW Q, NEW M, IsFiniteSet(P), IsFiniteSet(M), Q \subseteq P \union M
      PROVE  Cardinality(Q) <= Cardinality(P) + Cardinality(M) /\ IsFiniteSet(Q)
  <2>1. IsFiniteSet(P \union M) /\ IsFiniteSet(P \cap M)
    BY <1>4, FS_Union, FS_Subset
  <2>2. Cardinality(P \union M) = Cardinality(P) + Cardinality(M) - Cardinality(P \cap M)
    BY <1>4, FS_Union
  <2>3. Cardinality(Q) <= Cardinality(P \union M) /\ IsFiniteSet(Q)
    BY <1>4, <2>1, FS_Subset
  <2>4. /\ Cardinality(P) \in Nat /\ Cardinality(M) \in Nat /\ Cardinality(P \cap M) \in Nat
        /\ Cardinality(Q) \in Nat /\ Cardinality(P \union M) \in Nat
    BY <1>4, <2>1, <2>3, FS_CardinalityType
  <2> QED BY <2>2, <2>3, <2>4
<1>5. Cardinality(A) <= Cardinality(B) + Cardinality(F)
  BY <1>1, <1>2, <1>4
<1>6. Cardinality(B) <= Cardinality(A) + Cardinality(G)
  BY <1>1, <1>2, <1>4
<1> QED BY <1>2, <1>3, <1>5, <1>6

LEMMA SegmentIsInside ==
  ASSUME CaptureTypes, NEW s \in Segments
  PROVE  /\ s.first \in 1 .. Len(frames) /\ s.last \in 1 .. Len(frames) /\ s.first <= s.last
         /\ Len(frames) \in Nat
         /\ \A i \in s.first .. s.last : i \in 1 .. Len(frames)
<1>1. DOMAIN frames = 1 .. Len(frames) /\ Len(frames) \in Nat
  BY DEF CaptureTypes
<1>2. s \in [first : DOMAIN frames, last : DOMAIN frames] /\ s.first <= s.last
  BY DEF Segments
<1> QED BY <1>1, <1>2

\* A sliding window that ends with the first frame after a tiled one holds no other frame
\* than those of the tiled one.
LEMMA SlidingWindowsSuffice ==
  ASSUME CaptureInv
  PROVE  SlidingIsWorst
<1> SUFFICES ASSUME NEW s \in Segments, NEW t \in WindowStarts(s)
             PROVE  \E c \in SlidingCounts(s) : c <= PresentsIn(s, t) + 1
  BY DEF SlidingIsWorst
<1>1. PICK a \in Nat, b \in Nat : a = s.first /\ b = s.last /\ a <= b /\ 1 <= a /\ b <= Len(frames)
  BY SegmentIsInside DEF CaptureInv
<1>2. \A i \in a .. b : frames[i].tpres \in Nat /\ i \in 1 .. Len(frames)
  BY <1>1, SegmentIsInside, RecordAt DEF CaptureInv
<1>3. \A i, j \in a .. b : i < j => frames[i].tpres < frames[j].tpres
  BY <1>1, <1>2 DEF CaptureInv, InOrder
<1>4. t \in Nat /\ frames[a].tpres <= t /\ t + Second <= frames[b].tpres
  BY <1>1, <1>2 DEF WindowStarts
<1>5. Second \in Nat /\ Second # 0
  BY CaptureAssumption
<1>6. PICK j \in a .. b : /\ frames[j].tpres >= t + Second
                          /\ \A i \in a .. b : i < j => frames[i].tpres < t + Second
  <2>1. PICK J : J = {i \in a .. b : frames[i].tpres >= t + Second}
    OBVIOUS
  <2>2. J \in SUBSET Nat /\ b \in J
    BY <1>1, <1>4, <2>1
  <2>3. PICK j \in J : \A i \in J : j <= i
    BY <2>2, LeastOf
  <2> QED BY <1>1, <1>2, <1>4, <1>5, <2>1, <2>3
<1>7. HasWindow(s, j)
  BY <1>1, <1>2, <1>4, <1>5, <1>6, SMTT(30) DEF HasWindow
<1>8. PresentsUpTo(s, j) <= PresentsIn(s, t) + 1
  <2>1. PICK In, UpTo : /\ In = {i \in a .. b : t <= frames[i].tpres /\ frames[i].tpres < t + Second}
                        /\ UpTo = {i \in a .. j : frames[i].tpres > frames[j].tpres - Second}
    OBVIOUS
  <2>2. UpTo \subseteq In \union {j}
    <3>1. ASSUME NEW i \in UpTo, i # j PROVE i \in In
      <4>1. i \in a .. b /\ i < j /\ frames[i].tpres > frames[j].tpres - Second
        BY <1>1, <1>6, <2>1, <3>1
      <4>2. frames[i].tpres < t + Second /\ frames[i].tpres \in Nat /\ frames[j].tpres \in Nat
        BY <1>2, <1>6, <4>1
      <4>3. t <= frames[i].tpres
        BY <1>4, <1>5, <1>6, <4>1, <4>2
      <4> QED BY <2>1, <4>1, <4>2, <4>3
    <3> QED BY <3>1
  <2>3. IsFiniteSet(In)
    <3>1. IsFiniteSet(a .. b) /\ In \subseteq a .. b
      BY <2>1, FS_Interval
    <3> QED BY <3>1, FS_Subset
  <2>4. /\ IsFiniteSet(In \union {j})
        /\ Cardinality(In \union {j}) = IF j \in In THEN Cardinality(In) ELSE Cardinality(In) + 1
    BY <2>3, FS_AddElement
  <2>5. Cardinality(UpTo) <= Cardinality(In \union {j}) /\ IsFiniteSet(UpTo)
    BY <2>2, <2>4, FS_Subset
  <2>6. Cardinality(In) \in Nat /\ Cardinality(UpTo) \in Nat
    BY <2>3, <2>5, FS_CardinalityType
  <2>7. Cardinality(UpTo) <= Cardinality(In) + 1
    BY <2>4, <2>5, <2>6
  <2> QED BY <1>1, <2>1, <2>7 DEF PresentsUpTo, PresentsIn
<1> QED BY <1>1, <1>7, <1>8 DEF SlidingCounts

\* In a window that lies between the first and the last counter of a segment, a boundary is
\* counted when a frame of the segment was read just before it, ...
LEMMA ShownAfterRead ==
  ASSUME CaptureInv, NEW s \in Segments, NEW x \in Nat,
         frames[s.first].scan + 1 <= x, x <= frames[s.last].scan
  PROVE  x \in Shown(s) <=> \E k \in s.first .. s.last : frames[k].scan + 1 = x
<1>1. PICK a \in Nat, b \in Nat : a = s.first /\ b = s.last /\ a <= b /\ 1 <= a /\ b <= Len(frames)
  BY SegmentIsInside DEF CaptureInv
<1>2. \A i \in a .. b : frames[i].scan \in Nat /\ i \in 1 .. Len(frames)
  BY <1>1, SegmentIsInside, RecordAt DEF CaptureInv
<1>3. ASSUME x \in Shown(s) PROVE \E k \in a .. b : frames[k].scan + 1 = x
  <2>1. PICK k \in a .. b - 1 : x = ShownAt(k)
    BY <1>1, <1>3 DEF Shown
  <2>2. k \in a .. b
    BY <1>1, <2>1
  <2> QED BY <2>1, <2>2 DEF ShownAt
<1>4. ASSUME NEW k \in a .. b, frames[k].scan + 1 = x PROVE x \in Shown(s)
  <2>1. PICK J : J = {i \in k .. b : frames[i].scan >= x}
    OBVIOUS
  <2>2. J \in SUBSET Nat /\ b \in J
    BY <1>1, <1>2, <1>4, <2>1
  <2>3. PICK j \in J : \A i \in J : j <= i
    BY <2>2, LeastOf
  <2>4. j \in k .. b /\ frames[j].scan >= x /\ j # k
    BY <1>2, <1>4, <2>1, <2>3
  <2>5. PICK i \in Nat : i = j - 1 /\ i + 1 = j /\ i \in k .. b /\ i \in a .. b - 1 /\ i \in a .. b
    BY <1>1, <1>4, <2>4
  <2>6. i \notin J
    BY <2>3, <2>4, <2>5
  <2>7. frames[i].scan < x
    BY <1>2, <2>1, <2>5, <2>6
  <2>8. frames[k].scan <= frames[i].scan
    <3>1. i = k \/ k < i
      BY <2>5
    <3>2. k < i => frames[k].scan <= frames[i].pub /\ frames[i].pub <= frames[i].scan
      BY <1>2, <1>4, <2>5 DEF CaptureInv, InOrder
    <3>3. frames[k].scan \in Nat /\ frames[i].scan \in Nat /\ frames[i].pub \in Nat
      BY <1>2, <1>4, <2>5, RecordAt DEF CaptureInv
    <3>4. \A p, q, r \in Nat : p <= q /\ q <= r => p <= r
      OBVIOUS
    <3>5. CASE i = k
      BY <3>3, <3>5
    <3>6. CASE k < i
      BY <3>2, <3>3, <3>4, <3>6
    <3> QED BY <3>1, <3>5, <3>6
  <2>9. frames[i].scan + 1 = x /\ frames[i + 1].scan > frames[i].scan
    <3>1. frames[k].scan \in Nat /\ frames[i].scan \in Nat /\ frames[j].scan \in Nat
      BY <1>1, <1>2, <1>4, <2>4, <2>5, SMTT(30)
    <3>2. \A p, q, r \in Nat : p + 1 = x /\ p <= q /\ q < x /\ r >= x => q + 1 = x /\ r > q
      OBVIOUS
    <3> QED BY <1>4, <2>4, <2>5, <2>7, <2>8, <3>1, <3>2
  <2> QED BY <1>1, <2>5, <2>9 DEF Shown, ShownAt
<1> QED BY <1>1, <1>3, <1>4

\* ... and a new frame appeared there when one of the segment was published just before.
LEMMA NewAfterPublish ==
  ASSUME CaptureInv, saved, NEW s \in Segments, NEW x \in Nat,
         frames[s.first].scan + 1 <= x, x <= frames[s.last].scan
  PROVE  x \in newAt <=> \E k \in s.first .. s.last : frames[k].pub + 1 = x
<1>1. PICK a \in Nat, b \in Nat : a = s.first /\ b = s.last /\ a <= b /\ 1 <= a /\ b <= Len(frames)
  BY SegmentIsInside DEF CaptureInv
<1>2. \A i \in 1 .. Len(frames) : frames[i].scan \in Nat /\ frames[i].pub \in Nat
  BY RecordAt DEF CaptureInv
<1>3. /\ newAt = {p + 1 : p \in {q \in Pubs : q < scanned}}
      /\ Pubs = {frames[i].pub : i \in 1 .. Len(frames)} /\ scanned \in Nat
  BY DEF CaptureInv, CaptureTypes, ShowsThePublished, Pubs
<1>4. a \in 1 .. Len(frames) /\ b \in 1 .. Len(frames) /\ \A i \in a .. b : i \in 1 .. Len(frames)
  BY <1>1, SegmentIsInside DEF CaptureInv
<1>5. \A i \in 1 .. Len(frames) : frames[i].pub <= frames[i].scan /\ frames[i].scan <= scanned
  BY DEF CaptureInv, InOrder
<1>6. \A i, j \in 1 .. Len(frames) : i < j => frames[i].scan <= frames[j].pub
  BY DEF CaptureInv, InOrder
<1>7. ASSUME NEW k \in a .. b, frames[k].pub + 1 = x PROVE x \in newAt
  <2>1. k \in 1 .. Len(frames) /\ frames[k].pub \in Pubs /\ frames[k].pub \in Nat
    BY <1>2, <1>3, <1>4
  <2>2. frames[b].scan <= scanned /\ frames[b].scan \in Nat /\ x <= frames[b].scan
    BY <1>1, <1>2, <1>4, <1>5
  <2>3. frames[k].pub < scanned
    <3>1. \A p, v, w \in Nat : p + 1 <= v /\ v <= w => p < w
      OBVIOUS
    <3>2. frames[k].pub + 1 <= frames[b].scan
      BY <1>7, <2>2
    <3> QED BY <1>3, <2>1, <2>2, <3>1, <3>2
  <2> QED BY <1>3, <1>7, <2>1, <2>3
<1>8. ASSUME x \in newAt PROVE \E k \in a .. b : frames[k].pub + 1 = x
  <2>1. PICK i \in 1 .. Len(frames) : frames[i].pub + 1 = x
    BY <1>3, <1>8
  <2>2. i \in Nat /\ (i < a \/ i \in a .. b \/ b < i)
    BY <1>1, <2>1
  <2>3. CASE i < a
    <3>1. /\ frames[i].pub <= frames[i].scan /\ frames[i].scan <= frames[a].pub
          /\ frames[a].pub <= frames[a].scan
      BY <1>4, <1>5, <1>6, <2>1, <2>3
    <3>2. frames[a].pub + 1 = x
      <4>1. frames[a].scan + 1 <= frames[i].pub + 1
        BY <1>1, <2>1
      <4>2. /\ frames[a].pub \in Nat /\ frames[a].scan \in Nat
            /\ frames[i].pub \in Nat /\ frames[i].scan \in Nat
        BY <1>2, <1>4, <2>1
      <4>3. \A p, q, u, v \in Nat : p <= q /\ q <= u /\ u <= v /\ v + 1 <= p + 1 => u = p
        OBVIOUS
      <4>4. frames[a].pub = frames[i].pub
        BY <3>1, <4>1, <4>2, <4>3, Zenon
      <4> QED BY <2>1, <4>4
    <3>3. a \in a .. b
      BY <1>1
    <3> QED BY <3>2, <3>3
  <2>4. CASE b < i
    <3>1. frames[b].scan <= frames[i].pub
      BY <1>4, <1>6, <2>1, <2>4
    <3> QED BY <1>1, <1>2, <1>4, <2>1, <3>1
  <2> QED BY <2>1, <2>2, <2>3, <2>4
<1> QED BY <1>1, <1>7, <1>8

LEMMA LateFramesOnly ==
  ASSUME CaptureInv, saved, NEW s \in Segments, NEW w \in ScanWindows(s)
  PROVE  LET real == Cardinality(newAt \intersect w..(w + Sixty - 1))
             tardy == Cardinality(LateIn(s, w))
         IN DisplayedIn(s, w) \in (real - tardy)..(real + tardy)
<1>1. PICK a \in Nat, b \in Nat : a = s.first /\ b = s.last /\ a <= b /\ 1 <= a /\ b <= Len(frames)
  BY SegmentIsInside DEF CaptureInv
<1>2. \A i \in a .. b : frames[i].scan \in Nat /\ frames[i].pub \in Nat
  BY <1>1, SegmentIsInside, RecordAt DEF CaptureInv
<1>3. Sixty \in Nat /\ Sixty # 0 /\ a \in a .. b /\ b \in a .. b
  BY <1>1, CaptureAssumption
<1>4. w \in Nat /\ frames[a].scan + 1 <= w /\ w + Sixty - 1 <= frames[b].scan
  BY <1>1, <1>2, <1>3, SMTT(30) DEF ScanWindows
<1>5. PICK W : W = w .. (w + Sixty - 1)
  OBVIOUS
<1>6. IsFiniteSet(W)
  BY <1>3, <1>4, <1>5, FS_Interval
<1>7. \A x \in W : /\ x \in Nat /\ frames[a].scan + 1 <= x /\ x <= frames[b].scan
                   /\ x - 1 \in (w - 1) .. (w + Sixty - 2)
  BY <1>2, <1>3, <1>4, <1>5
<1>8. PICK A, B, L : A = Shown(s) \intersect W /\ B = newAt \intersect W /\ L = LateIn(s, w)
  OBVIOUS
<1>9. IsFiniteSet(A) /\ IsFiniteSet(B)
  BY <1>6, <1>8, FS_Subset
<1>10. L = {i \in a .. b : /\ frames[i].pub # frames[i].scan
                           /\ {frames[i].pub, frames[i].scan} \intersect (w - 1)..(w + Sixty - 2) # {}}
  BY <1>1, <1>8 DEF LateIn
<1>11. IsFiniteSet(L)
  <2>1. IsFiniteSet(a .. b) /\ L \subseteq a .. b
    BY <1>10, FS_Interval
  <2> QED BY <2>1, FS_Subset
<1>12. PICK f, g : /\ f = [i \in a .. b |-> frames[i].scan + 1]
                   /\ g = [i \in a .. b |-> frames[i].pub + 1]
  OBVIOUS
<1>13. ASSUME NEW x \in W PROVE x \in A <=> \E k \in a .. b : frames[k].scan + 1 = x
  BY <1>1, <1>7, <1>8, ShownAfterRead
<1>14. ASSUME NEW x \in W PROVE x \in B <=> \E k \in a .. b : frames[k].pub + 1 = x
  BY <1>1, <1>7, <1>8, NewAfterPublish
<1>15. A \subseteq B \union {f[k] : k \in L}
  <2> SUFFICES ASSUME NEW x \in A, x \notin B PROVE \E k \in L : f[k] = x
    BY Zenon
  <2>1. x \in W /\ x - 1 \in (w - 1) .. (w + Sixty - 2) /\ x \in Nat
    BY <1>7, <1>8
  <2>2. PICK k \in a .. b : frames[k].scan + 1 = x
    BY <1>13, <2>1
  <2>3. frames[k].pub # frames[k].scan /\ frames[k].scan = x - 1
    BY <1>2, <1>14, <2>1, <2>2
  <2>4. k \in L
    BY <1>10, <2>1, <2>2, <2>3
  <2> QED BY <1>12, <2>2, <2>4
<1>16. B \subseteq A \union {g[k] : k \in L}
  <2> SUFFICES ASSUME NEW x \in B, x \notin A PROVE \E k \in L : g[k] = x
    BY Zenon
  <2>1. x \in W /\ x - 1 \in (w - 1) .. (w + Sixty - 2) /\ x \in Nat
    BY <1>7, <1>8
  <2>2. PICK k \in a .. b : frames[k].pub + 1 = x
    BY <1>14, <2>1
  <2>3. frames[k].pub # frames[k].scan /\ frames[k].pub = x - 1
    BY <1>2, <1>13, <2>1, <2>2
  <2>4. k \in L
    BY <1>10, <2>1, <2>2, <2>3
  <2> QED BY <1>12, <2>2, <2>4
<1>17. Cardinality(A) \in (Cardinality(B) - Cardinality(L)) .. (Cardinality(B) + Cardinality(L))
  BY <1>9, <1>11, <1>15, <1>16, AsManyButFor
<1> QED BY <1>5, <1>8, <1>17 DEF DisplayedIn

\* Whatever boundaries fall between a publish and the read of the counter, a window of
\* displayed frames is off by no more than the frames that were read late, and the worst
\* sliding window of presents is no worse than the tiled ones but for the frame at its end.
THEOREM WindowsAreCountedRight == CaptureSpec => []WindowsCountRight
<1>1. CaptureInit => CaptureInv
  BY CaptureBegins
<1>2. CaptureInv /\ [CaptureNext]_captureVars => CaptureInv'
  BY CaptureStep
<1>3. CaptureInv => WindowsCountRight
  <2> SUFFICES ASSUME CaptureInv PROVE WindowsCountRight
    OBVIOUS
  <2>1. CaptureTypeOK
    <3>1. DOMAIN frames = 1 .. Len(frames) /\ Len(frames) \in Nat
      BY DEF CaptureInv, CaptureTypes
    <3>2. newAt \subseteq 2 .. MaxScans
      <4>1. \A i \in 1 .. Len(frames) : frames[i].pub \in Nat /\ 1 <= frames[i].pub
        BY RecordAt DEF CaptureInv, InOrder
      <4>2. \A p \in Pubs : p \in Nat /\ 1 <= p
        BY <4>1 DEF Pubs, CaptureInv, CaptureTypes, Underway
      <4>3. scanned \in Nat /\ scanned <= MaxScans /\ MaxScans \in Nat
        BY CaptureAssumption DEF CaptureInv, CaptureTypes
      <4> QED BY <4>2, <4>3 DEF CaptureInv, ShowsThePublished
    <3>3. \A i \in 1 .. (Len(frames) - 1) : frames[i].tpres < frames[i + 1].tpres
      <4>1. ASSUME NEW i \in 1 .. (Len(frames) - 1)
            PROVE  i \in 1 .. Len(frames) /\ i + 1 \in 1 .. Len(frames) /\ i < i + 1
        BY <3>1
      <4> QED BY <4>1 DEF CaptureInv, InOrder
    <3>4. \A i \in DOMAIN frames : frames[i].pub <= frames[i].scan /\ frames[i].scan <= scanned
      BY <3>1 DEF CaptureInv, InOrder
    <3> QED BY <3>2, <3>3, <3>4 DEF CaptureTypeOK, CaptureInv, CaptureTypes
  <2>2. DisplayedWithinLate
    BY <2>1, LateFramesOnly DEF DisplayedWithinLate
  <2> QED BY <2>2, SlidingWindowsSuffice DEF WindowsCountRight
<1> QED BY <1>1, <1>2, <1>3, PTL DEF CaptureSpec

-----------------------------------------------------------------------------
(***************************************************************************)
(* THE BOOT LOG, for any number of loads, phases and scopes and any depth: *)
(* the two scripts give every tick of the boot to one load and one phase.  *)
(* At every height of the stack of scopes, what was booked since a scope   *)
(* was opened is the time of the scopes that ended within it (ScopesAdd);  *)
(* what is left of the clock is then the time outside all of them          *)
(* (IdleTime), and each dump after a phase holds that of the phases so     *)
(* far.  The lines of the loads of one thread sum up by depth: what is     *)
(* pending below an open load is what the ended loads within it took       *)
(* (SelfRead).                                                             *)
(***************************************************************************)

\* What the log and the stacks hold.
Loads  == [id : Nat, at : Nat]
Scopes == [cat : Categories, t0 : Nat, child : Nat]
Bookings == [Categories -> Nat]
LoadLines == [ev : {"load"}, at : Nat, depth : Nat, id : Nat, ms : Nat]
EndLines  == [ev : {"end"}, at : Nat, phase : Nat]
Dumped    == [ev : {"prof"}, at : Nat, self : Bookings]
Lines == LoadLines \union EndLines \union Dumped

BootTypes ==
  /\ bootClock \in 0 .. BootTicks /\ begun \in 0 .. MaxBegun /\ phases \in 0 .. MaxPhases
  /\ loads \in [Loaders -> Seq(Loads)]
  /\ scopes \in Seq(Scopes) /\ Len(scopes) <= MaxScopes
  /\ self \in Bookings
  /\ log \in Seq(Lines)
  /\ alone \in [1 .. MaxBegun -> Nat] /\ outside \in [1 .. MaxPhases + 1 -> Nat]

\* The scope with h - 1 others outside it.
AtHeight(stack, h) == stack[Len(stack) + 1 - h]

Total(booked) == booked["res_load"] + booked["gd_parse"]

LEMMA ScopeFields ==
  ASSUME NEW x \in Scopes
  PROVE  x.cat \in Categories /\ x.t0 \in Nat /\ x.child \in Nat
BY DEF Scopes

LEMMA GrownScope ==
  ASSUME NEW x \in Scopes, NEW n
  PROVE  [x EXCEPT !.child = @ + n] = [cat |-> x.cat, t0 |-> x.t0, child |-> x.child + n]
BY DEF Scopes

LEMMA ScopeAtHeight ==
  ASSUME NEW stack \in Seq(Scopes), NEW h \in 1 .. Len(stack)
  PROVE  /\ AtHeight(stack, h) \in Scopes
         /\ AtHeight(stack, h).cat \in Categories
         /\ AtHeight(stack, h).t0 \in Nat /\ AtHeight(stack, h).child \in Nat
<1>1. PICK n \in Nat : n = Len(stack)
  OBVIOUS
<1>2. n + 1 - h \in 1 .. n
  BY <1>1
<1>3. stack[n + 1 - h] \in Scopes
  BY <1>1, <1>2
<1> QED BY <1>1, <1>3, ScopeFields DEF AtHeight

Pushed(x, stack) == <<x>> \o stack

LEMMA PushedScope ==
  ASSUME NEW S, NEW stack \in Seq(S), NEW x \in S
  PROVE  /\ Pushed(x, stack) \in Seq(S) /\ Len(Pushed(x, stack)) = Len(stack) + 1
         /\ AtHeight(Pushed(x, stack), Len(stack) + 1) = x
         /\ \A h \in 1 .. Len(stack) : AtHeight(Pushed(x, stack), h) = AtHeight(stack, h)
<1> DEFINE pushed == Pushed(x, stack)
<1>1. PICK n \in Nat : n = Len(stack)
  OBVIOUS
<1>2. /\ pushed \in Seq(S) /\ Len(pushed) = n + 1 /\ pushed[1] = x
      /\ \A i \in 1 .. n : pushed[i + 1] = stack[i]
  BY <1>1 DEF Pushed
<1> HIDE DEF pushed
<1>3. ASSUME NEW h \in 1 .. n PROVE AtHeight(pushed, h) = AtHeight(stack, h)
  <2>1. PICK i \in Nat : i = n + 1 - h
    OBVIOUS
  <2>2. i \in 1 .. n /\ i + 1 = n + 1 + 1 - h
    BY <2>1
  <2> QED BY <1>1, <1>2, <2>1, <2>2 DEF AtHeight
<1>4. n + 1 + 1 - (n + 1) = 1
  OBVIOUS
<1> QED BY <1>1, <1>2, <1>3, <1>4 DEF AtHeight, pushed

LEMMA TailOf ==
  ASSUME NEW S, NEW stack \in Seq(S), stack # <<>>
  PROVE  /\ Tail(stack) \in Seq(S) /\ Len(Tail(stack)) = Len(stack) - 1
         /\ Len(stack) \in Nat \ {0} /\ Head(stack) = AtHeight(stack, Len(stack))
         /\ Head(stack) \in S
         /\ \A h \in 1 .. Len(stack) - 1 : AtHeight(Tail(stack), h) = AtHeight(stack, h)
<1>1. PICK n \in Nat \ {0} : n = Len(stack)
  OBVIOUS
<1>2. PICK rest : rest = Tail(stack)
  OBVIOUS
<1>5. rest \in Seq(S) /\ Len(rest) = n - 1 /\ \A i \in 1 .. n - 1 : rest[i] = stack[i + 1]
  BY <1>1, <1>2
<1>3. ASSUME NEW h \in 1 .. n - 1 PROVE AtHeight(rest, h) = AtHeight(stack, h)
  <2>1. PICK i : i = n - h
    OBVIOUS
  <2>2. i \in 1 .. n - 1 /\ i = n - 1 + 1 - h /\ i + 1 = n + 1 - h
    BY <1>1, <2>1
  <2> QED BY <1>5, <1>1, <1>2, <2>2 DEF AtHeight
<1>4. Head(stack) = stack[1] /\ stack[1] \in S /\ n + 1 - n = 1
  BY <1>1
<1> QED BY <1>5, <1>1, <1>2, <1>3, <1>4 DEF AtHeight

LEMMA OpenedScopes ==
  ASSUME BootTypes, NEW cat \in Categories, OpenScope(cat)
  PROVE  /\ scopes' \in Seq(Scopes) /\ Len(scopes') = Len(scopes) + 1
         /\ \A h \in 1 .. Len(scopes) : AtHeight(scopes', h) = AtHeight(scopes, h)
         /\ AtHeight(scopes', Len(scopes) + 1) = [cat |-> cat, t0 |-> bootClock, child |-> 0]
<1>1. PICK x : x = [cat |-> cat, t0 |-> bootClock, child |-> 0]
  OBVIOUS
<1>2. x \in Scopes
  BY <1>1 DEF Scopes, BootTypes
<1>3. scopes' = <<x>> \o scopes /\ scopes \in Seq(Scopes)
  BY <1>1 DEF OpenScope, BootTypes
<1>4. scopes' = Pushed(x, scopes)
  BY <1>3 DEF Pushed
<1>5. PICK p : p = Pushed(x, scopes)
  OBVIOUS
<1>6. p \in Seq(Scopes)
  BY <1>2, <1>3, <1>5, PushedScope
<1>7. Len(p) = Len(scopes) + 1
  BY <1>2, <1>3, <1>5, PushedScope
<1>8. AtHeight(p, Len(scopes) + 1) = x
  BY <1>2, <1>3, <1>5, PushedScope
<1>9. \A h \in 1 .. Len(scopes) : AtHeight(p, h) = AtHeight(scopes, h)
  BY <1>2, <1>3, <1>5, PushedScope
<1> QED BY <1>1, <1>4, <1>5, <1>6, <1>7, <1>8, <1>9

LEMMA ClosedScopes ==
  ASSUME BootTypes, scopes # <<>>, CloseScope,
         NEW top, top = AtHeight(scopes, Len(scopes)), top.t0 <= bootClock
  PROVE  /\ scopes' \in Seq(Scopes) /\ Len(scopes') = Len(scopes) - 1
         /\ \A h \in 1 .. Len(scopes) - 2 : AtHeight(scopes', h) = AtHeight(scopes, h)
         /\ Len(scopes) > 1 =>
              LET outer == AtHeight(scopes, Len(scopes) - 1)
              IN  AtHeight(scopes', Len(scopes) - 1)
                    = [cat |-> outer.cat, t0 |-> outer.t0,
                       child |-> outer.child + (bootClock - top.t0)]
<1>1. /\ scopes \in Seq(Scopes) /\ bootClock \in Nat
  BY BootAssumption DEF BootTypes
<1>2. PICK n \in Nat \ {0} : n = Len(scopes)
  BY <1>1
<1>3. PICK rest \in Seq(Scopes) :
        /\ rest = Tail(scopes) /\ Len(rest) = n - 1 /\ Head(scopes) = top
        /\ \A h \in 1 .. n - 1 : AtHeight(rest, h) = AtHeight(scopes, h)
  BY <1>1, <1>2, TailOf
<1>4. top \in Scopes /\ top.t0 \in Nat
  <2>1. n \in 1 .. n
    BY <1>2
  <2> QED BY <1>1, <1>2, <2>1, ScopeAtHeight
<1>5. CASE rest = <<>>
  <2>3. scopes' = <<>>
    BY <1>3, <1>5 DEF CloseScope
  <2>1. scopes' = <<>> /\ n = 1
    <3>1. Len(rest) = 0
      BY <1>5
    <3> QED BY <1>2, <1>3, <2>3, <3>1
  <2>2. <<>> \in Seq(Scopes) /\ Len(<<>>) = 0
    OBVIOUS
  <2> QED BY <1>2, <2>1, <2>2
<1>6. CASE rest # <<>>
  <2>1. PICK outer, last : /\ outer = AtHeight(scopes, n - 1)
                           /\ last = [cat |-> outer.cat, t0 |-> outer.t0,
                                      child |-> outer.child + (bootClock - top.t0)]
    OBVIOUS
  <2>2. n > 1 /\ n - 1 \in 1 .. n - 1 /\ n - 1 \in 1 .. n
    BY <1>2, <1>3, <1>6
  <2>3. outer \in Scopes /\ outer.cat \in Categories /\ outer.t0 \in Nat /\ outer.child \in Nat
    BY <1>1, <1>2, <2>1, <2>2, ScopeAtHeight
  <2>4. last \in Scopes
    <3>1. bootClock - top.t0 \in Nat
      BY <1>1, <1>4
    <3>2. outer.child + (bootClock - top.t0) \in Nat
      BY <2>3, <3>1
    <3> QED BY <2>1, <2>3, <3>2 DEF Scopes
  <2>5. PICK below \in Seq(Scopes) :
          /\ below = Tail(rest) /\ Len(below) = n - 2 /\ Head(rest) = outer /\ rest[1] = outer
          /\ \A h \in 1 .. n - 2 : AtHeight(below, h) = AtHeight(scopes, h)
    <3>1. /\ Tail(rest) \in Seq(Scopes) /\ Len(Tail(rest)) = n - 1 - 1
          /\ Head(rest) = AtHeight(rest, n - 1)
          /\ \A h \in 1 .. n - 1 - 1 : AtHeight(Tail(rest), h) = AtHeight(rest, h)
      BY <1>3, <1>6, TailOf
    <3>2. rest[1] = Head(rest) /\ n - 1 - 1 = n - 2
      BY <1>3, <1>6
    <3>3. \A h \in 1 .. n - 2 : h \in 1 .. n - 1
      OBVIOUS
    <3> QED BY <1>3, <2>1, <2>2, <3>1, <3>2, <3>3
  <2>6. scopes' = <<last>> \o below
    <3>1. [rest[1] EXCEPT !.child = @ + (bootClock - top.t0)] = last
      BY <2>1, <2>3, <2>5, GrownScope
    <3> QED BY <1>3, <1>6, <2>5, <3>1 DEF CloseScope
  <2>7. /\ scopes' \in Seq(Scopes) /\ Len(scopes') = n - 2 + 1
        /\ \A h \in 1 .. n - 2 : AtHeight(scopes', h) = AtHeight(below, h)
        /\ AtHeight(scopes', n - 2 + 1) = last
    <3>1. scopes' = Pushed(last, below)
      BY <2>6 DEF Pushed
    <3>2. PICK p : p = Pushed(last, below)
      OBVIOUS
    <3>3. p \in Seq(Scopes)
      BY <2>4, <2>5, <3>2, PushedScope
    <3>4. Len(p) = Len(below) + 1
      BY <2>4, <2>5, <3>2, PushedScope
    <3>5. AtHeight(p, Len(below) + 1) = last
      BY <2>4, <2>5, <3>2, PushedScope
    <3>6. below \in Seq(Scopes)
      OBVIOUS
    <3>7. \A h \in 1 .. Len(below) : AtHeight(p, h) = AtHeight(below, h)
      BY <2>4, <3>2, <3>6, PushedScope
    <3> QED BY <2>5, <3>1, <3>2, <3>3, <3>4, <3>5, <3>7
  <2>8. n - 2 + 1 = n - 1
    BY <1>2
  <2> QED BY <1>2, <2>1, <2>5, <2>7, <2>8
<1> QED BY <1>5, <1>6

LEMMA TotalOf ==
  ASSUME NEW booked \in Bookings
  PROVE  Total(booked) \in Nat /\ booked["res_load"] \in Nat /\ booked["gd_parse"] \in Nat
BY DEF Bookings, Categories, Total

\* The time outside all scopes: all that is not booked, as of when the outermost scope was
\* opened.  (b[h]: what was booked when the scope at height h was opened.)
IdleTime(b) == IF scopes = <<>> THEN bootClock - Total(self) ELSE AtHeight(scopes, 1).t0 - b[1]

\* What was booked since a scope was opened is the time of the scopes within it.
ScopesAdd(b) ==
  /\ b \in [Nat -> Int]
  /\ \A h \in 1 .. Len(scopes) : /\ AtHeight(scopes, h).t0 <= bootClock
                                 /\ IdleTime(b) <= AtHeight(scopes, h).t0 - b[h]
  /\ \A h \in 1 .. Len(scopes) - 1 :
       /\ b[h] + AtHeight(scopes, h).child = b[h + 1]
       /\ AtHeight(scopes, h).t0 + AtHeight(scopes, h).child <= AtHeight(scopes, h + 1).t0
  /\ scopes # <<>> =>
       /\ b[Len(scopes)] + AtHeight(scopes, Len(scopes)).child = Total(self)
       /\ AtHeight(scopes, Len(scopes)).t0 + AtHeight(scopes, Len(scopes)).child <= bootClock

LEMMA Heights ==
  ASSUME BootTypes
  PROVE  /\ Len(scopes) \in Nat /\ (scopes = <<>> <=> Len(scopes) = 0) /\ bootClock \in Nat
         /\ Total(self) \in Nat
         /\ \A h \in 1 .. Len(scopes) :
              AtHeight(scopes, h).t0 \in Nat /\ AtHeight(scopes, h).child \in Nat
<1>1. scopes \in Seq(Scopes) /\ bootClock \in Nat /\ self \in Bookings
  BY BootAssumption DEF BootTypes
<1>2. Len(scopes) \in Nat /\ (scopes = <<>> <=> Len(scopes) = 0)
  BY <1>1
<1> QED BY <1>1, <1>2, TotalOf, ScopeAtHeight

LEMMA IdleIsLeft ==
  ASSUME BootTypes, NEW b, ScopesAdd(b)
  PROVE  IdleTime(b) \in Int /\ IdleTime(b) <= bootClock - Total(self)
<1>1. PICK n \in Nat : n = Len(scopes) /\ (scopes = <<>> <=> n = 0)
  BY Heights
<1>2. CASE n = 0
  BY <1>1, <1>2, Heights DEF IdleTime
<1>3. CASE n # 0
  <2>1. 1 \in 1 .. n /\ n \in 1 .. n
    BY <1>3
  <2>2. PICK t \in Nat, c \in Nat, u \in Nat : /\ t = AtHeight(scopes, n).t0
                                               /\ c = AtHeight(scopes, n).child
                                               /\ u = AtHeight(scopes, 1).t0
    BY <1>1, <2>1, Heights
  <2>3. b[1] \in Int /\ b[n] \in Int
    BY DEF ScopesAdd
  <2>4. b[n] + c = Total(self) /\ t + c <= bootClock /\ IdleTime(b) <= t - b[n]
    BY <1>1, <1>3, <2>1, <2>2 DEF ScopesAdd
  <2>5. IdleTime(b) = u - b[1]
    BY <1>1, <1>3, <2>2 DEF IdleTime
  <2>6. bootClock \in Nat /\ Total(self) \in Nat
    BY Heights
  <2> QED BY <2>2, <2>3, <2>4, <2>5, <2>6
<1> QED BY <1>2, <1>3

LEMMA OpenedAdds ==
  ASSUME BootTypes, NEW b, ScopesAdd(b), NEW cat \in Categories, OpenScope(cat),
         UNCHANGED <<bootClock, self>>
  PROVE  \E c : ScopesAdd(c)' /\ IdleTime(c)' = IdleTime(b)
<1>1. PICK n \in Nat : n = Len(scopes) /\ (scopes = <<>> <=> n = 0)
  BY Heights
<1>2. PICK t \in Nat, w \in Nat : t = bootClock /\ w = Total(self)
  BY Heights
<1>3. t = bootClock' /\ w = Total(self)' /\ w = Total(self')
  BY <1>2
<1>4. b \in [Nat -> Int]
  BY DEF ScopesAdd
<1>5. PICK c : c = [b EXCEPT ![n + 1] = w]
  OBVIOUS
<1>14. c \in [Nat -> Int]
  BY <1>2, <1>4, <1>5
<1>6. c[n + 1] = w /\ \A h \in 1 .. n : c[h] = b[h]
  BY <1>1, <1>4, <1>5
<1>7. /\ Len(scopes') = n + 1 /\ scopes' # <<>>
      /\ \A h \in 1 .. n : AtHeight(scopes', h) = AtHeight(scopes, h)
      /\ AtHeight(scopes', n + 1) = [cat |-> cat, t0 |-> t, child |-> 0]
  BY <1>1, <1>2, OpenedScopes
<1>8. AtHeight(scopes', n + 1).t0 = t /\ AtHeight(scopes', n + 1).child = 0
  BY <1>7
<1>9. PICK i \in Int : i = IdleTime(b) /\ i <= t - w
  BY <1>2, IdleIsLeft
<1>10. IdleTime(c)' = i
  <2>1. CASE n = 0
    <3>1. IdleTime(c)' = AtHeight(scopes', 1).t0 - c[1]
      BY <1>7 DEF IdleTime
    <3>2. IdleTime(b) = t - w
      BY <1>1, <1>2, <2>1 DEF IdleTime
    <3> QED BY <1>6, <1>8, <1>9, <2>1, <3>1, <3>2
  <2>2. CASE n # 0
    <3>1. 1 \in 1 .. n
      BY <2>2
    <3>2. IdleTime(c)' = AtHeight(scopes', 1).t0 - c[1]
      BY <1>7 DEF IdleTime
    <3>3. IdleTime(b) = AtHeight(scopes, 1).t0 - b[1]
      BY <1>1, <2>2 DEF IdleTime
    <3> QED BY <1>6, <1>7, <1>9, <3>1, <3>2, <3>3
  <2> QED BY <2>1, <2>2
<1>11. ASSUME NEW h \in 1 .. n + 1
       PROVE  AtHeight(scopes', h).t0 <= t /\ i <= AtHeight(scopes', h).t0 - c[h]
  <2>1. CASE h = n + 1
    BY <1>2, <1>6, <1>8, <1>9, <2>1
  <2>2. CASE h \in 1 .. n
    <3>1. AtHeight(scopes, h).t0 <= bootClock /\ IdleTime(b) <= AtHeight(scopes, h).t0 - b[h]
      BY <1>1, <2>2 DEF ScopesAdd
    <3> QED BY <1>2, <1>6, <1>7, <1>9, <2>2, <3>1
  <2> QED BY <2>1, <2>2
<1>12. ASSUME NEW h \in 1 .. n
       PROVE  /\ c[h] + AtHeight(scopes', h).child = c[h + 1]
              /\ AtHeight(scopes', h).t0 + AtHeight(scopes', h).child
                   <= AtHeight(scopes', h + 1).t0
  <2>1. CASE h = n
    <3>1. /\ b[n] + AtHeight(scopes, n).child = w
          /\ AtHeight(scopes, n).t0 + AtHeight(scopes, n).child <= t
      BY <1>1, <1>2, <2>1 DEF ScopesAdd
    <3> QED BY <1>6, <1>7, <1>8, <2>1, <3>1
  <2>2. CASE h \in 1 .. n - 1
    <3>1. /\ b[h] + AtHeight(scopes, h).child = b[h + 1]
          /\ AtHeight(scopes, h).t0 + AtHeight(scopes, h).child <= AtHeight(scopes, h + 1).t0
      BY <1>1, <2>2 DEF ScopesAdd
    <3>2. h \in 1 .. n /\ h + 1 \in 1 .. n
      BY <2>2
    <3> QED BY <1>6, <1>7, <3>1, <3>2
  <2> QED BY <2>1, <2>2
<1>13. ScopesAdd(c)'
  <2>1. \A h \in 1 .. Len(scopes') : /\ AtHeight(scopes', h).t0 <= bootClock'
                                     /\ IdleTime(c)' <= AtHeight(scopes', h).t0 - c[h]
    BY <1>3, <1>7, <1>10, <1>11
  <2>2. \A h \in 1 .. Len(scopes') - 1 :
          /\ c[h] + AtHeight(scopes', h).child = c[h + 1]
          /\ AtHeight(scopes', h).t0 + AtHeight(scopes', h).child <= AtHeight(scopes', h + 1).t0
    <3>1. Len(scopes') - 1 = n
      BY <1>7
    <3> QED BY <1>12, <3>1
  <2>3. /\ c[Len(scopes')] + AtHeight(scopes', Len(scopes')).child = Total(self')
        /\ AtHeight(scopes', Len(scopes')).t0 + AtHeight(scopes', Len(scopes')).child <= bootClock'
    BY <1>2, <1>3, <1>6, <1>7, <1>8
  <2> QED BY <1>14, <2>1, <2>2, <2>3 DEF ScopesAdd
<1> QED BY <1>9, <1>10, <1>13

LEMMA ClosedBooks ==
  ASSUME BootTypes, NEW b, ScopesAdd(b), scopes # <<>>, CloseScope,
         NEW top, top = AtHeight(scopes, Len(scopes))
  PROVE  /\ self' \in Bookings
         /\ Total(self') = b[Len(scopes)] + (bootClock - top.t0)
<1>1. PICK n \in Nat : n = Len(scopes) /\ n \in 1 .. n
  BY Heights
<1>2. top \in Scopes /\ top.cat \in Categories /\ top.t0 \in Nat /\ top.child \in Nat
  BY <1>1, ScopeAtHeight DEF BootTypes
<1>3. Head(scopes) = top /\ self \in Bookings /\ bootClock \in Nat
  BY <1>1, TailOf, Heights DEF BootTypes
<1>4. b[n] + top.child = Total(self) /\ top.t0 + top.child <= bootClock /\ b[n] \in Int
  BY <1>1 DEF ScopesAdd
<1>5. PICK x \in Nat : x = bootClock - top.t0 - top.child
  BY <1>2, <1>3, <1>4
<1>6. self' = [self EXCEPT ![top.cat] = @ + x]
  BY <1>3, <1>5 DEF CloseScope, BookedSelf
<1>7. self' \in Bookings /\ Total(self') = Total(self) + x
  BY <1>2, <1>3, <1>5, <1>6 DEF Bookings, Categories, Total
<1> QED BY <1>1, <1>2, <1>3, <1>4, <1>5, <1>7

LEMMA ClosedAdds ==
  ASSUME BootTypes, NEW b, ScopesAdd(b), scopes # <<>>, CloseScope, UNCHANGED bootClock
  PROVE  ScopesAdd(b)' /\ IdleTime(b)' = IdleTime(b)
<1>1. PICK n \in Nat \ {0} : n = Len(scopes)
  BY Heights
<1>2. PICK top : top = AtHeight(scopes, n)
  OBVIOUS
<1>3. n \in 1 .. n /\ bootClock \in Nat /\ b \in [Nat -> Int]
  BY Heights DEF ScopesAdd
<1>4. top.t0 \in Nat /\ top.child \in Nat
  BY <1>1, <1>2, <1>3, Heights
<1>5. /\ b[n] + top.child = Total(self) /\ top.t0 + top.child <= bootClock /\ b[n] \in Int
      /\ IdleTime(b) <= top.t0 - b[n] /\ top.t0 <= bootClock
  BY <1>1, <1>2, <1>3 DEF ScopesAdd
<1>6. PICK x \in Nat : x = bootClock - top.t0
  BY <1>3, <1>4, <1>5
<1>7. /\ scopes' \in Seq(Scopes) /\ Len(scopes') = n - 1
      /\ \A h \in 1 .. n - 2 : AtHeight(scopes', h) = AtHeight(scopes, h)
      /\ n > 1 => LET outer == AtHeight(scopes, n - 1)
                  IN  AtHeight(scopes', n - 1) = [cat |-> outer.cat, t0 |-> outer.t0,
                                                  child |-> outer.child + x]
  BY <1>1, <1>2, <1>5, <1>6, ClosedScopes
<1>8. n > 1 => /\ AtHeight(scopes', n - 1).t0 = AtHeight(scopes, n - 1).t0
               /\ AtHeight(scopes', n - 1).child = AtHeight(scopes, n - 1).child + x
  BY <1>7
<1>9. ASSUME NEW h \in 1 .. n - 1 PROVE AtHeight(scopes', h).t0 = AtHeight(scopes, h).t0
  <2>1. h \in 1 .. n - 2 \/ (h = n - 1 /\ n > 1)
    OBVIOUS
  <2> QED BY <1>7, <1>8, <2>1
<1>10. Total(self') = b[n] + x
  BY <1>1, <1>2, <1>6, ClosedBooks
<1>11. Total(self)' = Total(self')
  OBVIOUS
<1>12. PICK i \in Int : i = IdleTime(b)
  BY IdleIsLeft
<1>13. IdleTime(b)' = i
  <2>1. CASE n = 1
    <3>1. scopes' = <<>>
      BY <1>7, <2>1
    <3>2. IdleTime(b)' = bootClock' - Total(self')
      BY <3>1 DEF IdleTime
    <3>3. IdleTime(b) = top.t0 - b[1]
      BY <1>2, <2>1 DEF IdleTime
    <3> QED BY <1>3, <1>4, <1>5, <1>6, <1>10, <1>12, <2>1, <3>2, <3>3, SMTT(30)
  <2>2. CASE n # 1
    <3>1. 1 \in 1 .. n - 1 /\ scopes' # <<>>
      BY <1>7, <2>2
    <3>2. IdleTime(b)' = AtHeight(scopes', 1).t0 - b[1]
      BY <3>1 DEF IdleTime
    <3>3. IdleTime(b) = AtHeight(scopes, 1).t0 - b[1]
      BY DEF IdleTime
    <3> QED BY <1>9, <1>12, <3>1, <3>2, <3>3
  <2> QED BY <2>1, <2>2
<1>14. \A h \in 1 .. n - 1 : /\ AtHeight(scopes', h).t0 <= bootClock'
                             /\ IdleTime(b)' <= AtHeight(scopes', h).t0 - b[h]
  <2>1. ASSUME NEW h \in 1 .. n - 1
        PROVE  /\ AtHeight(scopes, h).t0 <= bootClock
               /\ IdleTime(b) <= AtHeight(scopes, h).t0 - b[h]
    <3>1. h \in 1 .. Len(scopes)
      BY <1>1
    <3> QED BY <3>1 DEF ScopesAdd
  <2> QED BY <1>9, <1>12, <1>13, <2>1
<1>15. \A h \in 1 .. n - 1 - 1 :
         /\ b[h] + AtHeight(scopes', h).child = b[h + 1]
         /\ AtHeight(scopes', h).t0 + AtHeight(scopes', h).child <= AtHeight(scopes', h + 1).t0
  <2>1. ASSUME NEW h \in 1 .. n - 1 - 1
        PROVE  /\ b[h] + AtHeight(scopes, h).child = b[h + 1]
               /\ AtHeight(scopes, h).t0 + AtHeight(scopes, h).child <= AtHeight(scopes, h + 1).t0
    <3>1. h \in 1 .. Len(scopes) - 1
      BY <1>1
    <3> QED BY <3>1 DEF ScopesAdd
  <2>2. \A h \in 1 .. n - 1 - 1 : h \in 1 .. n - 2 /\ h + 1 \in 1 .. n - 1 /\ h \in 1 .. n - 1
    OBVIOUS
  <2> QED BY <1>7, <1>9, <2>1, <2>2
<1>16. n > 1 => /\ b[n - 1] + AtHeight(scopes', n - 1).child = Total(self')
                /\ AtHeight(scopes', n - 1).t0 + AtHeight(scopes', n - 1).child <= bootClock'
  <2> SUFFICES ASSUME n > 1
               PROVE  /\ b[n - 1] + AtHeight(scopes', n - 1).child = Total(self')
                      /\ AtHeight(scopes', n - 1).t0 + AtHeight(scopes', n - 1).child <= bootClock'
    OBVIOUS
  <2>1. n - 1 \in 1 .. Len(scopes) - 1 /\ n - 1 \in 1 .. Len(scopes) /\ n - 1 + 1 = n
    BY <1>1
  <2>2. PICK u \in Nat, c \in Nat : /\ u = AtHeight(scopes, n - 1).t0
                                    /\ c = AtHeight(scopes, n - 1).child
    BY <2>1, Heights
  <2>3. b[n - 1] + c = b[n] /\ u + c <= top.t0
    <3>1. PICK k : k = n - 1 /\ k + 1 = n
      OBVIOUS
    <3>2. /\ b[k] + AtHeight(scopes, k).child = b[k + 1]
          /\ AtHeight(scopes, k).t0 + AtHeight(scopes, k).child <= AtHeight(scopes, k + 1).t0
      BY <2>1, <3>1 DEF ScopesAdd
    <3> QED BY <1>2, <2>2, <3>1, <3>2
  <2>4. PICK p \in Int, q \in Int : p = b[n - 1] /\ q = b[n]
    BY <1>3
  <2>5. AtHeight(scopes', n - 1).child = c + x /\ AtHeight(scopes', n - 1).t0 = u
    BY <1>8, <2>2
  <2>6. p + c = q /\ u + c <= top.t0 /\ Total(self') = q + x
    BY <1>10, <2>3, <2>4
  <2>7. p + (c + x) = q + x
    BY <2>6
  <2>8. u + (c + x) <= bootClock
    <3>1. PICK t \in Nat : t = top.t0
      BY <1>4
    <3>2. u + c <= t /\ x = bootClock - t
      BY <1>6, <2>6, <3>1
    <3> QED BY <1>3, <3>2
  <2> QED BY <1>3, <2>4, <2>5, <2>6, <2>7, <2>8
<1>17. scopes' # <<>> => n > 1
  BY <1>7
<1> QED BY <1>3, <1>7, <1>11, <1>12, <1>13, <1>14, <1>15, <1>16, <1>17 DEF ScopesAdd

LEMMA TickAdds ==
  ASSUME BootTypes, NEW b, ScopesAdd(b), bootClock' = bootClock + 1, UNCHANGED <<scopes, self>>
  PROVE  /\ ScopesAdd(b)'
         /\ IdleTime(b)' = IF scopes = <<>> THEN IdleTime(b) + 1 ELSE IdleTime(b)
<1>1. PICK n \in Nat : n = Len(scopes) /\ (scopes = <<>> <=> n = 0)
  BY Heights
<1>2. bootClock \in Nat /\ Total(self) \in Nat /\ IdleTime(b) \in Int
  BY Heights, IdleIsLeft
<1>3. IdleTime(b)' = IF scopes = <<>> THEN IdleTime(b) + 1 ELSE IdleTime(b)
  BY <1>2 DEF IdleTime
<1>4. ASSUME NEW h \in 1 .. n
      PROVE  /\ AtHeight(scopes, h).t0 <= bootClock'
             /\ IdleTime(b)' <= AtHeight(scopes, h).t0 - b[h]
  <2>1. AtHeight(scopes, h).t0 <= bootClock /\ IdleTime(b) <= AtHeight(scopes, h).t0 - b[h]
    BY <1>1 DEF ScopesAdd
  <2>2. AtHeight(scopes, h).t0 \in Nat /\ n # 0
    BY <1>1, Heights
  <2> QED BY <1>1, <1>2, <1>3, <2>1, <2>2
<1>5. n # 0 => AtHeight(scopes, n).t0 + AtHeight(scopes, n).child <= bootClock'
  <2>1. n # 0 => AtHeight(scopes, n).t0 + AtHeight(scopes, n).child <= bootClock
    BY <1>1 DEF ScopesAdd
  <2>2. n # 0 => n \in 1 .. n
    OBVIOUS
  <2> QED BY <1>1, <1>2, <2>1, <2>2, Heights
<1> QED BY <1>1, <1>3, <1>4, <1>5 DEF ScopesAdd

LEMMA BookedIs ==
  ASSUME NEW was \in Bookings, NEW is \in Bookings
  PROVE  Booked(was, is) = Total(is) - Total(was)
<1> DEFINE d(c) == is[c] - was[c]
           P(f) == f = [s \in SUBSET Categories |->
                          IF s = {} THEN 0
                          ELSE LET c == CHOOSE c \in s : TRUE IN f[s \ {c}] + d(c)]
<1>1. PICK p \in Int, q \in Int : p = d("res_load") /\ q = d("gd_parse")
  BY DEF Bookings, Categories
<1>2. \A s \in SUBSET Categories : s = {} \/ (CHOOSE c \in s : TRUE) \in s
  OBVIOUS
<1>3. \E f : P(f)
  <2> DEFINE g == [s \in SUBSET Categories |->
                     (IF "res_load" \in s THEN p ELSE 0) + (IF "gd_parse" \in s THEN q ELSE 0)]
  <2>1. ASSUME NEW s \in SUBSET Categories, s # {}
        PROVE  LET c == CHOOSE c \in s : TRUE IN g[s] = g[s \ {c}] + d(c)
    <3>1. PICK c : c = (CHOOSE x \in s : TRUE) /\ c \in s
      BY <1>2, <2>1
    <3>2. c = "res_load" \/ c = "gd_parse"
      BY <3>1 DEF Categories
    <3>3. s \ {c} \in SUBSET Categories
      OBVIOUS
    <3>4. g[s] = g[s \ {c}] + d(c)
      <4>1. CASE c = "res_load"
        <5>1. g[s] = p + (IF "gd_parse" \in s THEN q ELSE 0)
          BY <3>1, <4>1
        <5>2. g[s \ {c}] = 0 + (IF "gd_parse" \in s THEN q ELSE 0)
          BY <3>3, <4>1
        <5> QED BY <1>1, <4>1, <5>1, <5>2
      <4>2. CASE c = "gd_parse"
        <5>1. g[s] = (IF "res_load" \in s THEN p ELSE 0) + q
          BY <3>1, <4>2
        <5>2. g[s \ {c}] = (IF "res_load" \in s THEN p ELSE 0) + 0
          BY <3>3, <4>2
        <5> QED BY <1>1, <4>2, <5>1, <5>2
      <4> QED BY <3>2, <4>1, <4>2
    <3> QED BY <3>1, <3>4
  <2>2. g[{}] = 0 /\ g = [s \in SUBSET Categories |-> g[s]]
    OBVIOUS
  <2> HIDE DEF g, d
  <2>3. P(g)
    BY <2>1, <2>2
  <2> QED BY <2>3
<1>4. Booked(was, is) = (CHOOSE f : P(f))[Categories]
  BY DEF Booked, FoldSet, MapThenFoldSet
<1>5. PICK f : P(f) /\ Booked(was, is) = f[Categories]
  <2> HIDE DEF P
  <2> QED BY <1>3, <1>4
<1>6. f[{}] = 0
  BY <1>5
<1>7. ASSUME NEW c \in Categories PROVE f[{c}] = d(c)
  <2>1. f[{c}] = f[{c} \ {c}] + d(c)
    <3>1. (CHOOSE x \in {c} : TRUE) = c /\ {c} \in SUBSET Categories /\ {c} # {}
      OBVIOUS
    <3> HIDE DEF d
    <3> QED BY <1>5, <3>1
  <2>2. d(c) \in Int /\ {c} \ {c} = {}
    BY <1>1 DEF Categories
  <2> HIDE DEF d
  <2>3. f[{c} \ {c}] = 0
    BY <1>6, <2>2
  <2> QED BY <2>1, <2>2, <2>3
<1>8. PICK c : c \in Categories /\ c = (CHOOSE x \in Categories : TRUE)
  BY DEF Categories
<1>9. f[Categories] = f[Categories \ {c}] + d(c)
  <2>1. Categories # {} /\ Categories \in SUBSET Categories
    BY DEF Categories
  <2> HIDE DEF d
  <2> QED BY <1>5, <1>8, <2>1
<1>10. f[Categories] = p + q
  <2>1. CASE c = "res_load"
    <3>1. Categories \ {c} = {"gd_parse"} /\ "gd_parse" \in Categories
      BY <2>1 DEF Categories
    <3>2. f[{"gd_parse"}] = d("gd_parse")
      BY <1>7, <3>1
    <3>3. f[Categories] = f[Categories \ {c}] + p
      BY <1>1, <1>9, <2>1
    <3>4. f[Categories \ {c}] = q
      BY <1>1, <3>1, <3>2
    <3> QED BY <1>1, <3>3, <3>4
  <2>2. CASE c = "gd_parse"
    <3>1. Categories \ {c} = {"res_load"} /\ "res_load" \in Categories
      BY <2>2 DEF Categories
    <3>2. f[{"res_load"}] = d("res_load")
      BY <1>7, <3>1
    <3>3. f[Categories] = f[Categories \ {c}] + q
      BY <1>1, <1>9, <2>2
    <3>4. f[Categories \ {c}] = p
      BY <1>1, <3>1, <3>2
    <3> QED BY <1>1, <3>3, <3>4
  <2> QED BY <1>8, <2>1, <2>2 DEF Categories
<1> QED BY <1>1, <1>5, <1>10, TotalOf DEF Total

\* A load that is open has begun, is no other open load, and is not in the log.
LoadsOpen ==
  /\ \A t \in Loaders : \A i \in 1 .. Len(loads[t]) :
       loads[t][i].id \in 1 .. begun /\ loads[t][i].at <= bootClock
  /\ \A t, u \in Loaders : \A i \in 1 .. Len(loads[t]) : \A j \in 1 .. Len(loads[u]) :
       loads[t][i].id = loads[u][j].id => t = u /\ i = j

LoadsLogged ==
  /\ \A k \in 1 .. Len(log) : log[k].ev = "load" =>
       /\ log[k].id \in 1 .. begun
       /\ \A t \in Loaders : \A i \in 1 .. Len(loads[t]) : loads[t][i].id # log[k].id
  /\ \A k, m \in 1 .. Len(log) :
       log[k].ev = "load" /\ log[m].ev = "load" /\ log[k].id = log[m].id => k = m

\* The main thread's loads are its scopes of category res_load.
LoadsNest(nest) ==
  /\ nest \in [Nat -> Int] /\ nest[0] = 0
  /\ \A h \in 1 .. Len(scopes) :
       nest[h] = nest[h - 1] + IF AtHeight(scopes, h).cat = "res_load" THEN 1 ELSE 0
  /\ nest[Len(scopes)] = Len(loads["main"])

LEMMA BootNumbers ==
  ASSUME BootTypes
  PROVE  /\ bootClock \in Nat /\ begun \in Nat /\ phases \in Nat
         /\ BootTicks \in Nat /\ MaxBegun \in Nat /\ MaxPhases \in Nat /\ MaxScopes \in Nat
         /\ "main" \in Loaders
BY BootAssumption DEF BootTypes

LEMMA OneMoreLine ==
  ASSUME NEW L \in Seq(Lines), NEW x \in Lines
  PROVE  /\ Append(L, x) \in Seq(Lines) /\ Len(Append(L, x)) = Len(L) + 1
         /\ \A k \in 1 .. Len(L) : Append(L, x)[k] = L[k]
         /\ Append(L, x)[Len(L) + 1] = x
OBVIOUS

LEMMA TwoMoreLines ==
  ASSUME NEW L \in Seq(Lines), NEW x \in Lines, NEW y \in Lines
  PROVE  /\ L \o <<x, y>> \in Seq(Lines) /\ Len(L \o <<x, y>>) = Len(L) + 2
         /\ \A k \in 1 .. Len(L) : (L \o <<x, y>>)[k] = L[k]
         /\ (L \o <<x, y>>)[Len(L) + 1] = x /\ (L \o <<x, y>>)[Len(L) + 2] = y
OBVIOUS

LEMMA SnapshotIsDump ==
  ASSUME BootTypes
  PROVE  Snapshot \in Dumped /\ Snapshot \in Lines /\ Snapshot.ev = "prof"
         /\ Snapshot.at = bootClock /\ Snapshot.self = self
<1>1. bootClock \in Nat /\ self \in Bookings
  BY BootNumbers DEF BootTypes
<1> QED BY <1>1 DEF Snapshot, Dumped, Lines

\* The load that ends: the innermost of its thread, and its line.
Innermost(t) == loads[t][Len(loads[t])]
LineOf(t) == [ev |-> "load", at |-> bootClock, depth |-> Len(loads[t]) - 1,
              id |-> Innermost(t).id, ms |-> bootClock - Innermost(t).at]

LEMMA InnermostIs ==
  ASSUME BootTypes, LoadsOpen, NEW t \in Loaders, loads[t] # <<>>
  PROVE  /\ loads[t] \in Seq(Loads) /\ Len(loads[t]) \in Nat \ {0}
         /\ Innermost(t) \in Loads
         /\ Innermost(t).id \in 1 .. begun /\ Innermost(t).at \in Nat
         /\ Innermost(t).at <= bootClock
<1>1. loads[t] \in Seq(Loads)
  BY DEF BootTypes
<1>2. Len(loads[t]) \in Nat \ {0}
  BY <1>1
<1>3. Len(loads[t]) \in 1 .. Len(loads[t])
  BY <1>2
<1>4. loads[t][Len(loads[t])] \in Loads
  BY <1>1, <1>3
<1>5. loads[t][Len(loads[t])].id \in 1 .. begun /\ loads[t][Len(loads[t])].at <= bootClock
  BY <1>3 DEF LoadsOpen
<1> QED BY <1>1, <1>2, <1>4, <1>5 DEF Innermost, Loads

LEMMA LineOfIs ==
  ASSUME BootTypes, LoadsOpen, NEW t \in Loaders, loads[t] # <<>>
  PROVE  /\ LineOf(t) \in LoadLines /\ LineOf(t) \in Lines /\ LineOf(t).ev = "load"
         /\ LineOf(t).at = bootClock /\ LineOf(t).depth = Len(loads[t]) - 1
         /\ LineOf(t).id = Innermost(t).id /\ LineOf(t).ms = bootClock - Innermost(t).at
<1>1. PICK d \in Nat, m \in Nat, i \in Nat :
        /\ d = Len(loads[t]) - 1 /\ m = bootClock - Innermost(t).at /\ i = Innermost(t).id
  <2>1. PICK l \in Nat \ {0} : l = Len(loads[t])
    BY InnermostIs
  <2>2. /\ Innermost(t).id \in 1 .. begun /\ Innermost(t).at \in Nat
        /\ Innermost(t).at <= bootClock
    BY InnermostIs
  <2>3. bootClock \in Nat /\ begun \in Nat
    BY BootNumbers
  <2>4. l - 1 \in Nat /\ bootClock - Innermost(t).at \in Nat /\ Innermost(t).id \in Nat
    BY <2>1, <2>2, <2>3
  <2> QED BY <2>1, <2>4
<1>2. LineOf(t) = [ev |-> "load", at |-> bootClock, depth |-> d, id |-> i, ms |-> m]
  BY <1>1 DEF LineOf
<1>3. bootClock \in Nat
  BY BootNumbers
<1> QED BY <1>1, <1>2, <1>3 DEF LoadLines, Lines

\* What is left of a thread's loads, and what comes to them.
LEMMA LoadsLess ==
  ASSUME BootTypes, LoadsOpen, NEW t \in Loaders, loads[t] # <<>>,
         loads' = [loads EXCEPT ![t] = SubSeq(@, 1, Len(@) - 1)]
  PROVE  /\ loads' \in [Loaders -> Seq(Loads)]
         /\ Len(loads'[t]) = Len(loads[t]) - 1
         /\ \A i \in 1 .. Len(loads[t]) - 1 : loads'[t][i] = loads[t][i]
         /\ \A u \in Loaders : u # t => loads'[u] = loads[u]
<1>1. loads \in [Loaders -> Seq(Loads)]
  BY DEF BootTypes
<1>2. PICK L \in Seq(Loads) : L = loads[t] /\ Len(L) \in Nat \ {0}
  BY <1>1, InnermostIs
<1>3. PICK M : M = SubSeq(L, 1, Len(L) - 1)
  OBVIOUS
<1>4. /\ M \in Seq(Loads) /\ Len(M) = Len(L) - 1
      /\ \A i \in 1 .. Len(L) - 1 : M[i] = L[i]
  BY <1>2, <1>3
<1>5. loads' = [loads EXCEPT ![t] = M]
  BY <1>2, <1>3
<1> QED BY <1>1, <1>2, <1>4, <1>5

LEMMA LoadsMore ==
  ASSUME BootTypes, NEW t \in Loaders, NEW x \in Loads,
         loads' = [loads EXCEPT ![t] = Append(@, x)]
  PROVE  /\ loads' \in [Loaders -> Seq(Loads)]
         /\ Len(loads[t]) \in Nat /\ Len(loads'[t]) = Len(loads[t]) + 1
         /\ loads'[t][Len(loads[t]) + 1] = x
         /\ \A i \in 1 .. Len(loads[t]) : loads'[t][i] = loads[t][i]
         /\ \A u \in Loaders : u # t => loads'[u] = loads[u]
<1>1. loads \in [Loaders -> Seq(Loads)]
  BY DEF BootTypes
<1>2. PICK L \in Seq(Loads) : L = loads[t]
  BY <1>1
<1>3. PICK M : M = Append(L, x)
  OBVIOUS
<1>4. /\ M \in Seq(Loads) /\ Len(M) = Len(L) + 1 /\ M[Len(L) + 1] = x
      /\ \A i \in 1 .. Len(L) : M[i] = L[i]
  BY <1>2, <1>3
<1>5. loads' = [loads EXCEPT ![t] = M]
  BY <1>2, <1>3
<1> QED BY <1>1, <1>2, <1>4, <1>5

\* While the main thread loads, a scope is open.
LEMMA LoadHasScope ==
  ASSUME BootTypes, NEW nest, LoadsNest(nest), loads["main"] # <<>>
  PROVE  scopes # <<>>
<1>1. "main" \in Loaders /\ loads["main"] \in Seq(Loads)
  BY BootNumbers DEF BootTypes
<1>2. Len(loads["main"]) # 0
  BY <1>1
<1>3. scopes = <<>> => Len(scopes) = 0
  OBVIOUS
<1> QED BY <1>2, <1>3 DEF LoadsNest

LEMMA Closed ==
  ASSUME BootTypes, NEW b, ScopesAdd(b), scopes # <<>>, CloseScope
  PROVE  /\ scopes' \in Seq(Scopes) /\ Len(scopes') = Len(scopes) - 1 /\ self' \in Bookings
         /\ \A h \in 1 .. Len(scopes) - 1 : AtHeight(scopes', h).cat = AtHeight(scopes, h).cat
         /\ Len(scopes) \in Nat \ {0}
         /\ AtHeight(scopes, Len(scopes)).cat = scopes[1].cat
<1>1. PICK n \in Nat \ {0} : n = Len(scopes) /\ n \in 1 .. n
  BY Heights
<1>2. PICK top : top = AtHeight(scopes, n)
  OBVIOUS
<1>3. top.t0 <= bootClock
  BY <1>1, <1>2 DEF ScopesAdd
<1>4. self' \in Bookings
  BY <1>1, <1>2, ClosedBooks
<1>5. scopes' \in Seq(Scopes)
  BY <1>1, <1>2, <1>3, ClosedScopes
<1>6. Len(scopes') = n - 1
  BY <1>1, <1>2, <1>3, ClosedScopes
<1>7. \A h \in 1 .. n - 2 : AtHeight(scopes', h) = AtHeight(scopes, h)
  BY <1>1, <1>2, <1>3, ClosedScopes
<1>8. n > 1 => AtHeight(scopes', n - 1).cat = AtHeight(scopes, n - 1).cat
  <2>1. n > 1 => LET outer == AtHeight(scopes, n - 1)
                 IN  AtHeight(scopes', n - 1)
                       = [cat |-> outer.cat, t0 |-> outer.t0,
                          child |-> outer.child + (bootClock - top.t0)]
    BY <1>1, <1>2, <1>3, ClosedScopes
  <2> QED BY <2>1
<1>9. \A h \in 1 .. n - 1 : h \in 1 .. n - 2 \/ (h = n - 1 /\ n > 1)
  OBVIOUS
<1>10. AtHeight(scopes, n) = scopes[1]
  <2>1. n + 1 - n = 1
    OBVIOUS
  <2> QED BY <1>1, <2>1 DEF AtHeight
<1> QED BY <1>1, <1>4, <1>5, <1>6, <1>7, <1>8, <1>9, <1>10

LEMMA BeginLoadTypes ==
  ASSUME BootTypes, NEW t \in Loaders, BeginLoad(t)
  PROVE  BootTypes'
<1>1. PICK x : x = [id |-> begun + 1, at |-> bootClock]
  OBVIOUS
<1>2. begun' = begun + 1 /\ begun' \in 0 .. MaxBegun
  BY BootNumbers DEF BeginLoad, BootTypes
<1>3. x \in Loads
  BY <1>1, BootNumbers DEF Loads
<1>4. loads' = [loads EXCEPT ![t] = Append(@, x)]
  BY <1>1, <1>2 DEF BeginLoad
<1>5. loads' \in [Loaders -> Seq(Loads)]
  BY <1>3, <1>4, LoadsMore
<1>6. scopes' \in Seq(Scopes) /\ Len(scopes') <= MaxScopes
  <2>1. CASE t = "main"
    <3>1. OpenScope("res_load") /\ Len(scopes) < MaxScopes
      BY <2>1 DEF BeginLoad
    <3>2. "res_load" \in Categories
      BY DEF Categories
    <3>3. scopes' \in Seq(Scopes) /\ Len(scopes') = Len(scopes) + 1
      BY <3>1, <3>2, OpenedScopes
    <3> QED BY <3>1, <3>3, Heights, BootNumbers
  <2>2. CASE t # "main"
    BY <2>2 DEF BeginLoad, BootTypes
  <2> QED BY <2>1, <2>2
<1>7. UNCHANGED <<bootClock, self, log, phases, alone, outside>>
  BY DEF BeginLoad
<1> QED BY <1>2, <1>5, <1>6, <1>7 DEF BootTypes

LEMMA BeginLoadOpen ==
  ASSUME BootTypes, LoadsOpen, LoadsLogged, NEW t \in Loaders, BeginLoad(t)
  PROVE  LoadsOpen' /\ LoadsLogged'
<1>1. PICK x : x = [id |-> begun + 1, at |-> bootClock]
  OBVIOUS
<1>2. begun' = begun + 1 /\ begun \in Nat /\ bootClock \in Nat /\ UNCHANGED <<bootClock, log>>
  BY BootNumbers DEF BeginLoad
<1>3. x \in Loads /\ x.id = begun + 1 /\ x.at = bootClock
  BY <1>1, BootNumbers DEF Loads
<1>4. loads' = [loads EXCEPT ![t] = Append(@, x)]
  BY <1>1, <1>2 DEF BeginLoad
<1>5. PICK n \in Nat :
         /\ n = Len(loads[t]) /\ Len(loads'[t]) = n + 1 /\ loads'[t][n + 1] = x
         /\ \A i \in 1 .. n : loads'[t][i] = loads[t][i]
         /\ \A u \in Loaders : u # t => loads'[u] = loads[u]
  BY <1>3, <1>4, LoadsMore, ZenonT(60)
<1>6. ASSUME NEW u \in Loaders, NEW i \in 1 .. Len(loads'[u])
      PROVE  \/ u = t /\ i = n + 1 /\ loads'[u][i] = x
             \/ i \in 1 .. Len(loads[u]) /\ loads'[u][i] = loads[u][i]
  <2>1. CASE u = t
    <3>1. i \in 1 .. n \/ i = n + 1
      BY <1>5, <2>1
    <3> QED BY <1>5, <2>1, <3>1
  <2>2. CASE u # t
    BY <1>5, <2>2
  <2> QED BY <2>1, <2>2
<1>7. \A u \in Loaders : \A i \in 1 .. Len(loads[u]) :
        /\ loads[u][i].id \in 1 .. begun /\ loads[u][i].at <= bootClock
        /\ loads[u][i].id # begun + 1
  BY <1>2 DEF LoadsOpen
<1>8. LoadsOpen'
  <2>1. ASSUME NEW u \in Loaders, NEW i \in 1 .. Len(loads'[u])
        PROVE  loads'[u][i].id \in 1 .. begun + 1 /\ loads'[u][i].at <= bootClock
    <3>1. CASE loads'[u][i] = x
      BY <1>2, <1>3, <3>1
    <3>2. CASE i \in 1 .. Len(loads[u]) /\ loads'[u][i] = loads[u][i]
      <4>1. loads[u][i].id \in 1 .. begun /\ loads[u][i].at <= bootClock
        BY <1>7, <3>2
      <4>2. \A k \in 1 .. begun : k \in 1 .. begun + 1
        BY <1>2
      <4> QED BY <3>2, <4>1, <4>2
    <3> QED BY <1>6, <3>1, <3>2
  <2>2. ASSUME NEW u \in Loaders, NEW v \in Loaders, NEW i \in 1 .. Len(loads'[u]),
               NEW j \in 1 .. Len(loads'[v]), loads'[u][i].id = loads'[v][j].id
        PROVE  u = v /\ i = j
    <3>1. CASE i \in 1 .. Len(loads[u]) /\ loads'[u][i] = loads[u][i]
      <4>1. loads[u][i].id # begun + 1
        BY <1>7, <3>1
      <4>2. j \in 1 .. Len(loads[v]) /\ loads'[v][j] = loads[v][j]
        BY <1>3, <1>6, <2>2, <3>1, <4>1
      <4> QED BY <2>2, <3>1, <4>2 DEF LoadsOpen
    <3>2. CASE u = t /\ i = n + 1 /\ loads'[u][i] = x
      <4>1. loads'[v][j].id = begun + 1
        BY <1>3, <2>2, <3>2
      <4>2. v = t /\ j = n + 1
        BY <1>6, <1>7, <4>1
      <4> QED BY <3>2, <4>2
    <3> QED BY <1>6, <3>1, <3>2
  <2> QED BY <1>2, <2>1, <2>2 DEF LoadsOpen
<1>9. LoadsLogged'
  <2>1. ASSUME NEW k \in 1 .. Len(log), log[k].ev = "load"
        PROVE  /\ log[k].id \in 1 .. begun + 1
               /\ \A u \in Loaders : \A i \in 1 .. Len(loads'[u]) : loads'[u][i].id # log[k].id
    <3>1. /\ log[k].id \in 1 .. begun
          /\ \A u \in Loaders : \A i \in 1 .. Len(loads[u]) : loads[u][i].id # log[k].id
      BY <2>1 DEF LoadsLogged
    <3>2. log[k].id # begun + 1 /\ log[k].id \in 1 .. begun + 1
      BY <1>2, <3>1
    <3> QED BY <1>3, <1>6, <3>1, <3>2
  <2>2. \A k, m \in 1 .. Len(log) :
          log[k].ev = "load" /\ log[m].ev = "load" /\ log[k].id = log[m].id => k = m
    BY DEF LoadsLogged
  <2> QED BY <1>2, <2>1, <2>2 DEF LoadsLogged
<1> QED BY <1>8, <1>9

LEMMA OpenedNests ==
  ASSUME BootTypes, NEW nest, LoadsNest(nest), NEW cat \in Categories, OpenScope(cat),
         Len(loads["main"])' = Len(loads["main"]) + IF cat = "res_load" THEN 1 ELSE 0
  PROVE  \E c : LoadsNest(c)'
<1>1. PICK n \in Nat : n = Len(scopes)
  BY Heights
<1>2. PICK d \in Nat : d = IF cat = "res_load" THEN 1 ELSE 0
  OBVIOUS
<1>3. PICK m \in Int : m = nest[n] /\ m = Len(loads["main"])
  BY <1>1 DEF LoadsNest
<1>4. nest \in [Nat -> Int] /\ nest[0] = 0
  BY DEF LoadsNest
<1>5. PICK c : c = [nest EXCEPT ![n + 1] = m + d]
  OBVIOUS
<1>6. c \in [Nat -> Int] /\ c[n + 1] = m + d /\ \A h \in 0 .. n : c[h] = nest[h]
  BY <1>4, <1>5
<1>7. /\ Len(scopes') = n + 1
      /\ \A h \in 1 .. n : AtHeight(scopes', h) = AtHeight(scopes, h)
      /\ AtHeight(scopes', n + 1) = [cat |-> cat, t0 |-> bootClock, child |-> 0]
  BY <1>1, OpenedScopes
<1>8. AtHeight(scopes', n + 1).cat = cat
  BY <1>7
<1>9. ASSUME NEW h \in 1 .. n + 1
      PROVE  c[h] = c[h - 1] + IF AtHeight(scopes', h).cat = "res_load" THEN 1 ELSE 0
  <2>1. CASE h = n + 1
    <3>1. h - 1 = n /\ n \in 0 .. n
      BY <2>1
    <3>2. c[h - 1] = m
      BY <1>3, <1>6, <3>1
    <3> QED BY <1>2, <1>6, <1>8, <2>1, <3>2
  <2>2. CASE h \in 1 .. n
    <3>1. h - 1 \in 0 .. n /\ h \in 0 .. n
      BY <2>2
    <3>2. nest[h] = nest[h - 1] + IF AtHeight(scopes, h).cat = "res_load" THEN 1 ELSE 0
      BY <1>1, <2>2 DEF LoadsNest
    <3> QED BY <1>6, <1>7, <2>2, <3>1, <3>2
  <2> QED BY <2>1, <2>2
<1>10. c[0] = 0
  BY <1>4, <1>6
<1>11. c[Len(scopes')] = Len(loads["main"])'
  BY <1>2, <1>3, <1>6, <1>7
<1> QED BY <1>6, <1>7, <1>9, <1>10, <1>11 DEF LoadsNest

LEMMA ClosedNests ==
  ASSUME BootTypes, NEW b, ScopesAdd(b), NEW nest, LoadsNest(nest), scopes # <<>>, CloseScope,
         Len(loads["main"])' =
           Len(loads["main"]) - IF scopes[1].cat = "res_load" THEN 1 ELSE 0
  PROVE  LoadsNest(nest)'
<1>1. PICK n \in Nat \ {0} : n = Len(scopes)
  BY Closed
<1>2. /\ Len(scopes') = n - 1
      /\ \A h \in 1 .. n - 1 : AtHeight(scopes', h).cat = AtHeight(scopes, h).cat
  BY <1>1, Closed
<1>3. AtHeight(scopes, n).cat = scopes[1].cat
  BY <1>1, Closed
<1>4. nest \in [Nat -> Int] /\ nest[0] = 0 /\ nest[n] = Len(loads["main"])
  BY <1>1 DEF LoadsNest
<1>5. nest[n - 1] \in Int /\ nest[n] \in Int
  BY <1>4
<1>6. nest[n] = nest[n - 1] + IF scopes[1].cat = "res_load" THEN 1 ELSE 0
  <2>1. n \in 1 .. Len(scopes)
    BY <1>1
  <2> QED BY <1>3, <2>1 DEF LoadsNest
<1>7. nest[n - 1] = Len(loads["main"])'
  BY <1>4, <1>5, <1>6
<1>8. \A h \in 1 .. n - 1 :
        nest[h] = nest[h - 1] + IF AtHeight(scopes', h).cat = "res_load" THEN 1 ELSE 0
  <2>1. \A h \in 1 .. n - 1 : h \in 1 .. Len(scopes)
    BY <1>1
  <2> QED BY <1>2, <2>1 DEF LoadsNest
<1> QED BY <1>2, <1>4, <1>7, <1>8 DEF LoadsNest

\* What EndLoad adds to the log.
LEMMA EndLoadLog ==
  ASSUME BootTypes, LoadsOpen, NEW t \in Loaders, EndLoad(t)
  PROVE  /\ loads[t] # <<>>
         /\ (t = "main" => scopes[1].cat = "res_load")
         /\ log' = IF Len(loads[t]) = 1 /\ t = "main" THEN log \o <<LineOf(t), Snapshot>>
                   ELSE Append(log, LineOf(t))
         /\ loads' = [loads EXCEPT ![t] = SubSeq(@, 1, Len(@) - 1)]
         /\ IF t = "main" THEN CloseScope ELSE UNCHANGED <<scopes, self>>
         /\ UNCHANGED <<bootClock, begun, phases, alone, outside>>
<1>1. loads[t] # <<>>
  BY DEF EndLoad
<1>2. PICK n \in Nat \ {0} : n = Len(loads[t])
  BY <1>1, InnermostIs
<1>3. n - 1 = 0 <=> n = 1
  OBVIOUS
<1>4. log' = IF n - 1 = 0 /\ t = "main" THEN log \o <<LineOf(t), Snapshot>>
             ELSE Append(log, LineOf(t))
  BY <1>2 DEF EndLoad, LineOf, Innermost
<1>5. log' = IF n = 1 /\ t = "main" THEN log \o <<LineOf(t), Snapshot>>
             ELSE Append(log, LineOf(t))
  BY <1>3, <1>4
<1>6. (t = "main" => scopes[1].cat = "res_load")
  BY DEF EndLoad
<1>7. loads' = [loads EXCEPT ![t] = SubSeq(@, 1, Len(@) - 1)]
  BY DEF EndLoad
<1>8. IF t = "main" THEN CloseScope ELSE UNCHANGED <<scopes, self>>
  BY DEF EndLoad
<1>9. UNCHANGED <<bootClock, begun, phases, alone, outside>>
  BY DEF EndLoad
<1> QED BY <1>1, <1>2, <1>5, <1>6, <1>7, <1>8, <1>9

\* The log goes on with one line, and perhaps a dump.
LEMMA EndLoadAdds ==
  ASSUME BootTypes, LoadsOpen, NEW t \in Loaders, EndLoad(t)
  PROVE  /\ log' \in Seq(Lines) /\ Len(log) \in Nat
         /\ \A k \in 1 .. Len(log) : log'[k] = log[k]
         /\ log'[Len(log) + 1] = LineOf(t)
         /\ \/ Len(log') = Len(log) + 1
            \/ /\ Len(log') = Len(log) + 2 /\ log'[Len(log) + 2] = Snapshot
               /\ Len(loads[t]) = 1
<1>1. LineOf(t) \in Lines /\ Snapshot \in Lines
  BY EndLoadLog, LineOfIs, SnapshotIsDump
<1>2. log \in Seq(Lines) /\ Len(log) \in Nat
  BY DEF BootTypes
<1>3. log' = IF Len(loads[t]) = 1 /\ t = "main" THEN log \o <<LineOf(t), Snapshot>>
             ELSE Append(log, LineOf(t))
  BY EndLoadLog
<1>4. CASE Len(loads[t]) = 1 /\ t = "main"
  <2>1. log' = log \o <<LineOf(t), Snapshot>>
    BY <1>3, <1>4
  <2> QED BY <1>1, <1>2, <1>4, <2>1, TwoMoreLines
<1>5. CASE ~(Len(loads[t]) = 1 /\ t = "main")
  <2>1. log' = Append(log, LineOf(t))
    BY <1>3, <1>5
  <2> QED BY <1>1, <1>2, <2>1, OneMoreLine
<1> QED BY <1>4, <1>5

LEMMA EndLoadTypes ==
  ASSUME BootTypes, LoadsOpen, NEW b, ScopesAdd(b), NEW nest, LoadsNest(nest),
         NEW t \in Loaders, EndLoad(t)
  PROVE  BootTypes'
<1>1. loads' \in [Loaders -> Seq(Loads)]
  BY EndLoadLog, LoadsLess
<1>2. log' \in Seq(Lines)
  BY EndLoadAdds
<1>3. UNCHANGED <<bootClock, begun, phases, alone, outside>>
  BY EndLoadLog
<1>4. scopes' \in Seq(Scopes) /\ Len(scopes') <= MaxScopes /\ self' \in Bookings
  <2>1. CASE t = "main"
    <3>1. CloseScope /\ loads["main"] # <<>>
      BY <2>1, EndLoadLog
    <3>2. scopes # <<>>
      BY <3>1, LoadHasScope
    <3>3. scopes' \in Seq(Scopes) /\ Len(scopes') = Len(scopes) - 1 /\ self' \in Bookings
      BY <3>1, <3>2, Closed
    <3>4. Len(scopes) \in Nat /\ Len(scopes) <= MaxScopes /\ MaxScopes \in Nat
      BY Heights, BootNumbers DEF BootTypes
    <3> QED BY <3>3, <3>4
  <2>2. CASE t # "main"
    <3>1. UNCHANGED <<scopes, self>>
      BY <2>2, EndLoadLog
    <3> QED BY <3>1 DEF BootTypes
  <2> QED BY <2>1, <2>2
<1> QED BY <1>1, <1>2, <1>3, <1>4 DEF BootTypes

LEMMA EndLoadOpen ==
  ASSUME BootTypes, LoadsOpen, LoadsLogged, NEW t \in Loaders, EndLoad(t)
  PROVE  LoadsOpen' /\ LoadsLogged'
<1>1. PICK n \in Nat \ {0} : n = Len(loads[t])
  BY EndLoadLog, InnermostIs
<1>2. UNCHANGED <<bootClock, begun>>
  BY EndLoadLog
<1>3. /\ Len(loads'[t]) = n - 1
      /\ \A i \in 1 .. n - 1 : loads'[t][i] = loads[t][i]
      /\ \A u \in Loaders : u # t => loads'[u] = loads[u]
  BY <1>1, EndLoadLog, LoadsLess
<1>4. ASSUME NEW u \in Loaders, NEW i \in 1 .. Len(loads'[u])
      PROVE  /\ i \in 1 .. Len(loads[u]) /\ loads'[u][i] = loads[u][i]
             /\ ~(u = t /\ i = n)
  <2>1. CASE u = t
    <3>1. i \in 1 .. n - 1 /\ i \in 1 .. n /\ i # n
      BY <1>3, <2>1
    <3> QED BY <1>1, <1>3, <2>1, <3>1
  <2>2. CASE u # t
    BY <1>3, <2>2
  <2> QED BY <2>1, <2>2
<1>5. LoadsOpen'
  <2>1. ASSUME NEW u \in Loaders, NEW i \in 1 .. Len(loads'[u])
        PROVE  loads'[u][i].id \in 1 .. begun /\ loads'[u][i].at <= bootClock
    <3>1. i \in 1 .. Len(loads[u]) /\ loads'[u][i] = loads[u][i]
      BY <1>4
    <3> QED BY <3>1 DEF LoadsOpen
  <2>2. ASSUME NEW u \in Loaders, NEW v \in Loaders, NEW i \in 1 .. Len(loads'[u]),
               NEW j \in 1 .. Len(loads'[v]), loads'[u][i].id = loads'[v][j].id
        PROVE  u = v /\ i = j
    <3>1. i \in 1 .. Len(loads[u]) /\ loads'[u][i] = loads[u][i]
      BY <1>4
    <3>2. j \in 1 .. Len(loads[v]) /\ loads'[v][j] = loads[v][j]
      BY <1>4
    <3> QED BY <2>2, <3>1, <3>2 DEF LoadsOpen
  <2> QED BY <1>2, <2>1, <2>2 DEF LoadsOpen
<1>6. PICK m \in Nat : m = Len(log)
  BY EndLoadAdds
<1>7. /\ \A k \in 1 .. m : log'[k] = log[k]
      /\ log'[m + 1] = LineOf(t)
      /\ \/ Len(log') = m + 1
         \/ Len(log') = m + 2 /\ log'[m + 2] = Snapshot
  BY <1>6, EndLoadAdds
<1>8. PICK x : x = Innermost(t).id
  OBVIOUS
<1>9. /\ LineOf(t).ev = "load" /\ LineOf(t).id = x /\ Snapshot.ev = "prof"
      /\ x \in 1 .. begun
  BY <1>8, EndLoadLog, LineOfIs, SnapshotIsDump, InnermostIs
<1>10. ASSUME NEW k \in 1 .. Len(log'), log'[k].ev = "load"
       PROVE  \/ k \in 1 .. m /\ log'[k] = log[k]
              \/ k = m + 1 /\ log'[k] = LineOf(t)
  <2>1. k \in 1 .. m \/ k = m + 1 \/ (k = m + 2 /\ log'[m + 2] = Snapshot)
    BY <1>7
  <2> QED BY <1>7, <1>9, <1>10, <2>1
<1>11. n \in 1 .. Len(loads[t]) /\ x = loads[t][n].id
  BY <1>1, <1>8 DEF Innermost
<1>12. \A k \in 1 .. m : log[k].ev = "load" => log[k].id # x
  BY <1>6, <1>11 DEF LoadsLogged
<1>13. \A u \in Loaders : \A i \in 1 .. Len(loads'[u]) : loads'[u][i].id # x
  <2>1. ASSUME NEW u \in Loaders, NEW i \in 1 .. Len(loads'[u]), loads'[u][i].id = x
        PROVE  FALSE
    <3>1. /\ i \in 1 .. Len(loads[u]) /\ loads'[u][i] = loads[u][i]
          /\ ~(u = t /\ i = n)
      BY <1>4
    <3>2. loads[u][i].id = loads[t][n].id
      BY <1>11, <2>1, <3>1
    <3> QED BY <1>11, <3>1, <3>2 DEF LoadsOpen
  <2> QED BY <2>1
<1>14. LoadsLogged'
  <2>1. ASSUME NEW k \in 1 .. Len(log'), log'[k].ev = "load"
        PROVE  /\ log'[k].id \in 1 .. begun
               /\ \A u \in Loaders : \A i \in 1 .. Len(loads'[u]) : loads'[u][i].id # log'[k].id
    <3>1. CASE k = m + 1 /\ log'[k] = LineOf(t)
      BY <1>9, <1>13, <3>1
    <3>2. CASE k \in 1 .. m /\ log'[k] = log[k]
      <4>1. /\ log[k].id \in 1 .. begun
            /\ \A u \in Loaders : \A i \in 1 .. Len(loads[u]) : loads[u][i].id # log[k].id
        BY <1>6, <2>1, <3>2 DEF LoadsLogged
      <4> QED BY <1>4, <3>2, <4>1
    <3> QED BY <1>10, <2>1, <3>1, <3>2
  <2>2. ASSUME NEW k \in 1 .. Len(log'), NEW j \in 1 .. Len(log'), log'[k].ev = "load",
               log'[j].ev = "load", log'[k].id = log'[j].id
        PROVE  k = j
    <3>1. CASE k \in 1 .. m /\ j \in 1 .. m
      <4>1. log'[k] = log[k] /\ log'[j] = log[j]
        BY <1>7, <3>1
      <4> QED BY <1>6, <2>2, <3>1, <4>1 DEF LoadsLogged
    <3>2. CASE k \in 1 .. m /\ j = m + 1
      BY <1>7, <1>9, <1>12, <2>2, <3>2
    <3>3. CASE j \in 1 .. m /\ k = m + 1
      BY <1>7, <1>9, <1>12, <2>2, <3>3
    <3> QED BY <1>10, <2>2, <3>1, <3>2, <3>3
  <2> QED BY <1>2, <2>1, <2>2 DEF LoadsLogged
<1> QED BY <1>5, <1>14

\* The steps that leave loads and load lines alone.
LEMMA OtherStepsOpen ==
  ASSUME BootTypes, LoadsOpen, LoadsLogged, UNCHANGED loads,
         begun' \in Nat, begun <= begun', bootClock' \in Nat, bootClock <= bootClock',
         Len(log) <= Len(log'), log' \in Seq(Lines),
         \A k \in 1 .. Len(log) : log'[k] = log[k],
         \A k \in 1 .. Len(log') : k > Len(log) => log'[k].ev # "load"
  PROVE  LoadsOpen' /\ LoadsLogged'
<1>1. begun \in Nat /\ bootClock \in Nat /\ loads \in [Loaders -> Seq(Loads)] /\ log \in Seq(Lines)
  BY BootNumbers DEF BootTypes
<1>2. LoadsOpen'
  <2>1. ASSUME NEW u \in Loaders, NEW i \in 1 .. Len(loads[u])
        PROVE  loads[u][i].id \in 1 .. begun' /\ loads[u][i].at <= bootClock'
    <3>1. loads[u][i].id \in 1 .. begun /\ loads[u][i].at <= bootClock
      BY DEF LoadsOpen
    <3>2. loads[u][i] \in Loads
      BY <1>1
    <3>3. loads[u][i].at \in Nat
      BY <3>2 DEF Loads
    <3> QED BY <1>1, <3>1, <3>3
  <2> QED BY <2>1 DEF LoadsOpen
<1>3. ASSUME NEW k \in 1 .. Len(log'), log'[k].ev = "load"
      PROVE  k \in 1 .. Len(log) /\ log'[k] = log[k]
  <2>1. ~(k > Len(log)) /\ Len(log) \in Nat
    BY <1>1, <1>3
  <2>2. k \in 1 .. Len(log)
    BY <2>1
  <2> QED BY <2>2
<1>4. LoadsLogged'
  <2>1. ASSUME NEW k \in 1 .. Len(log'), log'[k].ev = "load"
        PROVE  /\ log'[k].id \in 1 .. begun'
               /\ \A u \in Loaders : \A i \in 1 .. Len(loads[u]) : loads[u][i].id # log'[k].id
    <3>1. k \in 1 .. Len(log) /\ log'[k] = log[k]
      BY <1>3, <2>1
    <3>2. /\ log[k].id \in 1 .. begun
          /\ \A u \in Loaders : \A i \in 1 .. Len(loads[u]) : loads[u][i].id # log[k].id
      BY <2>1, <3>1 DEF LoadsLogged
    <3>3. \A x \in 1 .. begun : x \in 1 .. begun'
      BY <1>1
    <3> QED BY <3>1, <3>2, <3>3
  <2>2. ASSUME NEW k \in 1 .. Len(log'), NEW j \in 1 .. Len(log'), log'[k].ev = "load",
               log'[j].ev = "load", log'[k].id = log'[j].id
        PROVE  k = j
    <3>1. k \in 1 .. Len(log) /\ log'[k] = log[k]
      BY <1>3, <2>2
    <3>2. j \in 1 .. Len(log) /\ log'[j] = log[j]
      BY <1>3, <2>2
    <3> QED BY <2>2, <3>1, <3>2 DEF LoadsLogged
  <2> QED BY <2>1, <2>2 DEF LoadsLogged
<1> QED BY <1>2, <1>4

EndLine == [ev |-> "end", at |-> bootClock, phase |-> phases + 1]

LEMMA PhaseEndsAdds ==
  ASSUME BootTypes, PhaseEnds
  PROVE  /\ log' \in Seq(Lines) /\ Len(log) \in Nat /\ Len(log') = Len(log) + 2
         /\ \A k \in 1 .. Len(log) : log'[k] = log[k]
         /\ log'[Len(log) + 1] = EndLine /\ log'[Len(log) + 2] = Snapshot
         /\ EndLine.ev = "end" /\ EndLine.phase = phases + 1
         /\ phases' = phases + 1 /\ phases' \in 0 .. MaxPhases /\ scopes = <<>>
<1>1. EndLine \in Lines /\ EndLine.ev = "end" /\ EndLine.phase = phases + 1
  <2>1. bootClock \in Nat /\ phases + 1 \in Nat
    BY BootNumbers
  <2> QED BY <2>1 DEF EndLine, EndLines, Lines
<1>2. Snapshot \in Lines
  BY SnapshotIsDump
<1>3. phases' = phases + 1 /\ phases' \in 0 .. MaxPhases /\ scopes = <<>>
  BY BootNumbers DEF PhaseEnds
<1>4. log' = log \o <<EndLine, Snapshot>> /\ log \in Seq(Lines) /\ Len(log) \in Nat
  BY <1>3 DEF PhaseEnds, EndLine, BootTypes
<1> QED BY <1>1, <1>2, <1>3, <1>4, TwoMoreLines

\* The part of the invariant that does not speak of phases.
Booking(b) == BootTypes /\ LoadsOpen /\ LoadsLogged /\ ScopesAdd(b) /\ \E nest : LoadsNest(nest)

LEMMA BeginWorkBooks ==
  ASSUME NEW b, Booking(b), BeginWork
  PROVE  BootTypes' /\ LoadsOpen' /\ LoadsLogged' /\ (\E nest : LoadsNest(nest)')
<1>1. PICK nest : BootTypes /\ LoadsOpen /\ LoadsLogged /\ LoadsNest(nest)
  BY DEF Booking
<1>2. OpenScope("gd_parse") /\ "gd_parse" \in Categories
  BY DEF BeginWork, Categories
<1>3. scopes' \in Seq(Scopes) /\ Len(scopes') = Len(scopes) + 1
  BY <1>1, <1>2, OpenedScopes
<1>4. /\ begun' = begun + 1 /\ begun' \in 0 .. MaxBegun /\ begun \in Nat
      /\ Len(scopes) < MaxScopes
  BY <1>1, BootNumbers DEF BeginWork
<1>5. Len(scopes') <= MaxScopes
  BY <1>1, <1>3, <1>4, Heights, BootNumbers
<1>6. UNCHANGED <<bootClock, loads, self, log, phases, alone, outside>>
  BY DEF BeginWork
<1>7. BootTypes'
  BY <1>1, <1>3, <1>4, <1>5, <1>6 DEF BootTypes
<1>8. LoadsOpen' /\ LoadsLogged'
  <2>1. log \in Seq(Lines) /\ bootClock \in Nat
    BY <1>1, BootNumbers DEF BootTypes
  <2>2. /\ Len(log) <= Len(log') /\ bootClock <= bootClock' /\ bootClock' \in Nat
        /\ begun' \in Nat /\ begun <= begun'
    BY <1>4, <1>6, <2>1
  <2>3. \A k \in 1 .. Len(log') : k > Len(log) => log'[k].ev # "load"
    BY <1>6, <2>1
  <2> QED BY <1>1, <1>6, <2>1, <2>2, <2>3, OtherStepsOpen
<1>9. Len(loads["main"])' = Len(loads["main"])
  BY <1>6
<1>10. \E c : LoadsNest(c)'
  <2>1. loads["main"] \in Seq(Loads)
    BY <1>1, BootNumbers DEF BootTypes
  <2>2. Len(loads["main"]) \in Nat /\ "gd_parse" # "res_load"
    BY <2>1
  <2>3. Len(loads["main"])' = Len(loads["main"]) + IF "gd_parse" = "res_load" THEN 1 ELSE 0
    BY <1>9, <2>2
  <2> QED BY <1>1, <1>2, <2>3, OpenedNests
<1> QED BY <1>7, <1>8, <1>10

LEMMA EndWorkBooks ==
  ASSUME NEW b, Booking(b), EndWork
  PROVE  BootTypes' /\ LoadsOpen' /\ LoadsLogged' /\ (\E nest : LoadsNest(nest)')
<1>1. PICK nest : BootTypes /\ LoadsOpen /\ LoadsLogged /\ LoadsNest(nest) /\ ScopesAdd(b)
  BY DEF Booking
<1>2. CloseScope /\ scopes # <<>> /\ scopes[1].cat = "gd_parse"
  BY DEF EndWork
<1>3. scopes' \in Seq(Scopes) /\ Len(scopes') = Len(scopes) - 1 /\ self' \in Bookings
  BY <1>1, <1>2, Closed
<1>4. Len(scopes') <= MaxScopes
  <2>1. Len(scopes) \in Nat /\ Len(scopes) <= MaxScopes /\ MaxScopes \in Nat
    BY <1>1, Heights, BootNumbers DEF BootTypes
  <2> QED BY <1>3, <2>1
<1>5. UNCHANGED <<bootClock, loads, log, begun, phases, alone, outside>>
  BY DEF EndWork
<1>6. BootTypes'
  BY <1>1, <1>3, <1>4, <1>5 DEF BootTypes
<1>7. LoadsOpen' /\ LoadsLogged'
  BY <1>1, <1>5 DEF LoadsOpen, LoadsLogged
<1>8. LoadsNest(nest)'
  <2>1. loads["main"] \in Seq(Loads)
    BY <1>1, BootNumbers DEF BootTypes
  <2>2. Len(loads["main"]) \in Nat /\ scopes[1].cat # "res_load"
    BY <1>2, <2>1
  <2>3. Len(loads["main"])' = Len(loads["main"]) - IF scopes[1].cat = "res_load" THEN 1 ELSE 0
    BY <1>5, <2>2
  <2> QED BY <1>1, <1>2, <2>3, ClosedNests
<1> QED BY <1>6, <1>7, <1>8

LEMMA PhaseEndsBooks ==
  ASSUME NEW b, Booking(b), PhaseEnds
  PROVE  BootTypes' /\ LoadsOpen' /\ LoadsLogged' /\ (\E nest : LoadsNest(nest)')
<1>1. PICK nest : BootTypes /\ LoadsOpen /\ LoadsLogged /\ LoadsNest(nest)
  BY DEF Booking
<1>2. UNCHANGED <<bootClock, loads, scopes, self, begun, alone, outside>>
  BY DEF PhaseEnds
<1>3. PICK m \in Nat : m = Len(log) /\ Len(log') = m + 2
  BY <1>1, PhaseEndsAdds
<1>4. log' \in Seq(Lines) /\ phases' \in 0 .. MaxPhases
  BY <1>1, PhaseEndsAdds
<1>5. BootTypes'
  BY <1>1, <1>2, <1>4 DEF BootTypes
<1>6. \A k \in 1 .. m + 2 : k > m => log'[k].ev # "load"
  <2>1. log'[m + 1].ev = "end" /\ log'[m + 2].ev = "prof"
    BY <1>1, <1>3, PhaseEndsAdds, SnapshotIsDump
  <2>2. \A k \in 1 .. m + 2 : k > m => k = m + 1 \/ k = m + 2
    OBVIOUS
  <2> QED BY <2>1, <2>2
<1>7. LoadsOpen' /\ LoadsLogged'
  <2>1. begun \in Nat /\ bootClock \in Nat
    BY <1>1, BootNumbers
  <2>2. /\ Len(log) <= Len(log') /\ bootClock <= bootClock' /\ bootClock' \in Nat
        /\ begun' \in Nat /\ begun <= begun' /\ UNCHANGED loads
    BY <1>2, <1>3, <2>1
  <2>3. \A k \in 1 .. Len(log) : log'[k] = log[k]
    BY <1>1, PhaseEndsAdds
  <2>4. \A k \in 1 .. Len(log') : k > Len(log) => log'[k].ev # "load"
    BY <1>3, <1>6
  <2> QED BY <1>1, <1>4, <2>2, <2>3, <2>4, OtherStepsOpen
<1>8. LoadsNest(nest)'
  BY <1>1, <1>2 DEF LoadsNest, AtHeight
<1> QED BY <1>5, <1>7, <1>8

LEMMA TickBooks ==
  ASSUME NEW b, Booking(b), BootTick
  PROVE  BootTypes' /\ LoadsOpen' /\ LoadsLogged' /\ (\E nest : LoadsNest(nest)')
<1>1. PICK nest : BootTypes /\ LoadsOpen /\ LoadsLogged /\ LoadsNest(nest)
  BY DEF Booking
<1>2. UNCHANGED <<loads, scopes, self, log, begun, phases>>
  BY DEF BootTick
<1>3. bootClock' = bootClock + 1 /\ bootClock' \in 0 .. BootTicks
  BY <1>1, BootNumbers DEF BootTick
<1>4. alone' \in [1 .. MaxBegun -> Nat]
  <2>1. alone \in [1 .. MaxBegun -> Nat]
    BY <1>1 DEF BootTypes
  <2>2. alone' = [n \in DOMAIN alone |->
                 alone[n] + IF \E t \in Loaders : loads[t] # <<>> /\ loads[t][Len(loads[t])].id = n
                            THEN 1 ELSE 0]
    BY DEF BootTick
  <2> DEFINE G(n) == \E t \in Loaders : loads[t] # <<>> /\ loads[t][Len(loads[t])].id = n
  <2>3. alone' = [n \in 1 .. MaxBegun |-> alone[n] + IF G(n) THEN 1 ELSE 0]
    BY <2>1, <2>2
  <2> HIDE DEF G
  <2> QED BY <2>1, <2>3
<1>5. outside' \in [1 .. MaxPhases + 1 -> Nat]
  <2>1. outside \in [1 .. MaxPhases + 1 -> Nat] /\ phases + 1 \in 1 .. MaxPhases + 1
    BY <1>1, BootNumbers DEF BootTypes
  <2>2. outside' = IF scopes = <<>> THEN [outside EXCEPT ![phases + 1] = @ + 1] ELSE outside
    BY DEF BootTick
  <2> QED BY <2>1, <2>2
<1>6. BootTypes'
  BY <1>1, <1>2, <1>3, <1>4, <1>5 DEF BootTypes
<1>7. LoadsOpen' /\ LoadsLogged'
  <2>1. begun \in Nat /\ bootClock \in Nat /\ log \in Seq(Lines)
    BY <1>1, BootNumbers DEF BootTypes
  <2>2. /\ Len(log) <= Len(log') /\ bootClock <= bootClock' /\ bootClock' \in Nat
        /\ begun' \in Nat /\ begun <= begun'
    BY <1>2, <1>3, <2>1
  <2>3. \A k \in 1 .. Len(log') : k > Len(log) => log'[k].ev # "load"
    BY <1>2, <2>1
  <2> QED BY <1>1, <1>2, <2>1, <2>2, <2>3, OtherStepsOpen
<1>8. LoadsNest(nest)'
  BY <1>1, <1>2 DEF LoadsNest, AtHeight
<1> QED BY <1>6, <1>7, <1>8

LEMMA BeginLoadBooks ==
  ASSUME NEW b, Booking(b), NEW t \in Loaders, BeginLoad(t)
  PROVE  \E c : Booking(c)' /\ IdleTime(c)' = IdleTime(b)
<1>1. PICK nest : BootTypes /\ LoadsOpen /\ LoadsLogged /\ LoadsNest(nest) /\ ScopesAdd(b)
  BY DEF Booking
<1>2. BootTypes' /\ LoadsOpen' /\ LoadsLogged'
  BY <1>1, BeginLoadTypes, BeginLoadOpen
<1>3. UNCHANGED <<bootClock, self, log, phases, alone, outside>>
  BY DEF BeginLoad
<1>4. PICK x : x = [id |-> begun + 1, at |-> bootClock]
  OBVIOUS
<1>5. x \in Loads
  BY <1>1, <1>4, BootNumbers DEF Loads
<1>6. loads' = [loads EXCEPT ![t] = Append(@, x)]
  BY <1>4 DEF BeginLoad
<1>7. "main" \in Loaders /\ loads["main"] \in Seq(Loads)
  BY <1>1, BootNumbers DEF BootTypes
<1>8. CASE t = "main"
  <2>1. OpenScope("res_load") /\ "res_load" \in Categories
    BY <1>8 DEF BeginLoad, Categories
  <2>2. Len(loads["main"])' = Len(loads["main"]) + IF "res_load" = "res_load" THEN 1 ELSE 0
    <3>1. Len(loads'["main"]) = Len(loads["main"]) + 1
      BY <1>1, <1>5, <1>6, <1>8, LoadsMore
    <3> QED BY <3>1
  <2>3. \E c : LoadsNest(c)'
    BY <1>1, <2>1, <2>2, OpenedNests
  <2>4. PICK c : ScopesAdd(c)' /\ IdleTime(c)' = IdleTime(b)
    BY <1>1, <1>3, <2>1, OpenedAdds
  <2> QED BY <1>2, <2>3, <2>4 DEF Booking
<1>9. CASE t # "main"
  <2>1. UNCHANGED scopes
    BY <1>9 DEF BeginLoad
  <2>2. loads'["main"] = loads["main"]
    BY <1>1, <1>5, <1>6, <1>7, <1>9, LoadsMore
  <2>3. LoadsNest(nest)'
    BY <1>1, <2>1, <2>2 DEF LoadsNest, AtHeight
  <2>4. ScopesAdd(b)' /\ IdleTime(b)' = IdleTime(b)
    BY <1>1, <1>3, <2>1 DEF ScopesAdd, IdleTime, AtHeight, Total
  <2> QED BY <1>2, <2>3, <2>4 DEF Booking
<1> QED BY <1>8, <1>9

LEMMA EndLoadBooks ==
  ASSUME NEW b, Booking(b), NEW t \in Loaders, EndLoad(t)
  PROVE  \E c : Booking(c)' /\ IdleTime(c)' = IdleTime(b)
<1>1. PICK nest : BootTypes /\ LoadsOpen /\ LoadsLogged /\ LoadsNest(nest) /\ ScopesAdd(b)
  BY DEF Booking
<1>2. BootTypes' /\ LoadsOpen' /\ LoadsLogged'
  BY <1>1, EndLoadTypes, EndLoadOpen
<1>3. UNCHANGED <<bootClock, begun, phases, alone, outside>>
  BY <1>1, EndLoadLog
<1>4. /\ loads[t] # <<>> /\ (t = "main" => scopes[1].cat = "res_load")
      /\ loads' = [loads EXCEPT ![t] = SubSeq(@, 1, Len(@) - 1)]
      /\ IF t = "main" THEN CloseScope ELSE UNCHANGED <<scopes, self>>
  BY <1>1, EndLoadLog
<1>5. CASE t = "main"
  <2>1. CloseScope /\ scopes[1].cat = "res_load" /\ scopes # <<>>
    BY <1>1, <1>4, <1>5, LoadHasScope
  <2>2. Len(loads["main"])' = Len(loads["main"]) - IF scopes[1].cat = "res_load" THEN 1 ELSE 0
    <3>1. Len(loads'["main"]) = Len(loads["main"]) - 1
      BY <1>1, <1>4, <1>5, LoadsLess
    <3> QED BY <2>1, <3>1
  <2>3. LoadsNest(nest)'
    BY <1>1, <2>1, <2>2, ClosedNests
  <2>4. ScopesAdd(b)' /\ IdleTime(b)' = IdleTime(b)
    BY <1>1, <1>3, <2>1, ClosedAdds
  <2> QED BY <1>2, <2>3, <2>4 DEF Booking
<1>6. CASE t # "main"
  <2>1. UNCHANGED <<scopes, self>>
    BY <1>4, <1>6
  <2>2. loads'["main"] = loads["main"]
    BY <1>1, <1>4, <1>6, BootNumbers, LoadsLess
  <2>3. LoadsNest(nest)'
    BY <1>1, <2>1, <2>2 DEF LoadsNest, AtHeight
  <2>4. ScopesAdd(b)' /\ IdleTime(b)' = IdleTime(b)
    BY <1>1, <1>3, <2>1 DEF ScopesAdd, IdleTime, AtHeight, Total
  <2> QED BY <1>2, <2>3, <2>4 DEF Booking
<1> QED BY <1>5, <1>6

LEMMA OtherWorkBooks ==
  ASSUME NEW b, Booking(b), BeginWork \/ EndWork \/ PhaseEnds
  PROVE  \E c : Booking(c)' /\ IdleTime(c)' = IdleTime(b)
<1>1. BootTypes /\ ScopesAdd(b)
  BY DEF Booking
<1>2. BootTypes' /\ LoadsOpen' /\ LoadsLogged' /\ (\E nest : LoadsNest(nest)')
  BY BeginWorkBooks, EndWorkBooks, PhaseEndsBooks
<1>3. CASE BeginWork
  <2>1. OpenScope("gd_parse") /\ UNCHANGED <<bootClock, self>> /\ "gd_parse" \in Categories
    BY <1>3 DEF BeginWork, Categories
  <2>2. PICK c : ScopesAdd(c)' /\ IdleTime(c)' = IdleTime(b)
    BY <1>1, <2>1, OpenedAdds
  <2> QED BY <1>2, <2>2 DEF Booking
<1>4. CASE EndWork
  <2>1. CloseScope /\ UNCHANGED bootClock /\ scopes # <<>>
    BY <1>4 DEF EndWork
  <2>2. ScopesAdd(b)' /\ IdleTime(b)' = IdleTime(b)
    BY <1>1, <2>1, ClosedAdds
  <2> QED BY <1>2, <2>2 DEF Booking
<1>5. CASE PhaseEnds
  <2>1. UNCHANGED <<bootClock, scopes, self>>
    BY <1>5 DEF PhaseEnds
  <2>2. ScopesAdd(b)' /\ IdleTime(b)' = IdleTime(b)
    BY <1>1, <2>1 DEF ScopesAdd, IdleTime, AtHeight, Total
  <2> QED BY <1>2, <2>2 DEF Booking
<1> QED BY <1>3, <1>4, <1>5

LEMMA TickIdles ==
  ASSUME NEW b, Booking(b), BootTick
  PROVE  Booking(b)' /\ IdleTime(b)' = IF scopes = <<>> THEN IdleTime(b) + 1 ELSE IdleTime(b)
<1>1. BootTypes /\ ScopesAdd(b)
  BY DEF Booking
<1>2. BootTypes' /\ LoadsOpen' /\ LoadsLogged' /\ (\E nest : LoadsNest(nest)')
  BY TickBooks
<1>3. bootClock' = bootClock + 1 /\ UNCHANGED <<scopes, self>>
  BY DEF BootTick
<1>4. ScopesAdd(b)' /\ IdleTime(b)' = IF scopes = <<>> THEN IdleTime(b) + 1 ELSE IdleTime(b)
  BY <1>1, <1>3, TickAdds
<1> QED BY <1>2, <1>4 DEF Booking

LEMMA BootTypesStart ==
  ASSUME BootInit
  PROVE  BootTypes /\ Len(scopes) = 0 /\ Len(log) = 0 /\ bootClock = 0 /\ Total(self) = 0
         /\ phases = 0 /\ begun = 0 /\ scopes = <<>>
         /\ \A t \in Loaders : Len(loads[t]) = 0
<1>1. scopes = <<>> /\ log = <<>> /\ bootClock = 0 /\ begun = 0 /\ phases = 0
  BY DEF BootInit
<1>2. loads = [t \in Loaders |-> <<>>] /\ self = [c \in Categories |-> 0]
  BY DEF BootInit
<1>3. alone = [n \in 1 .. MaxBegun |-> 0] /\ outside = [n \in 1 .. (MaxPhases + 1) |-> 0]
  BY DEF BootInit
<1>4. self \in Bookings /\ Total(self) = 0
  BY <1>2 DEF Bookings, Categories, Total
<1>5. loads \in [Loaders -> Seq(Loads)] /\ \A t \in Loaders : Len(loads[t]) = 0
  BY <1>2
<1>6. scopes \in Seq(Scopes) /\ Len(scopes) = 0 /\ log \in Seq(Lines) /\ Len(log) = 0
  BY <1>1
<1>7. alone \in [1 .. MaxBegun -> Nat] /\ outside \in [1 .. MaxPhases + 1 -> Nat]
  BY <1>3
<1>8. BootTicks \in Nat /\ MaxBegun \in Nat /\ MaxPhases \in Nat /\ MaxScopes \in Nat
  BY BootAssumption
<1> QED BY <1>1, <1>4, <1>5, <1>6, <1>7, <1>8 DEF BootTypes

LEMMA BookingStarts ==
  ASSUME BootInit
  PROVE  \E b : Booking(b) /\ IdleTime(b) = 0
<1>1. BootTypes /\ Len(scopes) = 0 /\ Len(log) = 0 /\ bootClock = 0 /\ Total(self) = 0
      /\ phases = 0 /\ begun = 0 /\ scopes = <<>>
      /\ \A t \in Loaders : Len(loads[t]) = 0
  BY BootTypesStart
<1>2. PICK b : b = [h \in Nat |-> 0]
  OBVIOUS
<1>3. b \in [Nat -> Int] /\ b[0] = 0
  BY <1>2
<1>4. ScopesAdd(b)
  BY <1>1, <1>3 DEF ScopesAdd
<1>5. LoadsNest(b)
  BY <1>1, <1>3, BootAssumption DEF LoadsNest
<1>6. LoadsOpen
  BY <1>1 DEF LoadsOpen
<1>7. LoadsLogged
  BY <1>1 DEF LoadsLogged
<1>8. IdleTime(b) = 0
  BY <1>1 DEF IdleTime
<1> QED BY <1>1, <1>4, <1>5, <1>6, <1>7, <1>8 DEF Booking

\* d[n]: the time outside all scopes up to the end of phase n; e[n]: the line of that end.
IdleByPhase(d) ==
  /\ d \in [Nat -> Int] /\ d[0] = 0
  /\ \A n \in 1 .. phases : d[n] = d[n - 1] + outside[n]
  /\ \A n \in 1 .. MaxPhases + 1 : n > phases + 1 => outside[n] = 0

Left(line) == line.at - Total(line.self)

EndsLogged(d, e) ==
  /\ e \in [Nat -> Int]
  /\ \A n \in 1 .. phases :
       /\ e[n] \in 1 .. Len(log) - 1 /\ log[e[n]].ev = "end" /\ log[e[n]].phase = n
       /\ log[e[n] + 1].ev = "prof" /\ Left(log[e[n] + 1]) = d[n]
  /\ \A k \in 1 .. Len(log) :
       log[k].ev = "end" => log[k].phase \in 1 .. phases /\ k = e[log[k].phase]

DumpsLogged(d) ==
  \A k \in 1 .. Len(log) : log[k].ev = "prof" =>
    /\ k - 1 \in 1 .. Len(log) /\ IsLabel(log[k - 1])
    /\ (\A j \in k .. Len(log) : log[j].ev # "end") => d[phases] <= Left(log[k])

PhasesLogged(d, b) ==
  /\ IdleByPhase(d) /\ (\E e : EndsLogged(d, e)) /\ DumpsLogged(d)
  /\ IdleTime(b) = d[phases] + outside[phases + 1]

\* A load that ends.
LEMMA EndLoadEnds ==
  ASSUME BootTypes, LoadsOpen, NEW d, NEW e, EndsLogged(d, e), NEW t \in Loaders, EndLoad(t)
  PROVE  EndsLogged(d, e)'
<1>1. PICK m \in Nat : m = Len(log)
  BY EndLoadAdds
<1>2. /\ \A k \in 1 .. m : log'[k] = log[k]
      /\ log'[m + 1] = LineOf(t)
      /\ \/ Len(log') = m + 1
         \/ Len(log') = m + 2 /\ log'[m + 2] = Snapshot
  BY <1>1, EndLoadAdds
<1>3. LineOf(t).ev = "load" /\ Snapshot.ev = "prof"
  BY EndLoadLog, LineOfIs, SnapshotIsDump
<1>4. UNCHANGED phases /\ e \in [Nat -> Int]
  BY EndLoadLog DEF EndsLogged
<1>5. ASSUME NEW n \in 1 .. phases
      PROVE  /\ e[n] \in 1 .. Len(log') - 1 /\ log'[e[n]].ev = "end" /\ log'[e[n]].phase = n
             /\ log'[e[n] + 1].ev = "prof" /\ Left(log'[e[n] + 1]) = d[n]
  <2>1. /\ e[n] \in 1 .. m - 1 /\ log[e[n]].ev = "end" /\ log[e[n]].phase = n
        /\ log[e[n] + 1].ev = "prof" /\ Left(log[e[n] + 1]) = d[n]
    BY <1>1 DEF EndsLogged
  <2>2. e[n] \in 1 .. m /\ e[n] + 1 \in 1 .. m /\ e[n] \in 1 .. Len(log') - 1
    BY <1>2, <2>1
  <2> QED BY <1>2, <2>1, <2>2
<1>6. ASSUME NEW k \in 1 .. Len(log'), log'[k].ev = "end"
      PROVE  log'[k].phase \in 1 .. phases /\ k = e[log'[k].phase]
  <2>1. k \in 1 .. m
    <3>1. k \in 1 .. m \/ k = m + 1 \/ (k = m + 2 /\ log'[m + 2] = Snapshot)
      BY <1>2
    <3> QED BY <1>2, <1>3, <1>6, <3>1
  <2> QED BY <1>1, <1>2, <1>6, <2>1 DEF EndsLogged
<1> QED BY <1>4, <1>5, <1>6 DEF EndsLogged

LEMMA EndLoadDumps ==
  ASSUME BootTypes, LoadsOpen, NEW d, d \in [Nat -> Int], DumpsLogged(d), NEW t \in Loaders,
         EndLoad(t), d[phases] <= bootClock - Total(self)
  PROVE  DumpsLogged(d)'
<1>1. PICK m \in Nat : m = Len(log)
  BY EndLoadAdds
<1>2. /\ \A k \in 1 .. m : log'[k] = log[k]
      /\ log'[m + 1] = LineOf(t)
      /\ \/ Len(log') = m + 1
         \/ Len(log') = m + 2 /\ log'[m + 2] = Snapshot /\ Len(loads[t]) = 1
  BY <1>1, EndLoadAdds
<1>3. /\ LineOf(t).ev = "load" /\ LineOf(t).depth = Len(loads[t]) - 1
      /\ Snapshot.ev = "prof" /\ Snapshot.at = bootClock /\ Snapshot.self = self
  BY EndLoadLog, LineOfIs, SnapshotIsDump
<1>4. UNCHANGED phases
  BY EndLoadLog
<1>5. ASSUME NEW k \in 1 .. Len(log'), log'[k].ev = "prof"
      PROVE  /\ k - 1 \in 1 .. Len(log') /\ IsLabel(log'[k - 1])
             /\ (\A j \in k .. Len(log') : log'[j].ev # "end") => d[phases] <= Left(log'[k])
  <2>1. k \in 1 .. m \/ k = m + 1 \/ (k = m + 2 /\ log'[m + 2] = Snapshot /\ Len(loads[t]) = 1)
    BY <1>2
  <2>2. CASE k \in 1 .. m
    <3>1. log[k].ev = "prof"
      BY <1>2, <1>5, <2>2
    <3>2. /\ k - 1 \in 1 .. m /\ IsLabel(log[k - 1])
          /\ (\A j \in k .. m : log[j].ev # "end") => d[phases] <= Left(log[k])
      BY <1>1, <2>2, <3>1 DEF DumpsLogged
    <3>3. log'[k] = log[k] /\ log'[k - 1] = log[k - 1] /\ k - 1 \in 1 .. Len(log')
      BY <1>2, <2>2, <3>2
    <3>4. (\A j \in k .. Len(log') : log'[j].ev # "end") => \A j \in k .. m : log[j].ev # "end"
      <4>1. \A j \in k .. m : j \in k .. Len(log') /\ j \in 1 .. m
        BY <1>2, <2>2
      <4> QED BY <1>2, <4>1
    <3> QED BY <3>2, <3>3, <3>4
  <2>3. CASE k = m + 2 /\ log'[m + 2] = Snapshot /\ Len(loads[t]) = 1
    <3>1. k - 1 = m + 1 /\ k - 1 \in 1 .. Len(log')
      BY <1>2, <2>3
    <3>2. IsLabel(log'[k - 1])
      BY <1>2, <1>3, <2>3, <3>1 DEF IsLabel
    <3>3. Left(log'[k]) = bootClock - Total(self)
      BY <1>3, <2>3 DEF Left
    <3> QED BY <3>1, <3>2, <3>3
  <2> QED BY <1>2, <1>3, <1>5, <2>1, <2>2, <2>3
<1> QED BY <1>4, <1>5 DEF DumpsLogged

\* A phase that ends.
LEMMA PhaseEndsLogged ==
  ASSUME NEW b, Booking(b), NEW d, PhasesLogged(d, b), PhaseEnds
  PROVE  \E dd : PhasesLogged(dd, b)'
<1>1. BootTypes
  BY DEF Booking
<1>2. PICK e : /\ IdleByPhase(d) /\ EndsLogged(d, e) /\ DumpsLogged(d)
               /\ IdleTime(b) = d[phases] + outside[phases + 1]
  BY DEF PhasesLogged
<1>3. PICK m \in Nat, n \in Nat : m = Len(log) /\ n = phases
  BY <1>1, BootNumbers, PhaseEndsAdds
<1>4. /\ Len(log') = m + 2 /\ \A k \in 1 .. m : log'[k] = log[k]
      /\ log'[m + 1] = EndLine /\ log'[m + 2] = Snapshot
      /\ EndLine.ev = "end" /\ EndLine.phase = n + 1
      /\ phases' = n + 1 /\ phases' \in 0 .. MaxPhases /\ scopes = <<>>
  BY <1>1, <1>3, PhaseEndsAdds
<1>5. Snapshot.ev = "prof" /\ Snapshot.at = bootClock /\ Snapshot.self = self
  BY <1>1, SnapshotIsDump
<1>6. UNCHANGED <<bootClock, loads, scopes, self, begun, alone, outside>>
  BY DEF PhaseEnds
<1>7. PICK i \in Int : i = bootClock - Total(self)
  BY <1>1, Heights
<1>8. Left(Snapshot) = i
  BY <1>5, <1>7 DEF Left
<1>9. IdleTime(b) = i /\ IdleTime(b)' = i
  <2>1. IdleTime(b) = bootClock - Total(self)
    BY <1>4 DEF IdleTime
  <2>2. IdleTime(b)' = IdleTime(b)
    BY <1>6 DEF IdleTime, AtHeight, Total
  <2> QED BY <1>7, <2>1, <2>2
<1>10. PICK dd : dd = [d EXCEPT ![n + 1] = i]
  OBVIOUS
<1>11. PICK ee : ee = [e EXCEPT ![n + 1] = m + 1]
  OBVIOUS
<1>12. /\ dd \in [Nat -> Int] /\ dd[n + 1] = i /\ dd[0] = 0 /\ d \in [Nat -> Int]
       /\ \A k \in 0 .. n : dd[k] = d[k]
  BY <1>2, <1>10 DEF IdleByPhase
<1>13. /\ ee \in [Nat -> Int] /\ ee[n + 1] = m + 1
       /\ \A k \in 0 .. n : ee[k] = e[k]
  BY <1>2, <1>11 DEF EndsLogged
<1>14. n + 1 \in 1 .. MaxPhases /\ n + 2 \in 1 .. MaxPhases + 1 /\ n + 1 \in 1 .. MaxPhases + 1
  BY <1>1, <1>4, BootNumbers
<1>15. outside \in [1 .. MaxPhases + 1 -> Nat] /\ outside[n + 2] = 0
  <2>1. outside \in [1 .. MaxPhases + 1 -> Nat]
    BY <1>1 DEF BootTypes
  <2>2. n + 2 > n + 1
    OBVIOUS
  <2> QED BY <1>2, <1>3, <1>14, <2>1, <2>2 DEF IdleByPhase
<1>16. IdleByPhase(dd)'
  <2>1. ASSUME NEW k \in 1 .. n + 1 PROVE dd[k] = dd[k - 1] + outside[k]
    <3>1. CASE k \in 1 .. n
      <4>1. d[k] = d[k - 1] + outside[k]
        BY <1>2, <1>3, <3>1 DEF IdleByPhase
      <4>2. k \in 0 .. n /\ k - 1 \in 0 .. n
        BY <3>1
      <4> QED BY <1>12, <4>1, <4>2
    <3>2. CASE k = n + 1
      <4>1. k - 1 = n /\ n \in 0 .. n
        BY <3>2
      <4>2. dd[k - 1] = d[n]
        BY <1>12, <4>1
      <4> QED BY <1>2, <1>3, <1>9, <1>12, <3>2, <4>2
    <3> QED BY <3>1, <3>2
  <2>2. \A k \in 1 .. MaxPhases + 1 : k > n + 1 + 1 => outside[k] = 0
    <3>1. \A k \in 1 .. MaxPhases + 1 : k > n + 1 => outside[k] = 0
      BY <1>2, <1>3 DEF IdleByPhase
    <3>2. \A k \in Int : k > n + 1 + 1 => k > n + 1
      OBVIOUS
    <3> QED BY <3>1, <3>2
  <2> QED BY <1>4, <1>6, <1>12, <2>1, <2>2 DEF IdleByPhase
<1>17. EndsLogged(dd, ee)'
  <2>1. ASSUME NEW k \in 1 .. n + 1
        PROVE  /\ ee[k] \in 1 .. m + 2 - 1 /\ log'[ee[k]].ev = "end" /\ log'[ee[k]].phase = k
               /\ log'[ee[k] + 1].ev = "prof" /\ Left(log'[ee[k] + 1]) = dd[k]
    <3>1. CASE k \in 1 .. n
      <4>1. /\ e[k] \in 1 .. m - 1 /\ log[e[k]].ev = "end" /\ log[e[k]].phase = k
            /\ log[e[k] + 1].ev = "prof" /\ Left(log[e[k] + 1]) = d[k]
        BY <1>2, <1>3, <3>1 DEF EndsLogged
      <4>2. e[k] \in 1 .. m /\ e[k] + 1 \in 1 .. m /\ e[k] \in 1 .. m + 2 - 1
        BY <4>1
      <4>3. ee[k] = e[k] /\ dd[k] = d[k]
        BY <1>12, <1>13, <3>1
      <4>4. log'[e[k]] = log[e[k]] /\ log'[e[k] + 1] = log[e[k] + 1]
        BY <1>4, <4>2
      <4> QED BY <4>1, <4>2, <4>3, <4>4
    <3>2. CASE k = n + 1
      <4>1. ee[k] = m + 1 /\ dd[k] = i /\ m + 1 \in 1 .. m + 2 - 1 /\ m + 1 + 1 = m + 2
        BY <1>12, <1>13, <3>2
      <4> QED BY <1>4, <1>5, <1>8, <3>2, <4>1
    <3> QED BY <3>1, <3>2
  <2>2. ASSUME NEW k \in 1 .. m + 2, log'[k].ev = "end"
        PROVE  log'[k].phase \in 1 .. n + 1 /\ k = ee[log'[k].phase]
    <3>1. CASE k \in 1 .. m
      <4>1. log'[k] = log[k]
        BY <1>4, <3>1
      <4>2. log[k].phase \in 1 .. n /\ k = e[log[k].phase]
        BY <1>2, <1>3, <2>2, <3>1, <4>1 DEF EndsLogged
      <4>3. log[k].phase \in 0 .. n /\ log[k].phase \in 1 .. n + 1
        BY <4>2
      <4> QED BY <1>13, <4>1, <4>2, <4>3
    <3>2. CASE k = m + 1
      <4>1. log'[k].phase = n + 1 /\ n + 1 \in 1 .. n + 1
        BY <1>4, <3>2
      <4> QED BY <1>13, <3>2, <4>1
    <3>3. k # m + 2
      BY <1>4, <1>5, <2>2
    <3> QED BY <3>1, <3>2, <3>3
  <2> QED BY <1>4, <1>13, <2>1, <2>2 DEF EndsLogged
<1>18. DumpsLogged(dd)'
  <2>1. ASSUME NEW k \in 1 .. m + 2, log'[k].ev = "prof"
        PROVE  /\ k - 1 \in 1 .. m + 2 /\ IsLabel(log'[k - 1])
               /\ (\A j \in k .. m + 2 : log'[j].ev # "end") => dd[n + 1] <= Left(log'[k])
    <3>1. CASE k \in 1 .. m
      <4>1. log[k].ev = "prof"
        BY <1>4, <2>1, <3>1
      <4>2. k - 1 \in 1 .. m /\ IsLabel(log[k - 1])
        BY <1>2, <1>3, <3>1, <4>1 DEF DumpsLogged
      <4>3. k - 1 \in 1 .. m + 2 /\ log'[k - 1] = log[k - 1]
        BY <1>4, <4>2
      <4>4. m + 1 \in k .. m + 2 /\ log'[m + 1].ev = "end"
        BY <1>4, <3>1
      <4> QED BY <4>2, <4>3, <4>4
    <3>2. CASE k = m + 2
      <4>1. k - 1 = m + 1 /\ k - 1 \in 1 .. m + 2
        BY <3>2
      <4>2. IsLabel(log'[k - 1])
        BY <1>4, <4>1 DEF IsLabel
      <4>3. Left(log'[k]) = dd[n + 1] /\ dd[n + 1] <= i
        BY <1>4, <1>8, <1>12, <3>2
      <4>4. dd[n + 1] <= Left(log'[k])
        BY <1>8, <1>12, <4>3
      <4> QED BY <4>1, <4>2, <4>4
    <3>3. k # m + 1
      BY <1>4, <2>1
    <3> QED BY <3>1, <3>2, <3>3
  <2> QED BY <1>4, <2>1 DEF DumpsLogged
<1>19. IdleTime(b)' = dd[phases'] + outside'[phases' + 1]
  <2>1. phases' + 1 = n + 2 /\ outside' = outside
    BY <1>4, <1>6
  <2> QED BY <1>4, <1>9, <1>12, <1>15, <2>1
<1> QED BY <1>16, <1>17, <1>18, <1>19 DEF PhasesLogged

LEMMA EndLoadLogged ==
  ASSUME NEW b, Booking(b), NEW d, PhasesLogged(d, b), NEW t \in Loaders, EndLoad(t),
         NEW c, IdleTime(c)' = IdleTime(b)
  PROVE  PhasesLogged(d, c)'
<1>1. BootTypes /\ LoadsOpen /\ ScopesAdd(b)
  BY DEF Booking
<1>2. PICK e : /\ IdleByPhase(d) /\ EndsLogged(d, e) /\ DumpsLogged(d)
               /\ IdleTime(b) = d[phases] + outside[phases + 1]
  BY DEF PhasesLogged
<1>3. UNCHANGED <<bootClock, begun, phases, alone, outside>>
  BY <1>1, EndLoadLog
<1>4. IdleByPhase(d)'
  BY <1>2, <1>3 DEF IdleByPhase
<1>5. EndsLogged(d, e)'
  BY <1>1, <1>2, EndLoadEnds
<1>6. d \in [Nat -> Int] /\ d[phases] \in Int /\ outside[phases + 1] \in Nat
  <2>1. d \in [Nat -> Int]
    BY <1>2 DEF IdleByPhase
  <2>2. phases \in Nat /\ phases + 1 \in 1 .. MaxPhases + 1
    BY <1>1, BootNumbers DEF BootTypes
  <2>3. outside \in [1 .. MaxPhases + 1 -> Nat]
    BY <1>1 DEF BootTypes
  <2> QED BY <2>1, <2>2, <2>3
<1>7. d[phases] <= bootClock - Total(self)
  <2>1. IdleTime(b) \in Int /\ IdleTime(b) <= bootClock - Total(self)
    BY <1>1, IdleIsLeft
  <2>2. bootClock \in Nat /\ Total(self) \in Nat
    BY <1>1, Heights
  <2> QED BY <1>2, <1>6, <2>1, <2>2
<1>8. DumpsLogged(d)'
  BY <1>1, <1>2, <1>6, <1>7, EndLoadDumps
<1>9. IdleTime(c)' = d[phases'] + outside'[phases' + 1]
  BY <1>2, <1>3
<1> QED BY <1>4, <1>5, <1>8, <1>9 DEF PhasesLogged

LEMMA SamePhasesLogged ==
  ASSUME NEW b, NEW d, PhasesLogged(d, b), UNCHANGED <<log, phases, outside>>,
         NEW c, IdleTime(c)' = IdleTime(b)
  PROVE  PhasesLogged(d, c)'
<1>1. PICK e : /\ IdleByPhase(d) /\ EndsLogged(d, e) /\ DumpsLogged(d)
               /\ IdleTime(b) = d[phases] + outside[phases + 1]
  BY DEF PhasesLogged
<1>2. IdleByPhase(d)'
  BY <1>1 DEF IdleByPhase
<1>3. EndsLogged(d, e)'
  BY <1>1 DEF EndsLogged
<1>4. DumpsLogged(d)'
  BY <1>1 DEF DumpsLogged
<1> QED BY <1>1, <1>2, <1>3, <1>4 DEF PhasesLogged

LEMMA TickLogged ==
  ASSUME NEW b, Booking(b), NEW d, PhasesLogged(d, b), BootTick
  PROVE  PhasesLogged(d, b)'
<1>1. BootTypes /\ ScopesAdd(b)
  BY DEF Booking
<1>2. PICK e : /\ IdleByPhase(d) /\ EndsLogged(d, e) /\ DumpsLogged(d)
               /\ IdleTime(b) = d[phases] + outside[phases + 1]
  BY DEF PhasesLogged
<1>3. UNCHANGED <<loads, scopes, self, log, begun, phases>>
  BY DEF BootTick
<1>4. outside' = IF scopes = <<>> THEN [outside EXCEPT ![phases + 1] = @ + 1] ELSE outside
  BY DEF BootTick
<1>5. PICK n \in Nat : n = phases /\ n + 1 \in 1 .. MaxPhases + 1
  BY <1>1, BootNumbers DEF BootTypes
<1>6. outside \in [1 .. MaxPhases + 1 -> Nat]
  BY <1>1 DEF BootTypes
<1>7. \A k \in 1 .. MaxPhases + 1 : k # n + 1 => outside'[k] = outside[k]
  BY <1>4, <1>5, <1>6
<1>8. outside'[n + 1] = IF scopes = <<>> THEN outside[n + 1] + 1 ELSE outside[n + 1]
  BY <1>4, <1>5, <1>6
<1>9. IdleByPhase(d)'
  <2>1. ASSUME NEW k \in 1 .. n PROVE d[k] = d[k - 1] + outside'[k]
    <3>1. d[k] = d[k - 1] + outside[k]
      BY <1>2, <1>5 DEF IdleByPhase
    <3>2. k \in 1 .. MaxPhases + 1 /\ k # n + 1
      BY <1>1, <1>5, BootNumbers
    <3> QED BY <1>7, <3>1, <3>2
  <2>2. ASSUME NEW k \in 1 .. MaxPhases + 1, k > n + 1 PROVE outside'[k] = 0
    <3>1. outside[k] = 0
      BY <1>2, <1>5, <2>2 DEF IdleByPhase
    <3> QED BY <1>7, <2>2, <3>1
  <2>3. d \in [Nat -> Int] /\ d[0] = 0
    BY <1>2 DEF IdleByPhase
  <2> QED BY <1>3, <1>5, <2>1, <2>2, <2>3 DEF IdleByPhase
<1>10. EndsLogged(d, e)'
  BY <1>2, <1>3 DEF EndsLogged
<1>11. DumpsLogged(d)'
  BY <1>2, <1>3 DEF DumpsLogged
<1>12. IdleTime(b)' = d[phases'] + outside'[phases' + 1]
  <2>1. IdleTime(b)' = IF scopes = <<>> THEN IdleTime(b) + 1 ELSE IdleTime(b)
    BY TickIdles
  <2>2. d[n] \in Int /\ outside[n + 1] \in Nat
    BY <1>2, <1>5, <1>6 DEF IdleByPhase
  <2> QED BY <1>2, <1>3, <1>5, <1>8, <2>1, <2>2
<1> QED BY <1>9, <1>10, <1>11, <1>12 DEF PhasesLogged

BookedByPhase(b, d) == Booking(b) /\ PhasesLogged(d, b) /\ IdleTime(b) >= 0
PhasesInv == \E b, d : BookedByPhase(b, d)

LEMMA PhasesInvStart == BootInit => PhasesInv
<1> SUFFICES ASSUME BootInit PROVE PhasesInv
  OBVIOUS
<1>1. PICK b : Booking(b) /\ IdleTime(b) = 0
  BY BookingStarts
<1>2. BootTypes /\ Len(log) = 0 /\ phases = 0
  BY BootTypesStart
<1>3. PICK d : d = [n \in Nat |-> 0]
  OBVIOUS
<1>4. d \in [Nat -> Int] /\ d[0] = 0
  BY <1>3
<1>5. outside = [n \in 1 .. (MaxPhases + 1) |-> 0] /\ MaxPhases \in Nat
  BY BootAssumption DEF BootInit
<1>6. IdleByPhase(d)
  BY <1>2, <1>4, <1>5 DEF IdleByPhase
<1>7. EndsLogged(d, d)
  BY <1>2, <1>4 DEF EndsLogged
<1>8. DumpsLogged(d)
  BY <1>2 DEF DumpsLogged
<1>9. IdleTime(b) = d[phases] + outside[phases + 1]
  <2>1. outside[0 + 1] = 0
    BY <1>5
  <2> QED BY <1>1, <1>2, <1>4, <2>1
<1> QED BY <1>1, <1>6, <1>7, <1>8, <1>9 DEF PhasesInv, BookedByPhase, PhasesLogged

LEMMA PhasesInvKept == PhasesInv /\ [BootNext]_bootVars => PhasesInv'
<1> SUFFICES ASSUME PhasesInv, [BootNext]_bootVars PROVE PhasesInv'
  OBVIOUS
<1>1. PICK b, d : Booking(b) /\ PhasesLogged(d, b) /\ IdleTime(b) >= 0
  BY DEF PhasesInv, BookedByPhase
<1>2. BootTypes /\ ScopesAdd(b)
  BY <1>1 DEF Booking
<1>3. ASSUME NEW c, NEW dd, Booking(c)', PhasesLogged(dd, c)', IdleTime(c)' = IdleTime(b)
      PROVE  PhasesInv'
  <2>1. IdleTime(c)' >= 0
    BY <1>1, <1>3
  <2> QED BY <1>3, <2>1 DEF PhasesInv, BookedByPhase
<1>4. CASE BootTick
  <2>1. IdleTime(b) \in Int
    BY <1>2, IdleIsLeft
  <2>2. IdleTime(b)' = IF scopes = <<>> THEN IdleTime(b) + 1 ELSE IdleTime(b)
    BY <1>1, <1>4, TickIdles
  <2>3. IdleTime(b)' >= 0
    BY <1>1, <2>1, <2>2
  <2>4. Booking(b)'
    BY <1>1, <1>4, TickIdles
  <2>5. PhasesLogged(d, b)'
    BY <1>1, <1>4, TickLogged
  <2> QED BY <2>3, <2>4, <2>5 DEF PhasesInv, BookedByPhase
<1>5. CASE PhaseEnds
  <2>1. PICK c : Booking(c)' /\ IdleTime(c)' = IdleTime(b)
    BY <1>1, <1>5, OtherWorkBooks
  <2>2. PICK dd : PhasesLogged(dd, b)'
    BY <1>1, <1>5, PhaseEndsLogged
  <2>3. IdleTime(b)' = IdleTime(b)
    <3>1. UNCHANGED <<bootClock, scopes, self>>
      BY <1>5 DEF PhaseEnds
    <3> QED BY <3>1 DEF IdleTime, AtHeight, Total
  <2>4. PhasesLogged(dd, c)'
    BY <2>1, <2>2, <2>3 DEF PhasesLogged
  <2> QED BY <1>3, <2>1, <2>4
<1>6. CASE BeginWork \/ EndWork
  <2>1. PICK c : Booking(c)' /\ IdleTime(c)' = IdleTime(b)
    BY <1>1, <1>6, OtherWorkBooks
  <2>2. UNCHANGED <<log, phases, outside>>
    BY <1>6 DEF BeginWork, EndWork
  <2>3. PhasesLogged(d, c)'
    BY <1>1, <2>1, <2>2, SamePhasesLogged
  <2> QED BY <1>3, <2>1, <2>3
<1>7. ASSUME NEW t \in Loaders, BeginLoad(t) PROVE PhasesInv'
  <2>1. PICK c : Booking(c)' /\ IdleTime(c)' = IdleTime(b)
    BY <1>1, <1>7, BeginLoadBooks
  <2>2. UNCHANGED <<log, phases, outside>>
    BY <1>7 DEF BeginLoad
  <2>3. PhasesLogged(d, c)'
    BY <1>1, <2>1, <2>2, SamePhasesLogged
  <2> QED BY <1>3, <2>1, <2>3
<1>8. ASSUME NEW t \in Loaders, EndLoad(t) PROVE PhasesInv'
  <2>1. PICK c : Booking(c)' /\ IdleTime(c)' = IdleTime(b)
    BY <1>1, <1>8, EndLoadBooks
  <2>2. PhasesLogged(d, c)'
    BY <1>1, <1>8, <2>1, EndLoadLogged
  <2> QED BY <1>3, <2>1, <2>2
<1>9. CASE UNCHANGED bootVars
  <2>1. UNCHANGED <<bootClock, loads, scopes, self, log, begun, phases, alone, outside>>
    BY <1>9 DEF bootVars
  <2>4. BootTypes' /\ LoadsOpen' /\ LoadsLogged'
    BY <1>1, <2>1 DEF Booking, BootTypes, LoadsOpen, LoadsLogged
  <2>5. ScopesAdd(b)' /\ IdleTime(b)' = IdleTime(b)
    BY <1>2, <2>1 DEF ScopesAdd, IdleTime, AtHeight, Total
  <2>6. PICK nest : LoadsNest(nest)
    BY <1>1 DEF Booking
  <2>7. LoadsNest(nest)'
    BY <2>1, <2>6 DEF LoadsNest, AtHeight
  <2>2. Booking(b)' /\ IdleTime(b)' = IdleTime(b)
    BY <2>4, <2>5, <2>7 DEF Booking
  <2>3. PhasesLogged(d, b)'
    BY <1>1, <2>1, <2>2, SamePhasesLogged
  <2> QED BY <1>3, <2>2, <2>3
<1> QED BY <1>4, <1>5, <1>6, <1>7, <1>8, <1>9 DEF BootNext

LEMMA DumpIs ==
  ASSUME BootTypes, NEW d, DumpsLogged(d), NEW k \in Dumps
  PROVE  /\ LabelOf(k) = log[k - 1] /\ k \in 1 .. Len(log) /\ k - 1 \in 1 .. Len(log)
         /\ log[k].at \in Nat /\ log[k].self \in Bookings /\ IsLabel(log[k - 1])
         /\ log[k].ev = "prof"
<1>1. k \in 1 .. Len(log) /\ log[k].ev = "prof" /\ log[k] \in Lines
  BY DEF Dumps, BootTypes
<1>2. k - 1 \in 1 .. Len(log) /\ IsLabel(log[k - 1])
  BY <1>1 DEF DumpsLogged
<1>3. log[k].at \in Nat /\ log[k].self \in Bookings
  BY <1>1 DEF Lines, LoadLines, EndLines, Dumped
<1>4. PICK j \in Int : j = k - 1 /\ j \in 1 .. k - 1
  BY <1>2
<1> DEFINE P(x) == IsLabel(log[x]) /\ \A m \in (x + 1) .. (k - 1) : ~IsLabel(log[m])
<1>5. \E x \in 1 .. k - 1 : P(x)
  <2>1. (j + 1) .. (k - 1) = {}
    BY <1>4
  <2>2. P(j)
    BY <1>2, <1>4, <2>1
  <2> QED BY <1>4, <2>2
<1>6. \A x \in 1 .. k - 1 : P(x) => x = j
  <2> SUFFICES ASSUME NEW x \in 1 .. k - 1, P(x), x # j PROVE FALSE
    OBVIOUS
  <2>1. j \in (x + 1) .. (k - 1)
    BY <1>4
  <2>2. IsLabel(log[j])
    BY <1>2, <1>4
  <2> QED BY <2>1, <2>2
<1>7. (CHOOSE x \in 1 .. k - 1 : P(x)) = j
  <2> HIDE DEF P
  <2> QED BY <1>5, <1>6
<1> QED BY <1>1, <1>2, <1>3, <1>4, <1>7 DEF LabelOf

LEMMA MinOfOne ==
  ASSUME NEW x \in Int
  PROVE  Min({x}) = x
BY DEF Min

LEMMA EndDumps ==
  ASSUME BootTypes, NEW d, DumpsLogged(d), NEW e, EndsLogged(d, e), NEW n \in 1 .. phases
  PROVE  DumpsAt([ev |-> "end", n |-> n]) = {e[n] + 1}
<1>1. PICK cut : cut = [ev |-> "end", n |-> n]
  OBVIOUS
<1>2. cut.ev = "end" /\ cut.ev # "load" /\ cut.n = n
  BY <1>1
<1>3. PICK m \in Int : /\ m = e[n] /\ m \in 1 .. Len(log) - 1
                       /\ log[m].ev = "end" /\ log[m].phase = n /\ log[m + 1].ev = "prof"
  BY SMTT(30) DEF EndsLogged
<1>4. log \in Seq(Lines) /\ Len(log) \in Nat
  BY DEF BootTypes
<1>5. m + 1 \in Dumps /\ m + 1 - 1 = m
  BY <1>3, <1>4 DEF Dumps
<1>6. LabelOf(m + 1) = log[m]
  BY <1>5, DumpIs
<1>7. m + 1 \in DumpsAt(cut)
  BY <1>2, <1>3, <1>5, <1>6 DEF DumpsAt
<1>8. ASSUME NEW k \in DumpsAt(cut) PROVE k = m + 1
  <2>1. k \in Dumps /\ LabelOf(k).ev = "end" /\ LabelOf(k).phase = n
    BY <1>2 DEF DumpsAt
  <2>2. LabelOf(k) = log[k - 1] /\ k - 1 \in 1 .. Len(log) /\ k \in 1 .. Len(log)
    BY <2>1, DumpIs
  <2>4. PICK j \in 1 .. Len(log) : j = k - 1 /\ log[j].ev = "end" /\ log[j].phase = n
    BY <2>1, <2>2
  <2>5. j = e[log[j].phase]
    BY <2>4 DEF EndsLogged
  <2>3. k - 1 = e[n]
    BY <2>4, <2>5
  <2> QED BY <1>3, <2>2, <2>3
<1> QED BY <1>1, <1>3, <1>7, <1>8

LEMMA AtCut ==
  ASSUME BootTypes, NEW d, DumpsLogged(d), NEW e, EndsLogged(d, e), NEW n \in 1 .. phases
  PROVE  /\ Time([ev |-> "end", n |-> n]) \in Nat
         /\ SelfAt([ev |-> "end", n |-> n]) \in Bookings
         /\ Time([ev |-> "end", n |-> n]) - Total(SelfAt([ev |-> "end", n |-> n])) = d[n]
<1>1. PICK cut : cut = [ev |-> "end", n |-> n]
  OBVIOUS
<1>2. PICK m \in Int : m = e[n] + 1
  BY DEF EndsLogged
<1>3. Min(DumpsAt(cut)) = m
  BY <1>1, <1>2, EndDumps, MinOfOne
<1>4. Time(cut) = log[m].at /\ SelfAt(cut) = log[m].self
  BY <1>3 DEF Time, SelfAt
<1>5. m \in Dumps /\ Left(log[m]) = d[n]
  <2>1. /\ e[n] \in 1 .. Len(log) - 1 /\ log[e[n] + 1].ev = "prof"
        /\ Left(log[e[n] + 1]) = d[n]
    BY DEF EndsLogged
  <2>2. log \in Seq(Lines) /\ Len(log) \in Nat
    BY DEF BootTypes
  <2>3. e[n] + 1 \in 1 .. Len(log)
    BY <2>1, <2>2
  <2> QED BY <1>2, <2>1, <2>2, <2>3 DEF Dumps
<1>6. log[m].at \in Nat /\ log[m].self \in Bookings
  BY <1>5, DumpIs
<1> QED BY <1>1, <1>4, <1>5, <1>6 DEF Left

\* The time and the bookings a phase starts from.
Since(n) == IF n = 0 THEN 0 ELSE Time([ev |-> "end", n |-> n])
Was(n) == IF n = 0 THEN NoTime ELSE SelfAt([ev |-> "end", n |-> n])

LEMMA SinceWas ==
  ASSUME BootTypes, NEW d, IdleByPhase(d), DumpsLogged(d), NEW e, EndsLogged(d, e),
         NEW n \in 0 .. phases
  PROVE  /\ Since(n) \in Nat /\ Was(n) \in Bookings /\ Since(n) - Total(Was(n)) = d[n]
<1>1. CASE n = 0
  <2>1. Since(n) = 0 /\ Was(n) = NoTime
    BY <1>1 DEF Since, Was
  <2>2. NoTime \in Bookings /\ Total(NoTime) = 0
    BY DEF NoTime, Bookings, Total, Categories
  <2>3. d[0] = 0
    BY DEF IdleByPhase
  <2> QED BY <1>1, <2>1, <2>2, <2>3
<1>2. CASE n # 0
  <2>1. n \in 1 .. phases
    BY <1>2
  <2>2. /\ Since(n) = Time([ev |-> "end", n |-> n]) /\ Was(n) = SelfAt([ev |-> "end", n |-> n])
    BY <1>2 DEF Since, Was
  <2> QED BY <2>1, <2>2, AtCut
<1> QED BY <1>1, <1>2

LEMMA OthersAddUp ==
  ASSUME BootTypes, NEW d, IdleByPhase(d), DumpsLogged(d), NEW e, EndsLogged(d, e),
         NEW n \in 1 .. phases
  PROVE  Other(n) = outside[n]
<1>1. PICK k \in Nat : k = n - 1 /\ k + 1 = n /\ k \in 0 .. phases /\ (k = 0 <=> n = 1)
  <2>1. n - 1 \in Nat /\ n - 1 + 1 = n /\ n - 1 \in 0 .. phases /\ (n - 1 = 0 <=> n = 1)
    BY BootNumbers
  <2> QED BY <2>1
<1>2. PICK cut : cut = [ev |-> "end", n |-> n]
  OBVIOUS
<1>3. Other(n) = (Time(cut) - Since(k)) - Booked(Was(k), SelfAt(cut))
  BY <1>1, <1>2 DEF Other, Since, Was
<1>4. PICK t \in Nat, s \in Bookings : t = Time(cut) /\ s = SelfAt(cut) /\ t - Total(s) = d[n]
  BY <1>2, AtCut
<1>5. PICK u \in Nat, w \in Bookings : u = Since(k) /\ w = Was(k) /\ u - Total(w) = d[k]
  BY <1>1, SinceWas
<1>6. Booked(w, s) = Total(s) - Total(w) /\ Total(s) \in Nat /\ Total(w) \in Nat
  BY <1>4, <1>5, BookedIs, TotalOf
<1>7. d[n] = d[k] + outside[n] /\ d[n] \in Int /\ d[k] \in Int
  BY <1>1 DEF IdleByPhase
<1>8. outside[n] \in Nat
  <2>1. outside \in [1 .. MaxPhases + 1 -> Nat] /\ phases \in 0 .. MaxPhases /\ MaxPhases \in Nat
    BY BootNumbers DEF BootTypes
  <2>2. n \in 1 .. MaxPhases + 1
    BY <2>1
  <2> QED BY <2>1, <2>2
<1> QED BY <1>3, <1>4, <1>5, <1>6, <1>7, <1>8

LEMMA LastCutAddsUp ==
  ASSUME BootTypes, LoadsLogged, NEW d, IdleByPhase(d), DumpsLogged(d), NEW e, EndsLogged(d, e),
         NEW i \in DOMAIN log, log[i].ev = "load",
         DumpsAt([ev |-> "load", n |-> log[i].id]) # {},
         \A j \in i .. Len(log) : log[j].ev # "end"
  PROVE  OtherBefore(log[i].id) >= 0
<1>1. PICK x, cut : x = log[i].id /\ cut = [ev |-> "load", n |-> x]
  OBVIOUS
<1>2. cut.ev = "load" /\ cut.ev # "end" /\ cut.n = x
  BY <1>1
<1>3. log \in Seq(Lines) /\ Len(log) \in Nat /\ i \in 1 .. Len(log)
  BY DEF BootTypes
<1>4. ASSUME NEW k \in DumpsAt(cut) PROVE k = i + 1 /\ k \in Dumps
  <2>1. k \in Dumps /\ LabelOf(k).ev = "load" /\ LabelOf(k).id = x
    BY <1>2 DEF DumpsAt
  <2>2. LabelOf(k) = log[k - 1] /\ k - 1 \in 1 .. Len(log) /\ k \in 1 .. Len(log)
    BY <2>1, DumpIs
  <2>3. k - 1 = i
    BY <1>1, <1>3, <2>1, <2>2 DEF LoadsLogged
  <2> QED BY <1>3, <2>1, <2>2, <2>3
<1>5. DumpsAt(cut) = {i + 1} /\ i + 1 \in Dumps /\ i + 1 \in Int
  BY <1>1, <1>3, <1>4
<1>6. PICK k \in Int : k = i + 1 /\ Min(DumpsAt(cut)) = k /\ k \in Dumps
  BY <1>5, MinOfOne
<1>7. Time(cut) = log[k].at /\ SelfAt(cut) = log[k].self
  BY <1>6 DEF Time, SelfAt
<1>8. /\ log[k].at \in Nat /\ log[k].self \in Bookings /\ k \in 1 .. Len(log)
      /\ log[k].ev = "prof"
  BY <1>6, DumpIs
<1>9. d[phases] <= Left(log[k])
  <2>1. \A j \in k .. Len(log) : j \in i .. Len(log)
    BY <1>3, <1>6
  <2> QED BY <1>8, <2>1 DEF DumpsLogged
<1>10. phases \in Nat /\ phases \in 0 .. phases
  BY BootNumbers
<1>11. PICK u \in Nat, w \in Bookings :
         u = Since(phases) /\ w = Was(phases) /\ u - Total(w) = d[phases]
  BY <1>10, SinceWas
<1>12. PICK t \in Nat, s \in Bookings : t = log[k].at /\ s = log[k].self
  BY <1>8
<1>13. Booked(w, s) = Total(s) - Total(w) /\ Total(s) \in Nat /\ Total(w) \in Nat
  BY <1>11, <1>12, BookedIs, TotalOf
<1>14. OtherBefore(x) = (t - u) - Booked(w, s)
  BY <1>1, <1>7, <1>11, <1>12 DEF OtherBefore, Since, Was
<1>15. u - Total(w) <= t - Total(s)
  BY <1>9, <1>11, <1>12 DEF Left
<1> QED BY <1>1, <1>11, <1>12, <1>13, <1>14, <1>15

LEMMA PhasesInvAddsUp == PhasesInv => PhasesAddUp
<1> SUFFICES ASSUME PhasesInv PROVE PhasesAddUp
  OBVIOUS
<1>1. PICK b, d : Booking(b) /\ PhasesLogged(d, b)
  BY DEF PhasesInv, BookedByPhase
<1>2. PICK e : /\ BootTypes /\ LoadsLogged
               /\ IdleByPhase(d) /\ EndsLogged(d, e) /\ DumpsLogged(d)
  BY <1>1 DEF Booking, PhasesLogged
<1>3. \A n \in 1 .. phases : Other(n) = outside[n]
  BY <1>2, OthersAddUp
<1>4. ASSUME NEW i \in DOMAIN log, log[i].ev = "load",
             DumpsAt([ev |-> "load", n |-> log[i].id]) # {},
             \A j \in i .. Len(log) : log[j].ev # "end"
      PROVE  OtherBefore(log[i].id) >= 0
  BY <1>2, <1>4, LastCutAddsUp
<1> QED BY <1>3, <1>4 DEF PhasesAddUp

LEMMA PhasesInvTypes == PhasesInv => BootTypeOK
<1> SUFFICES ASSUME PhasesInv PROVE BootTypeOK
  OBVIOUS
<1>1. PICK b : BootTypes /\ LoadsOpen /\ ScopesAdd(b) /\ IdleTime(b) >= 0
  BY DEF PhasesInv, BookedByPhase, Booking
<1>2. IdleTime(b) \in Int /\ IdleTime(b) <= bootClock - Total(self) /\ bootClock \in 0 .. BootTicks
  BY <1>1, IdleIsLeft DEF BootTypes
<1>3. self \in Bookings /\ BootTicks \in Nat
  BY <1>1, BootNumbers DEF BootTypes
<1>4. PICK p \in Nat, q \in Nat : p = self["res_load"] /\ q = self["gd_parse"]
  BY <1>3, TotalOf
<1>5. p + q <= bootClock
  <2>1. Total(self) = p + q
    BY <1>4 DEF Total
  <2> QED BY <1>1, <1>2, <2>1
<1>6. p \in 0 .. BootTicks /\ q \in 0 .. BootTicks
  BY <1>2, <1>3, <1>5
<1>7. self \in [Categories -> 0 .. BootTicks]
  <2>1. self \in [Categories -> Nat]
    BY <1>3 DEF Bookings
  <2>2. \A c \in Categories : self[c] \in 0 .. BootTicks
    BY <1>4, <1>6 DEF Categories
  <2> QED BY <2>1, <2>2
<1>8. \A t \in Loaders : \A i \in DOMAIN loads[t] : loads[t][i].id <= begun
  <2>1. ASSUME NEW t \in Loaders, NEW i \in DOMAIN loads[t] PROVE loads[t][i].id <= begun
    <3>1. loads[t] \in Seq(Loads)
      BY <1>1 DEF BootTypes
    <3>2. i \in 1 .. Len(loads[t])
      BY <3>1
    <3>3. loads[t][i].id \in 1 .. begun
      BY <1>1, <3>2 DEF LoadsOpen
    <3>4. begun \in Nat
      BY <1>1, BootNumbers
    <3> QED BY <3>3, <3>4
  <2> QED BY <2>1
<1> QED BY <1>1, <1>7, <1>8 DEF BootTypeOK, BootTypes

\* The phase report adds up, for any number of loading threads, loads, phases and depths:
\* "other" of every phase is the time outside all scopes, and never negative at the last cut.
THEOREM PhaseReportAddsUp == BootSpec => [](BootTypeOK /\ PhasesAddUp)
<1>1. BootSpec => []PhasesInv
  BY PhasesInvStart, PhasesInvKept, PTL DEF BootSpec
<1> QED BY <1>1, PhasesInvAddsUp, PhasesInvTypes, PTL

-----------------------------------------------------------------------------
(* load_self.py, when one thread loads.                                    *)

NothingRead == [self |-> <<>>, pending |-> <<>>]

\* f is what load_self.py has after each set of lines up to n.
ReadUpTo(f, list, n) ==
  f = [s \in SUBSET (1 .. n) |->
         IF s = {} THEN NothingRead ELSE SelfLine(f[s \ {Max(s)}], list[Max(s)])]

LEMMA MaxIsIn ==
  ASSUME NEW n \in Nat, NEW s \in SUBSET (1 .. n), s # {}
  PROVE  Max(s) \in s
<1> DEFINE T == {n - i : i \in s}
<1>1. T \in SUBSET Nat /\ T # {}
  <2>1. \A i \in s : n - i \in Nat
    OBVIOUS
  <2> QED BY <2>1
<1>2. PICK x \in T : \A y \in T : x <= y
  <2> HIDE DEF T
  <2> QED BY <1>1, LeastOf
<1>3. PICK m \in s : x = n - m
  OBVIOUS
<1>4. ASSUME NEW i \in s PROVE m >= i
  <2>1. n - m <= n - i
    BY <1>2, <1>3
  <2>2. i \in 1 .. n /\ m \in 1 .. n
    OBVIOUS
  <2> QED BY <2>1, <2>2
<1> QED BY <1>4 DEF Max

LEMMA MaxIs ==
  ASSUME NEW n \in Nat, NEW s \in SUBSET (1 .. n), n \in s
  PROVE  Max(s) = n
<1>1. \A y \in s : n >= y
  OBVIOUS
<1>2. \A x \in s : (\A y \in s : x >= y) => x = n
  OBVIOUS
<1> QED BY <1>1, <1>2 DEF Max

LEMMA ReadGoesOn ==
  ASSUME NEW m \in Nat \ {0}, NEW list, NEW f, ReadUpTo(f, list, m - 1)
  PROVE  \E g : ReadUpTo(g, list, m)
<1> DEFINE g == [s \in SUBSET (1 .. m) |->
                   IF m \in s THEN SelfLine(f[s \ {m}], list[m]) ELSE f[s]]
<1>1. \A s \in SUBSET (1 .. m) : m \notin s => s \in SUBSET (1 .. m - 1)
  OBVIOUS
<1>2. ASSUME NEW s \in SUBSET (1 .. m)
      PROVE  g[s] = IF s = {} THEN NothingRead ELSE SelfLine(g[s \ {Max(s)}], list[Max(s)])
  <2>1. CASE s = {}
    <3>1. g[s] = f[s] /\ s \in SUBSET (1 .. m - 1)
      BY <2>1
    <3> HIDE DEF g
    <3> QED BY <2>1, <3>1 DEF ReadUpTo
  <2>2. CASE m \in s
    <3>1. Max(s) = m
      BY <2>2, MaxIs
    <3>2. s \ {m} \in SUBSET (1 .. m) /\ m \notin s \ {m}
      OBVIOUS
    <3>3. g[s \ {m}] = f[s \ {m}] /\ g[s] = SelfLine(f[s \ {m}], list[m]) /\ s # {}
      BY <2>2, <3>2
    <3> HIDE DEF g
    <3> QED BY <3>1, <3>3
  <2>3. CASE s # {} /\ m \notin s
    <3>1. s \in SUBSET (1 .. m - 1)
      BY <1>1, <2>3
    <3>2. Max(s) \in s
      BY <2>3, MaxIsIn
    <3>3. s \ {Max(s)} \in SUBSET (1 .. m) /\ m \notin s \ {Max(s)}
      BY <2>3
    <3>4. g[s] = f[s] /\ g[s \ {Max(s)}] = f[s \ {Max(s)}]
      BY <2>3, <3>3
    <3> HIDE DEF g
    <3> QED BY <2>3, <3>1, <3>4 DEF ReadUpTo
  <2> QED BY <2>1, <2>2, <2>3
<1>3. g = [s \in SUBSET (1 .. m) |-> g[s]]
  OBVIOUS
<1>4. ReadUpTo(g, list, m)
  <2> HIDE DEF g
  <2> QED BY <1>2, <1>3 DEF ReadUpTo
<1> QED BY <1>4

LEMMA ReadExists ==
  ASSUME NEW list, NEW n \in Nat
  PROVE  \E f : ReadUpTo(f, list, n)
<1> DEFINE S == {k \in 0 .. n : \E f : ReadUpTo(f, list, k)}
<1>1. 0 \in S
  <2> DEFINE f == [s \in SUBSET (1 .. 0) |-> NothingRead]
  <2>1. \A s \in SUBSET (1 .. 0) : s = {}
    OBVIOUS
  <2>2. ReadUpTo(f, list, 0)
    BY <2>1 DEF ReadUpTo
  <2> QED BY <2>2
<1>2. ASSUME NEW k \in 0 .. n - 1, k \in S PROVE k + 1 \in S
  <2>1. PICK f : ReadUpTo(f, list, k)
    BY <1>2
  <2>2. PICK m \in Nat \ {0} : m = k + 1 /\ m - 1 = k /\ m \in 0 .. n
    OBVIOUS
  <2>3. \E g : ReadUpTo(g, list, m)
    BY <2>1, <2>2, ReadGoesOn
  <2> QED BY <2>2, <2>3
<1>3. S = 0 .. n
  <2>1. S \in SUBSET (0 .. n)
    OBVIOUS
  <2> HIDE DEF S
  <2> QED BY <1>1, <1>2, <2>1, ClimbsToAll
<1>4. n \in 0 .. n
  OBVIOUS
<1> QED BY <1>3, <1>4

\* The lines up to n do not depend on what comes after them.
LEMMA ReadsAgree ==
  ASSUME NEW list, NEW other, NEW n \in Nat, NEW len \in Nat, n <= len,
         NEW f, ReadUpTo(f, list, n), NEW g, ReadUpTo(g, other, len),
         \A i \in 1 .. n : list[i] = other[i]
  PROVE  f[1 .. n] = g[1 .. n]
<1> DEFINE S == {k \in 0 .. n : f[1 .. k] = g[1 .. k]}
<1>1. 0 \in S
  <2>1. 1 .. 0 = {} /\ {} \in SUBSET (1 .. n) /\ {} \in SUBSET (1 .. len)
    OBVIOUS
  <2>2. f[{}] = NothingRead
    BY <2>1 DEF ReadUpTo
  <2>3. g[{}] = NothingRead
    BY <2>1 DEF ReadUpTo
  <2> QED BY <2>1, <2>2, <2>3
<1>2. ASSUME NEW k \in 0 .. n - 1, k \in S PROVE k + 1 \in S
  <2>1. PICK m \in Nat : m = k + 1 /\ m \in 1 .. n /\ m \in 0 .. n
    OBVIOUS
  <2>2. PICK s : s = 1 .. m
    OBVIOUS
  <2>7. /\ s \in SUBSET (1 .. n) /\ s \in SUBSET (1 .. len) /\ m \in s
        /\ s \in SUBSET (1 .. m) /\ s # {} /\ s \ {m} = 1 .. k
    <3>1. m \in 1 .. m /\ (1 .. m) \ {m} = 1 .. k
      BY <2>1
    <3>2. 1 .. m \in SUBSET (1 .. n) /\ 1 .. m \in SUBSET (1 .. len)
      BY <2>1
    <3> QED BY <2>2, <3>1, <3>2
  <2>3. Max(s) = m
    BY <2>7, MaxIs
  <2>4. f[1 .. m] = SelfLine(f[1 .. k], list[m])
    <3>1. f[s] = SelfLine(f[s \ {Max(s)}], list[Max(s)])
      BY <2>7 DEF ReadUpTo
    <3> QED BY <2>2, <2>3, <2>7, <3>1
  <2>5. g[1 .. m] = SelfLine(g[1 .. k], other[m])
    <3>1. g[s] = SelfLine(g[s \ {Max(s)}], other[Max(s)])
      BY <2>7 DEF ReadUpTo
    <3> QED BY <2>2, <2>3, <2>7, <3>1
  <2>6. f[1 .. k] = g[1 .. k]
    BY <1>2
  <2> QED BY <2>1, <2>4, <2>5, <2>6
<1>3. S = 0 .. n
  <2>1. S \in SUBSET (0 .. n)
    OBVIOUS
  <2> HIDE DEF S
  <2> QED BY <1>1, <1>2, <2>1, ClimbsToAll
<1>4. n \in 0 .. n
  OBVIOUS
<1> QED BY <1>3, <1>4

\* What load_self.py makes of a log.
ReadLog(list) == FoldLeft(SelfLine, NothingRead, list)

LEMMA LogIsRead ==
  ASSUME NEW list \in Seq(Lines)
  PROVE  \E f : ReadUpTo(f, list, Len(list)) /\ ReadLog(list) = f[1 .. Len(list)]
<1> DEFINE P(f) == f = [s \in SUBSET DOMAIN list |->
                         IF s = {} THEN NothingRead
                         ELSE SelfLine(f[s \ {Max(s)}], list[Max(s)])]
<1>1. DOMAIN list = 1 .. Len(list) /\ Len(list) \in Nat
  OBVIOUS
<1>2. \A f : P(f) <=> ReadUpTo(f, list, Len(list))
  BY <1>1 DEF ReadUpTo
<1>3. \E f : P(f)
  <2>1. PICK f : ReadUpTo(f, list, Len(list))
    BY <1>1, ReadExists
  <2> HIDE DEF P
  <2> QED BY <1>2, <2>1
<1>4. ReadLog(list) = (CHOOSE f : P(f))[DOMAIN list]
  BY DEF ReadLog, FoldLeft, MapThenFoldSet
<1> HIDE DEF P
<1>5. P(CHOOSE f : P(f))
  BY <1>3, Zenon
<1> QED BY <1>1, <1>2, <1>4, <1>5

LEMMA ReadOneMore ==
  ASSUME NEW list \in Seq(Lines), NEW longer \in Seq(Lines), Len(longer) = Len(list) + 1,
         \A i \in 1 .. Len(list) : longer[i] = list[i]
  PROVE  ReadLog(longer) = SelfLine(ReadLog(list), longer[Len(list) + 1])
<1>1. PICK n \in Nat : n = Len(list)
  OBVIOUS
<1>2. PICK f : ReadUpTo(f, list, n) /\ ReadLog(list) = f[1 .. n]
  BY <1>1, LogIsRead
<1>3. PICK g : ReadUpTo(g, longer, n + 1) /\ ReadLog(longer) = g[1 .. n + 1]
  BY <1>1, LogIsRead
<1>4. f[1 .. n] = g[1 .. n]
  <2>1. n + 1 \in Nat /\ n <= n + 1 /\ \A i \in 1 .. n : list[i] = longer[i]
    BY <1>1
  <2> QED BY <1>2, <1>3, <2>1, ReadsAgree
<1>5. n + 1 \in Nat /\ n + 1 \in 1 .. n + 1 /\ 1 .. n + 1 # {}
  OBVIOUS
<1>6. Max(1 .. n + 1) = n + 1
  BY <1>5, MaxIs
<1>7. (1 .. n + 1) \ {n + 1} = 1 .. n /\ 1 .. n + 1 \in SUBSET (1 .. n + 1)
  OBVIOUS
<1>8. g[1 .. n + 1] = SelfLine(g[1 .. n], longer[n + 1])
  BY <1>3, <1>5, <1>6, <1>7, ZenonT(60) DEF ReadUpTo
<1> QED BY <1>1, <1>2, <1>3, <1>4, <1>8

LEMMA ReadNothing ==
  ASSUME NEW list \in Seq(Lines), Len(list) = 0
  PROVE  ReadLog(list) = NothingRead
<1>1. PICK f : ReadUpTo(f, list, 0) /\ ReadLog(list) = f[1 .. 0]
  BY LogIsRead
<1>2. 1 .. 0 = {}
  OBVIOUS
<1> QED BY <1>1, <1>2 DEF ReadUpTo

LEMMA SelfLineIs ==
  ASSUME NEW acc, NEW line, line.ev = "load", line.depth \in Nat
  PROVE  LET after == SelfLine(acc, line)
         IN  /\ DOMAIN after.self = DOMAIN acc.self \union {line.id}
             /\ after.self[line.id] = line.ms - Pending(acc, line.depth + 1)
             /\ \A id \in DOMAIN acc.self : id # line.id => after.self[id] = acc.self[id]
             /\ Pending(after, line.depth) = Pending(acc, line.depth) + line.ms
             /\ Pending(after, line.depth + 1) = 0
             /\ \A k \in Nat : k # line.depth /\ k # line.depth + 1 =>
                                 Pending(after, k) = Pending(acc, k)
<1>1. PICK d, e, id, ms : /\ d = line.depth /\ e = line.depth + 1 /\ id = line.id
                          /\ ms = line.ms /\ e # d /\ d \in Nat /\ e \in Nat
  OBVIOUS
<1>2. PICK after : after = SelfLine(acc, line)
  OBVIOUS
<1>3. PICK p, s : /\ p = Set(Popped(acc, e), d, Pending(acc, d) + ms)
                  /\ s = Set(acc.self, id, ms - Pending(acc, e))
  OBVIOUS
<1>4. after = [self |-> s, pending |-> p]
  BY <1>1, <1>2, <1>3 DEF SelfLine
<1>5. after.self = s /\ after.pending = p
  BY <1>4
<1>6. /\ DOMAIN s = DOMAIN acc.self \union {id} /\ s[id] = ms - Pending(acc, e)
      /\ \A x \in DOMAIN acc.self : x # id => s[x] = acc.self[x]
  BY <1>3 DEF Set
<1>12. PICK q : q = Popped(acc, e)
  OBVIOUS
<1>7. /\ q = Popped(acc, e) /\ DOMAIN q = DOMAIN acc.pending \ {e}
      /\ \A k \in DOMAIN q : q[k] = acc.pending[k]
  <2>1. q = [k \in DOMAIN acc.pending \ {e} |-> acc.pending[k]]
    BY <1>12 DEF Popped
  <2> QED BY <1>12, <2>1
<1>8. /\ DOMAIN p = DOMAIN q \union {d} /\ p[d] = Pending(acc, d) + ms
      /\ \A k \in DOMAIN q : k # d => p[k] = q[k]
  BY <1>3, <1>7 DEF Set
<1>9. Pending(after, d) = Pending(acc, d) + ms
  BY <1>5, <1>8 DEF Pending
<1>10. Pending(after, e) = 0
  <2>1. e \notin DOMAIN p
    BY <1>1, <1>7, <1>8
  <2> QED BY <1>5, <2>1 DEF Pending
<1>11. ASSUME NEW k \in Nat, k # d, k # e PROVE Pending(after, k) = Pending(acc, k)
  <2>1. k \in DOMAIN p <=> k \in DOMAIN acc.pending
    BY <1>7, <1>8, <1>11
  <2>2. k \in DOMAIN p => p[k] = acc.pending[k]
    BY <1>7, <1>8, <1>11
  <2> QED BY <1>5, <2>1, <2>2 DEF Pending
<1> QED BY <1>1, <1>2, <1>5, <1>6, <1>9, <1>10, <1>11

\* How long load i of the open ones has been innermost: from the begin of it to the begin of
\* the next, or to now, less what the ended loads within it took.
Until(i) == IF i = Len(loads["main"]) THEN bootClock ELSE loads["main"][i + 1].at

SelfRead(acc) ==
  /\ \A k \in Nat : Pending(acc, k) \in Int
  /\ \A k \in Nat : k > Len(loads["main"]) => Pending(acc, k) = 0
  /\ \A i \in 1 .. Len(loads["main"]) :
       alone[loads["main"][i].id] = Until(i) - loads["main"][i].at - Pending(acc, i)
  /\ \A id \in DOMAIN acc.self :
       /\ id \in 1 .. begun /\ acc.self[id] = alone[id]
       /\ \A i \in 1 .. Len(loads["main"]) : loads["main"][i].id # id
  /\ \A id \in 1 .. MaxBegun : id > begun => alone[id] = 0

LEMMA MainLoads ==
  ASSUME BootTypes, LoadsOpen
  PROVE  /\ Len(loads["main"]) \in Nat /\ loads["main"] \in Seq(Loads)
         /\ \A i \in 1 .. Len(loads["main"]) :
              /\ loads["main"][i].id \in 1 .. begun /\ loads["main"][i].at \in Nat
              /\ loads["main"][i].id \in 1 .. MaxBegun
         /\ \A i, j \in 1 .. Len(loads["main"]) :
              loads["main"][i].id = loads["main"][j].id => i = j
<1>1. "main" \in Loaders /\ loads["main"] \in Seq(Loads) /\ begun \in 0 .. MaxBegun
  BY BootNumbers DEF BootTypes
<1>2. Len(loads["main"]) \in Nat
  BY <1>1
<1>3. ASSUME NEW i \in 1 .. Len(loads["main"])
      PROVE  /\ loads["main"][i].id \in 1 .. begun /\ loads["main"][i].at \in Nat
             /\ loads["main"][i].id \in 1 .. MaxBegun
  <2>1. loads["main"][i] \in Loads
    BY <1>1
  <2>2. loads["main"][i].id \in 1 .. begun
    BY <1>1 DEF LoadsOpen
  <2>3. \A x \in 1 .. begun : x \in 1 .. MaxBegun
    BY <1>1, BootNumbers
  <2> QED BY <2>1, <2>2, <2>3 DEF Loads
<1>4. \A i, j \in 1 .. Len(loads["main"]) :
        loads["main"][i].id = loads["main"][j].id => i = j
  BY <1>1 DEF LoadsOpen
<1> QED BY <1>1, <1>2, <1>3, <1>4

LEMMA BeginSelfRead ==
  ASSUME BootTypes, LoadsOpen, NEW acc, SelfRead(acc), BeginLoad("main")
  PROVE  SelfRead(acc)'
<1>1. PICK n \in Nat : n = Len(loads["main"])
  BY MainLoads
<1>2. PICK x : x = [id |-> begun + 1, at |-> bootClock]
  OBVIOUS
<1>3. /\ begun' = begun + 1 /\ begun \in Nat /\ bootClock \in Nat
      /\ UNCHANGED <<bootClock, alone>> /\ begun + 1 \in 1 .. MaxBegun
  BY BootNumbers DEF BeginLoad
<1>4. x \in Loads /\ x.id = begun + 1 /\ x.at = bootClock
  BY <1>2, BootNumbers DEF Loads
<1>5. loads' = [loads EXCEPT !["main"] = Append(@, x)]
  BY <1>2, <1>3 DEF BeginLoad
<1>6. /\ Len(loads'["main"]) = n + 1 /\ loads'["main"][n + 1] = x
      /\ \A i \in 1 .. n : loads'["main"][i] = loads["main"][i]
  BY <1>1, <1>4, <1>5, BootNumbers, LoadsMore
<1>7. \A k \in Nat : Pending(acc, k) \in Int
  BY DEF SelfRead
<1>8. \A k \in Nat : k > n + 1 => Pending(acc, k) = 0
  <2>1. \A k \in Nat : k > n => Pending(acc, k) = 0
    BY <1>1 DEF SelfRead
  <2>2. \A k \in Nat : k > n + 1 => k > n
    OBVIOUS
  <2> QED BY <2>1, <2>2
<1>9. ASSUME NEW i \in 1 .. n + 1
      PROVE  alone[loads'["main"][i].id]
               = Until(i)' - loads'["main"][i].at - Pending(acc, i)
  <2>1. CASE i = n + 1
    <3>1. Until(i)' = bootClock
      BY <1>3, <1>6, <2>1 DEF Until
    <3>2. Pending(acc, n + 1) = 0
      <4>1. n + 1 \in Nat /\ n + 1 > n
        OBVIOUS
      <4> QED BY <1>1, <4>1 DEF SelfRead
    <3>3. alone[begun + 1] = 0
      <4>1. begun + 1 > begun
        BY <1>3
      <4> QED BY <1>3, <4>1 DEF SelfRead
    <3> QED BY <1>3, <1>4, <1>6, <2>1, <3>1, <3>2, <3>3
  <2>2. CASE i \in 1 .. n
    <3>1. loads'["main"][i] = loads["main"][i]
      BY <1>6, <2>2
    <3>2. Until(i)' = Until(i)
      <4>1. Until(i)' = loads'["main"][i + 1].at
        BY <1>6, <2>2 DEF Until
      <4>2. CASE i = n
        BY <1>1, <1>4, <1>6, <4>1, <4>2 DEF Until
      <4>3. CASE i # n
        <5>1. i + 1 \in 1 .. n
          BY <2>2, <4>3
        <5>2. loads'["main"][i + 1] = loads["main"][i + 1]
          BY <1>6, <5>1
        <5>3. Until(i) = loads["main"][i + 1].at
          BY <1>1, <4>3 DEF Until
        <5> QED BY <4>1, <5>2, <5>3
      <4> QED BY <4>2, <4>3
    <3>3. alone[loads["main"][i].id] = Until(i) - loads["main"][i].at - Pending(acc, i)
      BY <1>1, <2>2 DEF SelfRead
    <3> QED BY <3>1, <3>2, <3>3
  <2> QED BY <2>1, <2>2
<1>10. ASSUME NEW id \in DOMAIN acc.self
       PROVE  /\ id \in 1 .. begun + 1 /\ acc.self[id] = alone[id]
              /\ \A i \in 1 .. n + 1 : loads'["main"][i].id # id
  <2>1. /\ id \in 1 .. begun /\ acc.self[id] = alone[id]
        /\ \A i \in 1 .. n : loads["main"][i].id # id
    BY <1>1 DEF SelfRead
  <2>2. id \in 1 .. begun + 1 /\ id # begun + 1
    BY <1>3, <2>1
  <2>3. \A i \in 1 .. n + 1 : i = n + 1 \/ i \in 1 .. n
    OBVIOUS
  <2> QED BY <1>4, <1>6, <2>1, <2>2, <2>3
<1>11. \A id \in 1 .. MaxBegun : id > begun + 1 => alone[id] = 0
  <2>1. \A id \in 1 .. MaxBegun : id > begun => alone[id] = 0
    BY DEF SelfRead
  <2>2. \A id \in 1 .. MaxBegun : id > begun + 1 => id > begun
    BY <1>3
  <2> QED BY <2>1, <2>2
<1> QED BY <1>3, <1>6, <1>7, <1>8, <1>9, <1>10, <1>11 DEF SelfRead

\* The line of the load that ends.
LEMMA EndSelfRead ==
  ASSUME BootTypes, LoadsOpen, NEW acc, SelfRead(acc), EndLoad("main"), NEW after,
         after = SelfLine(acc, LineOf("main"))
  PROVE  SelfRead(after)'
<1>1. PICK n \in Nat \ {0} : n = Len(loads["main"])
  BY EndLoadLog, InnermostIs, BootNumbers
<1>2. /\ Len(loads'["main"]) = n - 1
      /\ \A i \in 1 .. n - 1 : loads'["main"][i] = loads["main"][i]
  BY <1>1, EndLoadLog, LoadsLess, BootNumbers
<1>3. UNCHANGED <<bootClock, begun, alone>>
  BY EndLoadLog, BootNumbers
<1>4. PICK line : line = LineOf("main")
  OBVIOUS
<1>5. PICK id \in Nat, at \in Nat, stamp \in Nat :
        /\ id = loads["main"][n].id /\ at = loads["main"][n].at /\ id \in 1 .. begun
        /\ stamp = bootClock
  <2>1. n \in 1 .. n /\ bootClock \in Nat /\ begun \in Nat
    BY BootNumbers
  <2>2. loads["main"][n].id \in 1 .. begun /\ loads["main"][n].at \in Nat
    BY <1>1, <2>1, MainLoads
  <2> QED BY <2>1, <2>2
<1>6. /\ line.ev = "load" /\ line.depth = n - 1 /\ line.id = id /\ line.ms = stamp - at
  <2>1. loads["main"] # <<>> /\ "main" \in Loaders
    BY EndLoadLog, BootNumbers
  <2>2. /\ line.ev = "load" /\ line.depth = n - 1
        /\ line.id = Innermost("main").id /\ line.ms = bootClock - Innermost("main").at
    BY <1>1, <1>4, <2>1, LineOfIs
  <2> QED BY <1>1, <1>5, <2>2 DEF Innermost
<1>7. PICK d \in Nat : d = n - 1 /\ d + 1 = n
  OBVIOUS
<1>8. after = SelfLine(acc, line)
  BY <1>4
<1>9. /\ DOMAIN after.self = DOMAIN acc.self \union {id}
      /\ after.self[id] = stamp - at - Pending(acc, n)
      /\ \A x \in DOMAIN acc.self : x # id => after.self[x] = acc.self[x]
      /\ Pending(after, d) = Pending(acc, d) + (stamp - at)
      /\ Pending(after, n) = 0
      /\ \A k \in Nat : k # d /\ k # n => Pending(after, k) = Pending(acc, k)
  BY <1>6, <1>7, <1>8, SelfLineIs
<1>10. \A k \in Nat : Pending(acc, k) \in Int
  BY DEF SelfRead
<1>11. alone[id] = stamp - at - Pending(acc, n)
  <2>1. n \in 1 .. n
    OBVIOUS
  <2>2. Until(n) = stamp
    BY <1>1, <1>5 DEF Until
  <2> QED BY <1>1, <1>5, <2>1, <2>2 DEF SelfRead
<1>12. \A k \in Nat : Pending(after, k) \in Int
  <2>1. ASSUME NEW k \in Nat PROVE Pending(after, k) \in Int
    <3>1. CASE k = d
      BY <1>9, <1>10, <3>1
    <3>2. CASE k = n
      BY <1>9, <3>2
    <3>3. CASE k # d /\ k # n
      BY <1>9, <1>10, <3>3
    <3> QED BY <3>1, <3>2, <3>3
  <2> QED BY <2>1
<1>13. \A k \in Nat : k > n - 1 => Pending(after, k) = 0
  <2>1. ASSUME NEW k \in Nat, k > n - 1 PROVE Pending(after, k) = 0
    <3>1. CASE k = n
      BY <1>9, <3>1
    <3>2. CASE k # n
      <4>1. k > n /\ k # d
        BY <1>7, <2>1, <3>2
      <4>2. Pending(acc, k) = 0
        BY <1>1, <4>1 DEF SelfRead
      <4> QED BY <1>9, <3>2, <4>1, <4>2
    <3> QED BY <3>1, <3>2
  <2> QED BY <2>1
<1>14. ASSUME NEW i \in 1 .. n - 1
       PROVE  alone[loads'["main"][i].id]
                = Until(i)' - loads'["main"][i].at - Pending(after, i)
  <2>1. PICK t \in Nat, a \in Int : /\ t = loads["main"][i].at /\ a = Pending(acc, i)
                                    /\ i \in 1 .. n /\ i # n
    <3>1. i \in 1 .. n /\ i # n /\ i \in Nat
      OBVIOUS
    <3>2. loads["main"][i].at \in Nat
      BY <1>1, <3>1, MainLoads
    <3> QED BY <1>10, <3>1, <3>2
  <2>2. loads'["main"][i] = loads["main"][i]
    BY <1>2
  <2>3. alone[loads["main"][i].id] = Until(i) - t - a
    BY <1>1, <2>1 DEF SelfRead
  <2>4. Until(i) = loads["main"][i + 1].at
    BY <1>1, <2>1 DEF Until
  <2>5. CASE i = n - 1
    <3>1. Until(i)' = stamp
      BY <1>2, <1>3, <1>5, <2>5 DEF Until
    <3>2. Until(i) = at
      <4>1. i + 1 = n
        BY <2>5
      <4> QED BY <1>5, <2>4, <4>1
    <3>3. Pending(after, i) = a + (stamp - at)
      BY <1>7, <1>9, <2>1, <2>5
    <3>4. at - t - a = stamp - t - (a + (stamp - at))
      OBVIOUS
    <3> QED BY <2>1, <2>2, <2>3, <3>1, <3>2, <3>3, <3>4
  <2>6. CASE i # n - 1
    <3>1. i + 1 \in 1 .. n - 1
      BY <2>6
    <3>2. loads'["main"][i + 1] = loads["main"][i + 1]
      BY <1>2, <3>1
    <3>3. Until(i)' = Until(i)
      BY <1>2, <2>4, <2>6, <3>2 DEF Until
    <3>4. Pending(after, i) = a
      BY <1>7, <1>9, <2>1, <2>6
    <3> QED BY <2>1, <2>2, <2>3, <3>3, <3>4
  <2> QED BY <2>5, <2>6
<1>15. ASSUME NEW x \in DOMAIN after.self
       PROVE  /\ x \in 1 .. begun /\ after.self[x] = alone[x]
              /\ \A i \in 1 .. n - 1 : loads'["main"][i].id # x
  <2>1. CASE x = id
    <3>1. \A i \in 1 .. n - 1 : loads["main"][i].id # id
      <4>1. \A i \in 1 .. n - 1 : i \in 1 .. n /\ n \in 1 .. n /\ i # n
        OBVIOUS
      <4> QED BY <1>1, <1>5, <4>1, MainLoads
    <3> QED BY <1>2, <1>5, <1>9, <1>11, <2>1, <3>1
  <2>2. CASE x # id
    <3>1. x \in DOMAIN acc.self /\ after.self[x] = acc.self[x]
      BY <1>9, <2>2
    <3>2. /\ x \in 1 .. begun /\ acc.self[x] = alone[x]
          /\ \A i \in 1 .. n : loads["main"][i].id # x
      BY <1>1, <3>1 DEF SelfRead
    <3>3. \A i \in 1 .. n - 1 : i \in 1 .. n
      OBVIOUS
    <3> QED BY <1>2, <3>1, <3>2, <3>3
  <2> QED BY <2>1, <2>2
<1>16. \A x \in 1 .. MaxBegun : x > begun => alone[x] = 0
  BY DEF SelfRead
<1>17. SelfRead(after)'
  BY <1>2, <1>3, <1>12, <1>13, <1>14, <1>15, <1>16 DEF SelfRead
<1> QED BY <1>17

LEMMA ReadTwoMore ==
  ASSUME NEW list \in Seq(Lines), NEW x \in Lines, NEW y \in Lines, y.ev # "load",
         NEW longer \in Seq(Lines), Len(longer) = Len(list) + 2,
         \A i \in 1 .. Len(list) : longer[i] = list[i],
         longer[Len(list) + 1] = x, longer[Len(list) + 2] = y
  PROVE  ReadLog(longer) = SelfLine(ReadLog(list), x)
<1>1. PICK one : one = Append(list, x)
  OBVIOUS
<1>2. /\ one \in Seq(Lines) /\ Len(one) = Len(list) + 1
      /\ \A i \in 1 .. Len(list) : one[i] = list[i]
      /\ one[Len(list) + 1] = x /\ Len(list) \in Nat
  BY <1>1, OneMoreLine
<1>3. ReadLog(one) = SelfLine(ReadLog(list), x)
  BY <1>2, ReadOneMore
<1>4. ReadLog(longer) = SelfLine(ReadLog(one), y)
  <2>1. Len(longer) = Len(one) + 1 /\ Len(one) + 1 = Len(list) + 2
    BY <1>2
  <2>2. \A i \in 1 .. Len(one) : longer[i] = one[i]
    <3>1. \A i \in 1 .. Len(one) : i \in 1 .. Len(list) \/ i = Len(list) + 1
      BY <1>2
    <3> QED BY <1>2, <3>1
  <2> QED BY <1>2, <2>1, <2>2, ReadOneMore
<1>5. \A acc : SelfLine(acc, y) = acc
  BY DEF SelfLine
<1> QED BY <1>3, <1>4, <1>5

LEMMA EndLoadRead ==
  ASSUME BootTypes, LoadsOpen, NEW t \in Loaders, EndLoad(t)
  PROVE  ReadLog(log') = SelfLine(ReadLog(log), LineOf(t))
<1>1. log \in Seq(Lines) /\ log' \in Seq(Lines) /\ Len(log) \in Nat
  BY EndLoadAdds DEF BootTypes
<1>2. /\ \A k \in 1 .. Len(log) : log'[k] = log[k]
      /\ log'[Len(log) + 1] = LineOf(t)
      /\ \/ Len(log') = Len(log) + 1
         \/ Len(log') = Len(log) + 2 /\ log'[Len(log) + 2] = Snapshot
  BY EndLoadAdds
<1>3. LineOf(t) \in Lines /\ Snapshot \in Lines /\ Snapshot.ev # "load"
  BY EndLoadLog, LineOfIs, SnapshotIsDump
<1>4. CASE Len(log') = Len(log) + 1
  <2>1. ReadLog(log') = SelfLine(ReadLog(log), log'[Len(log) + 1])
    BY <1>1, <1>2, <1>4, ReadOneMore
  <2> QED BY <1>2, <2>1
<1>5. CASE Len(log') = Len(log) + 2 /\ log'[Len(log) + 2] = Snapshot
  BY <1>1, <1>2, <1>3, <1>5, ReadTwoMore
<1> QED BY <1>2, <1>4, <1>5

LEMMA PhaseEndsRead ==
  ASSUME BootTypes, PhaseEnds
  PROVE  ReadLog(log') = ReadLog(log)
<1>1. log \in Seq(Lines) /\ log' \in Seq(Lines) /\ Len(log') = Len(log) + 2
  BY PhaseEndsAdds DEF BootTypes
<1>2. /\ \A k \in 1 .. Len(log) : log'[k] = log[k]
      /\ log'[Len(log) + 1] = EndLine /\ log'[Len(log) + 2] = Snapshot /\ EndLine.ev = "end"
  BY PhaseEndsAdds
<1>3. EndLine \in Lines
  <2>1. Len(log) + 1 \in 1 .. Len(log')
    BY <1>1
  <2> QED BY <1>1, <1>2, <2>1
<1>4. Snapshot \in Lines /\ Snapshot.ev # "load"
  BY SnapshotIsDump
<1>5. ReadLog(log') = SelfLine(ReadLog(log), EndLine)
  BY <1>1, <1>2, <1>3, <1>4, ReadTwoMore
<1>6. EndLine.ev # "load"
  BY <1>2
<1>7. \A acc : SelfLine(acc, EndLine) = acc
  BY <1>6 DEF SelfLine
<1> QED BY <1>5, <1>7

LEMMA TickSelfRead ==
  ASSUME Loaders = {"main"}, BootTypes, LoadsOpen, NEW acc, SelfRead(acc), BootTick
  PROVE  SelfRead(acc)'
<1>1. PICK n \in Nat : n = Len(loads["main"]) /\ (loads["main"] # <<>> <=> n > 0)
  BY MainLoads
<1>2. UNCHANGED <<loads, begun>> /\ bootClock' = bootClock + 1 /\ bootClock \in Nat
  BY BootNumbers DEF BootTick
<1>3. alone \in [1 .. MaxBegun -> Nat]
  BY DEF BootTypes
<1> DEFINE G(x) == \E t \in Loaders : loads[t] # <<>> /\ loads[t][Len(loads[t])].id = x
<1>4. \A x : G(x) <=> n > 0 /\ loads["main"][n].id = x
  BY <1>1
<1>5. alone' = [x \in 1 .. MaxBegun |-> alone[x] + IF G(x) THEN 1 ELSE 0]
  BY <1>3 DEF BootTick
<1> HIDE DEF G
<1>6. ASSUME NEW x \in 1 .. MaxBegun, ~(n > 0 /\ loads["main"][n].id = x)
      PROVE  alone'[x] = alone[x]
  <2>1. ~G(x) /\ alone[x] \in Nat
    BY <1>3, <1>4, <1>6
  <2> QED BY <1>5, <2>1
<1>7. \A k \in Nat : Pending(acc, k) \in Int
  BY DEF SelfRead
<1>8. \A k \in Nat : k > n => Pending(acc, k) = 0
  BY <1>1 DEF SelfRead
<1>9. ASSUME NEW i \in 1 .. n
      PROVE  alone'[loads["main"][i].id] = Until(i)' - loads["main"][i].at - Pending(acc, i)
  <2>1. PICK x \in 1 .. MaxBegun, t \in Nat, a \in Int :
          x = loads["main"][i].id /\ t = loads["main"][i].at /\ a = Pending(acc, i)
    <3>1. loads["main"][i].id \in 1 .. MaxBegun /\ loads["main"][i].at \in Nat
      BY <1>1, MainLoads
    <3> QED BY <1>7, <3>1
  <2>2. alone[x] = Until(i) - t - a /\ alone[x] \in Nat
    BY <1>1, <1>3, <2>1 DEF SelfRead
  <2>3. CASE i = n
    <3>1. G(x)
      BY <1>4, <2>1, <2>3
    <3>2. alone'[x] = alone[x] + 1
      BY <1>5, <3>1
    <3>3. Until(i) = bootClock /\ Until(i)' = bootClock + 1
      BY <1>1, <1>2, <2>3 DEF Until
    <3> QED BY <1>2, <2>1, <2>2, <3>2, <3>3
  <2>4. CASE i # n
    <3>1. ~(n > 0 /\ loads["main"][n].id = x)
      <4>1. i \in 1 .. n /\ n \in 1 .. n
        OBVIOUS
      <4> QED BY <1>1, <2>1, <2>4, <4>1, MainLoads
    <3>2. alone'[x] = alone[x]
      BY <1>6, <3>1
    <3>3. Until(i)' = Until(i)
      BY <1>1, <1>2, <2>4 DEF Until
    <3> QED BY <2>1, <2>2, <3>2, <3>3
  <2> QED BY <2>3, <2>4
<1>10. \A x \in 1 .. begun : x \in 1 .. MaxBegun
  BY BootNumbers DEF BootTypes
<1>11. ASSUME NEW x \in DOMAIN acc.self
       PROVE  /\ x \in 1 .. begun /\ acc.self[x] = alone'[x]
              /\ \A i \in 1 .. n : loads["main"][i].id # x
  <2>1. /\ x \in 1 .. begun /\ acc.self[x] = alone[x]
        /\ \A i \in 1 .. n : loads["main"][i].id # x
    BY <1>1 DEF SelfRead
  <2>2. n > 0 => n \in 1 .. n
    OBVIOUS
  <2>3. alone'[x] = alone[x]
    BY <1>6, <1>10, <2>1, <2>2
  <2> QED BY <2>1, <2>3
<1>12. ASSUME NEW x \in 1 .. MaxBegun, x > begun PROVE alone'[x] = 0
  <2>1. alone[x] = 0
    BY <1>12 DEF SelfRead
  <2>2. n > 0 => loads["main"][n].id \in 1 .. begun
    <3>1. n > 0 => n \in 1 .. n
      OBVIOUS
    <3> QED BY <1>1, <3>1, MainLoads
  <2>3. begun \in Nat
    BY BootNumbers
  <2>4. ~(n > 0 /\ loads["main"][n].id = x)
    BY <1>12, <2>2, <2>3
  <2> QED BY <1>6, <2>1, <2>4
<1> QED BY <1>1, <1>2, <1>7, <1>8, <1>9, <1>11, <1>12 DEF SelfRead

SelfInv == \E acc : acc = ReadLog(log) /\ SelfRead(acc)

LEMMA SelfInvStart == BootInit => SelfInv
<1> SUFFICES ASSUME BootInit PROVE SelfInv
  OBVIOUS
<1>1. /\ BootTypes /\ Len(log) = 0 /\ begun = 0 /\ \A t \in Loaders : Len(loads[t]) = 0
  BY BootTypesStart
<1>2. log \in Seq(Lines) /\ "main" \in Loaders
  BY <1>1, BootNumbers DEF BootTypes
<1>3. ReadLog(log) = NothingRead
  BY <1>1, <1>2, ReadNothing
<1>4. DOMAIN NothingRead.self = {} /\ DOMAIN NothingRead.pending = {}
  BY DEF NothingRead
<1>5. \A k \in Nat : Pending(NothingRead, k) = 0
  BY <1>4 DEF Pending
<1>6. alone = [n \in 1 .. MaxBegun |-> 0]
  BY DEF BootInit
<1>7. SelfRead(NothingRead)
  <2>1. Len(loads["main"]) = 0
    BY <1>1, <1>2
  <2> QED BY <1>4, <1>5, <1>6, <2>1 DEF SelfRead
<1> QED BY <1>3, <1>7 DEF SelfInv

LEMMA SelfInvKept ==
  ASSUME Loaders = {"main"}, PhasesInv, SelfInv, [BootNext]_bootVars
  PROVE  SelfInv'
<1>1. BootTypes /\ LoadsOpen
  BY DEF PhasesInv, BookedByPhase, Booking
<1>2. PICK acc : acc = ReadLog(log) /\ SelfRead(acc)
  BY DEF SelfInv
<1>3. ASSUME NEW after, after = ReadLog(log'), SelfRead(after)' PROVE SelfInv'
  <2>1. after = ReadLog(log)'
    BY <1>3
  <2> QED BY <1>3, <2>1 DEF SelfInv
<1>4. CASE BootTick
  <2>1. SelfRead(acc)' /\ log' = log
    BY <1>1, <1>2, <1>4, TickSelfRead DEF BootTick
  <2> QED BY <1>2, <1>3, <2>1
<1>5. CASE PhaseEnds
  <2>1. UNCHANGED <<bootClock, loads, begun, alone>>
    BY <1>5 DEF PhaseEnds
  <2>2. SelfRead(acc)'
    BY <1>2, <2>1 DEF SelfRead, Until
  <2> QED BY <1>1, <1>2, <1>3, <1>5, <2>2, PhaseEndsRead
<1>6. CASE BeginWork
  <2>1. UNCHANGED <<bootClock, loads, log, alone>> /\ begun' = begun + 1
    BY <1>6 DEF BeginWork
  <2>2. begun \in Nat
    BY <1>1, BootNumbers
  <2>3. \A x \in 1 .. begun : x \in 1 .. begun + 1
    BY <2>2
  <2>4. \A x \in 1 .. MaxBegun : x > begun + 1 => x > begun
    BY <2>2
  <2>5. SelfRead(acc)'
    <3>1. /\ \A k \in Nat : Pending(acc, k) \in Int
          /\ \A k \in Nat : k > Len(loads["main"]) => Pending(acc, k) = 0
      BY <1>2 DEF SelfRead
    <3>2. \A i \in 1 .. Len(loads["main"]) :
            alone[loads["main"][i].id] = Until(i) - loads["main"][i].at - Pending(acc, i)
      BY <1>2 DEF SelfRead
    <3>3. \A id \in DOMAIN acc.self :
             /\ id \in 1 .. begun /\ acc.self[id] = alone[id]
             /\ \A i \in 1 .. Len(loads["main"]) : loads["main"][i].id # id
      BY <1>2 DEF SelfRead
    <3>4. \A id \in 1 .. MaxBegun : id > begun => alone[id] = 0
      BY <1>2 DEF SelfRead
    <3>5. \A i : Until(i)' = Until(i)
      BY <2>1 DEF Until
    <3>6. \A id \in DOMAIN acc.self :
             /\ id \in 1 .. begun + 1 /\ acc.self[id] = alone[id]
             /\ \A i \in 1 .. Len(loads["main"]) : loads["main"][i].id # id
      BY <2>3, <3>3
    <3>7. \A id \in 1 .. MaxBegun : id > begun + 1 => alone[id] = 0
      BY <2>4, <3>4
    <3> QED BY <2>1, <3>1, <3>2, <3>5, <3>6, <3>7 DEF SelfRead
  <2> QED BY <1>2, <1>3, <2>1, <2>5
<1>7. CASE EndWork
  <2>1. UNCHANGED <<bootClock, loads, log, begun, alone>>
    BY <1>7 DEF EndWork
  <2>2. SelfRead(acc)'
    BY <1>2, <2>1 DEF SelfRead, Until
  <2> QED BY <1>2, <1>3, <2>1, <2>2
<1>8. ASSUME NEW t \in Loaders, BeginLoad(t) PROVE SelfInv'
  <2>1. BeginLoad("main")
    BY <1>8
  <2>2. SelfRead(acc)'
    BY <1>1, <1>2, <2>1, BeginSelfRead
  <2>3. log' = log
    BY <1>8 DEF BeginLoad
  <2> QED BY <1>2, <1>3, <2>2, <2>3
<1>9. ASSUME NEW t \in Loaders, EndLoad(t) PROVE SelfInv'
  <2>1. EndLoad("main") /\ "main" \in Loaders
    BY <1>9
  <2>2. PICK after : after = SelfLine(acc, LineOf("main"))
    OBVIOUS
  <2>3. SelfRead(after)'
    BY <1>1, <1>2, <2>1, <2>2, EndSelfRead
  <2>4. after = ReadLog(log')
    BY <1>1, <1>2, <2>1, <2>2, EndLoadRead
  <2> QED BY <1>3, <2>3, <2>4
<1>10. CASE UNCHANGED bootVars
  <2>1. UNCHANGED <<bootClock, loads, log, begun, alone>>
    BY <1>10 DEF bootVars
  <2>2. SelfRead(acc)'
    BY <1>2, <2>1 DEF SelfRead, Until
  <2> QED BY <1>2, <1>3, <2>1, <2>2
<1> QED BY <1>4, <1>5, <1>6, <1>7, <1>8, <1>9, <1>10 DEF BootNext

LEMMA SelfInvExact == SelfInv /\ BootTypeOK => SelfTimesExact
<1> SUFFICES ASSUME SelfInv, BootTypeOK PROVE SelfTimesExact
  OBVIOUS
<1>1. PICK acc : acc = ReadLog(log) /\ SelfRead(acc)
  BY DEF SelfInv
<1>2. LoadSelf = acc.self
  BY <1>1 DEF LoadSelf, ReadLog, NothingRead
<1>3. \A id \in DOMAIN acc.self : acc.self[id] = alone[id]
  BY <1>1 DEF SelfRead
<1> QED BY <1>2, <1>3 DEF SelfTimesExact

\* No time of the boot is counted twice, nor lost, by loads and by phases, as long as one
\* thread loads: for any number of loads and phases, any depth and any length of the log.
THEOREM BootReportsAddUp == Loaders = {"main"} => (BootSpec => []BootTimesAddUp)
<1> SUFFICES ASSUME Loaders = {"main"} PROVE BootSpec => []BootTimesAddUp
  OBVIOUS
<1>1. BootSpec => []PhasesInv
  BY PhasesInvStart, PhasesInvKept, PTL DEF BootSpec
<1>2. PhasesInv /\ SelfInv /\ [BootNext]_bootVars => SelfInv'
  BY SelfInvKept
<1>3. BootSpec => []SelfInv
  BY <1>1, <1>2, SelfInvStart, PTL DEF BootSpec
<1>4. PhasesInv /\ SelfInv => BootTimesAddUp
  BY PhasesInvAddsUp, PhasesInvTypes, SelfInvExact DEF BootTimesAddUp
<1> QED BY <1>1, <1>3, <1>4, PTL

-----------------------------------------------------------------------------
(***************************************************************************)
(* THE REPORT of frames.py on a long frame is true, for every trace, every *)
(* set of tasks and every window the trace covers.  Overlap counts ticks:  *)
(* the search finds the number of intervals that begin before the window,  *)
(* and intervals in succession share no tick.  The lines read up to any    *)
(* moment leave intervals that tell what ran (TasksRead) and what was      *)
(* handled (IrqsRead); both hold after every line and every tick.          *)
(***************************************************************************)

(* Sums over sets are numbers of elements.                                 *)

\* What SumFunction adds up, subset by subset.
SumsUp(it, f, S) ==
  it = [s \in SUBSET S |-> IF s = {} THEN 0
                           ELSE f[CHOOSE x \in s : TRUE] + it[s \ {CHOOSE x \in s : TRUE}]]

\* The sets A[x] are finite, apart, and of the sizes f[x].
SizesOf(f, A, S) ==
  /\ IsFiniteSet(S) /\ DOMAIN f = S /\ DOMAIN A = S
  /\ \A x \in S : IsFiniteSet(A[x]) /\ f[x] = Cardinality(A[x])
  /\ \A x, y \in S : x # y => A[x] \intersect A[y] = {}

AllOf(A, s) == UNION {A[x] : x \in s}

LEMMA OneSetMore ==
  ASSUME NEW f, NEW A, NEW S, SizesOf(f, A, S), NEW s \in SUBSET S, NEW x \in s,
         IsFiniteSet(AllOf(A, s \ {x}))
  PROVE  /\ IsFiniteSet(AllOf(A, s))
         /\ Cardinality(AllOf(A, s)) = f[x] + Cardinality(AllOf(A, s \ {x}))
<1>1. PICK B, C, D : B = AllOf(A, s \ {x}) /\ C = A[x] /\ D = AllOf(A, s)
  OBVIOUS
<1>2. D = B \union C
  BY <1>1 DEF AllOf
<1>3. B \intersect C = {}
  <2>1. ASSUME NEW y \in s \ {x} PROVE A[y] \intersect C = {}
    BY <1>1 DEF SizesOf
  <2> QED BY <1>1, <2>1 DEF AllOf
<1>4. IsFiniteSet(B) /\ IsFiniteSet(C) /\ f[x] = Cardinality(C)
  BY <1>1 DEF SizesOf
<1>5. IsFiniteSet(D) /\ Cardinality(D) = Cardinality(B) + Cardinality(C) - Cardinality({})
  BY <1>2, <1>3, <1>4, FS_Union
<1>6. Cardinality({}) = 0 /\ Cardinality(B) \in Nat /\ Cardinality(C) \in Nat
  BY <1>4, FS_EmptySet, FS_CardinalityType
<1> QED BY <1>1, <1>4, <1>5, <1>6

LEMMA SetsUpTo ==
  ASSUME NEW S, IsFiniteSet(S), NEW s \in SUBSET S, s # {}
  PROVE  /\ IsFiniteSet(s) /\ Cardinality(s) \in Nat \ {0}
         /\ (CHOOSE x \in s : TRUE) \in s
         /\ Cardinality(s \ {CHOOSE x \in s : TRUE}) = Cardinality(s) - 1
<1>1. IsFiniteSet(s)
  BY FS_Subset
<1>2. Cardinality(s) \in Nat /\ Cardinality(s) # 0
  BY <1>1, FS_CardinalityType, FS_EmptySet
<1>3. (CHOOSE x \in s : TRUE) \in s
  OBVIOUS
<1>4. Cardinality(s \ {CHOOSE x \in s : TRUE}) = Cardinality(s) - 1
  BY <1>1, <1>3, FS_RemoveElement
<1> QED BY <1>1, <1>2, <1>3, <1>4

\* All unions are finite.
LEMMA UnionsAreFinite ==
  ASSUME NEW f, NEW A, NEW S, SizesOf(f, A, S)
  PROVE  \A s \in SUBSET S : IsFiniteSet(AllOf(A, s))
<1>0. IsFiniteSet(S)
  BY DEF SizesOf
<1>1. PICK n \in Nat : n = Cardinality(S)
  BY <1>0, FS_CardinalityType
<1> DEFINE T == {k \in 0 .. n : \A s \in SUBSET S : Cardinality(s) <= k => IsFiniteSet(AllOf(A, s))}
<1>2. 0 \in T
  <2>1. ASSUME NEW s \in SUBSET S, Cardinality(s) <= 0 PROVE IsFiniteSet(AllOf(A, s))
    <3>1. s = {}
      <4> SUFFICES ASSUME s # {} PROVE FALSE
        OBVIOUS
      <4>1. Cardinality(s) \in Nat \ {0}
        BY <1>0, SetsUpTo
      <4> QED BY <2>1, <4>1
    <3>2. AllOf(A, s) = {}
      BY <3>1 DEF AllOf
    <3> QED BY <3>2, FS_EmptySet
  <2> QED BY <2>1
<1>3. ASSUME NEW k \in 0 .. n - 1, k \in T PROVE k + 1 \in T
  <2>1. ASSUME NEW s \in SUBSET S, Cardinality(s) <= k + 1 PROVE IsFiniteSet(AllOf(A, s))
    <3>1. CASE s = {}
      BY <1>3, <1>0, FS_EmptySet, <3>1 DEF AllOf
    <3>2. CASE s # {}
      <4>1. PICK x \in s : x = CHOOSE y \in s : TRUE
        BY <3>2
      <4>2. Cardinality(s \ {x}) = Cardinality(s) - 1 /\ Cardinality(s) \in Nat
        BY <1>0, <3>2, <4>1, SetsUpTo
      <4>3. s \ {x} \in SUBSET S /\ Cardinality(s \ {x}) <= k
        BY <2>1, <4>2
      <4>4. IsFiniteSet(AllOf(A, s \ {x}))
        BY <1>3, <4>3
      <4> QED BY <4>4, OneSetMore
    <3> QED BY <3>1, <3>2
  <2>2. k + 1 \in 0 .. n
    OBVIOUS
  <2> QED BY <2>1, <2>2
<1>4. T = 0 .. n
  <2>1. T \in SUBSET (0 .. n)
    OBVIOUS
  <2> HIDE DEF T
  <2> QED BY <1>2, <1>3, <2>1, ClimbsToAll
<1>5. ASSUME NEW s \in SUBSET S PROVE IsFiniteSet(AllOf(A, s))
  <2>1. Cardinality(s) <= n
    BY <1>0, <1>1, FS_Subset
  <2>2. n \in T
    BY <1>4
  <2> QED BY <2>1, <2>2
<1> QED BY <1>5

LEMMA SumsAreSizes ==
  ASSUME NEW f, NEW A, NEW S, SizesOf(f, A, S), NEW it, SumsUp(it, f, S)
  PROVE  it[S] = Cardinality(AllOf(A, S))
<1>0. IsFiniteSet(S)
  BY DEF SizesOf
<1>1. PICK n \in Nat : n = Cardinality(S)
  BY <1>0, FS_CardinalityType
<1> DEFINE Right(s) == it[s] = Cardinality(AllOf(A, s))
           T == {k \in 0 .. n : \A s \in SUBSET S : Cardinality(s) <= k => Right(s)}
<1>2. ASSUME NEW s \in SUBSET S, s = {} PROVE Right(s)
  <2>1. it[s] = 0
    BY <1>2 DEF SumsUp
  <2>2. AllOf(A, s) = {}
    BY <1>2 DEF AllOf
  <2> QED BY <2>1, <2>2, FS_EmptySet
<1>3. 0 \in T
  <2>1. ASSUME NEW s \in SUBSET S, Cardinality(s) <= 0 PROVE Right(s)
    <3>1. s = {}
      <4> SUFFICES ASSUME s # {} PROVE FALSE
        OBVIOUS
      <4>1. Cardinality(s) \in Nat \ {0}
        BY <1>0, SetsUpTo
      <4> QED BY <2>1, <4>1
    <3> HIDE DEF Right
    <3> QED BY <1>2, <3>1
  <2> HIDE DEF Right
  <2> QED BY <2>1
<1>4. ASSUME NEW k \in 0 .. n - 1, k \in T PROVE k + 1 \in T
  <2>1. ASSUME NEW s \in SUBSET S, Cardinality(s) <= k + 1, s # {} PROVE Right(s)
    <3>1. PICK x \in s : x = CHOOSE y \in s : TRUE
      BY <2>1
    <3>2. Cardinality(s \ {x}) = Cardinality(s) - 1 /\ Cardinality(s) \in Nat
      BY <1>0, <2>1, <3>1, SetsUpTo
    <3>3. s \ {x} \in SUBSET S /\ Cardinality(s \ {x}) <= k
      BY <2>1, <3>2
    <3>4. Right(s \ {x})
      BY <1>4, <3>3
    <3>5. it[s] = f[x] + it[s \ {x}]
      BY <2>1, <3>1 DEF SumsUp
    <3>6. IsFiniteSet(AllOf(A, s \ {x}))
      BY <3>3, UnionsAreFinite
    <3>7. Cardinality(AllOf(A, s)) = f[x] + Cardinality(AllOf(A, s \ {x}))
      BY <3>6, OneSetMore
    <3> QED BY <3>4, <3>5, <3>7
  <2>2. k + 1 \in 0 .. n
    OBVIOUS
  <2> HIDE DEF Right
  <2> QED BY <1>2, <2>1, <2>2
<1>5. T = 0 .. n
  <2>1. T \in SUBSET (0 .. n)
    OBVIOUS
  <2> HIDE DEF T
  <2> QED BY <1>3, <1>4, <2>1, ClimbsToAll
<1>6. n \in T /\ S \in SUBSET S /\ Cardinality(S) <= n
  BY <1>1, <1>5
<1> QED BY <1>6

LEMMA SumOfApart ==
  ASSUME NEW f, NEW A, NEW S, SizesOf(f, A, S)
  PROVE  SumFunction(f) = Cardinality(AllOf(A, S))
<1> DEFINE P(it) == it = [s \in SUBSET DOMAIN f |->
                            IF s = {} THEN 0
                            ELSE f[CHOOSE x \in s : TRUE] + it[s \ {CHOOSE x \in s : TRUE}]]
           sizes == [s \in SUBSET S |-> Cardinality(AllOf(A, s))]
<1>1. \A it : P(it) <=> SumsUp(it, f, S)
  BY DEF SizesOf, SumsUp
<1>2. SumsUp(sizes, f, S)
  <2>1. ASSUME NEW s \in SUBSET S, s = {} PROVE sizes[s] = 0
    <3>1. AllOf(A, s) = {}
      BY <2>1 DEF AllOf
    <3> QED BY <3>1, FS_EmptySet
  <2>2. ASSUME NEW s \in SUBSET S, s # {}
        PROVE  sizes[s] = f[CHOOSE x \in s : TRUE] + sizes[s \ {CHOOSE x \in s : TRUE}]
    <3>1. PICK x \in s : x = CHOOSE y \in s : TRUE
      BY <2>2
    <3>2. s \ {x} \in SUBSET S /\ IsFiniteSet(AllOf(A, s \ {x}))
      BY UnionsAreFinite
    <3>3. Cardinality(AllOf(A, s)) = f[x] + Cardinality(AllOf(A, s \ {x}))
      BY <3>2, OneSetMore
    <3>4. sizes[s] = f[x] + sizes[s \ {x}]
      BY <3>2, <3>3
    <3> HIDE DEF sizes
    <3> QED BY <3>1, <3>4
  <2>3. sizes = [s \in SUBSET S |-> sizes[s]]
    OBVIOUS
  <2> HIDE DEF sizes
  <2> QED BY <2>1, <2>2, <2>3 DEF SumsUp
<1>3. \E it : P(it)
  <2> HIDE DEF P, sizes
  <2> QED BY <1>1, <1>2
<1>4. SumFunction(f) = (CHOOSE it : P(it))[DOMAIN f]
  BY DEF SumFunction, SumFunctionOnSet, FoldFunctionOnSet, MapThenFoldSet
<1> HIDE DEF P
<1>5. P(CHOOSE it : P(it))
  BY <1>3, Zenon
<1>6. DOMAIN f = S
  BY DEF SizesOf
<1> QED BY <1>1, <1>4, <1>5, <1>6, SumsAreSizes

-----------------------------------------------------------------------------
(* overlap() of intervals in order: the time of the window that is in one  *)
(* of the key.                                                             *)

Ivs(K) == [from : Nat, to : Nat, key : K]

InSuccession(ivs) ==
  /\ \A i \in 1 .. Len(ivs) : ivs[i].from <= ivs[i].to
  /\ \A i, j \in 1 .. Len(ivs) : i < j => ivs[i].to <= ivs[j].from

\* Tick x is in interval i.
InIv(ivs, i, x) == ivs[i].from < x /\ x <= ivs[i].to

\* The ticks of the window in an interval of the key.
TicksOf(ivs, key, a, b) ==
  {x \in (a + 1) .. b : \E i \in 1 .. Len(ivs) : ivs[i].key = key /\ InIv(ivs, i, x)}

LEMMA LargerOf ==
  ASSUME NEW x \in Int, NEW y \in Int
  PROVE  Max({x, y}) = IF x >= y THEN x ELSE y
<1> DEFINE m == IF x >= y THEN x ELSE y
<1>1. m \in {x, y} /\ \A z \in {x, y} : m >= z
  OBVIOUS
<1>2. \A n \in {x, y} : (\A z \in {x, y} : n >= z) => n = m
  OBVIOUS
<1> QED BY <1>1, <1>2 DEF Max

LEMMA SmallerOf ==
  ASSUME NEW x \in Int, NEW y \in Int
  PROVE  Min({x, y}) = IF x <= y THEN x ELSE y
<1> DEFINE m == IF x <= y THEN x ELSE y
<1>1. m \in {x, y} /\ \A z \in {x, y} : m <= z
  OBVIOUS
<1>2. \A n \in {x, y} : (\A z \in {x, y} : n <= z) => n = m
  OBVIOUS
<1> QED BY <1>1, <1>2 DEF Min

LEMMA MinIsLeast ==
  ASSUME NEW S \in SUBSET Nat, S # {}
  PROVE  Min(S) \in S /\ \A x \in S : Min(S) <= x
<1>1. \E m \in S : \A x \in S : m <= x
  BY LeastOf
<1> QED BY <1>1 DEF Min

LEMMA IvAt ==
  ASSUME NEW K, NEW ivs \in Seq(Ivs(K)), NEW i \in 1 .. Len(ivs)
  PROVE  /\ ivs[i].from \in Nat /\ ivs[i].to \in Nat /\ ivs[i].key \in K
         /\ i \in Nat /\ 1 <= i /\ i <= Len(ivs)
<1>1. ivs[i] \in Ivs(K)
  OBVIOUS
<1> QED BY <1>1 DEF Ivs

\* The number of intervals that begin before a.
Begun(ivs, a, r) ==
  /\ r \in 0 .. Len(ivs)
  /\ \A i \in 1 .. Len(ivs) : ivs[i].from < a <=> i <= r

LEMMA BegunExists ==
  ASSUME NEW K, NEW ivs \in Seq(Ivs(K)), InSuccession(ivs), NEW a \in Nat
  PROVE  \E r : Begun(ivs, a, r)
<1>1. PICK n \in Nat : n = Len(ivs)
  OBVIOUS
<1> DEFINE S == {r \in 0 .. n : \A i \in 1 .. n : i > r => ivs[i].from >= a}
<1>2. n \in S
  OBVIOUS
<1>3. PICK r \in S : \A k \in S : r <= k
  <2>1. S \in SUBSET Nat /\ S # {}
    <3>1. S \in SUBSET (0 .. n)
      OBVIOUS
    <3> HIDE DEF S
    <3> QED BY <1>2, <3>1
  <2> HIDE DEF S
  <2> QED BY <2>1, LeastOf
<1>4. ASSUME NEW i \in 1 .. n, i > r PROVE ~(ivs[i].from < a)
  <2>1. ivs[i].from >= a /\ ivs[i].from \in Nat
    BY <1>1, <1>3, <1>4, IvAt
  <2> QED BY <2>1
<1>5. ASSUME NEW i \in 1 .. n, i <= r PROVE ivs[i].from < a
  <2>1. r \in Nat /\ r >= 1 /\ r - 1 \in 0 .. n /\ r \in 1 .. n
    BY <1>3, <1>5
  <2>2. r - 1 \notin S
    <3> HIDE DEF S
    <3> QED BY <1>3, <2>1
  <2>3. PICK j \in 1 .. n : j > r - 1 /\ ~(ivs[j].from >= a)
    BY <2>1, <2>2
  <2>4. ivs[j].from \in Nat /\ ivs[j].from < a
    BY <1>1, <2>3, IvAt
  <2>5. j = r
    <3>1. ~(j > r)
      BY <1>4, <2>4
    <3> QED BY <2>1, <2>3, <3>1
  <2>6. CASE i = r
    BY <2>4, <2>5, <2>6
  <2>7. CASE i # r
    <3>1. i < r
      BY <1>5, <2>1, <2>7
    <3>2. ivs[i].from <= ivs[i].to /\ ivs[i].to <= ivs[r].from
      BY <1>1, <2>1, <3>1 DEF InSuccession
    <3>3. ivs[i].from \in Nat /\ ivs[i].to \in Nat /\ ivs[r].from \in Nat
      BY <1>1, <2>1, IvAt
    <3> QED BY <2>4, <2>5, <3>2, <3>3
  <2> QED BY <2>6, <2>7
<1> QED BY <1>1, <1>3, <1>4, <1>5 DEF Begun

\* r, kept between lo and hi.
Within(r, lo, hi) == IF lo >= hi THEN lo ELSE IF r < lo THEN lo ELSE IF r > hi THEN hi ELSE r

\* The search by halves as an equation.
Halves(in, ivs, a) ==
  in = [w \in (0 .. Len(ivs)) \X (0 .. Len(ivs)) |->
          IF w[1] >= w[2] THEN w[1]
          ELSE IF ivs[(w[1] + w[2]) \div 2 + 1].from < a
               THEN in[<<(w[1] + w[2]) \div 2 + 1, w[2]>>]
               ELSE in[<<w[1], (w[1] + w[2]) \div 2>>]]

LEMMA HalfWay ==
  ASSUME NEW n \in Nat, NEW lo \in 0 .. n, NEW hi \in 0 .. n, lo < hi
  PROVE  \E mid \in 0 .. n : /\ mid = (lo + hi) \div 2 /\ mid + 1 \in 0 .. n
                             /\ mid + 1 \in 1 .. n /\ lo <= mid /\ mid < hi
OBVIOUS

LEMMA HalfOf ==
  ASSUME NEW K, NEW ivs \in Seq(Ivs(K)), NEW a, NEW in, Halves(in, ivs, a),
         NEW lo \in 0 .. Len(ivs), NEW hi \in 0 .. Len(ivs)
  PROVE  in[<<lo, hi>>] = IF lo >= hi THEN lo
                          ELSE IF ivs[(lo + hi) \div 2 + 1].from < a
                               THEN in[<<(lo + hi) \div 2 + 1, hi>>]
                               ELSE in[<<lo, (lo + hi) \div 2>>]
<1>1. PICK w : w = <<lo, hi>>
  OBVIOUS
<1>3. w \in (0 .. Len(ivs)) \X (0 .. Len(ivs)) /\ w[1] = lo /\ w[2] = hi
  BY <1>1
<1>2. in[w] = IF w[1] >= w[2] THEN w[1]
              ELSE IF ivs[(w[1] + w[2]) \div 2 + 1].from < a
                   THEN in[<<(w[1] + w[2]) \div 2 + 1, w[2]>>]
                   ELSE in[<<w[1], (w[1] + w[2]) \div 2>>]
  BY <1>3, Zenon DEF Halves
<1> QED BY <1>1, <1>2, <1>3, Zenon

LEMMA WithinHalves ==
  ASSUME NEW K, NEW ivs \in Seq(Ivs(K)), NEW a \in Nat, NEW r, Begun(ivs, a, r)
  PROVE  \E in : Halves(in, ivs, a)
<1>1. PICK n \in Nat : n = Len(ivs)
  OBVIOUS
<1>2. r \in 0 .. n
  BY <1>1 DEF Begun
<1> DEFINE in == [w \in (0 .. n) \X (0 .. n) |-> Within(r, w[1], w[2])]
<1>3. ASSUME NEW lo \in 0 .. n, NEW hi \in 0 .. n PROVE in[<<lo, hi>>] = Within(r, lo, hi)
  OBVIOUS
<1>4. ASSUME NEW lo \in 0 .. n, NEW hi \in 0 .. n
      PROVE  Within(r, lo, hi) = IF lo >= hi THEN lo
                                 ELSE IF ivs[(lo + hi) \div 2 + 1].from < a
                                      THEN in[<<(lo + hi) \div 2 + 1, hi>>]
                                      ELSE in[<<lo, (lo + hi) \div 2>>]
  <2> HIDE DEF in
  <2>1. CASE lo >= hi
    BY <2>1 DEF Within
  <2>2. CASE lo < hi
    <3>1. PICK mid \in 0 .. n : /\ mid = (lo + hi) \div 2 /\ mid + 1 \in 0 .. n
                                /\ mid + 1 \in 1 .. n /\ lo <= mid /\ mid < hi
      BY <2>2, HalfWay
    <3>2. ivs[mid + 1].from < a <=> mid + 1 <= r
      BY <1>1, <3>1 DEF Begun
    <3>3. CASE mid + 1 <= r
      <4>1. Within(r, lo, hi) = Within(r, mid + 1, hi)
        BY <1>2, <2>2, <3>1, <3>3 DEF Within
      <4>2. in[<<mid + 1, hi>>] = Within(r, mid + 1, hi)
        BY <1>3, <3>1
      <4>3. ~(lo >= hi)
        BY <2>2
      <4> QED BY <3>1, <3>2, <3>3, <4>1, <4>2, <4>3, Zenon
    <3>4. CASE ~(mid + 1 <= r)
      <4>1. Within(r, lo, hi) = Within(r, lo, mid)
        BY <1>2, <2>2, <3>1, <3>4 DEF Within
      <4>2. in[<<lo, mid>>] = Within(r, lo, mid)
        BY <1>3, <3>1
      <4>3. ~(lo >= hi)
        BY <2>2
      <4> QED BY <3>1, <3>2, <3>4, <4>1, <4>2, <4>3, Zenon
    <3> QED BY <3>3, <3>4
  <2> QED BY <2>1, <2>2
<1>5. ASSUME NEW w \in (0 .. n) \X (0 .. n)
      PROVE  in[w] = IF w[1] >= w[2] THEN w[1]
                     ELSE IF ivs[(w[1] + w[2]) \div 2 + 1].from < a
                          THEN in[<<(w[1] + w[2]) \div 2 + 1, w[2]>>]
                          ELSE in[<<w[1], (w[1] + w[2]) \div 2>>]
  <2>1. PICK lo \in 0 .. n, hi \in 0 .. n : w = <<lo, hi>> /\ w[1] = lo /\ w[2] = hi
    OBVIOUS
  <2> HIDE DEF in
  <2>2. in[<<lo, hi>>] = IF lo >= hi THEN lo
                         ELSE IF ivs[(lo + hi) \div 2 + 1].from < a
                              THEN in[<<(lo + hi) \div 2 + 1, hi>>]
                              ELSE in[<<lo, (lo + hi) \div 2>>]
    BY <1>3, <1>4, Zenon
  <2> QED BY <2>1, <2>2, Zenon
<1>6. in = [w \in (0 .. n) \X (0 .. n) |-> in[w]]
  OBVIOUS
<1>7. Halves(in, ivs, a)
  <2> HIDE DEF in
  <2> QED BY <1>1, <1>5, <1>6 DEF Halves
<1> QED BY <1>7

\* The search says how many intervals begin before a.
LEMMA BisectCounts ==
  ASSUME NEW K, NEW ivs \in Seq(Ivs(K)), NEW a \in Nat, NEW r, Begun(ivs, a, r)
  PROVE  BisectLeft(ivs, a) = r
<1>1. PICK n \in Nat : n = Len(ivs) /\ 0 \in 0 .. n /\ n \in 0 .. n
  OBVIOUS
<1>2. r \in 0 .. n
  BY <1>1 DEF Begun
<1>3. PICK in : Halves(in, ivs, a) /\ BisectLeft(ivs, a) = in[<<0, n>>]
  <2>1. \E in : Halves(in, ivs, a)
    BY WithinHalves
  <2>2. Halves(CHOOSE in : Halves(in, ivs, a), ivs, a)
    BY <2>1, Zenon
  <2>3. BisectLeft(ivs, a) = (CHOOSE in : Halves(in, ivs, a))[<<0, n>>]
    BY <1>1 DEF BisectLeft, Halves
  <2> QED BY <2>2, <2>3
<1> DEFINE Right(lo, hi) == in[<<lo, hi>>] = Within(r, lo, hi)
           S == {k \in 0 .. n : \A lo, hi \in 0 .. n : hi - lo <= k => Right(lo, hi)}
<1>4. 0 \in S
  <2>1. ASSUME NEW lo \in 0 .. n, NEW hi \in 0 .. n, hi - lo <= 0 PROVE Right(lo, hi)
    <3>1. lo >= hi
      BY <2>1
    <3>2. in[<<lo, hi>>] = lo
      BY <1>1, <1>3, <3>1, HalfOf, ZenonT(60)
    <3> QED BY <3>1, <3>2 DEF Within
  <2> HIDE DEF Right
  <2> QED BY <2>1
<1>5. ASSUME NEW k \in 0 .. n - 1, k \in S PROVE k + 1 \in S
  <2>1. ASSUME NEW lo \in 0 .. n, NEW hi \in 0 .. n, hi - lo <= k + 1 PROVE Right(lo, hi)
    <3>1. CASE lo >= hi
      <4>1. in[<<lo, hi>>] = lo
        BY <1>1, <1>3, <3>1, HalfOf, ZenonT(60)
      <4> QED BY <3>1, <4>1 DEF Within
    <3>2. CASE lo < hi
      <4>1. PICK mid \in 0 .. n : /\ mid = (lo + hi) \div 2 /\ mid + 1 \in 0 .. n
                                  /\ mid + 1 \in 1 .. n /\ lo <= mid /\ mid < hi
        BY <3>2, HalfWay
      <4>2. ivs[mid + 1].from < a <=> mid + 1 <= r
        BY <1>1, <4>1 DEF Begun
      <4>3. ~(lo >= hi) /\ hi - (mid + 1) <= k /\ mid - lo <= k
        BY <2>1, <3>2, <4>1
      <4>4. in[<<lo, hi>>] = IF ivs[mid + 1].from < a THEN in[<<mid + 1, hi>>] ELSE in[<<lo, mid>>]
        BY <1>1, <1>3, <4>1, <4>3, HalfOf
      <4>5. in[<<mid + 1, hi>>] = Within(r, mid + 1, hi) /\ in[<<lo, mid>>] = Within(r, lo, mid)
        BY <1>5, <4>1, <4>3
      <4>6. CASE mid + 1 <= r
        <5>1. Within(r, lo, hi) = Within(r, mid + 1, hi)
          BY <1>2, <3>2, <4>1, <4>6 DEF Within
        <5> QED BY <4>2, <4>4, <4>5, <4>6, <5>1
      <4>7. CASE ~(mid + 1 <= r)
        <5>1. Within(r, lo, hi) = Within(r, lo, mid)
          BY <1>2, <3>2, <4>1, <4>7 DEF Within
        <5> QED BY <4>2, <4>4, <4>5, <4>7, <5>1
      <4> QED BY <4>6, <4>7
    <3> QED BY <3>1, <3>2
  <2>2. k + 1 \in 0 .. n
    OBVIOUS
  <2> HIDE DEF Right
  <2> QED BY <2>1, <2>2
<1>6. S = 0 .. n
  <2>1. S \in SUBSET (0 .. n)
    OBVIOUS
  <2> HIDE DEF S
  <2> QED BY <1>4, <1>5, <2>1, ClimbsToAll
<1>7. Right(0, n)
  <2>1. n \in S /\ n - 0 <= n
    BY <1>1, <1>6
  <2> HIDE DEF Right
  <2> QED BY <1>1, <2>1
<1>8. Within(r, 0, n) = r
  BY <1>2 DEF Within
<1> QED BY <1>3, <1>7, <1>8

\* The intervals overlap() takes and the part of the window each of them has.
Takes(ivs, key, a, b) ==
  LET first == Max({1, FirstIndex(ivs, a)})
      stops == {i \in first..Len(ivs) : ivs[i].from >= b}
      last  == IF stops = {} THEN Len(ivs) ELSE Min(stops) - 1
  IN {i \in first..last : ivs[i].key = key /\ Common(ivs[i], a, b) > 0}

PartOf(iv, a, b) == Max({iv.from, a}) + 1 .. Min({iv.to, b})

LEMMA TakesThose ==
  ASSUME NEW K, NEW ivs \in Seq(Ivs(K)), InSuccession(ivs), NEW key,
         NEW a \in Nat, NEW b \in Nat, NEW i
  PROVE  i \in Takes(ivs, key, a, b) <=>
           i \in 1 .. Len(ivs) /\ ivs[i].key = key /\ Common(ivs[i], a, b) > 0
<1>1. PICK n \in Nat : n = Len(ivs)
  OBVIOUS
<1>2. PICK r : Begun(ivs, a, r)
  BY BegunExists
<1>3. r \in 0 .. n /\ \A j \in 1 .. n : ivs[j].from < a <=> j <= r
  BY <1>1, <1>2 DEF Begun
<1>4. PICK first : first = Max({1, FirstIndex(ivs, a)})
  OBVIOUS
<1>5. FirstIndex(ivs, a) = r
  BY <1>2, BisectCounts DEF FirstIndex
<1>6. first \in Nat /\ first = IF 1 >= r THEN 1 ELSE r
  BY <1>3, <1>4, <1>5, LargerOf
<1>7. PICK stops : stops = {j \in first .. n : ivs[j].from >= b}
  OBVIOUS
<1>8. PICK last : last = IF stops = {} THEN n ELSE Min(stops) - 1
  OBVIOUS
<1>9. Takes(ivs, key, a, b) = {j \in first .. last : ivs[j].key = key /\ Common(ivs[j], a, b) > 0}
  BY <1>1, <1>4, <1>7, <1>8 DEF Takes
<1>10. last \in Int /\ last <= n /\ \A j \in first .. n : j > last => ivs[j].from >= b
  <2>1. CASE stops = {}
    BY <1>6, <1>7, <1>8, <2>1
  <2>2. CASE stops # {}
    <3>1. stops \in SUBSET Nat
      BY <1>6, <1>7
    <3>2. Min(stops) \in stops /\ \A x \in stops : Min(stops) <= x
      BY <2>2, <3>1, MinIsLeast
    <3>3. PICK m \in first .. n : m = Min(stops) /\ last = m - 1 /\ ivs[m].from >= b
      BY <1>7, <1>8, <2>2, <3>2
    <3>4. ASSUME NEW j \in first .. n, j > last PROVE ivs[j].from >= b
      <4>1. m \in 1 .. n /\ j \in 1 .. n /\ (j = m \/ m < j)
        BY <1>6, <3>3, <3>4
      <4>2. ivs[m].from \in Nat /\ ivs[m].to \in Nat /\ ivs[j].from \in Nat
        BY <1>1, <4>1, IvAt
      <4>3. CASE m < j
        <5>1. ivs[m].from <= ivs[m].to /\ ivs[m].to <= ivs[j].from
          BY <1>1, <4>1, <4>3 DEF InSuccession
        <5> QED BY <3>3, <4>2, <5>1
      <4> QED BY <3>3, <4>1, <4>3
    <3> QED BY <1>6, <3>3, <3>4
  <2> QED BY <2>1, <2>2
<1>11. ASSUME NEW j \in 1 .. n, Common(ivs[j], a, b) > 0
       PROVE  j \in first .. last
  <2>1. PICK f \in Nat, t \in Nat : f = ivs[j].from /\ t = ivs[j].to
    BY <1>1, IvAt
  <2>2. f < b /\ a < t
    <3>1. /\ Min({t, b}) = IF t <= b THEN t ELSE b
          /\ Max({f, a}) = IF f >= a THEN f ELSE a
      BY LargerOf, SmallerOf
    <3>2. Min({t, b}) - Max({f, a}) > 0
      BY <1>11, <2>1 DEF Common
    <3> QED BY <3>1, <3>2
  <2>3. first <= j
    <3> SUFFICES ASSUME ~(first <= j) PROVE FALSE
      OBVIOUS
    <3>1. r = first /\ j < r /\ r \in 1 .. n
      BY <1>3, <1>6
    <3>2. ivs[r].from < a /\ ivs[r].from \in Nat
      BY <1>1, <1>3, <3>1, IvAt
    <3>3. ivs[j].to <= ivs[r].from
      BY <1>1, <3>1 DEF InSuccession
    <3> QED BY <2>1, <2>2, <3>2, <3>3
  <2>4. j <= last
    <3> SUFFICES ASSUME ~(j <= last) PROVE FALSE
      OBVIOUS
    <3>1. j \in first .. n /\ j > last
      BY <1>6, <1>10, <2>3
    <3>2. ivs[j].from >= b
      BY <1>10, <3>1
    <3> QED BY <2>1, <2>2, <3>2
  <2> QED BY <1>6, <1>10, <2>3, <2>4
<1>12. \A j \in first .. last : j \in 1 .. n
  BY <1>6, <1>10
<1> QED BY <1>1, <1>9, <1>11, <1>12

LEMMA PartIs ==
  ASSUME NEW K, NEW iv \in Ivs(K), NEW a \in Nat, NEW b \in Nat
  PROVE  /\ \A x \in Int : x \in PartOf(iv, a, b) <=>
                             x \in (a + 1) .. b /\ iv.from < x /\ x <= iv.to
         /\ IsFiniteSet(PartOf(iv, a, b))
         /\ Common(iv, a, b) > 0 => Cardinality(PartOf(iv, a, b)) = Common(iv, a, b)
         /\ ~(Common(iv, a, b) > 0) => PartOf(iv, a, b) = {}
<1>1. PICK f \in Nat, t \in Nat : f = iv.from /\ t = iv.to
  BY DEF Ivs
<1>2. PICK lo \in Nat, hi \in Nat : /\ lo = Max({f, a}) /\ lo = (IF f >= a THEN f ELSE a)
                                    /\ hi = Min({t, b}) /\ hi = (IF t <= b THEN t ELSE b)
  BY LargerOf, SmallerOf
<1>3. PartOf(iv, a, b) = lo + 1 .. hi /\ Common(iv, a, b) = hi - lo
  BY <1>1, <1>2 DEF PartOf, Common
<1>4. \A x \in Int : x \in lo + 1 .. hi <=> x \in (a + 1) .. b /\ f < x /\ x <= t
  BY <1>2
<1>5. /\ IsFiniteSet(lo + 1 .. hi)
      /\ Cardinality(lo + 1 .. hi) = IF lo + 1 > hi THEN 0 ELSE hi - (lo + 1) + 1
  BY FS_Interval
<1>6. hi - lo > 0 => Cardinality(lo + 1 .. hi) = hi - lo
  BY <1>5
<1>7. ~(hi - lo > 0) => lo + 1 .. hi = {}
  OBVIOUS
<1> QED BY <1>1, <1>3, <1>4, <1>5, <1>6, <1>7

\* overlap() of intervals in order counts the ticks of the key.
LEMMA OverlapCounts ==
  ASSUME NEW K, NEW ivs \in Seq(Ivs(K)), InSuccession(ivs), NEW key,
         NEW a \in Nat, NEW b \in Nat
  PROVE  Overlap(ivs, key, a, b) = Cardinality(TicksOf(ivs, key, a, b))
<1>1. PICK n \in Nat : n = Len(ivs)
  OBVIOUS
<1>2. PICK S : S = Takes(ivs, key, a, b)
  OBVIOUS
<1>3. \A i : i \in S <=> i \in 1 .. n /\ ivs[i].key = key /\ Common(ivs[i], a, b) > 0
  BY <1>1, <1>2, TakesThose
<1>4. PICK f : f = [i \in S |-> Common(ivs[i], a, b)]
  OBVIOUS
<1>5. PICK A : A = [i \in S |-> PartOf(ivs[i], a, b)]
  OBVIOUS
<1>6. Overlap(ivs, key, a, b) = SumFunction(f)
  BY <1>2, <1>4 DEF Overlap, Takes
<1>7. \A i \in 1 .. n : ivs[i] \in Ivs(K)
  BY <1>1
<1>8. SizesOf(f, A, S)
  <2>1. IsFiniteSet(S)
    <3>1. S \in SUBSET (1 .. n) /\ IsFiniteSet(1 .. n)
      BY <1>3, FS_Interval
    <3> QED BY <3>1, FS_Subset
  <2>2. ASSUME NEW i \in S PROVE IsFiniteSet(A[i]) /\ f[i] = Cardinality(A[i])
    <3>1. i \in 1 .. n /\ Common(ivs[i], a, b) > 0 /\ ivs[i] \in Ivs(K)
      BY <1>3, <1>7
    <3>2. A[i] = PartOf(ivs[i], a, b) /\ f[i] = Common(ivs[i], a, b)
      BY <1>4, <1>5
    <3>3. IsFiniteSet(PartOf(ivs[i], a, b))
      BY <3>1, PartIs
    <3>4. Cardinality(PartOf(ivs[i], a, b)) = Common(ivs[i], a, b)
      BY <3>1, PartIs
    <3> QED BY <3>2, <3>3, <3>4
  <2>3. ASSUME NEW i \in S, NEW j \in S, i # j PROVE A[i] \intersect A[j] = {}
    <3>1. i \in 1 .. n /\ j \in 1 .. n /\ ivs[i] \in Ivs(K) /\ ivs[j] \in Ivs(K)
      BY <1>3, <1>7
    <3>2. A[i] = PartOf(ivs[i], a, b) /\ A[j] = PartOf(ivs[j], a, b)
      BY <1>5
    <3>3. ASSUME NEW x \in A[i], x \in A[j] PROVE FALSE
      <4>1. x \in Int
        BY <1>5, <3>1, <3>2, LargerOf, SmallerOf DEF PartOf, Ivs
      <4>2. ivs[i].from < x /\ x <= ivs[i].to /\ ivs[j].from < x /\ x <= ivs[j].to
        BY <3>1, <3>2, <3>3, <4>1, PartIs
      <4>3. ivs[i].to <= ivs[j].from \/ ivs[j].to <= ivs[i].from
        BY <1>1, <2>3, <3>1 DEF InSuccession
      <4>4. /\ ivs[i].from \in Nat /\ ivs[i].to \in Nat
            /\ ivs[j].from \in Nat /\ ivs[j].to \in Nat
        BY <3>1 DEF Ivs
      <4> QED BY <4>1, <4>2, <4>3, <4>4, SMTT(30)
    <3> QED BY <3>3
  <2>4. DOMAIN f = S /\ DOMAIN A = S
    BY <1>4, <1>5
  <2> QED BY <2>1, <2>2, <2>3, <2>4 DEF SizesOf
<1>9. SumFunction(f) = Cardinality(AllOf(A, S))
  BY <1>8, SumOfApart
<1>10. AllOf(A, S) = TicksOf(ivs, key, a, b)
  <2>1. ASSUME NEW x \in AllOf(A, S) PROVE x \in TicksOf(ivs, key, a, b)
    <3>1. PICK i \in S : x \in A[i]
      BY DEF AllOf
    <3>2. i \in 1 .. n /\ ivs[i].key = key /\ ivs[i] \in Ivs(K) /\ A[i] = PartOf(ivs[i], a, b)
      BY <1>3, <1>5, <1>7
    <3>3. x \in Int
      BY <3>1, <3>2, LargerOf, SmallerOf DEF PartOf, Ivs
    <3>4. x \in (a + 1) .. b /\ ivs[i].from < x /\ x <= ivs[i].to
      BY <3>1, <3>2, <3>3, PartIs
    <3> QED BY <1>1, <3>2, <3>4 DEF TicksOf, InIv
  <2>2. ASSUME NEW x \in TicksOf(ivs, key, a, b) PROVE x \in AllOf(A, S)
    <3>1. x \in (a + 1) .. b
      BY DEF TicksOf
    <3>2. PICK i \in 1 .. n : ivs[i].key = key /\ ivs[i].from < x /\ x <= ivs[i].to
      BY <1>1 DEF TicksOf, InIv
    <3>3. x \in PartOf(ivs[i], a, b)
      BY <1>7, <3>1, <3>2, PartIs
    <3>4. Common(ivs[i], a, b) > 0
      BY <1>7, <3>3, PartIs
    <3>5. i \in S /\ A[i] = PartOf(ivs[i], a, b)
      BY <1>3, <1>5, <3>2, <3>4
    <3> QED BY <3>3, <3>5 DEF AllOf
  <2> QED BY <2>1, <2>2
<1> QED BY <1>6, <1>9, <1>10

-----------------------------------------------------------------------------
(* load_cpu0, line by line.                                                *)

Kinds == {"hard", "soft"}
SwitchEvents == [t : Nat, ev : {"switch"}, prev : Tasks, next : Tasks]
IrqEvents == [t : Nat, ev : {"entry", "exit"}, irq : Kinds]
TraceEvents == SwitchEvents \union IrqEvents

\* f is what load_cpu0 has after each set of lines up to n.
TracedUpTo(f, list, n) ==
  f = [s \in SUBSET (1 .. n) |->
         IF s = {} THEN NoLine ELSE TraceLine(f[s \ {Max(s)}], list[Max(s)])]

LEMMA TraceGoesOn ==
  ASSUME NEW m \in Nat \ {0}, NEW list, NEW f, TracedUpTo(f, list, m - 1)
  PROVE  \E g : TracedUpTo(g, list, m)
<1> DEFINE g == [s \in SUBSET (1 .. m) |->
                   IF m \in s THEN TraceLine(f[s \ {m}], list[m]) ELSE f[s]]
<1>1. \A s \in SUBSET (1 .. m) : m \notin s => s \in SUBSET (1 .. m - 1)
  OBVIOUS
<1>2. ASSUME NEW s \in SUBSET (1 .. m)
      PROVE  g[s] = IF s = {} THEN NoLine ELSE TraceLine(g[s \ {Max(s)}], list[Max(s)])
  <2>1. CASE s = {}
    <3>1. g[s] = f[s] /\ s \in SUBSET (1 .. m - 1)
      BY <2>1
    <3> HIDE DEF g
    <3> QED BY <2>1, <3>1 DEF TracedUpTo
  <2>2. CASE m \in s
    <3>1. Max(s) = m
      BY <2>2, MaxIs
    <3>2. s \ {m} \in SUBSET (1 .. m) /\ m \notin s \ {m}
      OBVIOUS
    <3>3. g[s \ {m}] = f[s \ {m}] /\ g[s] = TraceLine(f[s \ {m}], list[m]) /\ s # {}
      BY <2>2, <3>2
    <3> HIDE DEF g
    <3> QED BY <3>1, <3>3
  <2>3. CASE s # {} /\ m \notin s
    <3>1. s \in SUBSET (1 .. m - 1)
      BY <1>1, <2>3
    <3>2. Max(s) \in s
      BY <2>3, MaxIsIn
    <3>3. s \ {Max(s)} \in SUBSET (1 .. m) /\ m \notin s \ {Max(s)}
      BY <2>3
    <3>4. g[s] = f[s] /\ g[s \ {Max(s)}] = f[s \ {Max(s)}]
      BY <2>3, <3>3
    <3> HIDE DEF g
    <3> QED BY <2>3, <3>1, <3>4 DEF TracedUpTo
  <2> QED BY <2>1, <2>2, <2>3
<1>3. g = [s \in SUBSET (1 .. m) |-> g[s]]
  OBVIOUS
<1>4. TracedUpTo(g, list, m)
  <2> HIDE DEF g
  <2> QED BY <1>2, <1>3 DEF TracedUpTo
<1> QED BY <1>4

LEMMA TracedExists ==
  ASSUME NEW list, NEW n \in Nat
  PROVE  \E f : TracedUpTo(f, list, n)
<1> DEFINE S == {k \in 0 .. n : \E f : TracedUpTo(f, list, k)}
<1>1. 0 \in S
  <2> DEFINE f == [s \in SUBSET (1 .. 0) |-> NoLine]
  <2>1. \A s \in SUBSET (1 .. 0) : s = {}
    OBVIOUS
  <2>2. TracedUpTo(f, list, 0)
    BY <2>1 DEF TracedUpTo
  <2> QED BY <2>2
<1>2. ASSUME NEW k \in 0 .. n - 1, k \in S PROVE k + 1 \in S
  <2>1. PICK f : TracedUpTo(f, list, k)
    BY <1>2
  <2>2. PICK m \in Nat \ {0} : m = k + 1 /\ m - 1 = k /\ m \in 0 .. n
    OBVIOUS
  <2>3. \E g : TracedUpTo(g, list, m)
    BY <2>1, <2>2, TraceGoesOn
  <2> QED BY <2>2, <2>3
<1>3. S = 0 .. n
  <2>1. S \in SUBSET (0 .. n)
    OBVIOUS
  <2> HIDE DEF S
  <2> QED BY <1>1, <1>2, <2>1, ClimbsToAll
<1>4. n \in 0 .. n
  OBVIOUS
<1> QED BY <1>3, <1>4

\* The lines up to n do not depend on what comes after them.
LEMMA TracesAgree ==
  ASSUME NEW list, NEW other, NEW n \in Nat, NEW len \in Nat, n <= len,
         NEW f, TracedUpTo(f, list, n), NEW g, TracedUpTo(g, other, len),
         \A i \in 1 .. n : list[i] = other[i]
  PROVE  f[1 .. n] = g[1 .. n]
<1> DEFINE S == {k \in 0 .. n : f[1 .. k] = g[1 .. k]}
<1>1. 0 \in S
  <2>1. 1 .. 0 = {} /\ {} \in SUBSET (1 .. n) /\ {} \in SUBSET (1 .. len)
    OBVIOUS
  <2>2. f[{}] = NoLine
    BY <2>1 DEF TracedUpTo
  <2>3. g[{}] = NoLine
    BY <2>1 DEF TracedUpTo
  <2> QED BY <2>1, <2>2, <2>3
<1>2. ASSUME NEW k \in 0 .. n - 1, k \in S PROVE k + 1 \in S
  <2>1. PICK m \in Nat : m = k + 1 /\ m \in 1 .. n /\ m \in 0 .. n
    OBVIOUS
  <2>2. PICK s : s = 1 .. m
    OBVIOUS
  <2>7. /\ s \in SUBSET (1 .. n) /\ s \in SUBSET (1 .. len) /\ m \in s
        /\ s \in SUBSET (1 .. m) /\ s # {} /\ s \ {m} = 1 .. k
    <3>1. m \in 1 .. m /\ (1 .. m) \ {m} = 1 .. k
      BY <2>1
    <3>2. 1 .. m \in SUBSET (1 .. n) /\ 1 .. m \in SUBSET (1 .. len)
      BY <2>1
    <3> QED BY <2>2, <3>1, <3>2
  <2>3. Max(s) = m
    BY <2>7, MaxIs
  <2>4. f[1 .. m] = TraceLine(f[1 .. k], list[m])
    <3>1. f[s] = TraceLine(f[s \ {Max(s)}], list[Max(s)])
      BY <2>7 DEF TracedUpTo
    <3> QED BY <2>2, <2>3, <2>7, <3>1
  <2>5. g[1 .. m] = TraceLine(g[1 .. k], other[m])
    <3>1. g[s] = TraceLine(g[s \ {Max(s)}], other[Max(s)])
      BY <2>7 DEF TracedUpTo
    <3> QED BY <2>2, <2>3, <2>7, <3>1
  <2>6. f[1 .. k] = g[1 .. k]
    BY <1>2
  <2> QED BY <2>1, <2>4, <2>5, <2>6
<1>3. S = 0 .. n
  <2>1. S \in SUBSET (0 .. n)
    OBVIOUS
  <2> HIDE DEF S
  <2> QED BY <1>1, <1>2, <2>1, ClimbsToAll
<1>4. n \in 0 .. n
  OBVIOUS
<1> QED BY <1>3, <1>4

\* What load_cpu0 makes of a trace.
TraceRead(list) == FoldLeft(TraceLine, NoLine, list)

LEMMA TraceIsRead ==
  ASSUME NEW list \in Seq(TraceEvents)
  PROVE  \E f : TracedUpTo(f, list, Len(list)) /\ TraceRead(list) = f[1 .. Len(list)]
<1> DEFINE P(f) == f = [s \in SUBSET DOMAIN list |->
                         IF s = {} THEN NoLine
                         ELSE TraceLine(f[s \ {Max(s)}], list[Max(s)])]
<1>1. DOMAIN list = 1 .. Len(list) /\ Len(list) \in Nat
  OBVIOUS
<1>2. \A f : P(f) <=> TracedUpTo(f, list, Len(list))
  BY <1>1 DEF TracedUpTo
<1>3. \E f : P(f)
  <2>1. PICK f : TracedUpTo(f, list, Len(list))
    BY <1>1, TracedExists
  <2> HIDE DEF P
  <2> QED BY <1>2, <2>1
<1>4. TraceRead(list) = (CHOOSE f : P(f))[DOMAIN list]
  BY DEF TraceRead, FoldLeft, MapThenFoldSet
<1> HIDE DEF P
<1>5. P(CHOOSE f : P(f))
  BY <1>3, Zenon
<1> QED BY <1>1, <1>2, <1>4, <1>5

LEMMA OneUp ==
  ASSUME NEW n \in Nat
  PROVE  n + 1 \in Nat /\ n + 1 \in 1 .. n + 1 /\ 1 .. n + 1 # {}
OBVIOUS

LEMMA TraceOneMore ==
  ASSUME NEW list \in Seq(TraceEvents), NEW longer \in Seq(TraceEvents),
         Len(longer) = Len(list) + 1,
         \A i \in 1 .. Len(list) : longer[i] = list[i]
  PROVE  TraceRead(longer) = TraceLine(TraceRead(list), longer[Len(list) + 1])
<1>1. PICK n \in Nat : n = Len(list)
  OBVIOUS
<1>2. PICK f : TracedUpTo(f, list, n) /\ TraceRead(list) = f[1 .. n]
  BY <1>1, TraceIsRead
<1>3. PICK g : TracedUpTo(g, longer, n + 1) /\ TraceRead(longer) = g[1 .. n + 1]
  BY <1>1, TraceIsRead
<1>4. f[1 .. n] = g[1 .. n]
  <2>1. n + 1 \in Nat /\ n <= n + 1 /\ \A i \in 1 .. n : list[i] = longer[i]
    BY <1>1
  <2> QED BY <1>2, <1>3, <2>1, TracesAgree
<1>5. n + 1 \in Nat /\ n + 1 \in 1 .. n + 1 /\ 1 .. n + 1 # {}
  BY OneUp
<1>6. Max(1 .. n + 1) = n + 1
  BY <1>5, MaxIs
<1>7. (1 .. n + 1) \ {n + 1} = 1 .. n /\ 1 .. n + 1 \in SUBSET (1 .. n + 1)
  OBVIOUS
<1>8. g[1 .. n + 1] = TraceLine(g[1 .. n], longer[n + 1])
  BY <1>3, <1>5, <1>6, <1>7, ZenonT(60) DEF TracedUpTo
<1> QED BY <1>1, <1>2, <1>3, <1>4, <1>8

LEMMA TraceNothing ==
  ASSUME NEW list \in Seq(TraceEvents), Len(list) = 0
  PROVE  TraceRead(list) = NoLine
<1>1. PICK f : TracedUpTo(f, list, 0) /\ TraceRead(list) = f[1 .. 0]
  BY TraceIsRead
<1>2. 1 .. 0 = {}
  OBVIOUS
<1> QED BY <1>1, <1>2 DEF TracedUpTo

LEMMA SwitchLineIs ==
  ASSUME NEW acc, acc = [tasks |-> acc.tasks, cur |-> acc.cur, since |-> acc.since,
                         irqs |-> acc.irqs, open |-> acc.open],
         NEW e, e.ev = "switch"
  PROVE  TraceLine(acc, e) =
           [tasks |-> Append(acc.tasks,
                             IF acc.cur = {} THEN Interval(e.t, e.t, e.prev)
                             ELSE Interval(acc.since, e.t, CHOOSE c \in acc.cur : TRUE)),
            cur |-> {e.next}, since |-> e.t, irqs |-> acc.irqs, open |-> acc.open]
<1>1. PICK ts, cur, since, irqs, open :
        /\ ts = acc.tasks /\ cur = acc.cur /\ since = acc.since /\ irqs = acc.irqs
        /\ open = acc.open
  OBVIOUS
<1>2. acc = [tasks |-> ts, cur |-> cur, since |-> since, irqs |-> irqs, open |-> open]
  BY <1>1
<1>3. TraceLine(acc, e) = SwitchLine(acc, e)
  BY DEF TraceLine
<1>4. PICK iv : iv = IF cur = {} THEN Interval(e.t, e.t, e.prev)
                     ELSE Interval(since, e.t, CHOOSE c \in cur : TRUE)
  OBVIOUS
<1>5. PICK x, t, list : x = {e.next} /\ t = e.t /\ list = Append(ts, iv)
  OBVIOUS
<1>6. SwitchLine(acc, e) = [acc EXCEPT !.tasks = list, !.cur = x, !.since = t]
  BY <1>1, <1>4, <1>5 DEF SwitchLine
<1>7. [acc EXCEPT !.tasks = list, !.cur = x, !.since = t] =
        [tasks |-> list, cur |-> x, since |-> t, irqs |-> irqs, open |-> open]
  <2>1. PICK m, o : m = [acc EXCEPT !.tasks = list] /\ o = [m EXCEPT !.cur = x]
    OBVIOUS
  <2>2. m = [tasks |-> list, cur |-> cur, since |-> since, irqs |-> irqs, open |-> open]
    BY <1>2, <2>1
  <2>3. o = [tasks |-> list, cur |-> x, since |-> since, irqs |-> irqs, open |-> open]
    <3>1. [m EXCEPT !.cur = x] =
            [tasks |-> list, cur |-> x, since |-> since, irqs |-> irqs, open |-> open]
      BY <2>2
    <3> QED BY <2>1, <3>1
  <2>4. [o EXCEPT !.since = t] =
          [tasks |-> list, cur |-> x, since |-> t, irqs |-> irqs, open |-> open]
    BY <2>3
  <2> QED BY <2>1, <2>4
<1> QED BY <1>1, <1>3, <1>4, <1>5, <1>6, <1>7

LEMMA EntryLineIs ==
  ASSUME NEW acc, acc = [tasks |-> acc.tasks, cur |-> acc.cur, since |-> acc.since,
                         irqs |-> acc.irqs, open |-> acc.open],
         NEW e, e.ev = "entry"
  PROVE  TraceLine(acc, e) =
           [tasks |-> acc.tasks, cur |-> acc.cur, since |-> acc.since, irqs |-> acc.irqs,
            open |-> [k \in DOMAIN acc.open \union {e.irq} |->
                        IF k = e.irq THEN e.t ELSE acc.open[k]]]
<1>1. PICK ts, cur, since, irqs, open :
        /\ ts = acc.tasks /\ cur = acc.cur /\ since = acc.since /\ irqs = acc.irqs
        /\ open = acc.open
  OBVIOUS
<1>2. acc = [tasks |-> ts, cur |-> cur, since |-> since, irqs |-> irqs, open |-> open]
  BY <1>1
<1>3. TraceLine(acc, e) = EntryLine(acc, e)
  BY DEF TraceLine
<1>4. PICK o : o = [k \in DOMAIN open \union {e.irq} |-> IF k = e.irq THEN e.t ELSE open[k]]
  OBVIOUS
<1>5. EntryLine(acc, e) = [acc EXCEPT !.open = o]
  BY <1>1, <1>4 DEF EntryLine
<1>6. [acc EXCEPT !.open = o] =
        [tasks |-> ts, cur |-> cur, since |-> since, irqs |-> irqs, open |-> o]
  BY <1>2
<1> QED BY <1>1, <1>3, <1>4, <1>5, <1>6

LEMMA ExitLineIs ==
  ASSUME NEW acc, acc = [tasks |-> acc.tasks, cur |-> acc.cur, since |-> acc.since,
                         irqs |-> acc.irqs, open |-> acc.open],
         NEW e, e.ev = "exit"
  PROVE  TraceLine(acc, e) =
           IF e.irq \in DOMAIN acc.open
           THEN [tasks |-> acc.tasks, cur |-> acc.cur, since |-> acc.since,
                 irqs |-> Append(acc.irqs, Interval(acc.open[e.irq], e.t, e.irq)),
                 open |-> [k \in DOMAIN acc.open \ {e.irq} |-> acc.open[k]]]
           ELSE acc
<1>1. PICK ts, cur, since, irqs, open :
        /\ ts = acc.tasks /\ cur = acc.cur /\ since = acc.since /\ irqs = acc.irqs
        /\ open = acc.open
  OBVIOUS
<1>2. acc = [tasks |-> ts, cur |-> cur, since |-> since, irqs |-> irqs, open |-> open]
  BY <1>1
<1>3. TraceLine(acc, e) = IF e.irq \in DOMAIN open THEN ExitLine(acc, e) ELSE acc
  BY <1>1 DEF TraceLine
<1>4. PICK o, is : /\ o = [k \in DOMAIN open \ {e.irq} |-> open[k]]
                   /\ is = Append(irqs, Interval(open[e.irq], e.t, e.irq))
  OBVIOUS
<1>5. ExitLine(acc, e) = [acc EXCEPT !.irqs = is, !.open = o]
  BY <1>1, <1>4 DEF ExitLine
<1>6. [acc EXCEPT !.irqs = is, !.open = o] =
        [tasks |-> ts, cur |-> cur, since |-> since, irqs |-> is, open |-> o]
  <2>1. PICK m : m = [acc EXCEPT !.irqs = is]
    OBVIOUS
  <2>2. m = [tasks |-> ts, cur |-> cur, since |-> since, irqs |-> is, open |-> open]
    BY <1>2, <2>1
  <2>3. [m EXCEPT !.open = o] =
          [tasks |-> ts, cur |-> cur, since |-> since, irqs |-> is, open |-> o]
    BY <2>2
  <2> QED BY <2>1, <2>3
<1> QED BY <1>1, <1>3, <1>4, <1>5, <1>6

-----------------------------------------------------------------------------
(* What load_cpu0 has read of the trace so far.                            *)

EntryOf(e, kind) == e.ev = "entry" /\ e.irq = kind
ExitOf(e, kind)  == e.ev = "exit" /\ e.irq = kind

TraceTypes ==
  /\ clock \in 0 .. Ticks /\ onCpu \in Tasks /\ inIrq \in SUBSET Kinds
  /\ nested \in BOOLEAN /\ ended \in BOOLEAN /\ (ended => clock = Ticks)
  /\ ran \in Seq(Tasks) /\ Len(ran) = clock
  /\ took \in Seq(SUBSET Kinds) /\ Len(took) = clock
  /\ trace \in Seq(TraceEvents) /\ Len(trace) <= MaxEvents
  /\ \A i \in 1 .. Len(trace) : trace[i].t <= clock

Shaped(acc) == acc = [tasks |-> acc.tasks, cur |-> acc.cur, since |-> acc.since,
                      irqs |-> acc.irqs, open |-> acc.open]

\* The intervals of tasks: end to end, and each of the task that ran.
TaskIvs(ivs) ==
  /\ ivs \in Seq(Ivs(Tasks)) /\ InSuccession(ivs)
  /\ \A i \in 1 .. Len(ivs) - 1 : ivs[i].to = ivs[i + 1].from
  /\ \A i \in 1 .. Len(ivs) :
       ivs[i].to <= clock /\ \A x \in 1 .. clock : InIv(ivs, i, x) => ran[x] = ivs[i].key

\* Since the last switch the task it began has run.
SinceSwitch(acc) ==
  IF acc.cur = {} THEN acc.tasks = <<>>
  ELSE /\ acc.cur = {onCpu} /\ acc.tasks # <<>> /\ acc.since = acc.tasks[Len(acc.tasks)].to
       /\ \A x \in 1 .. clock : acc.since < x => ran[x] = onCpu

TasksRead(acc) == TaskIvs(acc.tasks) /\ SinceSwitch(acc)

\* What is open is being handled, and was since.
OpenTaken(acc) ==
  /\ DOMAIN acc.open \subseteq inIrq
  /\ \A k \in DOMAIN acc.open :
       /\ acc.open[k] \in Nat /\ acc.open[k] <= clock
       /\ \A x \in 1 .. clock : acc.open[k] < x => k \in took[x]

\* Each interval of an interrupt is of one that was handled then.
IrqsTaken(acc) ==
  /\ acc.irqs \in Seq(Ivs(Kinds))
  /\ \A i \in 1 .. Len(acc.irqs) :
       /\ acc.irqs[i].from <= acc.irqs[i].to /\ acc.irqs[i].to <= clock
       /\ \A x \in 1 .. clock : InIv(acc.irqs, i, x) => acc.irqs[i].key \in took[x]

\* As long as none came during another, they come one after the other.
Unnested(acc) ==
  ~nested =>
    /\ \A k, l \in inIrq : k = l
    /\ \A k \in DOMAIN acc.open : \A i \in 1 .. Len(acc.irqs) : acc.irqs[i].to <= acc.open[k]
    /\ InSuccession(acc.irqs)

NoneBefore(kind, x) == \A i \in 1 .. Len(trace) : EntryOf(trace[i], kind) => x <= trace[i].t
StillOpen(acc, kind, x) == kind \in DOMAIN acc.open /\ acc.open[kind] < x
InIrqOf(acc, kind, x) ==
  \E i \in 1 .. Len(acc.irqs) : acc.irqs[i].key = kind /\ InIv(acc.irqs, i, x)

\* A tick taken by an interrupt is in an interval, or in what is open, or the entry is missing.
TakenFound(acc) ==
  \A kind \in Kinds : \A x \in 1 .. clock :
    kind \in took[x] => NoneBefore(kind, x) \/ StillOpen(acc, kind, x) \/ InIrqOf(acc, kind, x)

OpenOrMissing(acc) ==
  \A k \in inIrq : k \in DOMAIN acc.open \/ \A i \in 1 .. Len(trace) : ~EntryOf(trace[i], k)

ExitsAreBefore(acc) ==
  \A k \in DOMAIN acc.open : \A j \in 1 .. Len(trace) :
    ExitOf(trace[j], k) => trace[j].t <= acc.open[k]

IrqsRead(acc) ==
  /\ OpenTaken(acc) /\ IrqsTaken(acc) /\ Unnested(acc) /\ TakenFound(acc)
  /\ OpenOrMissing(acc) /\ ExitsAreBefore(acc)

TraceInv ==
  TraceTypes /\ \E acc : acc = TraceRead(trace) /\ Shaped(acc) /\ TasksRead(acc) /\ IrqsRead(acc)

LEMMA TraceNumbers ==
  /\ Ticks \in Nat /\ MaxEvents \in Nat /\ FramePeriod \in Nat
  /\ MinOthers \in Nat /\ MinIrq \in Nat
  /\ "main" \in Tasks /\ "idle" \in Tasks /\ IsFiniteSet(Tasks)
BY TraceAssumption

LEMMA Appended ==
  ASSUME NEW S, NEW s \in Seq(S), NEW e \in S
  PROVE  /\ Append(s, e) \in Seq(S) /\ Len(Append(s, e)) = Len(s) + 1
         /\ \A i \in 1 .. Len(s) : Append(s, e)[i] = s[i]
         /\ Append(s, e)[Len(s) + 1] = e
OBVIOUS

\* One more line of the trace.
LEMMA LineWritten ==
  ASSUME TraceTypes, NEW e \in TraceEvents, e.t = clock, Recording, Log(e), clock' = clock
  PROVE  /\ trace' \in Seq(TraceEvents) /\ Len(trace') = Len(trace) + 1
         /\ Len(trace') <= MaxEvents
         /\ \A i \in 1 .. Len(trace) : trace'[i] = trace[i]
         /\ trace'[Len(trace) + 1] = e
         /\ \A i \in 1 .. Len(trace') : trace'[i].t <= clock'
         /\ TraceRead(trace') = TraceLine(TraceRead(trace), e)
<1>1. PICK after : after = trace'
  OBVIOUS
<1>2. PICK n \in Nat : n = Len(trace)
  BY DEF TraceTypes
<1>3. after = Append(trace, e) /\ trace \in Seq(TraceEvents)
  BY <1>1 DEF Log, TraceTypes
<1>4. /\ after \in Seq(TraceEvents) /\ Len(after) = n + 1
      /\ \A i \in 1 .. n : after[i] = trace[i]
      /\ after[n + 1] = e
  BY <1>2, <1>3, Appended
<1>5. Len(after) <= MaxEvents
  BY <1>2, <1>4, TraceNumbers DEF Recording
<1>6. ASSUME NEW i \in 1 .. n + 1 PROVE after[i].t <= clock
  <2>1. CASE i = n + 1
    BY <1>4, <2>1 DEF TraceTypes
  <2>2. CASE i # n + 1
    <3>1. i \in 1 .. n
      BY <2>2
    <3> QED BY <1>2, <1>4, <3>1 DEF TraceTypes
  <2> QED BY <2>1, <2>2
<1>7. TraceRead(after) = TraceLine(TraceRead(trace), e)
  BY <1>2, <1>3, <1>4, TraceOneMore
<1> QED BY <1>1, <1>2, <1>4, <1>5, <1>6, <1>7

LEMMA EventsAre ==
  ASSUME TraceTypes
  PROVE  /\ \A nx \in Tasks :
              /\ [t |-> clock, ev |-> "switch", prev |-> onCpu, next |-> nx] \in TraceEvents
         /\ \A k \in Kinds :
              /\ [t |-> clock, ev |-> "entry", irq |-> k] \in TraceEvents
              /\ [t |-> clock, ev |-> "exit", irq |-> k] \in TraceEvents
<1>1. clock \in Nat /\ onCpu \in Tasks
  BY TraceNumbers DEF TraceTypes
<1> QED BY <1>1 DEF TraceEvents, SwitchEvents, IrqEvents

LEMMA TraceTypesStart == TraceInit => TraceTypes
<1> SUFFICES ASSUME TraceInit PROVE TraceTypes
  OBVIOUS
<1>1. clock = 0 /\ onCpu = "main" /\ nested = FALSE /\ ended = FALSE
  BY DEF TraceInit
<1>2. ran = <<>> /\ took = <<>> /\ trace = <<>>
  BY DEF TraceInit
<1>3. inIrq \in SUBSET Kinds
  BY DEF TraceInit, Kinds
<1>4. clock \in 0 .. Ticks /\ onCpu \in Tasks
  BY <1>1, TraceNumbers
<1>5. Len(trace) <= MaxEvents /\ trace \in Seq(TraceEvents) /\ Len(trace) = 0
  BY <1>2, TraceNumbers
<1>6. ran \in Seq(Tasks) /\ Len(ran) = clock /\ took \in Seq(SUBSET Kinds) /\ Len(took) = clock
  BY <1>1, <1>2
<1>7. \A i \in 1 .. Len(trace) : trace[i].t <= clock
  BY <1>5
<1>8. nested \in BOOLEAN /\ ended \in BOOLEAN /\ ~ended
  BY <1>1
<1> QED BY <1>3, <1>4, <1>5, <1>6, <1>7, <1>8 DEF TraceTypes

LEMMA TraceTypesKept == TraceTypes /\ [TraceNext]_traceVars => TraceTypes'
<1> SUFFICES ASSUME TraceTypes, [TraceNext]_traceVars PROVE TraceTypes'
  OBVIOUS
<1>1. CASE Switch
  <2>1. PICK nx \in Tasks :
          /\ Log([t |-> clock, ev |-> "switch", prev |-> onCpu, next |-> nx]) /\ onCpu' = nx
    BY <1>1 DEF Switch
  <2>2. Recording /\ ~ended /\ UNCHANGED <<clock, inIrq, nested, ran, took, ended>>
    BY <1>1 DEF Switch, Recording
  <2>3. PICK e \in TraceEvents : e = [t |-> clock, ev |-> "switch", prev |-> onCpu, next |-> nx]
    BY EventsAre
  <2>4. e.t = clock
    BY <2>3
  <2>5. /\ trace' \in Seq(TraceEvents) /\ Len(trace') <= MaxEvents
        /\ \A i \in 1 .. Len(trace') : trace'[i].t <= clock'
    BY <2>1, <2>2, <2>3, <2>4, LineWritten
  <2> QED BY <2>1, <2>2, <2>5 DEF TraceTypes
<1>2. ASSUME NEW kind \in Kinds, Enter(kind) PROVE TraceTypes'
  <2>1. /\ Recording /\ ~ended /\ Log([t |-> clock, ev |-> "entry", irq |-> kind])
        /\ inIrq' = inIrq \union {kind} /\ nested' = (nested \/ inIrq # {})
        /\ UNCHANGED <<clock, onCpu, ran, took, ended>>
    BY <1>2 DEF Enter, Recording
  <2>3. PICK e \in TraceEvents : e = [t |-> clock, ev |-> "entry", irq |-> kind]
    BY EventsAre
  <2>4. e.t = clock
    BY <2>3
  <2>5. /\ trace' \in Seq(TraceEvents) /\ Len(trace') <= MaxEvents
        /\ \A i \in 1 .. Len(trace') : trace'[i].t <= clock'
    BY <2>1, <2>3, <2>4, LineWritten
  <2>6. nested' \in BOOLEAN /\ inIrq' \in SUBSET Kinds
    BY <2>1 DEF TraceTypes
  <2> QED BY <2>1, <2>5, <2>6 DEF TraceTypes
<1>3. ASSUME NEW kind \in Kinds, Leave(kind) PROVE TraceTypes'
  <2>1. /\ Recording /\ ~ended /\ Log([t |-> clock, ev |-> "exit", irq |-> kind])
        /\ inIrq' = inIrq \ {kind} /\ UNCHANGED <<clock, onCpu, nested, ran, took, ended>>
    BY <1>3 DEF Leave, Recording
  <2>3. PICK e \in TraceEvents : e = [t |-> clock, ev |-> "exit", irq |-> kind]
    BY EventsAre
  <2>4. e.t = clock
    BY <2>3
  <2>5. /\ trace' \in Seq(TraceEvents) /\ Len(trace') <= MaxEvents
        /\ \A i \in 1 .. Len(trace') : trace'[i].t <= clock'
    BY <2>1, <2>3, <2>4, LineWritten
  <2>6. inIrq' \in SUBSET Kinds
    BY <2>1 DEF TraceTypes
  <2> QED BY <2>1, <2>5, <2>6 DEF TraceTypes
<1>4. CASE TraceTick
  <2>1. /\ ~ended /\ clock < Ticks /\ clock' = clock + 1
        /\ ran' = Append(ran, onCpu) /\ took' = Append(took, inIrq)
        /\ UNCHANGED <<onCpu, inIrq, nested, trace, ended>>
    BY <1>4 DEF TraceTick
  <2>2. clock' \in 0 .. Ticks /\ clock \in Nat
    BY <2>1, TraceNumbers DEF TraceTypes
  <2>3. ran' \in Seq(Tasks) /\ Len(ran') = clock'
    BY <2>1, Appended DEF TraceTypes
  <2>4. took' \in Seq(SUBSET Kinds) /\ Len(took') = clock'
    BY <2>1, Appended DEF TraceTypes
  <2>5. \A i \in 1 .. Len(trace) : trace[i].t <= clock'
    <3>1. ASSUME NEW i \in 1 .. Len(trace) PROVE trace[i].t <= clock + 1
      <4>1. trace[i] \in TraceEvents /\ trace[i].t <= clock
        BY DEF TraceTypes
      <4>2. trace[i].t \in Nat
        BY <4>1 DEF TraceEvents, SwitchEvents, IrqEvents
      <4> QED BY <2>2, <4>1, <4>2
    <3> QED BY <2>1, <3>1
  <2> QED BY <2>1, <2>2, <2>3, <2>4, <2>5 DEF TraceTypes
<1>5. CASE TraceEnds
  BY <1>5 DEF TraceEnds, TraceTypes
<1>6. CASE UNCHANGED traceVars
  BY <1>6 DEF traceVars, TraceTypes
<1> QED BY <1>1, <1>2, <1>3, <1>4, <1>5, <1>6 DEF TraceNext, Kinds

\* Where a list longer by e has what.
LEMMA LongerAt ==
  ASSUME NEW S, NEW s \in Seq(S), NEW e \in S, NEW r, r = Append(s, e)
  PROVE  /\ r \in Seq(S) /\ Len(r) = Len(s) + 1 /\ r # <<>> /\ r[Len(r)] = e
         /\ \A i \in 1 .. Len(r) : (i \in 1 .. Len(s) /\ r[i] = s[i]) \/ (i = Len(s) + 1 /\ r[i] = e)
         /\ \A i \in 1 .. Len(s) : i \in 1 .. Len(r) /\ r[i] = s[i]
         /\ Len(r) \in 1 .. Len(r)
<1>1. Len(s) \in Nat /\ Len(r) = Len(s) + 1
  OBVIOUS
<1> QED BY <1>1

\* An interval after all others.
LEMMA InOrderLonger ==
  ASSUME NEW K, NEW s \in Seq(Ivs(K)), InSuccession(s), NEW e \in Ivs(K), NEW r, r = Append(s, e),
         e.from <= e.to, \A i \in 1 .. Len(s) : s[i].to <= e.from
  PROVE  InSuccession(r)
<1>1. PICK n \in Nat : n = Len(s) /\ Len(r) = n + 1
  BY LongerAt
<1>2. \A i \in 1 .. n + 1 : (i \in 1 .. n /\ r[i] = s[i]) \/ (i = n + 1 /\ r[i] = e)
  BY <1>1, LongerAt
<1>3. \A i \in 1 .. n + 1 : r[i].from <= r[i].to
  BY <1>1, <1>2 DEF InSuccession
<1>4. ASSUME NEW i \in 1 .. n + 1, NEW j \in 1 .. n + 1, i < j PROVE r[i].to <= r[j].from
  <2>0. i \in 1 .. n /\ i # n + 1
    BY <1>4
  <2>1. i \in 1 .. n /\ r[i] = s[i]
    BY <1>2, <2>0
  <2>2. (j \in 1 .. n /\ r[j] = s[j]) \/ r[j] = e
    BY <1>2
  <2> QED BY <1>1, <1>4, <2>1, <2>2 DEF InSuccession
<1> QED BY <1>1, <1>3, <1>4 DEF InSuccession

LEMMA TasksAtSwitch ==
  ASSUME TraceTypes, NEW acc, TasksRead(acc), NEW nx \in Tasks, onCpu' = nx,
         UNCHANGED <<clock, ran>>, NEW after,
         after.tasks = Append(acc.tasks, IF acc.cur = {} THEN Interval(clock, clock, onCpu)
                              ELSE Interval(acc.since, clock, CHOOSE c \in acc.cur : TRUE)),
         after.cur = {nx}, after.since = clock
  PROVE  TasksRead(after)'
<1>1. PICK s, r, n : s = acc.tasks /\ r = after.tasks /\ n = Len(s)
  OBVIOUS
<1>2. s \in Seq(Ivs(Tasks)) /\ InSuccession(s) /\ n \in Nat /\ clock \in Nat /\ onCpu \in Tasks
  BY <1>1, TraceNumbers DEF TasksRead, TaskIvs, TraceTypes
<1>3. /\ \A i \in 1 .. n - 1 : s[i].to = s[i + 1].from
      /\ \A i \in 1 .. n : s[i].to <= clock
      /\ \A i \in 1 .. n : \A x \in 1 .. clock : InIv(s, i, x) => ran[x] = s[i].key
  BY <1>1 DEF TasksRead, TaskIvs
<1>4. \A i \in 1 .. n : s[i].from \in Nat /\ s[i].to \in Nat
  BY <1>1, <1>2, IvAt
<1>5. PICK from \in Nat : /\ after.tasks = Append(s, Interval(from, clock, onCpu)) /\ from <= clock
                          /\ \A i \in 1 .. n : s[i].to <= from
                          /\ n # 0 => from = s[n].to
                          /\ \A x \in 1 .. clock : from < x => ran[x] = onCpu
  <2>1. CASE acc.cur = {}
    <3>1. n = 0
      BY <1>1, <2>1 DEF TasksRead, SinceSwitch
    <3> QED BY <1>1, <1>2, <2>1, <3>1
  <2>2. CASE acc.cur # {}
    <3>1. acc.cur = {onCpu} /\ s # <<>> /\ acc.since = s[n].to
      BY <1>1, <2>2 DEF TasksRead, SinceSwitch
    <3>2. \A x \in 1 .. clock : acc.since < x => ran[x] = onCpu
      BY <2>2 DEF TasksRead, SinceSwitch
    <3>3. (CHOOSE c \in acc.cur : TRUE) = onCpu
      BY <3>1
    <3>4. n \in 1 .. n /\ n # 0
      BY <1>1, <1>2, <3>1
    <3>5. \A i \in 1 .. n : s[i].to <= s[n].to
      <4>1. ASSUME NEW i \in 1 .. n, i # n PROVE s[i].to <= s[n].to
        <5>1. s[i].to <= s[n].from /\ s[n].from <= s[n].to
          BY <1>1, <1>2, <3>4, <4>1 DEF InSuccession
        <5> QED BY <1>4, <3>4, <5>1
      <4> QED BY <1>4, <4>1
    <3>6. after.tasks = Append(s, Interval(acc.since, clock, onCpu))
      BY <1>1, <2>2, <3>3
    <3> QED BY <1>3, <1>4, <3>1, <3>2, <3>4, <3>5, <3>6
  <2> QED BY <2>1, <2>2
<1>6. PICK iv : /\ iv = Interval(from, clock, onCpu)
                /\ iv \in Ivs(Tasks) /\ iv.from = from /\ iv.to = clock /\ iv.key = onCpu
  <2>1. Interval(from, clock, onCpu) \in Ivs(Tasks)
    BY <1>2 DEF Interval, Ivs
  <2> QED BY <2>1 DEF Interval
<1>7. r = Append(s, iv)
  BY <1>1, <1>5, <1>6
<1>8. r \in Seq(Ivs(Tasks)) /\ Len(r) = n + 1 /\ r # <<>> /\ r[Len(r)] = iv
  BY <1>1, <1>2, <1>6, <1>7, LongerAt
<1>9. \A i \in 1 .. n + 1 : (i \in 1 .. n /\ r[i] = s[i]) \/ (i = n + 1 /\ r[i] = iv)
  BY <1>1, <1>2, <1>6, <1>7, <1>8, LongerAt
<1>10. InSuccession(r)
  <2>1. iv.from <= iv.to /\ \A i \in 1 .. Len(s) : s[i].to <= iv.from
    BY <1>1, <1>5, <1>6
  <2> QED BY <1>2, <1>6, <1>7, <2>1, InOrderLonger
<1>11. ASSUME NEW i \in 1 .. n PROVE r[i].to = r[i + 1].from
  <2>1. r[i] = s[i] /\ i + 1 \in 1 .. n + 1
    BY <1>2, <1>9
  <2>2. CASE i = n
    <3>1. r[i + 1] = iv
      BY <1>2, <1>9, <2>1, <2>2
    <3> QED BY <1>5, <1>6, <2>1, <2>2, <3>1
  <2>3. CASE i # n
    <3>1. i \in 1 .. n - 1 /\ i + 1 \in 1 .. n
      BY <1>2, <2>3
    <3>2. r[i + 1] = s[i + 1]
      BY <1>2, <1>9, <3>1
    <3> QED BY <1>3, <2>1, <3>1, <3>2
  <2> QED BY <2>2, <2>3
<1>12. ASSUME NEW i \in 1 .. n + 1
       PROVE  r[i].to <= clock /\ \A x \in 1 .. clock : InIv(r, i, x) => ran[x] = r[i].key
  <2>1. CASE i \in 1 .. n /\ r[i] = s[i]
    BY <1>3, <2>1 DEF InIv
  <2>2. CASE r[i] = iv
    BY <1>2, <1>5, <1>6, <2>2 DEF InIv
  <2> QED BY <1>9, <2>1, <2>2
<1>13. TaskIvs(r)'
  <2>1. r \in Seq(Ivs(Tasks)) /\ InSuccession(r) /\ \A i \in 1 .. Len(r) - 1 : r[i].to = r[i + 1].from
    BY <1>2, <1>8, <1>10, <1>11
  <2>2. \A i \in 1 .. Len(r) :
          r[i].to <= clock' /\ \A x \in 1 .. clock' : InIv(r, i, x) => ran'[x] = r[i].key
    BY <1>8, <1>12
  <2> QED BY <2>1, <2>2 DEF TaskIvs
<1>14. SinceSwitch(after)'
  <2>1. after.since = r[Len(r)].to /\ after.cur = {onCpu'} /\ after.cur # {}
    BY <1>6, <1>8
  <2>2. \A x \in 1 .. clock' : ~(after.since < x)
    BY <1>2
  <2> QED BY <1>1, <1>8, <2>1, <2>2 DEF SinceSwitch
<1> QED BY <1>1, <1>13, <1>14 DEF TasksRead

LEMMA TasksStay ==
  ASSUME NEW acc, TasksRead(acc), UNCHANGED <<clock, onCpu, ran>>, NEW after,
         after.tasks = acc.tasks, after.cur = acc.cur, after.since = acc.since
  PROVE  TasksRead(after)'
<1>1. TaskIvs(after.tasks)'
  BY DEF TasksRead, TaskIvs
<1>2. SinceSwitch(after)'
  BY DEF TasksRead, SinceSwitch
<1> QED BY <1>1, <1>2 DEF TasksRead

LEMMA TasksAtTick ==
  ASSUME TraceTypes, NEW acc, TasksRead(acc), clock' = clock + 1, onCpu' = onCpu,
         ran' = Append(ran, onCpu)
  PROVE  TasksRead(acc)'
<1>1. PICK s : s = acc.tasks
  OBVIOUS
<1>2. clock \in Nat /\ ran \in Seq(Tasks) /\ Len(ran) = clock /\ onCpu \in Tasks
  BY TraceNumbers DEF TraceTypes
<1>3. /\ \A x \in 1 .. clock' : (x \in 1 .. clock /\ ran'[x] = ran[x])
                                \/ (x = clock + 1 /\ ran'[x] = onCpu)
  BY <1>2, LongerAt
<1>4. s \in Seq(Ivs(Tasks)) /\ InSuccession(s) /\ \A i \in 1 .. Len(s) - 1 : s[i].to = s[i + 1].from
  BY <1>1 DEF TasksRead, TaskIvs
<1>5. /\ \A i \in 1 .. Len(s) : s[i].to <= clock
      /\ \A i \in 1 .. Len(s) : \A x \in 1 .. clock : InIv(s, i, x) => ran[x] = s[i].key
  BY <1>1 DEF TasksRead, TaskIvs
<1>6. ASSUME NEW i \in 1 .. Len(s)
      PROVE  /\ s[i].to <= clock'
             /\ \A x \in 1 .. clock' : InIv(s, i, x) => ran'[x] = s[i].key
  <2>1. s[i].to \in Nat /\ s[i].to <= clock
    BY <1>4, <1>5, IvAt
  <2>2. \A x \in 1 .. clock' : InIv(s, i, x) => x \in 1 .. clock /\ ran'[x] = ran[x]
    BY <1>2, <1>3, <2>1 DEF InIv
  <2> QED BY <1>2, <1>5, <2>1, <2>2
<1>7. TaskIvs(acc.tasks)'
  BY <1>1, <1>4, <1>6 DEF TaskIvs
<1>8. SinceSwitch(acc)'
  <2>1. CASE acc.cur = {}
    BY <2>1 DEF TasksRead, SinceSwitch
  <2>2. CASE acc.cur # {}
    <3>1. /\ acc.cur = {onCpu} /\ acc.tasks # <<>> /\ acc.since = acc.tasks[Len(acc.tasks)].to
          /\ \A x \in 1 .. clock : acc.since < x => ran[x] = onCpu
      BY <2>2 DEF TasksRead, SinceSwitch
    <3>2. \A x \in 1 .. clock' : acc.since < x => ran'[x] = onCpu
      BY <1>3, <3>1
    <3> QED BY <2>2, <3>1, <3>2 DEF SinceSwitch
  <2> QED BY <2>1, <2>2
<1> QED BY <1>7, <1>8 DEF TasksRead

\* A line that is a switch, or no line, changes nothing the interrupts are read from.
LEMMA IrqsStay ==
  ASSUME NEW acc, IrqsRead(acc), UNCHANGED <<clock, inIrq, nested, took>>, NEW after,
         after.irqs = acc.irqs, after.open = acc.open,
         \A i \in 1 .. Len(trace') :
           (i \in 1 .. Len(trace) /\ trace'[i] = trace[i]) \/ trace'[i].ev = "switch"
  PROVE  IrqsRead(after)'
<1>1. PICK irqs, open : irqs = acc.irqs /\ open = acc.open
  OBVIOUS
<1>2. \A i \in 1 .. Len(trace') : \A k \in Kinds :
        EntryOf(trace'[i], k) \/ ExitOf(trace'[i], k) =>
          i \in 1 .. Len(trace) /\ trace'[i] = trace[i]
  BY DEF EntryOf, ExitOf
<1>3. OpenTaken(after)'
  BY DEF IrqsRead, OpenTaken
<1>4. IrqsTaken(after)'
  BY DEF IrqsRead, IrqsTaken
<1>5. Unnested(after)'
  BY DEF IrqsRead, Unnested
<1>6. TakenFound(after)'
  <2>1. ASSUME NEW k \in Kinds, NEW x \in 1 .. clock, k \in took[x]
        PROVE  NoneBefore(k, x)' \/ StillOpen(after, k, x)' \/ InIrqOf(after, k, x)'
    <3>1. NoneBefore(k, x) \/ StillOpen(acc, k, x) \/ InIrqOf(acc, k, x)
      BY <2>1 DEF IrqsRead, TakenFound
    <3>2. NoneBefore(k, x) => NoneBefore(k, x)'
      BY <1>2 DEF NoneBefore
    <3>3. StillOpen(acc, k, x) => StillOpen(after, k, x)
      BY DEF StillOpen
    <3>4. InIrqOf(acc, k, x) => InIrqOf(after, k, x)
      BY DEF InIrqOf
    <3> QED BY <3>1, <3>2, <3>3, <3>4
  <2> QED BY <2>1 DEF TakenFound
<1>7. OpenOrMissing(after)'
  <2>1. ASSUME NEW k \in inIrq, k \notin DOMAIN open, NEW i \in 1 .. Len(trace')
        PROVE  ~EntryOf(trace'[i], k)
    <3>1. \A j \in 1 .. Len(trace) : ~EntryOf(trace[j], k)
      BY <1>1, <2>1 DEF IrqsRead, OpenOrMissing
    <3>2. (i \in 1 .. Len(trace) /\ trace'[i] = trace[i]) \/ trace'[i].ev = "switch"
      OBVIOUS
    <3> QED BY <3>1, <3>2 DEF EntryOf
  <2> QED BY <1>1, <2>1 DEF OpenOrMissing
<1>8. ExitsAreBefore(after)'
  <2>1. ASSUME NEW k \in DOMAIN open, NEW i \in 1 .. Len(trace'), ExitOf(trace'[i], k)
        PROVE  trace'[i].t <= open[k]
    <3>1. i \in 1 .. Len(trace) /\ trace'[i] = trace[i]
      BY <2>1 DEF ExitOf
    <3> QED BY <1>1, <2>1, <3>1 DEF IrqsRead, ExitsAreBefore
  <2> QED BY <1>1, <2>1 DEF ExitsAreBefore
<1> QED BY <1>3, <1>4, <1>5, <1>6, <1>7, <1>8 DEF IrqsRead

LEMMA IrqsAtEntry ==
  ASSUME TraceTypes, NEW acc, IrqsRead(acc), NEW kind \in Kinds, kind \notin inIrq,
         inIrq' = inIrq \union {kind}, nested' = (nested \/ inIrq # {}),
         UNCHANGED <<clock, took>>, NEW after, after.irqs = acc.irqs,
         after.open = [k \in DOMAIN acc.open \union {kind} |->
                         IF k = kind THEN clock ELSE acc.open[k]],
         NEW e, EntryOf(e, kind), e.t = clock,
         \A i \in 1 .. Len(trace') :
           (i \in 1 .. Len(trace) /\ trace'[i] = trace[i]) \/ trace'[i] = e,
         \A i \in 1 .. Len(trace') : trace'[i].t <= clock
  PROVE  IrqsRead(after)'
<1>1. PICK irqs, open, new : irqs = acc.irqs /\ open = acc.open /\ new = after.open
  OBVIOUS
<1>2. clock \in Nat
  BY TraceNumbers DEF TraceTypes
<1>3. /\ DOMAIN new = DOMAIN open \union {kind} /\ new[kind] = clock
      /\ \A k \in DOMAIN open : k # kind => new[k] = open[k]
  BY <1>1
<1>4. /\ DOMAIN open \subseteq inIrq
      /\ \A k \in DOMAIN open :
           /\ open[k] \in Nat /\ open[k] <= clock
           /\ \A x \in 1 .. clock : open[k] < x => k \in took[x]
  BY <1>1 DEF IrqsRead, OpenTaken
<1>5. kind \notin DOMAIN open
  BY <1>4
<1>6. OpenTaken(after)'
  <2>1. ASSUME NEW k \in DOMAIN new
        PROVE  /\ new[k] \in Nat /\ new[k] <= clock
               /\ \A x \in 1 .. clock : new[k] < x => k \in took[x]
    <3>1. CASE k = kind
      BY <1>2, <1>3, <3>1
    <3>2. CASE k # kind
      BY <1>3, <1>4, <3>2
    <3> QED BY <3>1, <3>2
  <2>2. DOMAIN new \subseteq inIrq'
    BY <1>3, <1>4
  <2> QED BY <1>1, <2>1, <2>2 DEF OpenTaken
<1>7. IrqsTaken(after)'
  BY DEF IrqsRead, IrqsTaken
<1>8. Unnested(after)'
  <2> SUFFICES ASSUME ~nested' PROVE Unnested(after)'
    BY DEF Unnested
  <2>1. ~nested /\ inIrq = {} /\ inIrq' = {kind} /\ DOMAIN new = {kind}
    BY <1>3, <1>4
  <2>2. InSuccession(irqs)
    BY <1>1, <2>1 DEF IrqsRead, Unnested
  <2>3. \A i \in 1 .. Len(irqs) : irqs[i].to <= clock
    BY <1>1 DEF IrqsRead, IrqsTaken
  <2>4. \A k \in DOMAIN new : \A i \in 1 .. Len(irqs) : irqs[i].to <= new[k]
    BY <1>3, <2>1, <2>3
  <2>5. \A k, l \in inIrq' : k = l
    BY <2>1
  <2> QED BY <1>1, <2>2, <2>4, <2>5 DEF Unnested
<1>9. TakenFound(after)'
  <2>1. ASSUME NEW k \in Kinds, NEW x \in 1 .. clock, k \in took[x]
        PROVE  NoneBefore(k, x)' \/ StillOpen(after, k, x)' \/ InIrqOf(after, k, x)'
    <3>1. NoneBefore(k, x) \/ StillOpen(acc, k, x) \/ InIrqOf(acc, k, x)
      BY <2>1 DEF IrqsRead, TakenFound
    <3>2. NoneBefore(k, x) => NoneBefore(k, x)'
      <4>1. \A i \in 1 .. Len(trace') :
              (i \in 1 .. Len(trace) /\ trace'[i] = trace[i]) \/ (trace'[i] = e /\ x <= e.t)
        BY <1>2
      <4> QED BY <4>1 DEF NoneBefore
    <3>3. StillOpen(acc, k, x) => StillOpen(after, k, x)
      BY <1>1, <1>3, <1>5 DEF StillOpen
    <3>4. InIrqOf(acc, k, x) => InIrqOf(after, k, x)
      BY DEF InIrqOf
    <3> QED BY <3>1, <3>2, <3>3, <3>4
  <2> QED BY <2>1 DEF TakenFound
<1>10. OpenOrMissing(after)'
  <2>1. ASSUME NEW k \in inIrq', k \notin DOMAIN new, NEW i \in 1 .. Len(trace')
        PROVE  ~EntryOf(trace'[i], k)
    <3>1. k \in inIrq /\ k \notin DOMAIN open /\ k # kind
      BY <1>3, <2>1
    <3>2. \A j \in 1 .. Len(trace) : ~EntryOf(trace[j], k)
      BY <1>1, <3>1 DEF IrqsRead, OpenOrMissing
    <3>3. ~EntryOf(e, k)
      BY <3>1 DEF EntryOf
    <3> QED BY <3>2, <3>3
  <2> QED BY <1>1, <2>1 DEF OpenOrMissing
<1>11. ExitsAreBefore(after)'
  <2>1. ASSUME NEW k \in DOMAIN new, NEW i \in 1 .. Len(trace'), ExitOf(trace'[i], k)
        PROVE  trace'[i].t <= new[k]
    <3>1. CASE k = kind
      BY <1>3, <3>1
    <3>2. CASE k # kind
      <4>1. k \in DOMAIN open /\ new[k] = open[k]
        BY <1>3, <3>2
      <4>2. i \in 1 .. Len(trace) /\ trace'[i] = trace[i]
        BY <2>1 DEF EntryOf, ExitOf
      <4> QED BY <1>1, <2>1, <4>1, <4>2 DEF IrqsRead, ExitsAreBefore
    <3> QED BY <3>1, <3>2
  <2> QED BY <1>1, <2>1 DEF ExitsAreBefore
<1> QED BY <1>6, <1>7, <1>8, <1>9, <1>10, <1>11 DEF IrqsRead

\* The exit of an interrupt whose entry is in the trace, and of one whose entry is not.
LEMMA IrqsAtExit ==
  ASSUME TraceTypes, NEW acc, IrqsRead(acc), NEW kind \in Kinds, kind \in DOMAIN acc.open,
         inIrq' = inIrq \ {kind}, UNCHANGED <<clock, nested, took>>, NEW after,
         after.irqs = Append(acc.irqs, Interval(acc.open[kind], clock, kind)),
         after.open = [k \in DOMAIN acc.open \ {kind} |-> acc.open[k]],
         NEW e, ExitOf(e, kind),
         \A i \in 1 .. Len(trace') :
           (i \in 1 .. Len(trace) /\ trace'[i] = trace[i]) \/ trace'[i] = e
  PROVE  IrqsRead(after)'
<1>1. PICK irqs, open, new, more : /\ irqs = acc.irqs /\ open = acc.open
                                   /\ new = after.open /\ more = after.irqs
  OBVIOUS
<1>2. clock \in Nat /\ kind \in DOMAIN open
  BY <1>1, TraceNumbers DEF TraceTypes
<1>3. DOMAIN new = DOMAIN open \ {kind} /\ \A k \in DOMAIN new : new[k] = open[k]
  BY <1>1
<1>4. /\ DOMAIN open \subseteq inIrq
      /\ \A k \in DOMAIN open :
           /\ open[k] \in Nat /\ open[k] <= clock
           /\ \A x \in 1 .. clock : open[k] < x => k \in took[x]
  BY <1>1 DEF IrqsRead, OpenTaken
<1>5. /\ irqs \in Seq(Ivs(Kinds))
      /\ \A i \in 1 .. Len(irqs) :
           /\ irqs[i].from <= irqs[i].to /\ irqs[i].to <= clock
           /\ \A x \in 1 .. clock : InIv(irqs, i, x) => irqs[i].key \in took[x]
  BY <1>1 DEF IrqsRead, IrqsTaken
<1>6. PICK iv : /\ iv = Interval(open[kind], clock, kind) /\ iv \in Ivs(Kinds)
                /\ iv.from = open[kind] /\ iv.to = clock /\ iv.key = kind
  <2>1. Interval(open[kind], clock, kind) \in Ivs(Kinds)
    BY <1>2, <1>4 DEF Interval, Ivs
  <2> QED BY <2>1 DEF Interval
<1>7. more = Append(irqs, iv)
  BY <1>1, <1>6
<1>8. more \in Seq(Ivs(Kinds)) /\ Len(more) \in 1 .. Len(more) /\ more[Len(more)] = iv
  BY <1>5, <1>6, <1>7, LongerAt
<1>9. \A i \in 1 .. Len(more) :
        (i \in 1 .. Len(irqs) /\ more[i] = irqs[i]) \/ (i = Len(irqs) + 1 /\ more[i] = iv)
  BY <1>5, <1>6, <1>7, LongerAt
<1>10. \A i \in 1 .. Len(irqs) : i \in 1 .. Len(more) /\ more[i] = irqs[i]
  BY <1>5, <1>6, <1>7, LongerAt
<1>11. OpenTaken(after)'
  <2>1. DOMAIN new \subseteq inIrq'
    BY <1>3, <1>4
  <2> QED BY <1>1, <1>3, <1>4, <2>1 DEF OpenTaken
<1>12. IrqsTaken(after)'
  <2>1. ASSUME NEW i \in 1 .. Len(more)
        PROVE  /\ more[i].from <= more[i].to /\ more[i].to <= clock
               /\ \A x \in 1 .. clock : InIv(more, i, x) => more[i].key \in took[x]
    <3>1. CASE i \in 1 .. Len(irqs) /\ more[i] = irqs[i]
      BY <1>5, <3>1 DEF InIv
    <3>2. CASE more[i] = iv
      BY <1>2, <1>4, <1>6, <3>2 DEF InIv
    <3> QED BY <1>9, <3>1, <3>2
  <2> QED BY <1>1, <1>8, <2>1 DEF IrqsTaken
<1>13. Unnested(after)'
  <2> SUFFICES ASSUME ~nested PROVE Unnested(after)'
    BY DEF Unnested
  <2>1. /\ \A k, l \in inIrq : k = l
        /\ \A i \in 1 .. Len(irqs) : irqs[i].to <= open[kind]
        /\ InSuccession(irqs)
    BY <1>1, <1>2 DEF IrqsRead, Unnested
  <2>2. inIrq' = {} /\ DOMAIN new = {}
    BY <1>2, <1>3, <1>4, <2>1
  <2>3. iv.from <= iv.to /\ \A i \in 1 .. Len(irqs) : irqs[i].to <= iv.from
    BY <1>2, <1>4, <1>6, <2>1
  <2>4. InSuccession(more)
    BY <1>5, <1>6, <1>7, <2>1, <2>3, InOrderLonger
  <2> QED BY <1>1, <2>2, <2>4 DEF Unnested
<1>14. TakenFound(after)'
  <2>1. ASSUME NEW k \in Kinds, NEW x \in 1 .. clock, k \in took[x]
        PROVE  NoneBefore(k, x)' \/ StillOpen(after, k, x)' \/ InIrqOf(after, k, x)'
    <3>1. NoneBefore(k, x) \/ StillOpen(acc, k, x) \/ InIrqOf(acc, k, x)
      BY <2>1 DEF IrqsRead, TakenFound
    <3>2. NoneBefore(k, x) => NoneBefore(k, x)'
      BY DEF NoneBefore, EntryOf, ExitOf
    <3>3. StillOpen(acc, k, x) => StillOpen(after, k, x) \/ InIrqOf(after, k, x)
      <4>1. CASE k = kind
        <5>1. ASSUME StillOpen(acc, k, x) PROVE InIv(more, Len(more), x)
          BY <1>1, <1>2, <1>6, <1>8, <4>1, <5>1 DEF StillOpen, InIv
        <5> QED BY <1>1, <1>6, <1>8, <4>1, <5>1 DEF InIrqOf
      <4>2. CASE k # kind
        BY <1>1, <1>3, <4>2 DEF StillOpen
      <4> QED BY <4>1, <4>2
    <3>4. InIrqOf(acc, k, x) => InIrqOf(after, k, x)
      BY <1>1, <1>10 DEF InIrqOf, InIv
    <3> QED BY <3>1, <3>2, <3>3, <3>4
  <2> QED BY <2>1 DEF TakenFound
<1>15. OpenOrMissing(after)'
  <2>1. ASSUME NEW k \in inIrq', k \notin DOMAIN new, NEW i \in 1 .. Len(trace')
        PROVE  ~EntryOf(trace'[i], k)
    <3>1. k \in inIrq /\ k \notin DOMAIN open
      BY <1>3, <2>1
    <3>2. \A j \in 1 .. Len(trace) : ~EntryOf(trace[j], k)
      BY <1>1, <3>1 DEF IrqsRead, OpenOrMissing
    <3> QED BY <3>2 DEF EntryOf, ExitOf
  <2> QED BY <1>1, <2>1 DEF OpenOrMissing
<1>16. ExitsAreBefore(after)'
  <2>1. ASSUME NEW k \in DOMAIN new, NEW i \in 1 .. Len(trace'), ExitOf(trace'[i], k)
        PROVE  trace'[i].t <= new[k]
    <3>1. k \in DOMAIN open /\ new[k] = open[k] /\ k # kind
      BY <1>3
    <3>2. i \in 1 .. Len(trace) /\ trace'[i] = trace[i]
      BY <2>1, <3>1 DEF ExitOf
    <3> QED BY <1>1, <2>1, <3>1, <3>2 DEF IrqsRead, ExitsAreBefore
  <2> QED BY <1>1, <2>1 DEF ExitsAreBefore
<1> QED BY <1>11, <1>12, <1>13, <1>14, <1>15, <1>16 DEF IrqsRead

LEMMA IrqsAtLostExit ==
  ASSUME NEW acc, IrqsRead(acc), NEW kind \in Kinds, kind \notin DOMAIN acc.open,
         inIrq' = inIrq \ {kind}, UNCHANGED <<clock, nested, took>>, NEW e, ExitOf(e, kind),
         \A i \in 1 .. Len(trace') :
           (i \in 1 .. Len(trace) /\ trace'[i] = trace[i]) \/ trace'[i] = e
  PROVE  IrqsRead(acc)'
<1>1. OpenTaken(acc)'
  BY DEF IrqsRead, OpenTaken
<1>2. IrqsTaken(acc)'
  BY DEF IrqsRead, IrqsTaken
<1>3. Unnested(acc)'
  BY DEF IrqsRead, Unnested
<1>4. TakenFound(acc)'
  <2>1. ASSUME NEW k \in Kinds, NEW x \in 1 .. clock, k \in took[x]
        PROVE  NoneBefore(k, x)' \/ StillOpen(acc, k, x) \/ InIrqOf(acc, k, x)
    <3>1. NoneBefore(k, x) \/ StillOpen(acc, k, x) \/ InIrqOf(acc, k, x)
      BY <2>1 DEF IrqsRead, TakenFound
    <3>2. NoneBefore(k, x) => NoneBefore(k, x)'
      BY DEF NoneBefore, EntryOf, ExitOf
    <3> QED BY <3>1, <3>2
  <2>2. \A k, x : StillOpen(acc, k, x) => StillOpen(acc, k, x)'
    BY DEF StillOpen
  <2>3. \A k, x : InIrqOf(acc, k, x) => InIrqOf(acc, k, x)'
    BY DEF InIrqOf
  <2> QED BY <2>1, <2>2, <2>3 DEF TakenFound
<1>5. OpenOrMissing(acc)'
  <2>1. ASSUME NEW k \in inIrq', k \notin DOMAIN acc.open, NEW i \in 1 .. Len(trace')
        PROVE  ~EntryOf(trace'[i], k)
    <3>1. \A j \in 1 .. Len(trace) : ~EntryOf(trace[j], k)
      BY <2>1 DEF IrqsRead, OpenOrMissing
    <3> QED BY <3>1 DEF EntryOf, ExitOf
  <2> QED BY <2>1 DEF OpenOrMissing
<1>6. ExitsAreBefore(acc)'
  <2>1. ASSUME NEW k \in DOMAIN acc.open, NEW i \in 1 .. Len(trace'), ExitOf(trace'[i], k)
        PROVE  trace'[i].t <= acc.open[k]
    <3>1. i \in 1 .. Len(trace) /\ trace'[i] = trace[i]
      BY <2>1 DEF ExitOf
    <3> QED BY <2>1, <3>1 DEF IrqsRead, ExitsAreBefore
  <2> QED BY <2>1 DEF ExitsAreBefore
<1> QED BY <1>1, <1>2, <1>3, <1>4, <1>5, <1>6 DEF IrqsRead

LEMMA IrqsAtTick ==
  ASSUME TraceTypes, NEW acc, IrqsRead(acc), clock' = clock + 1,
         took' = Append(took, inIrq), UNCHANGED <<inIrq, nested, trace>>
  PROVE  IrqsRead(acc)'
<1>1. PICK irqs, open : irqs = acc.irqs /\ open = acc.open
  OBVIOUS
<1>2. clock \in Nat /\ took \in Seq(SUBSET Kinds) /\ Len(took) = clock /\ inIrq \in SUBSET Kinds
  BY TraceNumbers DEF TraceTypes
<1>3. \A x \in 1 .. clock' : (x \in 1 .. clock /\ took'[x] = took[x])
                             \/ (x = clock + 1 /\ took'[x] = inIrq)
  BY <1>2, LongerAt
<1>4. /\ DOMAIN open \subseteq inIrq
      /\ \A k \in DOMAIN open :
           /\ open[k] \in Nat /\ open[k] <= clock
           /\ \A x \in 1 .. clock : open[k] < x => k \in took[x]
  BY <1>1 DEF IrqsRead, OpenTaken
<1>5. /\ irqs \in Seq(Ivs(Kinds))
      /\ \A i \in 1 .. Len(irqs) :
           /\ irqs[i].from <= irqs[i].to /\ irqs[i].to <= clock
           /\ \A x \in 1 .. clock : InIv(irqs, i, x) => irqs[i].key \in took[x]
  BY <1>1 DEF IrqsRead, IrqsTaken
<1>6. OpenTaken(acc)'
  <2>1. ASSUME NEW k \in DOMAIN open
        PROVE  /\ open[k] \in Nat /\ open[k] <= clock'
               /\ \A x \in 1 .. clock' : open[k] < x => k \in took'[x]
    BY <1>2, <1>3, <1>4
  <2> QED BY <1>1, <1>4, <2>1 DEF OpenTaken
<1>7. IrqsTaken(acc)'
  <2>1. ASSUME NEW i \in 1 .. Len(irqs)
        PROVE  /\ irqs[i].from <= irqs[i].to /\ irqs[i].to <= clock'
               /\ \A x \in 1 .. clock' : InIv(irqs, i, x) => irqs[i].key \in took'[x]
    <3>1. irqs[i].to \in Nat /\ irqs[i].to <= clock
      BY <1>5, IvAt
    <3>2. \A x \in 1 .. clock' : InIv(irqs, i, x) => x \in 1 .. clock /\ took'[x] = took[x]
      BY <1>2, <1>3, <3>1 DEF InIv
    <3> QED BY <1>2, <1>5, <3>1, <3>2
  <2> QED BY <1>1, <1>5, <2>1 DEF IrqsTaken
<1>8. Unnested(acc)'
  BY DEF IrqsRead, Unnested
<1>9. TakenFound(acc)'
  <2>1. ASSUME NEW k \in Kinds, NEW x \in 1 .. clock', k \in took'[x]
        PROVE  NoneBefore(k, x) \/ StillOpen(acc, k, x) \/ InIrqOf(acc, k, x)
    <3>1. CASE x \in 1 .. clock /\ took'[x] = took[x]
      BY <2>1, <3>1 DEF IrqsRead, TakenFound
    <3>2. CASE x = clock + 1 /\ took'[x] = inIrq
      <4>1. CASE k \in DOMAIN open
        BY <1>1, <1>2, <1>4, <3>2, <4>1 DEF StillOpen
      <4>2. CASE k \notin DOMAIN open
        <5>1. \A j \in 1 .. Len(trace) : ~EntryOf(trace[j], k)
          BY <1>1, <2>1, <3>2, <4>2 DEF IrqsRead, OpenOrMissing
        <5> QED BY <5>1 DEF NoneBefore
      <4> QED BY <4>1, <4>2
    <3> QED BY <1>3, <3>1, <3>2
  <2>2. \A k, x : StillOpen(acc, k, x) => StillOpen(acc, k, x)'
    BY DEF StillOpen
  <2>3. \A k, x : InIrqOf(acc, k, x) => InIrqOf(acc, k, x)'
    BY DEF InIrqOf
  <2>4. \A k, x : NoneBefore(k, x) => NoneBefore(k, x)'
    BY DEF NoneBefore
  <2> QED BY <2>1, <2>2, <2>3, <2>4 DEF TakenFound
<1>10. OpenOrMissing(acc)'
  BY DEF IrqsRead, OpenOrMissing
<1>11. ExitsAreBefore(acc)'
  BY DEF IrqsRead, ExitsAreBefore
<1> QED BY <1>6, <1>7, <1>8, <1>9, <1>10, <1>11 DEF IrqsRead

LEMMA TraceInvStarts == TraceInit => TraceInv
<1> SUFFICES ASSUME TraceInit PROVE TraceInv
  OBVIOUS
<1>1. TraceTypes
  BY TraceTypesStart
<1>2. trace = <<>> /\ clock = 0 /\ inIrq \in {{}, {"hard"}, {"soft"}}
  BY DEF TraceInit
<1>3. PICK acc : acc = NoLine /\ acc = TraceRead(trace)
  BY <1>1, <1>2, TraceNothing DEF TraceTypes
<1>4. /\ acc = [tasks |-> <<>>, cur |-> {}, since |-> 0, irqs |-> <<>>, open |-> <<>>]
      /\ acc.tasks = <<>> /\ acc.cur = {} /\ acc.irqs = <<>> /\ acc.open = <<>> /\ acc.since = 0
  BY <1>3 DEF NoLine
<1>5. Shaped(acc)
  BY <1>4 DEF Shaped
<1>6. PICK none : none = <<>> /\ none = acc.tasks /\ none = acc.irqs /\ Len(none) = 0
                  /\ DOMAIN none = {}
  BY <1>4
<1>7. none \in Seq(Ivs(Tasks)) /\ none \in Seq(Ivs(Kinds)) /\ InSuccession(none)
  BY <1>6 DEF InSuccession
<1>8. TasksRead(acc)
  BY <1>4, <1>6, <1>7 DEF TasksRead, TaskIvs, SinceSwitch
<1>9. DOMAIN acc.open = {}
  BY <1>4, <1>6
<1>10. \A k, l \in inIrq : k = l
  BY <1>2
<1>11. \A x \in 1 .. clock : FALSE
  BY <1>2
<1>12. \A i \in 1 .. Len(trace) : FALSE
  BY <1>2
<1>13. OpenTaken(acc)
  BY <1>9 DEF OpenTaken
<1>15. IrqsTaken(acc)
  <2>1. acc.irqs \in Seq(Ivs(Kinds)) /\ Len(acc.irqs) = 0
    BY <1>6, <1>7, Zenon
  <2> QED BY <2>1 DEF IrqsTaken
<1>16. Unnested(acc)
  BY <1>6, <1>7, <1>9, <1>10 DEF Unnested
<1>14. TakenFound(acc) /\ OpenOrMissing(acc) /\ ExitsAreBefore(acc)
  BY <1>9, <1>11, <1>12 DEF TakenFound, OpenOrMissing, ExitsAreBefore
<1> QED BY <1>1, <1>3, <1>5, <1>8, <1>13, <1>14, <1>15, <1>16 DEF TraceInv, IrqsRead

LEMMA TraceInvKept == TraceInv /\ [TraceNext]_traceVars => TraceInv'
<1> SUFFICES ASSUME TraceInv, [TraceNext]_traceVars PROVE TraceInv'
  OBVIOUS
<1>1. TraceTypes /\ TraceTypes'
  BY TraceTypesKept DEF TraceInv
<1>2. PICK acc : acc = TraceRead(trace) /\ Shaped(acc) /\ TasksRead(acc) /\ IrqsRead(acc)
  BY DEF TraceInv
<1>3. acc = [tasks |-> acc.tasks, cur |-> acc.cur, since |-> acc.since,
             irqs |-> acc.irqs, open |-> acc.open]
  BY <1>2 DEF Shaped
<1>4. \A ts, cur, since, irqs, open : \A r :
        r = [tasks |-> ts, cur |-> cur, since |-> since, irqs |-> irqs, open |-> open] =>
          /\ Shaped(r) /\ r.tasks = ts /\ r.cur = cur /\ r.since = since
          /\ r.irqs = irqs /\ r.open = open
  BY DEF Shaped
<1>5. CASE Switch
  <2>1. PICK nx \in Tasks :
          /\ Log([t |-> clock, ev |-> "switch", prev |-> onCpu, next |-> nx]) /\ onCpu' = nx
    BY <1>5 DEF Switch
  <2>2. Recording /\ UNCHANGED <<clock, inIrq, nested, ran, took, ended>>
    BY <1>5 DEF Switch
  <2>3. PICK e : /\ e = [t |-> clock, ev |-> "switch", prev |-> onCpu, next |-> nx]
                 /\ e \in TraceEvents
    BY <1>1, EventsAre
  <2>4. e.t = clock /\ e.ev = "switch" /\ e.prev = onCpu /\ e.next = nx
    BY <2>3
  <2>5. PICK after : after = TraceLine(acc, e)
    OBVIOUS
  <2>6. after = [tasks |-> Append(acc.tasks, IF acc.cur = {} THEN Interval(clock, clock, onCpu)
                                  ELSE Interval(acc.since, clock, CHOOSE c \in acc.cur : TRUE)),
                 cur |-> {nx}, since |-> clock, irqs |-> acc.irqs, open |-> acc.open]
    BY <1>3, <2>4, <2>5, SwitchLineIs
  <2>7. Log(e)
    BY <2>1, <2>3
  <2>8. TraceRead(trace') = after
    BY <1>1, <1>2, <2>2, <2>3, <2>4, <2>5, <2>7, LineWritten
  <2>9. Shaped(after) /\ TasksRead(after)'
    <3>1. /\ Shaped(after) /\ after.cur = {nx} /\ after.since = clock
          /\ after.tasks = Append(acc.tasks, IF acc.cur = {} THEN Interval(clock, clock, onCpu)
                                  ELSE Interval(acc.since, clock, CHOOSE c \in acc.cur : TRUE))
      BY <1>4, <2>6
    <3>2. UNCHANGED <<clock, ran>> /\ onCpu' = nx
      BY <2>1, <2>2
    <3> QED BY <1>1, <1>2, <3>1, <3>2, TasksAtSwitch
  <2>10. after.irqs = acc.irqs /\ after.open = acc.open
    BY <1>4, <2>6
  <2>11. \A i \in 1 .. Len(trace') :
           (i \in 1 .. Len(trace) /\ trace'[i] = trace[i]) \/ trace'[i].ev = "switch"
    <3>1. trace' = Append(trace, e) /\ trace \in Seq(TraceEvents)
      BY <1>1, <2>7 DEF Log, TraceTypes
    <3> QED BY <2>3, <2>4, <3>1, LongerAt
  <2>12. IrqsRead(after)'
    BY <1>2, <2>2, <2>10, <2>11, IrqsStay
  <2> QED BY <1>1, <2>8, <2>9, <2>12 DEF TraceInv, Shaped
<1>6. ASSUME NEW kind \in Kinds, Enter(kind) PROVE TraceInv'
  <2>1. /\ Recording /\ Log([t |-> clock, ev |-> "entry", irq |-> kind]) /\ kind \notin inIrq
        /\ inIrq' = inIrq \union {kind} /\ nested' = (nested \/ inIrq # {})
        /\ UNCHANGED <<clock, onCpu, ran, took, ended>>
    BY <1>6 DEF Enter
  <2>3. PICK e : e = [t |-> clock, ev |-> "entry", irq |-> kind] /\ e \in TraceEvents
    BY <1>1, EventsAre
  <2>4. e.t = clock /\ e.ev = "entry" /\ e.irq = kind /\ EntryOf(e, kind)
    BY <2>3 DEF EntryOf
  <2>5. PICK after : after = TraceLine(acc, e)
    OBVIOUS
  <2>6. after = [tasks |-> acc.tasks, cur |-> acc.cur, since |-> acc.since, irqs |-> acc.irqs,
                 open |-> [k \in DOMAIN acc.open \union {kind} |->
                             IF k = kind THEN clock ELSE acc.open[k]]]
    BY <1>3, <2>4, <2>5, EntryLineIs
  <2>7. Log(e)
    BY <2>1, <2>3
  <2>8. /\ TraceRead(trace') = after
        /\ \A i \in 1 .. Len(trace') : trace'[i].t <= clock
    BY <1>1, <1>2, <2>1, <2>3, <2>4, <2>5, <2>7, LineWritten
  <2>9. /\ after.tasks = acc.tasks /\ after.cur = acc.cur /\ after.since = acc.since
        /\ after.irqs = acc.irqs /\ Shaped(after)
        /\ after.open = [k \in DOMAIN acc.open \union {kind} |->
                           IF k = kind THEN clock ELSE acc.open[k]]
    BY <1>4, <2>6
  <2>10. TasksRead(after)'
    BY <1>2, <2>1, <2>9, TasksStay
  <2>11. \A i \in 1 .. Len(trace') :
           (i \in 1 .. Len(trace) /\ trace'[i] = trace[i]) \/ trace'[i] = e
    <3>1. trace' = Append(trace, e) /\ trace \in Seq(TraceEvents)
      BY <1>1, <2>7 DEF Log, TraceTypes
    <3> QED BY <2>3, <3>1, LongerAt
  <2>12. IrqsRead(after)'
    BY <1>1, <1>2, <2>1, <2>4, <2>8, <2>9, <2>11, IrqsAtEntry
  <2> QED BY <1>1, <2>8, <2>9, <2>10, <2>12 DEF TraceInv, Shaped
<1>7. ASSUME NEW kind \in Kinds, Leave(kind) PROVE TraceInv'
  <2>1. /\ Recording /\ Log([t |-> clock, ev |-> "exit", irq |-> kind])
        /\ inIrq' = inIrq \ {kind} /\ UNCHANGED <<clock, onCpu, nested, ran, took, ended>>
    BY <1>7 DEF Leave
  <2>3. PICK e : e = [t |-> clock, ev |-> "exit", irq |-> kind] /\ e \in TraceEvents
    BY <1>1, EventsAre
  <2>4. e.t = clock /\ e.ev = "exit" /\ e.irq = kind /\ ExitOf(e, kind)
    BY <2>3 DEF ExitOf
  <2>5. PICK after : after = TraceLine(acc, e)
    OBVIOUS
  <2>6. after = IF kind \in DOMAIN acc.open
                THEN [tasks |-> acc.tasks, cur |-> acc.cur, since |-> acc.since,
                      irqs |-> Append(acc.irqs, Interval(acc.open[kind], clock, kind)),
                      open |-> [k \in DOMAIN acc.open \ {kind} |-> acc.open[k]]]
                ELSE acc
    BY <1>3, <2>4, <2>5, ExitLineIs
  <2>7. Log(e)
    BY <2>1, <2>3
  <2>8. TraceRead(trace') = after
    BY <1>1, <1>2, <2>1, <2>3, <2>4, <2>5, <2>7, LineWritten
  <2>9. \A i \in 1 .. Len(trace') :
          (i \in 1 .. Len(trace) /\ trace'[i] = trace[i]) \/ trace'[i] = e
    <3>1. trace' = Append(trace, e) /\ trace \in Seq(TraceEvents)
      BY <1>1, <2>7 DEF Log, TraceTypes
    <3> QED BY <2>3, <3>1, LongerAt
  <2>10. CASE kind \in DOMAIN acc.open
    <3>1. /\ after.tasks = acc.tasks /\ after.cur = acc.cur /\ after.since = acc.since
          /\ Shaped(after)
          /\ after.irqs = Append(acc.irqs, Interval(acc.open[kind], clock, kind))
          /\ after.open = [k \in DOMAIN acc.open \ {kind} |-> acc.open[k]]
      BY <1>4, <2>6, <2>10
    <3>2. TasksRead(after)'
      BY <1>2, <2>1, <3>1, TasksStay
    <3>3. IrqsRead(after)'
      <4>1. inIrq' = inIrq \ {kind} /\ UNCHANGED <<clock, nested, took>>
        BY <2>1
      <4>2. /\ after.irqs = Append(acc.irqs, Interval(acc.open[kind], clock, kind))
            /\ after.open = [k \in DOMAIN acc.open \ {kind} |-> acc.open[k]]
        BY <3>1
      <4>3. TraceTypes /\ IrqsRead(acc) /\ ExitOf(e, kind)
        BY <1>1, <1>2, <2>4
      <4> QED BY <2>9, <2>10, <4>1, <4>2, <4>3, IrqsAtExit
    <3> QED BY <1>1, <2>8, <3>1, <3>2, <3>3 DEF TraceInv, Shaped
  <2>11. CASE kind \notin DOMAIN acc.open
    <3>1. TasksRead(acc)'
      BY <1>2, <2>1, TasksStay
    <3>2. IrqsRead(acc)'
      BY <1>2, <2>1, <2>4, <2>9, <2>11, IrqsAtLostExit
    <3> QED BY <1>1, <1>2, <2>6, <2>8, <2>11, <3>1, <3>2 DEF TraceInv, Shaped
  <2> QED BY <2>10, <2>11
<1>8. CASE TraceTick
  <2>1. /\ clock' = clock + 1 /\ ran' = Append(ran, onCpu) /\ took' = Append(took, inIrq)
        /\ UNCHANGED <<onCpu, inIrq, nested, trace, ended>>
    BY <1>8 DEF TraceTick
  <2>2. TasksRead(acc)'
    BY <1>1, <1>2, <2>1, TasksAtTick
  <2>3. IrqsRead(acc)'
    BY <1>1, <1>2, <2>1, IrqsAtTick
  <2> QED BY <1>1, <1>2, <2>1, <2>2, <2>3 DEF TraceInv, Shaped
<1>9. CASE TraceEnds \/ UNCHANGED traceVars
  <2>1. UNCHANGED <<clock, onCpu, inIrq, nested, trace, ran, took>>
    BY <1>9 DEF TraceEnds, traceVars
  <2>2. TasksRead(acc)'
    BY <1>2, <2>1, TasksStay
  <2>3. IrqsRead(acc)'
    <3>1. \A i \in 1 .. Len(trace') : i \in 1 .. Len(trace) /\ trace'[i] = trace[i]
      BY <2>1
    <3> QED BY <1>2, <2>1, <3>1, IrqsStay
  <2> QED BY <1>1, <1>2, <2>1, <2>2, <2>3 DEF TraceInv, Shaped
<1> QED BY <1>5, <1>6, <1>7, <1>8, <1>9 DEF TraceNext, Kinds

-----------------------------------------------------------------------------
(* The times the report lists.                                             *)

\* The ticks of the window in which one of S ran.
RanTicks(S, a, b) == {x \in (a + 1) .. b : ran[x] \in S}

LEMMA TickIsIn ==
  ASSUME NEW ivs, TaskIvs(ivs), ivs # <<>>, NEW x \in Nat,
         ivs[1].from < x, x <= ivs[Len(ivs)].to
  PROVE  \E i \in 1 .. Len(ivs) : InIv(ivs, i, x)
<1>1. PICK n \in Nat : n = Len(ivs) /\ 1 \in 1 .. n /\ n \in 1 .. n
  BY DEF TaskIvs
<1>2. \A i \in 1 .. n : ivs[i].from \in Nat /\ ivs[i].to \in Nat
  BY <1>1, IvAt DEF TaskIvs
<1>3. PICK S : S = {i \in 1 .. n : x <= ivs[i].to}
  OBVIOUS
<1>4. S \in SUBSET Nat /\ n \in S
  BY <1>1, <1>3
<1>5. PICK i \in S : \A j \in S : i <= j
  BY <1>4, LeastOf
<1>6. i \in 1 .. n /\ x <= ivs[i].to
  BY <1>3
<1>7. ivs[i].from < x
  <2>1. CASE i = 1
    BY <2>1
  <2>2. CASE i # 1
    <3>1. PICK j \in 1 .. n - 1 : j + 1 = i /\ j \in 1 .. n /\ j < i
      BY <1>6, <2>2
    <3>2. ~(x <= ivs[j].to)
      BY <1>3, <1>5, <3>1
    <3>3. ivs[j].to = ivs[i].from
      BY <1>1, <3>1 DEF TaskIvs
    <3> QED BY <1>2, <1>6, <3>1, <3>2, <3>3
  <2> QED BY <2>1, <2>2
<1> QED BY <1>1, <1>6, <1>7 DEF InIv

\* A window the trace covers.
Inside(ivs, a, b) ==
  a \in Nat /\ b \in Nat /\ a < b /\ ivs # <<>> /\ ivs[1].from <= a /\ b <= ivs[Len(ivs)].to

LEMMA InsideIsRecorded ==
  ASSUME TraceTypes, NEW ivs, TaskIvs(ivs), NEW a, NEW b, Inside(ivs, a, b)
  PROVE  b <= clock /\ \A x \in (a + 1) .. b : x \in 1 .. clock /\ ran[x] \in Tasks
<1>1. PICK n : n = Len(ivs)
  OBVIOUS
<1>2. n \in 1 .. n
  BY <1>1 DEF Inside, TaskIvs
<1>3. ivs[n].to <= clock /\ ivs[n].to \in Nat /\ clock \in Nat
  BY <1>1, <1>2, IvAt, TraceNumbers DEF TaskIvs, TraceTypes
<1>4. a \in Nat /\ b \in Nat /\ b <= clock
  BY <1>1, <1>3 DEF Inside
<1>5. \A x \in (a + 1) .. b : x \in 1 .. clock
  BY <1>3, <1>4
<1> QED BY <1>4, <1>5 DEF TraceTypes

LEMMA TaskTimeIs ==
  ASSUME TraceTypes, NEW ivs, TaskIvs(ivs), NEW a, NEW b, Inside(ivs, a, b), NEW k \in Tasks
  PROVE  Overlap(ivs, k, a, b) = Cardinality(RanTicks({k}, a, b))
<1>1. ivs \in Seq(Ivs(Tasks)) /\ InSuccession(ivs) /\ a \in Nat /\ b \in Nat
  BY DEF TaskIvs, Inside
<1>2. ASSUME NEW x \in (a + 1) .. b
      PROVE  (\E i \in 1 .. Len(ivs) : ivs[i].key = k /\ InIv(ivs, i, x)) <=> ran[x] = k
  <2>1. x \in 1 .. clock /\ x \in Nat /\ ivs # <<>>
    <3>1. \A y \in (a + 1) .. b : y \in 1 .. clock
      BY InsideIsRecorded
    <3> QED BY <1>1, <3>1 DEF Inside
  <2>2. \A i \in 1 .. Len(ivs) : InIv(ivs, i, x) => ran[x] = ivs[i].key
    BY <2>1 DEF TaskIvs
  <2>3. ivs[1].from < x /\ x <= ivs[Len(ivs)].to
    <3>1. PICK n \in Nat : n = Len(ivs) /\ 1 \in 1 .. n /\ n \in 1 .. n
      BY <1>1, <2>1
    <3>2. ivs[1].from \in Nat /\ ivs[n].to \in Nat
      BY <1>1, <3>1, IvAt
    <3> QED BY <1>1, <3>1, <3>2 DEF Inside
  <2>4. \E i \in 1 .. Len(ivs) : InIv(ivs, i, x)
    BY <2>1, <2>3, TickIsIn
  <2> QED BY <2>2, <2>4
<1>3. TicksOf(ivs, k, a, b) = RanTicks({k}, a, b)
  BY <1>2 DEF TicksOf, RanTicks
<1>4. Overlap(ivs, k, a, b) = Cardinality(TicksOf(ivs, k, a, b))
  BY <1>1, OverlapCounts
<1> QED BY <1>3, <1>4

LEMMA IrqTimeIs ==
  ASSUME TraceTypes, NEW acc, IrqsRead(acc), ended, ~nested, NEW a \in Nat,
         NEW b \in Nat, b <= Ticks,
         NEW kind \in Kinds, (a + 1) .. b \subseteq Covered(kind)
  PROVE  Overlap(acc.irqs, kind, a, b) = TookIn(kind, a, b)
<1>1. PICK irqs, open : irqs = acc.irqs /\ open = acc.open
  OBVIOUS
<1>2. irqs \in Seq(Ivs(Kinds)) /\ InSuccession(irqs) /\ clock = Ticks /\ clock \in Nat
  BY <1>1, TraceNumbers DEF IrqsRead, IrqsTaken, Unnested, TraceTypes
<1>3. ASSUME NEW x \in (a + 1) .. b
      PROVE  (\E i \in 1 .. Len(irqs) : irqs[i].key = kind /\ InIv(irqs, i, x)) <=> kind \in took[x]
  <2>1. x \in 1 .. clock /\ x \in Covered(kind) /\ x \in Nat
    BY <1>2
  <2>2. \A i \in 1 .. Len(irqs) : InIv(irqs, i, x) => irqs[i].key \in took[x]
    BY <1>1, <2>1 DEF IrqsRead, IrqsTaken
  <2>3. ASSUME kind \in took[x] PROVE InIrqOf(acc, kind, x)
    <3>1. NoneBefore(kind, x) \/ StillOpen(acc, kind, x) \/ InIrqOf(acc, kind, x)
      BY <2>1, <2>3 DEF IrqsRead, TakenFound
    <3>2. PICK i \in DOMAIN trace, j \in DOMAIN trace :
            /\ trace[i].t < x /\ x <= trace[j].t
            /\ EntryOf(trace[i], kind) /\ ExitOf(trace[j], kind)
      BY <2>1, <2>3 DEF Covered, EntryOf, ExitOf
    <3>3. i \in 1 .. Len(trace) /\ j \in 1 .. Len(trace) /\ trace[i].t \in Nat /\ trace[j].t \in Nat
      <4>1. DOMAIN trace = 1 .. Len(trace) /\ trace[i] \in TraceEvents /\ trace[j] \in TraceEvents
        BY DEF TraceTypes
      <4> QED BY <4>1 DEF TraceEvents, SwitchEvents, IrqEvents
    <3>4. ~NoneBefore(kind, x)
      BY <2>1, <3>2, <3>3 DEF NoneBefore
    <3>5. ~StillOpen(acc, kind, x)
      <4> SUFFICES ASSUME StillOpen(acc, kind, x) PROVE FALSE
        OBVIOUS
      <4>1. kind \in DOMAIN open /\ open[kind] < x
        BY <1>1 DEF StillOpen
      <4>2. open[kind] \in Nat /\ trace[j].t <= open[kind]
        BY <1>1, <3>2, <3>3, <4>1 DEF IrqsRead, ExitsAreBefore, OpenTaken
      <4> QED BY <2>1, <3>2, <3>3, <4>1, <4>2
    <3> QED BY <3>1, <3>4, <3>5
  <2> QED BY <1>1, <2>2, <2>3 DEF InIrqOf
<1>4. TicksOf(irqs, kind, a, b) = {x \in (a + 1) .. b : kind \in took[x]}
  BY <1>3 DEF TicksOf
<1>5. Overlap(irqs, kind, a, b) = Cardinality(TicksOf(irqs, kind, a, b))
  BY <1>2, OverlapCounts
<1> QED BY <1>1, <1>4, <1>5 DEF TookIn

LEMMA TimesAreExact == TraceInv => Cpu0TimeIsExact
<1> SUFFICES ASSUME TraceInv PROVE Cpu0TimeIsExact
  OBVIOUS
<1>1. TraceTypes
  BY DEF TraceInv
<1>2. PICK acc : acc = TraceRead(trace) /\ TasksRead(acc) /\ IrqsRead(acc)
  BY DEF TraceInv
<1>3. acc.tasks = TaskIntervals /\ acc.irqs = IrqIntervals
  BY <1>2 DEF TaskIntervals, IrqIntervals, LoadCpu0, TraceRead
<1>4. TraceTypeOK
  BY <1>1 DEF TraceTypes, TraceTypeOK, Kinds
<1>5. ASSUME NEW w \in Windows(TaskIntervals), NEW k \in Tasks
      PROVE  Overlap(TaskIntervals, k, w[1], w[2]) = RanIn({k}, w[1], w[2])
  <2>1. PICK a, b : a = w[1] /\ b = w[2]
    OBVIOUS
  <2>2. Inside(TaskIntervals, a, b)
    BY <2>1, TraceNumbers DEF Windows, Inside
  <2>3. TaskIvs(TaskIntervals)
    BY <1>2, <1>3 DEF TasksRead
  <2> QED BY <1>1, <2>1, <2>2, <2>3, TaskTimeIs DEF RanIn, RanTicks
<1>6. ASSUME ended, ~nested, NEW a \in 0 .. (Ticks - 1), NEW kind \in {"hard", "soft"},
             NEW b \in (a + 1) .. Ticks, (a + 1) .. b \subseteq Covered(kind)
      PROVE  Overlap(IrqIntervals, kind, a, b) = TookIn(kind, a, b)
  <2>1. a \in Nat /\ b \in Nat /\ b <= Ticks /\ kind \in Kinds
    BY TraceNumbers DEF Kinds
  <2> QED BY <1>1, <1>2, <1>3, <1>6, <2>1, IrqTimeIs
<1> QED BY <1>4, <1>5, <1>6 DEF Cpu0TimeIsExact

-----------------------------------------------------------------------------
(* The cause the report names.                                             *)

LEMMA RanTicksFinite == \A S : \A a, b \in Nat : IsFiniteSet(RanTicks(S, a, b))
<1>1. ASSUME NEW S, NEW a \in Nat, NEW b \in Nat PROVE IsFiniteSet(RanTicks(S, a, b))
  <2>1. IsFiniteSet((a + 1) .. b) /\ RanTicks(S, a, b) \in SUBSET ((a + 1) .. b)
    BY FS_Interval DEF RanTicks
  <2> QED BY <2>1, FS_Subset
<1> QED BY <1>1

OtherTasks == Tasks \ {"main", "idle"}
OfGroup(g) == {k \in OtherTasks : Group(k) = g}

LEMMA OthersAre ==
  ASSUME TraceTypes, NEW ivs, TaskIvs(ivs), NEW a, NEW b, Inside(ivs, a, b), NEW g
  PROVE  Others(ivs, g, a, b) = Cardinality(RanTicks(OfGroup(g), a, b))
<1>1. PICK S : S = OfGroup(g)
  OBVIOUS
<1>2. PICK f : f = [k \in S |-> Overlap(ivs, k, a, b)]
  OBVIOUS
<1>3. PICK A : A = [k \in S |-> RanTicks({k}, a, b)]
  OBVIOUS
<1>4. Others(ivs, g, a, b) = SumFunction(f)
  BY <1>1, <1>2 DEF Others, OfGroup, OtherTasks
<1>5. a \in Nat /\ b \in Nat
  BY DEF Inside
<1>6. SizesOf(f, A, S)
  <2>1. IsFiniteSet(S)
    <3>1. S \in SUBSET Tasks
      BY <1>1 DEF OfGroup, OtherTasks
    <3> QED BY <3>1, TraceNumbers, FS_Subset
  <2>2. ASSUME NEW k \in S PROVE IsFiniteSet(A[k]) /\ f[k] = Cardinality(A[k])
    <3>1. k \in Tasks /\ A[k] = RanTicks({k}, a, b) /\ f[k] = Overlap(ivs, k, a, b)
      BY <1>1, <1>2, <1>3 DEF OfGroup, OtherTasks
    <3>2. Overlap(ivs, k, a, b) = Cardinality(RanTicks({k}, a, b))
      BY <3>1, TaskTimeIs
    <3> QED BY <1>5, <3>1, <3>2, RanTicksFinite
  <2>3. ASSUME NEW k \in S, NEW l \in S, k # l PROVE A[k] \intersect A[l] = {}
    BY <1>3, <2>3 DEF RanTicks
  <2> QED BY <1>2, <1>3, <2>1, <2>2, <2>3 DEF SizesOf
<1>7. AllOf(A, S) = RanTicks(S, a, b)
  BY <1>3 DEF AllOf, RanTicks
<1> QED BY <1>1, <1>4, <1>6, <1>7, SumOfApart

LEMMA AllOthersAre ==
  ASSUME TraceTypes, NEW ivs, TaskIvs(ivs), NEW a, NEW b, Inside(ivs, a, b)
  PROVE  /\ AllOthers(ivs, a, b) = Cardinality(RanTicks(OtherTasks, a, b))
         /\ AllOthers(ivs, a, b) # 0 => \E g \in OtherGroups : Others(ivs, g, a, b) # 0
<1>1. PICK S : S = OtherGroups
  OBVIOUS
<1>2. PICK f : f = [g \in S |-> Others(ivs, g, a, b)]
  OBVIOUS
<1>3. PICK A : A = [g \in S |-> RanTicks(OfGroup(g), a, b)]
  OBVIOUS
<1>4. AllOthers(ivs, a, b) = SumFunction(f)
  BY <1>1, <1>2 DEF AllOthers
<1>5. a \in Nat /\ b \in Nat
  BY DEF Inside
<1>6. SizesOf(f, A, S)
  <2>1. IsFiniteSet(S)
    <3>1. IsFiniteSet(Tasks \union {"shell-forks"})
      BY TraceNumbers, FS_AddElement
    <3>2. S \in SUBSET (Tasks \union {"shell-forks"})
      BY <1>1 DEF OtherGroups, Group
    <3> QED BY <3>1, <3>2, FS_Subset
  <2>2. ASSUME NEW g \in S PROVE IsFiniteSet(A[g]) /\ f[g] = Cardinality(A[g])
    <3>1. A[g] = RanTicks(OfGroup(g), a, b) /\ f[g] = Others(ivs, g, a, b)
      BY <1>2, <1>3
    <3>2. Others(ivs, g, a, b) = Cardinality(RanTicks(OfGroup(g), a, b))
      BY OthersAre
    <3> QED BY <1>5, <3>1, <3>2, RanTicksFinite
  <2>3. ASSUME NEW g \in S, NEW h \in S, g # h PROVE A[g] \intersect A[h] = {}
    BY <1>3, <2>3 DEF RanTicks, OfGroup
  <2> QED BY <1>2, <1>3, <2>1, <2>2, <2>3 DEF SizesOf
<1>7. AllOf(A, S) = RanTicks(OtherTasks, a, b)
  <2>1. ASSUME NEW x \in RanTicks(OtherTasks, a, b) PROVE x \in AllOf(A, S)
    <3>1. PICK k \in OtherTasks : k = ran[x] /\ x \in (a + 1) .. b
      BY DEF RanTicks
    <3>2. Group(k) \in S /\ k \in OfGroup(Group(k))
      BY <1>1 DEF OtherGroups, OfGroup, OtherTasks
    <3>3. x \in A[Group(k)]
      BY <1>3, <3>1, <3>2 DEF RanTicks
    <3> QED BY <3>2, <3>3 DEF AllOf
  <2>2. ASSUME NEW x \in AllOf(A, S) PROVE x \in RanTicks(OtherTasks, a, b)
    <3>1. PICK g \in S : x \in A[g]
      BY DEF AllOf
    <3> QED BY <1>3, <3>1 DEF RanTicks, OfGroup
  <2> QED BY <2>1, <2>2
<1>8. AllOthers(ivs, a, b) = Cardinality(RanTicks(OtherTasks, a, b))
  BY <1>4, <1>6, <1>7, SumOfApart
<1>9. ASSUME AllOthers(ivs, a, b) # 0 PROVE \E g \in OtherGroups : Others(ivs, g, a, b) # 0
  <2>1. AllOf(A, S) # {}
    BY <1>7, <1>8, <1>9, FS_EmptySet
  <2>2. PICK g \in S : A[g] # {}
    BY <2>1 DEF AllOf
  <2>3. IsFiniteSet(A[g]) /\ f[g] = Cardinality(A[g])
    BY <1>6 DEF SizesOf
  <2>4. f[g] # 0
    BY <2>2, <2>3, FS_EmptySet
  <2> QED BY <1>1, <1>2, <2>4
<1> QED BY <1>8, <1>9

\* One of the groups has most, if there is a group.
LEMMA LargestIs ==
  ASSUME TraceTypes, NEW ivs, TaskIvs(ivs), NEW a, NEW b, Inside(ivs, a, b), OtherGroups # {}
  PROVE  /\ Largest(ivs, a, b) \in OtherGroups
         /\ \A h \in OtherGroups : Others(ivs, h, a, b) <= Others(ivs, Largest(ivs, a, b), a, b)
<1>0. IsFiniteSet((a + 1) .. b)
  BY FS_Interval DEF Inside
<1>1. PICK n \in Nat : n = Cardinality((a + 1) .. b) /\ IsFiniteSet((a + 1) .. b)
  BY <1>0, FS_CardinalityType
<1>2. ASSUME NEW g PROVE Others(ivs, g, a, b) \in 0 .. n
  <2>1. RanTicks(OfGroup(g), a, b) \in SUBSET ((a + 1) .. b)
    BY DEF RanTicks
  <2>2. /\ IsFiniteSet(RanTicks(OfGroup(g), a, b))
        /\ Cardinality(RanTicks(OfGroup(g), a, b)) <= n
    BY <1>1, <2>1, FS_Subset
  <2>3. Cardinality(RanTicks(OfGroup(g), a, b)) \in Nat
    BY <2>2, FS_CardinalityType
  <2> QED BY <1>1, <2>2, <2>3, OthersAre
<1>3. PICK T : T = {n - Others(ivs, g, a, b) : g \in OtherGroups}
  OBVIOUS
<1>4. T \in SUBSET Nat /\ T # {}
  BY <1>2, <1>3
<1>5. PICK m \in T : \A x \in T : m <= x
  BY <1>4, LeastOf
<1>6. PICK g \in OtherGroups : m = n - Others(ivs, g, a, b)
  BY <1>3
<1>7. ASSUME NEW h \in OtherGroups PROVE Others(ivs, h, a, b) <= Others(ivs, g, a, b)
  <2>1. m <= n - Others(ivs, h, a, b)
    BY <1>3, <1>5
  <2> QED BY <1>2, <1>6, <2>1
<1> QED BY <1>6, <1>7 DEF Largest

LEMMA FirstOfSix ==
  ASSUME NEW S, S \in SUBSET (1 .. 6), 6 \in S
  PROVE  /\ 1 \in S => Min(S) = 1
         /\ 1 \notin S /\ 2 \in S => Min(S) = 2
         /\ 1 \notin S /\ 2 \notin S /\ 3 \in S => Min(S) = 3
         /\ 1 \notin S /\ 2 \notin S /\ 3 \notin S /\ 4 \in S => Min(S) = 4
         /\ 1 \notin S /\ 2 \notin S /\ 3 \notin S /\ 4 \notin S /\ 5 \in S => Min(S) = 5
         /\ 1 \notin S /\ 2 \notin S /\ 3 \notin S /\ 4 \notin S /\ 5 \notin S => Min(S) = 6
<1>1. Min(S) \in S /\ \A x \in S : Min(S) <= x
  <2>1. S \in SUBSET Nat /\ S # {}
    OBVIOUS
  <2> QED BY <2>1, MinIsLeast
<1>2. PICK m \in 1 .. 6 : m = Min(S)
  BY <1>1
<1>3. m \in {1, 2, 3, 4, 5, 6}
  OBVIOUS
<1> QED BY <1>1, <1>2, <1>3

LEMMA CauseIs ==
  ASSUME NEW a, NEW b, NEW gap, NEW cpu, NEW present, NEW tasks, NEW irqs, NEW f,
         f = [a |-> a, b |-> b, gap |-> gap, cpu |-> cpu, present |-> present],
         NEW excess, excess = (b - a) - FramePeriod,
         NEW offcpu, offcpu = Max({0, (b - a) - gap - cpu}),
         NEW others, others = AllOthers(tasks, a, b), NEW most, most = Largest(tasks, a, b),
         NEW irq, irq = AllIrq(irqs, a, b)
  PROVE  Cause(f, tasks, irqs) =
           IF cpu >= FramePeriod THEN "cpu"
           ELSE IF 2 * present >= excess THEN "present"
           ELSE IF 2 * others >= Max({excess, 2 * MinOthers}) THEN most
           ELSE IF 2 * irq >= Max({excess, 2 * MinIrq}) THEN "irq"
           ELSE IF 2 * offcpu > excess THEN "blocked" ELSE "cpu"
<1>1. f.a = a /\ f.b = b /\ f.gap = gap /\ f.cpu = cpu /\ f.present = present
  OBVIOUS
<1>2. PICK v : v = <<[of |-> cpu >= FramePeriod,                            is |-> "cpu"],
                     [of |-> 2 * present >= excess,                         is |-> "present"],
                     [of |-> 2 * others >= Max({excess, 2 * MinOthers}),    is |-> most],
                     [of |-> 2 * irq >= Max({excess, 2 * MinIrq}),          is |-> "irq"],
                     [of |-> 2 * offcpu > excess,                           is |-> "blocked"],
                     [of |-> TRUE,                                          is |-> "cpu"]>>
  OBVIOUS
<1>3. Cause(f, tasks, irqs) = v[Min({i \in DOMAIN v : v[i].of})].is
  BY <1>1, <1>2, ZenonT(60) DEF Cause
<1>4. DOMAIN v = 1 .. 6
  BY <1>2
<1>5. /\ v[1].is = "cpu" /\ v[2].is = "present" /\ v[3].is = most
      /\ v[4].is = "irq" /\ v[5].is = "blocked" /\ v[6].is = "cpu"
  BY <1>2
<1>6. /\ v[1].of <=> cpu >= FramePeriod
      /\ v[2].of <=> 2 * present >= excess
      /\ v[3].of <=> 2 * others >= Max({excess, 2 * MinOthers})
      /\ v[4].of <=> 2 * irq >= Max({excess, 2 * MinIrq})
      /\ v[5].of <=> 2 * offcpu > excess
      /\ v[6].of
  BY <1>2
<1>7. PICK S : S = {i \in DOMAIN v : v[i].of}
  OBVIOUS
<1>8. /\ S \in SUBSET (1 .. 6) /\ 6 \in S
      /\ 1 \in S <=> cpu >= FramePeriod
      /\ 2 \in S <=> 2 * present >= excess
      /\ 3 \in S <=> 2 * others >= Max({excess, 2 * MinOthers})
      /\ 4 \in S <=> 2 * irq >= Max({excess, 2 * MinIrq})
      /\ 5 \in S <=> 2 * offcpu > excess
  BY <1>4, <1>6, <1>7
<1> QED BY <1>3, <1>5, <1>7, <1>8, FirstOfSix, Zenon

\* Ticks of the window that are not main's and not idle's are others'.
LEMMA TicksAreShared ==
  ASSUME TraceTypes, NEW ivs, TaskIvs(ivs), NEW a, NEW b, Inside(ivs, a, b),
         NEW gap \in 0 .. (b - a),
         RanIn({"idle"}, a + gap, b) = 0
  PROVE  /\ RanIn({"main"}, a + gap, b) \in Nat /\ RanIn(OtherTasks, a, b) \in Nat
         /\ (b - a) - gap - RanIn({"main"}, a + gap, b) <= RanIn(OtherTasks, a, b)
<1>1. a \in Nat /\ b \in Nat /\ a < b
  BY DEF Inside
<1>2. PICK c \in Nat : c = a + gap /\ c <= b /\ b - c = (b - a) - gap
  BY <1>1
<1>3. PICK M, I, O, W : /\ M = RanTicks({"main"}, c, b) /\ I = RanTicks({"idle"}, c, b)
                        /\ O = RanTicks(OtherTasks, c, b) /\ W = (c + 1) .. b
  OBVIOUS
<1>4. IsFiniteSet(M) /\ IsFiniteSet(I) /\ IsFiniteSet(O)
  BY <1>1, <1>2, <1>3, RanTicksFinite
<1>5. I = {}
  <2>1. Cardinality(I) = 0
    BY <1>2, <1>3 DEF RanIn, RanTicks
  <2> QED BY <1>4, <2>1, FS_EmptySet
<1>6. W = M \union O
  <2>1. ASSUME NEW x \in W PROVE x \in M \union O
    <3>1. x \in (a + 1) .. b
      BY <1>1, <1>2, <1>3
    <3>2. ran[x] \in Tasks
      BY <3>1, InsideIsRecorded
    <3>3. x \notin I
      BY <1>5
    <3> QED BY <1>3, <3>2, <3>3 DEF RanTicks, OtherTasks
  <2> QED BY <1>3, <2>1 DEF RanTicks
<1>7. M \intersect O = {}
  BY <1>3 DEF RanTicks, OtherTasks
<1>8. Cardinality(W) = Cardinality(M) + Cardinality(O) - Cardinality(M \intersect O)
  BY <1>4, <1>6, FS_Union
<1>9. Cardinality(M \intersect O) = 0
  BY <1>7, FS_EmptySet
<1>10. Cardinality(W) = b - c
  <2>1. Cardinality(W) = IF c + 1 > b THEN 0 ELSE b - (c + 1) + 1
    BY <1>1, <1>2, <1>3, FS_Interval
  <2> QED BY <1>1, <1>2, <2>1
<1>11. PICK A : A = RanTicks(OtherTasks, a, b) /\ IsFiniteSet(A)
  BY <1>1, RanTicksFinite
<1>12. O \in SUBSET A
  BY <1>1, <1>2, <1>3, <1>11 DEF RanTicks
<1>13. Cardinality(O) <= Cardinality(A)
  BY <1>11, <1>12, FS_Subset
<1>14. Cardinality(M) \in Nat /\ Cardinality(O) \in Nat /\ Cardinality(A) \in Nat
  BY <1>4, <1>11, FS_CardinalityType
<1>15. RanIn({"main"}, a + gap, b) = Cardinality(M) /\ RanIn(OtherTasks, a, b) = Cardinality(A)
  BY <1>2, <1>3, <1>11 DEF RanIn, RanTicks
<1> QED BY <1>1, <1>2, <1>8, <1>9, <1>10, <1>13, <1>14, <1>15

LEMMA GroupsAreNoVerdicts ==
  ASSUME NEW g \in OtherGroups
  PROVE  /\ g # "cpu" /\ g # "present" /\ g # "irq" /\ g # "blocked"
         /\ \A k \in Tasks : Group(k) = g <=> k \in OfGroup(g)
<1>1. PICK k \in OtherTasks : g = Group(k)
  BY DEF OtherGroups, OtherTasks
<1>2. g \in Tasks \/ g = "shell-forks"
  BY <1>1 DEF Group, OtherTasks
<1>3. \A v \in Verdicts : v \notin Tasks
  BY TraceAssumption
<1>4. g # "cpu" /\ g # "present" /\ g # "irq" /\ g # "blocked"
  BY <1>2, <1>3 DEF Verdicts
<1>5. g # "main" /\ g # "idle"
  BY <1>1 DEF Group, OtherTasks
<1>6. ASSUME NEW l \in Tasks, Group(l) = g PROVE l \in OtherTasks
  <2>1. "main" \notin Shell /\ "idle" \notin Shell
    BY TraceAssumption
  <2> QED BY <1>5, <1>6, <2>1 DEF OtherTasks, Group
<1> QED BY <1>4, <1>6 DEF OfGroup, OtherTasks

LEMMA BlameIsRight ==
  ASSUME TraceTypes, NEW ivs, TaskIvs(ivs), NEW irqs, NEW a, NEW b, Inside(ivs, a, b),
         NEW gap \in 0 .. (b - a), NEW present, NEW f, NEW cpu, cpu = RanIn({"main"}, a + gap, b),
         f = [a |-> a, b |-> b, gap |-> gap, cpu |-> cpu, present |-> present],
         NEW by, by = Cause(f, ivs, irqs), b - a > FramePeriod
  PROVE  /\ by = "cpu" => gap + cpu >= FramePeriod
         /\ by \in OtherGroups =>
              /\ Others(ivs, by, a, b) > 0
              /\ \A g \in OtherGroups : Others(ivs, g, a, b) <= Others(ivs, by, a, b)
         /\ by = "blocked" =>
              RanIn({"idle"}, a + gap, b) > 0 \/ RanIn(OtherTasks, a, b) < MinOthers
<1>1. PICK excess, offcpu, others, most, irq :
        /\ excess = (b - a) - FramePeriod /\ offcpu = Max({0, (b - a) - gap - cpu})
        /\ others = AllOthers(ivs, a, b) /\ most = Largest(ivs, a, b) /\ irq = AllIrq(irqs, a, b)
  OBVIOUS
<1>2. by = IF cpu >= FramePeriod THEN "cpu"
           ELSE IF 2 * present >= excess THEN "present"
           ELSE IF 2 * others >= Max({excess, 2 * MinOthers}) THEN most
           ELSE IF 2 * irq >= Max({excess, 2 * MinIrq}) THEN "irq"
           ELSE IF 2 * offcpu > excess THEN "blocked" ELSE "cpu"
  BY <1>1, CauseIs
<1>3. /\ a \in Nat /\ b \in Nat /\ a < b /\ gap \in Nat /\ a + gap \in Nat
      /\ FramePeriod \in Nat /\ MinOthers \in Nat
  BY TraceNumbers DEF Inside
<1>4. cpu \in Nat
  <2>1. IsFiniteSet(RanTicks({"main"}, a + gap, b)) /\ cpu = Cardinality(RanTicks({"main"}, a + gap, b))
    BY <1>3, RanTicksFinite DEF RanIn, RanTicks
  <2> QED BY <2>1, FS_CardinalityType
<1>5. others \in Nat /\ others = RanIn(OtherTasks, a, b)
  <2>1. others = Cardinality(RanTicks(OtherTasks, a, b))
    BY <1>1, AllOthersAre
  <2>2. IsFiniteSet(RanTicks(OtherTasks, a, b))
    BY <1>3, RanTicksFinite
  <2> QED BY <2>1, <2>2, FS_CardinalityType DEF RanIn, RanTicks
<1>6. excess \in Nat /\ excess > 0
  BY <1>1, <1>3
<1>7. /\ offcpu \in Int /\ offcpu >= (b - a) - gap - cpu
      /\ offcpu = (IF 0 >= (b - a) - gap - cpu THEN 0 ELSE (b - a) - gap - cpu)
  <2>1. (b - a) - gap - cpu \in Int
    BY <1>3, <1>4
  <2>2. offcpu = (IF 0 >= (b - a) - gap - cpu THEN 0 ELSE (b - a) - gap - cpu)
    BY <1>1, <2>1, LargerOf
  <2> QED BY <2>1, <2>2
<1>8. PICK least \in Nat : /\ least = Max({excess, 2 * MinOthers})
                           /\ least = (IF excess >= 2 * MinOthers THEN excess ELSE 2 * MinOthers)
  BY <1>3, <1>6, LargerOf
<1>9. 2 * others >= least =>
        /\ others # 0 /\ most \in OtherGroups
        /\ \A g \in OtherGroups : Others(ivs, g, a, b) <= Others(ivs, most, a, b)
  <2> SUFFICES ASSUME 2 * others >= least
               PROVE  /\ others # 0 /\ most \in OtherGroups
                      /\ \A g \in OtherGroups : Others(ivs, g, a, b) <= Others(ivs, most, a, b)
    OBVIOUS
  <2>1. others # 0
    BY <1>5, <1>6, <1>8, <1>3
  <2>2. \E g \in OtherGroups : Others(ivs, g, a, b) # 0
    BY <1>1, <2>1, AllOthersAre
  <2>3. OtherGroups # {}
    BY <2>2
  <2>4. /\ most \in OtherGroups
        /\ \A g \in OtherGroups : Others(ivs, g, a, b) <= Others(ivs, most, a, b)
    BY <1>1, <2>3, LargestIs
  <2> QED BY <2>1, <2>4
<1>10. ASSUME by = "cpu" PROVE gap + cpu >= FramePeriod
  <2>1. cpu >= FramePeriod \/ ~(2 * offcpu > excess)
    BY <1>2, <1>8, <1>9, <1>10, GroupsAreNoVerdicts
  <2> QED BY <1>1, <1>3, <1>4, <1>7, <2>1
<1>11. ASSUME by \in OtherGroups
       PROVE  /\ Others(ivs, by, a, b) > 0
              /\ \A g \in OtherGroups : Others(ivs, g, a, b) <= Others(ivs, by, a, b)
  <2>1. by # "cpu" /\ by # "present" /\ by # "irq" /\ by # "blocked"
    BY <1>11, GroupsAreNoVerdicts
  <2>2. 2 * others >= least /\ by = most
    BY <1>2, <1>8, <2>1, Zenon
  <2>3. /\ others # 0
        /\ \A g \in OtherGroups : Others(ivs, g, a, b) <= Others(ivs, by, a, b)
    BY <1>9, <2>2
  <2>4. PICK g \in OtherGroups : Others(ivs, g, a, b) # 0
    BY <1>1, <2>3, AllOthersAre
  <2>5. \A h : Others(ivs, h, a, b) \in Nat
    <3>1. \A h : IsFiniteSet(RanTicks(OfGroup(h), a, b))
      BY <1>3, RanTicksFinite
    <3>2. \A h : Others(ivs, h, a, b) = Cardinality(RanTicks(OfGroup(h), a, b))
      BY OthersAre
    <3> QED BY <3>1, <3>2, FS_CardinalityType
  <2>6. Others(ivs, g, a, b) \in Nat /\ Others(ivs, by, a, b) \in Nat
    BY <2>5
  <2>7. Others(ivs, g, a, b) <= Others(ivs, by, a, b)
    BY <2>3
  <2> QED BY <2>3, <2>4, <2>6, <2>7
<1>12. ASSUME by = "blocked", ~(RanIn({"idle"}, a + gap, b) > 0)
       PROVE  RanIn(OtherTasks, a, b) < MinOthers
  <2>1. ~(2 * others >= least) /\ 2 * offcpu > excess
    BY <1>2, <1>8, <1>9, <1>12, GroupsAreNoVerdicts
  <2>2. RanIn({"idle"}, a + gap, b) = 0
    <3>1. /\ IsFiniteSet(RanTicks({"idle"}, a + gap, b))
          /\ RanIn({"idle"}, a + gap, b) = Cardinality(RanTicks({"idle"}, a + gap, b))
      BY <1>3, RanTicksFinite DEF RanIn, RanTicks
    <3>2. RanIn({"idle"}, a + gap, b) \in Nat
      BY <3>1, FS_CardinalityType
    <3> QED BY <1>12, <3>2
  <2>3. (b - a) - gap - cpu <= others
    BY <1>5, <2>2, TicksAreShared
  <2>4. offcpu <= others
    BY <1>3, <1>4, <1>5, <1>7, <2>3
  <2> QED BY <1>3, <1>5, <1>6, <1>7, <1>8, <2>1, <2>4
<1> QED BY <1>10, <1>11, <1>12

LEMMA BlamesAreEarned == TraceInv => BlameIsEarned
<1> SUFFICES ASSUME TraceInv, ended, ~nested PROVE BlameIsEarned
  BY DEF BlameIsEarned
<1>1. TraceTypes
  BY DEF TraceInv
<1>2. PICK tasks, irqs : tasks = TaskIntervals /\ irqs = IrqIntervals
  OBVIOUS
<1>3. TaskIvs(tasks)
  BY <1>2 DEF TraceInv, TasksRead, TaskIntervals, LoadCpu0, TraceRead
<1>4. ASSUME NEW w \in Windows(tasks), NEW gap \in 0 .. (w[2] - w[1]),
             NEW present \in {0, w[2] - w[1]},
             NEW cpu, cpu = RanIn({"main"}, w[1] + gap, w[2]),
             NEW f, f = [a |-> w[1], b |-> w[2], gap |-> gap, cpu |-> cpu, present |-> present],
             NEW by, by = Cause(f, tasks, irqs), w[2] - w[1] > FramePeriod
      PROVE  /\ by = "cpu" => gap + cpu >= FramePeriod
             /\ by \in OtherGroups =>
                  /\ RanIn({k \in Tasks : Group(k) = by}, w[1], w[2]) > 0
                  /\ \A g \in OtherGroups : RanIn({k \in Tasks : Group(k) = g}, w[1], w[2])
                                              <= RanIn({k \in Tasks : Group(k) = by}, w[1], w[2])
             /\ by = "blocked" =>
                  RanIn({"idle"}, w[1] + gap, w[2]) > 0
                    \/ RanIn(Tasks \ {"main", "idle"}, w[1], w[2]) < MinOthers
  <2>1. PICK a, b : a = w[1] /\ b = w[2]
    OBVIOUS
  <2>2. Inside(tasks, a, b)
    BY <2>1, TraceNumbers DEF Windows, Inside
  <2>3. ASSUME NEW g \in OtherGroups
        PROVE  RanIn({k \in Tasks : Group(k) = g}, a, b) = Others(tasks, g, a, b)
    <3>1. {k \in Tasks : Group(k) = g} = OfGroup(g)
      BY GroupsAreNoVerdicts DEF OfGroup, OtherTasks
    <3>2. Others(tasks, g, a, b) = Cardinality(RanTicks(OfGroup(g), a, b))
      BY <1>1, <1>3, <2>2, OthersAre
    <3> QED BY <3>1, <3>2 DEF RanIn, RanTicks
  <2>4. /\ cpu = RanIn({"main"}, a + gap, b) /\ gap \in 0 .. (b - a) /\ b - a > FramePeriod
        /\ f = [a |-> a, b |-> b, gap |-> gap, cpu |-> cpu, present |-> present]
    BY <1>4, <2>1
  <2>5. /\ by = "cpu" => gap + cpu >= FramePeriod
        /\ by \in OtherGroups =>
             /\ Others(tasks, by, a, b) > 0
             /\ \A g \in OtherGroups : Others(tasks, g, a, b) <= Others(tasks, by, a, b)
        /\ by = "blocked" =>
             RanIn({"idle"}, a + gap, b) > 0 \/ RanIn(OtherTasks, a, b) < MinOthers
    BY <1>1, <1>3, <1>4, <2>2, <2>4, BlameIsRight
  <2> QED BY <2>1, <2>3, <2>5 DEF OtherTasks
<1>5. ASSUME NEW w \in Windows(TaskIntervals), NEW gap \in 0 .. (w[2] - w[1]),
             NEW present \in {0, w[2] - w[1]}
      PROVE  LET cpu == RanIn({"main"}, w[1] + gap, w[2])
                 f   == [a |-> w[1], b |-> w[2], gap |-> gap, cpu |-> cpu, present |-> present]
                 lost(g) == RanIn({k \in Tasks : Group(k) = g}, w[1], w[2])
                 by  == Cause(f, TaskIntervals, IrqIntervals)
             IN w[2] - w[1] > FramePeriod =>
                  /\ by = "cpu" => gap + cpu >= FramePeriod
                  /\ by \in OtherGroups => lost(by) > 0 /\ \A g \in OtherGroups : lost(g) <= lost(by)
                  /\ by = "blocked" =>
                       RanIn({"idle"}, w[1] + gap, w[2]) > 0
                         \/ RanIn(Tasks \ {"main", "idle"}, w[1], w[2]) < MinOthers
  BY <1>2, <1>4
<1> QED BY <1>5 DEF BlameIsEarned

\* The report of a long frame is true, whatever was open when the trace began or ended:
\* the times it lists, and the cause it names.
THEOREM ReportsAreTrue == TraceSpec => []AttributionIsTrue
<1>1. TraceInit => TraceInv
  BY TraceInvStarts
<1>2. TraceInv /\ [TraceNext]_traceVars => TraceInv'
  BY TraceInvKept
<1>3. TraceInv => AttributionIsTrue
  BY TimesAreExact, BlamesAreEarned DEF AttributionIsTrue
<1> QED BY <1>1, <1>2, <1>3, PTL DEF TraceSpec
=============================================================================
