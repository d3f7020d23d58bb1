------------------------------ MODULE TreePatch ------------------------------
(***************************************************************************)
(* scripts/apply_godot_mister.py: the script that turns a stock Godot tree *)
(* into the MiSTer one.  It copies src/godot/** over the tree and then     *)
(* makes a fixed list of anchored edits, one after the other.  An edit     *)
(* whose marker is already in the file is skipped, one whose anchor is not *)
(* there ends the script.  The script is run again after a kill, after an  *)
(* error and after every pull, on whatever tree the last run left.         *)
(*                                                                         *)
(* A file is the set of the pieces of text the edits look for: anchors of  *)
(* upstream text, markers, text that a later edit is anchored on, and its  *)
(* Ending, the text after the last of them.                                  *)
(***************************************************************************)
EXTENDS Integers, Sequences

CONSTANTS
  Edits,       \* the edit() calls, in the order of the script
  Edited,      \* the files they patch
  Copied,      \* the files of src/godot
  Upstream,    \* [Edited -> the pieces of the stock file]
  Ending,        \* the end of a file
  MaxRuns      \* bound: runs of the script on one tree

\* An edit adds its marker to the file, and no edit takes a marker of that file away.
EditsAssumption ==
  /\ Ending \notin {Edits[i].marker : i \in DOMAIN Edits}
  /\ Edits \in Seq([file : Edited, marker : STRING, anchor : STRING,
                    adds : SUBSET STRING, drops : SUBSET STRING])
  /\ \A i \in DOMAIN Edits : Edits[i].marker \in Edits[i].adds
  /\ \A i, j \in DOMAIN Edits : Edits[i].file = Edits[j].file =>
                                  Edits[i].marker \notin Edits[j].drops
  /\ Edited \intersect Copied = {}
  /\ Upstream \in [Edited -> SUBSET STRING]
  /\ Ending \in STRING

ASSUME EditsAssumption

\* The marker of an edit is in no stock file, nor in the text of an edit before it, but
\* for an edit that is made again.
OwnMarkers ==
  \A i \in DOMAIN Edits :
    /\ Edits[i].marker \notin Upstream[Edits[i].file]
    /\ \A j \in 1..(i - 1) :
         Edits[j].file = Edits[i].file /\ Edits[i].marker \in Edits[j].adds =>
           \E k \in 1..(i - 1) : Edits[k] = Edits[i]

ASSUME OwnMarkers

VARIABLES
  tree,      \* [Edited \union Copied -> the pieces each file holds]
  spc,       \* where the script is: "copy" | "edit" | "write" | "done" | "exit" | "killed"
  next,      \* index of the edit() call it is at
  left,      \* files it has still to copy
  runs,      \* how often it was started
  torn,      \* edited files a killed write left short
  applied    \* edits whose text has been written into the tree

patchVars == <<tree, spc, next, left, runs, torn, applied>>

Whole == {Ending}      \* a copied file, complete

PatchInit ==
  /\ tree = [f \in Edited \union Copied |-> IF f \in Edited THEN Upstream[f] ELSE {}]
  /\ spc = "copy" /\ next = 1 /\ left = Copied
  /\ runs = 1 /\ torn = {} /\ applied = {}

AllCopied == left = {}

CopyFile ==
  /\ spc = "copy" /\ ~AllCopied
  /\ \E f \in left : /\ tree' = [tree EXCEPT ![f] = Whole]
                     /\ left' = left \ {f}
  /\ UNCHANGED <<spc, next, runs, torn, applied>>

StartEdits ==
  /\ spc = "copy" /\ AllCopied
  /\ spc' = "edit"
  /\ UNCHANGED <<tree, next, left, runs, torn, applied>>

-----------------------------------------------------------------------------
(* edit(rel, marker, old, new)                                             *)

\* Mutants: a file with any marker is taken for done; an edit for done when its anchor is gone.
AnyMarker(e, text) == \E i \in DOMAIN Edits : Edits[i].file = e.file /\ Edits[i].marker \in text
AnchorGone(e, text) == e.anchor \notin text
HasMarker(e, text) == e.marker \in text
HasAnchor(e, text) == e.anchor \in text
Rewritten(e, text) == (text \ e.drops) \union e.adds      \* s.replace(old, new, 1)

AlreadyApplied ==
  /\ spc = "edit" /\ next \in DOMAIN Edits
  /\ HasMarker(Edits[next], tree[Edits[next].file])
  /\ next' = next + 1
  /\ UNCHANGED <<tree, spc, left, runs, torn, applied>>

AnchorNotFound ==
  /\ spc = "edit" /\ next \in DOMAIN Edits
  /\ ~HasMarker(Edits[next], tree[Edits[next].file])
  /\ ~HasAnchor(Edits[next], tree[Edits[next].file])
  /\ spc' = "exit"
  /\ UNCHANGED <<tree, next, left, runs, torn, applied>>

\* write_text has opened, and so truncated, the file.
Truncate ==
  /\ spc = "edit" /\ next \in DOMAIN Edits
  /\ ~HasMarker(Edits[next], tree[Edits[next].file])
  /\ HasAnchor(Edits[next], tree[Edits[next].file])
  /\ spc' = "write"
  /\ UNCHANGED <<tree, next, left, runs, torn, applied>>

Patched ==
  /\ spc = "write"
  /\ tree' = [tree EXCEPT ![Edits[next].file] = Rewritten(Edits[next], @)]
  /\ applied' = applied \union {next}
  /\ next' = next + 1
  /\ spc' = "edit"
  /\ UNCHANGED <<left, runs, torn>>

ScriptEnds ==
  /\ spc = "edit" /\ next \notin DOMAIN Edits
  /\ spc' = "done"
  /\ UNCHANGED <<tree, next, left, runs, torn, applied>>

-----------------------------------------------------------------------------
(* Kills and further runs.                                                 *)

\* Between two writes nothing is lost.
Kill ==
  /\ spc \in {"copy", "edit"}
  /\ spc' = "killed"
  /\ UNCHANGED <<tree, next, left, runs, torn, applied>>

\* In a write the file keeps what was written so far: none of it, or all but the end.
KillInCopy ==
  /\ spc = "copy"
  /\ \E f \in left : tree' = [tree EXCEPT ![f] = {}]
  /\ spc' = "killed"
  /\ UNCHANGED <<next, left, runs, torn, applied>>

Written(e, text) == {{}, Rewritten(e, text) \ {Ending}}

KillInWrite ==
  /\ spc = "write"
  /\ LET e == Edits[next] IN
       /\ \E part \in Written(e, tree[e.file]) : tree' = [tree EXCEPT ![e.file] = part]
       /\ torn' = torn \union {e.file}
  /\ spc' = "killed"
  /\ UNCHANGED <<next, left, runs, applied>>

RunAgain ==
  /\ spc \in {"done", "exit", "killed"} /\ runs < MaxRuns
  /\ spc' = "copy" /\ next' = 1 /\ left' = Copied
  /\ runs' = runs + 1
  /\ UNCHANGED <<tree, torn, applied>>

PatchNext ==
  \/ CopyFile \/ StartEdits
  \/ AlreadyApplied \/ AnchorNotFound \/ Truncate \/ Patched \/ ScriptEnds
  \/ Kill \/ KillInCopy \/ KillInWrite \/ RunAgain

PatchSpec == PatchInit /\ [][PatchNext]_patchVars

-----------------------------------------------------------------------------
PatchTypeOK ==
  /\ tree \in [Edited \union Copied -> SUBSET STRING]
  /\ spc \in {"copy", "edit", "write", "done", "exit", "killed"}
  /\ next \in 1..(Len(Edits) + 1)
  /\ spc = "write" => next \in DOMAIN Edits
  /\ left \subseteq Copied /\ torn \subseteq Edited
  /\ applied \subseteq DOMAIN Edits

\* The tree one undisturbed run makes of the stock one: what the first n edits leave.
Fresh[n \in 0..Len(Edits)] ==
  IF n = 0 THEN Upstream
  ELSE LET before == Fresh[n - 1]
           e == Edits[n]
       IN IF e.marker \in before[e.file] THEN before
          ELSE [before EXCEPT ![e.file] = (@ \ e.drops) \union e.adds]

\* A run that ends leaves the tree of one undisturbed run on stock sources, whatever
\* the runs before it did, as long as none was killed in the middle of a write of an
\* edited file; and every edit was made once, except one that repeats an earlier one.
\* (edit(): the markers and anchors must tell every prefix of the list apart, and no
\* edit's text may hold the marker of a later one.)
FinishedTreeIsFresh ==
  spc = "done" /\ torn = {} =>
    /\ \A f \in Edited \union Copied :
         tree[f] = IF f \in Edited THEN Fresh[Len(Edits)][f] ELSE Whole
    /\ \A i \in DOMAIN Edits \ applied : \E j \in 1..(i - 1) : Edits[j] = Edits[i]

\* Every edit of a finished run is in its file, unless that file was torn.
FinishedHasEveryEdit ==
  spc = "done" => \A i \in DOMAIN Edits :
                    Edits[i].file \notin torn => Edits[i].marker \in tree[Edits[i].file]

\* No edit is made twice on the same file, over all runs, short of a torn one: text is
\* never inserted a second time.
NoEditTwice ==
  [][\A i \in applied : Edits[i].file \notin torn => ~(spc = "write" /\ spc' = "edit" /\ next = i)]_patchVars

\* What the README says of the script, "anchored and idempotent", for every way a run
\* may end: a run that finishes leaves every file complete.
FinishedMeansComplete ==
  spc = "done" => \A f \in Edited \union Copied : Ending \in tree[f]
=============================================================================
