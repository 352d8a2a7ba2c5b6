-------------------------------- MODULE MCGowt --------------------------------
(* The parts of gowt side by side: a behaviour is one of the part that which *)
(* names, the others keep their initial states.                              *)
(*                                                                           *)
(* The tree of model.go: a package with a test of two subtests, one of them  *)
(* behind a prefix ("x/y"), and a package without tests.                     *)
EXTENDS GowtTree, GowtRun, GowtLog, GowtLogView, GowtTreeView, GowtScreens, TLC

VARIABLE which
vars == <<goTreeVars, runVars, logVars, logViewVars, treeViewVars, screensVars, which>>

ParentDef == [A |-> "p", As |-> "A", Ax |-> "A", Axy |-> "Ax"]
AboveDef == [p |-> {}, q |-> {}, A |-> {"p"}, As |-> {"A", "p"}, Ax |-> {"A", "p"},
             Axy |-> {"Ax", "A", "p"}]
LogAboveDef == [p |-> {}, a |-> {"p"}, b |-> {"p"}]
UnderDef == [a |-> "p", b |-> "p"]
NameRankDef == [p |-> 1, a |-> 2, b |-> 3]

FirstRows == CHOOSE r \in Rows : TRUE
FirstSize == CHOOSE s \in Sizes : TRUE
FirstHeight == CHOOSE h \in Heights : TRUE
Init ==
  /\ which \in {"tree", "run", "log", "logview", "treeview", "screens"}
  /\ TreeInit /\ RunInit /\ LogInit /\ LogViewInit /\ TreeViewInit /\ ScreensInit
  /\ which # "logview" => height = FirstHeight
  /\ which # "treeview" => rows = FirstRows
  /\ which # "screens" => win = FirstSize

Only(name, Step) == which = name /\ Step /\ UNCHANGED which
OfRun(Step) ==
  Only("run", Step) /\ UNCHANGED <<goTreeVars, logVars, logViewVars, treeViewVars, screensVars>>
Next ==
  \/ Only("tree", TreeNext) /\ UNCHANGED <<runVars, logVars, logViewVars, treeViewVars, screensVars>>
  \/ OfRun(RunNext)
  \/ Only("log", LogNext) /\ UNCHANGED <<goTreeVars, runVars, logViewVars, treeViewVars, screensVars>>
  \/ Only("logview", LogViewNext) /\ UNCHANGED <<goTreeVars, runVars, logVars, treeViewVars, screensVars>>
  \/ Only("treeview", TreeViewNext) /\ UNCHANGED <<goTreeVars, runVars, logVars, logViewVars, screensVars>>
  \/ Only("screens", ScreensNext) /\ UNCHANGED <<goTreeVars, runVars, logVars, logViewVars, treeViewVars>>

(* Bubble Tea runs every command and Update takes every message; a test      *)
(* process ends and is waited for.                                           *)
Fairness ==
  /\ WF_runVars(which = "run" /\ Update)
  /\ WF_runVars(which = "run" /\ (Command \/ \E r \in Procs : Process(r)))
Spec == Init /\ [][Next]_vars /\ Fairness

(* A run is not shown as running for ever: the end of its process is seen.   *)
RunEnds == []<>(which = "run" => ~running \/ quit)

(* The log is the lines that came and the list is the tree with its closed   *)
(* nodes folded; the log on screen is the open node's but for a kept search, *)
(* whose marks are gone when the next one is typed; screens agree on the run *)
(* and, but for a tree shown again from the log, on the window.              *)
ViewsSound ==
  /\ LogTypeOK /\ LogIsLines /\ RenderedIsLog /\ LogViewTypeOK /\ NoOldMarks /\ TextIsNodes
  /\ TreeViewTypeOK /\ ListIsTree /\ OneQuestion /\ SizeFresh /\ StoppedIsOver

(* A run is seen to end and leaves nothing running; while it goes on the     *)
(* user's place is kept, or the end is followed.                             *)
GowtProgress == RunEnds /\ ScrollHeld /\ TailFollowed /\ CursorOnScreen /\ NeverLeftRunning
=============================================================================
