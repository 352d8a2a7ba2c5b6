----------------------------- MODULE LoadingScreen -----------------------------
(***************************************************************************)
(* The screen of cooper up while it starts and while it stops:              *)
(* tui/loading/model.go, the adapter of main.go that leaves it for the      *)
(* control panel, and updateShutdown of tui/app.go.  A goroutine does the   *)
(* steps and sends each outcome; an animation lets the bar follow.          *)
(***************************************************************************)
EXTENDS Integers, Sequences, FiniteSets

CONSTANTS
  StartTargets, StopTargets, \* how full the bar is after each step
  Full,                      \* 100 %
  Increment                  \* how far the bar moves at a tick

ASSUME LoadingAssumption ==
  /\ Full \in Nat \ {0} /\ Increment \in 1..Full
  /\ \A targets \in {StartTargets, StopTargets} :
       /\ targets \in Seq(1..Full) /\ targets # << >>
       /\ \A i \in 1..Len(targets) : targets[i] = Full <=> i = Len(targets)

VARIABLES
  stopping,   \* it is the shutdown screen
  worked,     \* the steps the goroutine has done
  gaveUp,     \* a step failed, and the goroutine returned
  told,       \* outcomes on their way: [step, ok]
  stepStatus, \* Steps
  target, barShown, hold, screenDone, hasError, \* the model
  outcome     \* "open", "entered" (the panel follows), "stopped" or "cancelled"

loadingVars == <<stopping, worked, gaveUp, told, stepStatus, target, barShown, hold, screenDone, hasError, outcome>>

Targets == IF stopping THEN StopTargets ELSE StartTargets
N == Len(Targets)

LoadingInit ==
  /\ stopping \in BOOLEAN /\ worked = 0 /\ gaveUp = FALSE /\ told = << >>
  /\ stepStatus = [i \in 1..N |-> IF i = 1 THEN "running" ELSE "pending"]
  /\ target = 0 /\ barShown = 0 /\ hold = "no" /\ screenDone = FALSE /\ hasError = FALSE
  /\ outcome = "open"

-----------------------------------------------------------------------------
(* The goroutine of runUp, or of StopWithProgress, which reports no errors. *)
WorkerStep ==
  /\ worked < N /\ ~gaveUp /\ outcome = "open"
  /\ \/ worked' = worked + 1 /\ told' = Append(told, [step |-> worked + 1, ok |-> TRUE]) /\ UNCHANGED gaveUp
     \/ ~stopping /\ gaveUp' = TRUE /\ told' = Append(told, [step |-> worked + 1, ok |-> FALSE]) /\ UNCHANGED worked
  /\ UNCHANGED <<stopping, stepStatus, target, barShown, hold, screenDone, hasError, outcome>>

(* Mutant: the step that follows is not marked. *)
CompleteStepOnly(i) ==
  /\ stepStatus' = [stepStatus EXCEPT ![i] = "done"] /\ target' = Targets[i]
  /\ UNCHANGED hasError
CompleteStep(i) ==
  /\ stepStatus' = [k \in 1..N |-> CASE k = i -> "done" [] k = i + 1 -> "running" [] OTHER -> stepStatus[k]]
  /\ target' = Targets[i]
  /\ UNCHANGED hasError
FailStep(i) ==
  /\ stepStatus' = [stepStatus EXCEPT ![i] = "error"]
  /\ hasError' = TRUE /\ UNCHANGED target
StepTold ==
  /\ outcome = "open" /\ told # << >> /\ told' = Tail(told)
  /\ IF Head(told).ok THEN CompleteStep(Head(told).step) ELSE FailStep(Head(told).step)
  /\ UNCHANGED <<stopping, worked, gaveUp, barShown, hold, screenDone, outcome>>

(* tickAnimation: the bar follows, and a full one starts the hold of 800 ms. *)
(* Mutant: a bar that has caught up is taken for a full one. *)
BarFullCaughtUp(shown) == shown >= target
(* Mutant: the bar is full above its end only. *)
BarFullBeyond(shown) == shown > Full
BarFull(shown) == shown >= Full
TickAnimation ==
  /\ outcome = "open"
  /\ LET next == IF barShown + Increment > target THEN target ELSE barShown + Increment IN
     /\ barShown' = IF barShown < target THEN next ELSE barShown
     /\ hold' = IF BarFull(barShown') /\ ~screenDone /\ ~hasError /\ hold = "no" THEN "running" ELSE hold
  /\ UNCHANGED <<stopping, worked, gaveUp, told, stepStatus, target, screenDone, hasError, outcome>>
(* holdDoneMsg: the adapter quits for the panel, the shutdown screen quits. *)
HoldDone ==
  /\ outcome = "open" /\ hold = "running" /\ hold' = "over"
  /\ screenDone' = TRUE
  /\ outcome' = CASE stopping -> "stopped" [] ~stopping /\ ~hasError -> "entered" [] OTHER -> outcome
  /\ UNCHANGED <<stopping, worked, gaveUp, told, stepStatus, target, barShown, hasError>>

(* "q" cancels a start; it leaves a shutdown only when that has failed.     *)
QuitKey ==
  /\ outcome = "open" /\ (~stopping \/ hasError)
  /\ outcome' = "cancelled"
  /\ UNCHANGED <<stopping, worked, gaveUp, told, stepStatus, target, barShown, hold, screenDone, hasError>>

LoadingStep == WorkerStep \/ StepTold \/ TickAnimation \/ HoldDone
LoadingNext == LoadingStep \/ QuitKey
LoadingSpec == LoadingInit /\ [][LoadingNext]_loadingVars

-----------------------------------------------------------------------------
(* Properties *)

LoadingTypeOK ==
  /\ barShown \in 0..Full /\ target \in 0..Full /\ hold \in {"no", "running", "over"}
  /\ outcome \in {"open", "entered", "stopped", "cancelled"}
  /\ Len(told) <= N /\ worked \in 0..N

(* The panel opens when every step of the start has been done, and cooper   *)
(* leaves by its shutdown screen when everything has been stopped.          *)
ReadyIsReady ==
  outcome \in {"entered", "stopped"} => worked = N /\ ~gaveUp /\ \A i \in 1..N : stepStatus[i] = "done"

(* While it is open the screen shows one step in work or failed, the ones   *)
(* before it done, those after it not begun.                                *)
OneStepAtATime ==
  \A i \in 1..N : stepStatus[i] \in {"running", "error"} \/ (stepStatus[i] = "pending" /\ i > 1) =>
    /\ \A k \in 1..N : k > i => stepStatus[k] = "pending"
    /\ stepStatus[i] = "pending" => stepStatus[i - 1] # "done"

(* Once it is under way a start ends, or shows that it failed; a shutdown   *)
(* ends.                                                                    *)
ScreenEnds == []<>(worked > 0 => outcome # "open" \/ hasError)
=============================================================================
