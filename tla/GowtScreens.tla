------------------------------ MODULE GowtScreens ------------------------------
(***************************************************************************)
(* gowt/app.go: which screen and which question are shown, who gets a key  *)
(* and a new window size, and what a question's answer does, while the     *)
(* tests end and a rerun is prepared behind it.                            *)
(*                                                                         *)
(* Update offers a message to the questions first, which take keys only,   *)
(* then to itself, then to the view of the screen and to no other.         *)
(***************************************************************************)
EXTENDS Integers, FiniteSets

CONSTANTS
  Sizes,      \* sizes of the window
  MaxCleaning \* go clean commands under way

ASSUME ScreensAssumption == Sizes # {} /\ MaxCleaning \in Nat

VARIABLES
  screen, prevScreen,
  came,       \* history: how the tree last came on screen: "start", "help", "back" or "rerun"
  asked,      \* the questions shown: showQuitModal, showRerunModal, ...
  choice,     \* the button of a question: "yes" or "no"
  testing,    \* App.running
  stopped,    \* TreeView.stopped
  cleaning,   \* "all" or "one" -> go clean commands whose message has not come
  win,        \* App.width and height
  size,       \* screen -> size its view was told
  left        \* the program has ended

screensVars == <<screen, prevScreen, came, asked, choice, testing, stopped, cleaning, win, size, left>>

Screens == {"tree", "log", "help"}
Questions == {"quit", "rerun", "logrerun", "stop"}

ScreensInit ==
  /\ screen = "tree" /\ prevScreen = "tree" /\ came = "start" /\ asked = {} /\ choice = "no"
  /\ testing = TRUE /\ stopped = FALSE
  /\ cleaning = [k \in {"all", "one"} |-> 0]
  /\ win \in Sizes /\ size = [s \in Screens |-> win]
  /\ left = FALSE

-----------------------------------------------------------------------------
(* Messages that are no keys pass the questions. *)

WindowSize(s) ==
  /\ ~left /\ s # win
  /\ win' = s /\ size' = [size EXCEPT ![screen] = s]
  /\ UNCHANGED <<screen, prevScreen, came, asked, choice, testing, stopped, cleaning, left>>

TestsDone ==
  /\ ~left /\ testing
  /\ testing' = FALSE
  /\ UNCHANGED <<screen, prevScreen, came, asked, choice, stopped, cleaning, win, size, left>>

(* Mutant: the mark of the earlier stop stays. *)
CleanedStillStopped(k) ==
  /\ ~left /\ cleaning[k] > 0
  /\ cleaning' = [cleaning EXCEPT ![k] = @ - 1]
  /\ testing' = TRUE
  /\ screen' = IF k = "one" THEN "tree" ELSE screen
  /\ came' = IF k = "one" THEN "rerun" ELSE came
  /\ UNCHANGED <<prevScreen, asked, choice, stopped, win, size, left>>

(* CacheCleanedMsg; LogCacheCleanedMsg also shows the tree. *)
Cleaned(k) ==
  /\ ~left /\ cleaning[k] > 0
  /\ cleaning' = [cleaning EXCEPT ![k] = @ - 1]
  /\ testing' = TRUE /\ stopped' = FALSE
  /\ screen' = IF k = "one" THEN "tree" ELSE screen
  /\ came' = IF k = "one" THEN "rerun" ELSE came
  /\ UNCHANGED <<prevScreen, asked, choice, win, size, left>>

-----------------------------------------------------------------------------
(* Keys while a question is shown. *)

Choose(c) ==
  /\ ~left /\ asked # {}
  /\ choice' = c
  /\ UNCHANGED <<screen, prevScreen, came, asked, testing, stopped, cleaning, win, size, left>>

No(q) ==
  /\ ~left /\ q \in asked
  /\ asked' = asked \ {q}
  /\ UNCHANGED <<screen, prevScreen, came, choice, testing, stopped, cleaning, win, size, left>>

Yes(q) ==
  /\ ~left /\ q \in asked
  /\ \/ q = "quit" /\ left' = TRUE /\ UNCHANGED <<asked, testing, stopped, cleaning>>
     \/ /\ q = "stop"
        /\ asked' = asked \ {q} /\ testing' = FALSE /\ stopped' = TRUE
        /\ UNCHANGED <<cleaning, left>>
     \/ /\ q \in {"rerun", "logrerun"}
        /\ LET k == IF q = "rerun" THEN "all" ELSE "one" IN
             /\ cleaning[k] < MaxCleaning
             /\ cleaning' = [cleaning EXCEPT ![k] = @ + 1]
        /\ asked' = asked \ {q}
        /\ UNCHANGED <<testing, stopped, left>>
  /\ UNCHANGED <<screen, prevScreen, came, choice, win, size>>

Enter(q) == IF choice = "yes" THEN Yes(q) ELSE No(q)

-----------------------------------------------------------------------------
(* Keys that reach the view of the screen. *)

(* Mutant: the question does not keep the key from the view. *)
OfferOver(s, q) ==
  /\ ~left /\ screen = s
  /\ asked' = asked \cup {q} /\ choice' = "no"
  /\ UNCHANGED <<screen, prevScreen, came, testing, stopped, cleaning, win, size, left>>

Offer(s, q) ==
  /\ ~left /\ asked = {} /\ screen = s
  /\ asked' = {q} /\ choice' = "no"
  /\ UNCHANGED <<screen, prevScreen, came, testing, stopped, cleaning, win, size, left>>

OfferRerun == Offer("tree", "rerun")
OfferStop == testing /\ Offer("tree", "stop")
OfferLogRerun == Offer("log", "logrerun")

(* Mutant: only the stop key asks. *)
QuitNow ==
  /\ ~left /\ asked = {} /\ screen = "tree"
  /\ left' = TRUE
  /\ UNCHANGED <<screen, prevScreen, came, asked, choice, testing, stopped, cleaning, win, size>>

Quit ==
  \/ testing /\ Offer("tree", "quit")
  \/ /\ ~left /\ asked = {} /\ screen = "tree" /\ ~testing
     /\ left' = TRUE
     /\ UNCHANGED <<screen, prevScreen, came, asked, choice, testing, stopped, cleaning, win, size>>

SelectTest ==
  /\ ~left /\ asked = {} /\ screen = "tree"
  /\ screen' = "log" /\ size' = [size EXCEPT !["log"] = win]
  /\ UNCHANGED <<prevScreen, came, asked, choice, testing, stopped, cleaning, win, left>>

LogBack ==
  /\ ~left /\ asked = {} /\ screen = "log"
  /\ screen' = "tree" /\ came' = "back"
  /\ UNCHANGED <<prevScreen, asked, choice, testing, stopped, cleaning, win, size, left>>

ShowHelp ==
  /\ ~left /\ asked = {} /\ screen # "help"
  /\ prevScreen' = screen /\ screen' = "help" /\ size' = [size EXCEPT !["help"] = win]
  /\ UNCHANGED <<came, asked, choice, testing, stopped, cleaning, win, left>>

(* Mutant: the view behind the help keeps its size. *)
CloseHelpOnly ==
  /\ ~left /\ asked = {} /\ screen = "help"
  /\ screen' = prevScreen /\ came' = IF prevScreen = "tree" THEN "help" ELSE came
  /\ UNCHANGED <<prevScreen, asked, choice, testing, stopped, cleaning, win, size, left>>

LeaveHelp ==
  /\ ~left /\ asked = {} /\ screen = "help"
  /\ screen' = prevScreen /\ size' = [size EXCEPT ![prevScreen] = win]
  /\ came' = IF prevScreen = "tree" THEN "help" ELSE came
  /\ UNCHANGED <<prevScreen, asked, choice, testing, stopped, cleaning, win, left>>

ScreensNext ==
  \/ \E s \in Sizes : WindowSize(s)
  \/ TestsDone \/ \E k \in {"all", "one"} : Cleaned(k)
  \/ \E c \in {"yes", "no"} : Choose(c)
  \/ \E q \in Questions : No(q) \/ Yes(q) \/ Enter(q)
  \/ OfferRerun \/ OfferStop \/ OfferLogRerun \/ Quit
  \/ SelectTest \/ LogBack \/ ShowHelp \/ LeaveHelp

ScreensSpec == ScreensInit /\ [][ScreensNext]_screensVars

-----------------------------------------------------------------------------
(* Properties *)

(* Two questions are never on screen at once: the keys y, n and enter have  *)
(* one meaning, whatever messages come in meanwhile.                        *)
OneQuestion == Cardinality(asked) <= 1

(* The log and the help are drawn for the window as it is, also when its    *)
(* size changed while another screen was shown; so is the tree when the     *)
(* help gives it back.  BackRequest and LogCacheCleanedMsg show the tree    *)
(* without telling it the size: it is drawn for the old one until the next  *)
(* resize.                                                                  *)
SizeFresh ==
  screen \in {"log", "help"} \/ came \in {"start", "help"} => size[screen] = win

(* Running tests are not left behind without an answered question. *)
NeverLeftRunning == [][left' /\ ~left /\ testing => "quit" \in asked]_screensVars

(* A run that is going on is not shown as stopped by the user. *)
StoppedIsOver == stopped => ~testing

=============================================================================
