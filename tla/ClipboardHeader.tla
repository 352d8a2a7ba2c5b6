---------------------------- MODULE ClipboardHeader ----------------------------
(***************************************************************************)
(* The clipboard in the header of cooper's control panel (tui/app.go): the  *)
(* keys "c" and "x", a file dropped on the terminal, the tick that lets     *)
(* images expire, and the staged image of the clipboard manager, which      *)
(* barrels are served from.  Captures run in goroutines of their own.       *)
(***************************************************************************)
EXTENDS Integers, Sequences, FiniteSets, SequencesExt

CONSTANTS
  MaxCaptures, \* captures
  MaxClears    \* deletions asked for

ASSUME HeaderAssumption == MaxCaptures \in Nat /\ MaxClears \in Nat

VARIABLES
  header,    \* what is shown: [is, snap]
  faded,     \* what is shown has been there for more than three seconds
  captures,  \* each: [at, ok]; its image has its index
  clears,    \* deletions asked for that have not arrived, and all so far
  served,    \* the image of the manager, 0 for none
  aged,      \* images whose TTL has passed
  crossed2   \* history: a capture, a deletion or an expiry met another one, or a capture failed over an image

headerVars == <<header, faded, captures, clears, served, aged, crossed2>>

Shows(is, snap) == header' = [is |-> is, snap |-> snap]
InFlight == clears.open > 0 \/ \E i \in DOMAIN captures : captures[i].at # "end"
\* A paste: its lines that are not blank or comments, how the path is dressed,
\* and whether there is such a file.
Pastes == [lines : {1, 2}, dress : SUBSET {"quotes", "escapes", "uri"}, exists : BOOLEAN]

HeaderInit ==
  /\ header = [is |-> "Empty", snap |-> 0] /\ faded = FALSE
  /\ captures = << >> /\ clears = [open |-> 0, all |-> 0]
  /\ served = 0 /\ aged = {} /\ crossed2 = FALSE

-----------------------------------------------------------------------------
(* What a paste may mean: the text as it is and without quotes, each also   *)
(* without escapes, each also out of a URI.                                 *)
(* Mutant: escapes are taken out of the text as it is only. *)
VariantsRaw(text) ==
  LET quoted == {text, text \ {"quotes"}}
      escaped == quoted \cup {text \ {"escapes"}}
  IN  escaped \cup {v \ {"uri"} : v \in {w \in escaped : w \subseteq {"uri"}}}
(* pastedPathVariants *)
Variants(text) ==
  LET quoted == {text, text \ {"quotes"}}
      escaped == quoted \cup {v \ {"escapes"} : v \in quoted}
  IN  escaped \cup {v \ {"uri"} : v \in {w \in escaped : w \subseteq {"uri"}}}
(* extractDroppedFilePath *)
IsDrop(p) == p.lines = 1 /\ p.exists /\ {} \in Variants(p.dress)

BeginCapture ==
  /\ Len(captures) < MaxCaptures
  /\ captures' = Append(captures, [at |-> "reading", ok |-> FALSE])
  /\ crossed2' = (crossed2 \/ InFlight)
  /\ UNCHANGED <<header, faded, clears, served, aged>>
CaptureKey == BeginCapture
Paste(p) == IsDrop(p) /\ BeginCapture

(* CaptureClipboard and StageFile: read, normalized and staged, or not; an  *)
(* image that was staged before stays when they fail.                       *)
Capture(i) ==
  /\ captures[i].at = "reading"
  /\ \/ /\ captures' = [captures EXCEPT ![i].at = "captured", ![i].ok = TRUE] /\ served' = i
        /\ UNCHANGED crossed2
     \/ /\ captures' = [captures EXCEPT ![i].at = "captured"]
        /\ crossed2' = (crossed2 \/ served # 0)
        /\ UNCHANGED served
  /\ UNCHANGED <<header, faded, clears, aged>>

ClipboardCaptured(i) ==
  /\ captures[i].at = "captured" /\ captures' = [captures EXCEPT ![i] = [at |-> "end", ok |-> FALSE]]
  /\ IF captures[i].ok THEN Shows("Staged", i) ELSE Shows("Failed", 0)
  /\ faded' = FALSE
  /\ UNCHANGED <<clears, served, aged, crossed2>>

ClearKey ==
  /\ header.is = "Staged" /\ clears.all < MaxClears
  /\ clears' = [open |-> clears.open + 1, all |-> clears.all + 1]
  /\ crossed2' = (crossed2 \/ InFlight)
  /\ UNCHANGED <<header, faded, captures, served, aged>>
(* Mutant: the barrels keep the image. *)
ClearedShown ==
  /\ clears.open > 0 /\ clears' = [clears EXCEPT !.open = @ - 1]
  /\ Shows("Empty", 0)
  /\ UNCHANGED <<faded, captures, served, aged, crossed2>>
ClipboardClear ==
  /\ clears.open > 0 /\ clears' = [clears EXCEPT !.open = @ - 1]
  /\ served' = 0 /\ Shows("Empty", 0)
  /\ UNCHANGED <<faded, captures, aged, crossed2>>

-----------------------------------------------------------------------------
(* Time. *)

TtlPasses(i) ==
  /\ i \in DOMAIN captures \ aged /\ (served = i \/ header.snap = i)
  /\ aged' = aged \cup {i}
  /\ UNCHANGED <<header, faded, captures, clears, served, crossed2>>
ThreeSeconds ==
  /\ header.is \in {"Failed", "Expired"} /\ ~faded /\ faded' = TRUE
  /\ UNCHANGED <<header, captures, clears, served, aged, crossed2>>

(* Mutant: the tick leaves the image in the manager. *)
TickShown ==
  /\ \/ header.is = "Staged" /\ header.snap \in aged /\ Shows("Expired", 0) /\ faded' = FALSE
     \/ header.is \in {"Failed", "Expired"} /\ faded /\ Shows("Empty", 0) /\ UNCHANGED faded
  /\ UNCHANGED <<captures, clears, served, aged, crossed2>>
(* Mutant: what failed stays. *)
TickExpires ==
  /\ \/ /\ header.is = "Staged" /\ header.snap \in aged
        /\ Shows("Expired", 0) /\ faded' = FALSE /\ served' = 0
        /\ crossed2' = (crossed2 \/ InFlight)
     \/ header.is = "Expired" /\ faded /\ Shows("Empty", 0) /\ UNCHANGED <<faded, served, crossed2>>
  /\ UNCHANGED <<captures, clears, aged>>
(* checkClipboardExpiry: it clears the manager, whatever is staged there.   *)
CheckExpiry ==
  /\ \/ /\ header.is = "Staged" /\ header.snap \in aged
        /\ Shows("Expired", 0) /\ faded' = FALSE /\ served' = 0
        /\ crossed2' = (crossed2 \/ InFlight)
     \/ /\ header.is \in {"Failed", "Expired"} /\ faded
        /\ Shows("Empty", 0) /\ UNCHANGED <<faded, served, crossed2>>
  /\ UNCHANGED <<captures, clears, aged>>

HeaderStep ==
  \/ \E i \in DOMAIN captures : Capture(i) \/ ClipboardCaptured(i)
  \/ ClipboardClear \/ ThreeSeconds \/ CheckExpiry
HeaderTime == \E i \in 1..MaxCaptures : TtlPasses(i)
HeaderNext ==
  \/ CaptureKey \/ ClearKey
  \/ \E p \in Pastes : Paste(p)
  \/ HeaderStep \/ HeaderTime
HeaderSpec == HeaderInit /\ [][HeaderNext]_headerVars

-----------------------------------------------------------------------------
(* Properties *)

HeaderTypeOK ==
  /\ header.is \in {"Empty", "Staged", "Failed", "Expired"}
  /\ header.is = "Staged" <=> header.snap # 0
  /\ served \in 0..Len(captures)
  /\ \A i \in DOMAIN captures : captures[i].at \in {"reading", "captured", "end"}

(* The header shows the image the barrels are served, and none when they    *)
(* are served none, unless captures, deletions and expiries met each other. *)
HeaderTellsClipboard == ~InFlight /\ ~crossed2 => header.snap = served

(* A file dropped on the terminal is staged in whatever way the terminal    *)
(* dresses its path: one line that names a file, and nothing else.          *)
DropsAreFound == \A p \in Pastes : IsDrop(p) <=> p.lines = 1 /\ p.exists

(* An image whose time has passed leaves the manager ...                    *)
ImageExpires == []<>(served \notin aged \/ crossed2)
(* ... and a failure or an expiry leaves the header.                        *)
HeaderSettles == []<>(header.is \in {"Empty", "Staged"})
=============================================================================
