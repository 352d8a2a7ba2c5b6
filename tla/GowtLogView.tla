------------------------------ MODULE GowtLogView ------------------------------
(***************************************************************************)
(* gowt/view/logview.go with the part of gowt/app.go that feeds it: the    *)
(* log of one node, followed while its test runs, in two modes, with a     *)
(* search whose matches are highlighted in a copy of the log.              *)
(*                                                                         *)
(* A log is a number of lines; the two modes have the same lines, styled   *)
(* differently.  A text on screen says which log it was made from.         *)
(***************************************************************************)
EXTENDS Integers, SequencesExt

CONSTANTS
  LogNodes,
  MaxLines,   \* lines of a log
  Hits,       \* the lines of any log that contain the search query
  Heights     \* heights of the window, without the header

ASSUME LogViewAssumption ==
  /\ MaxLines \in Nat /\ Heights \subseteq Nat \ {0} /\ Hits \subseteq Nat
  /\ "none" \notin LogNodes \* NoNode

VARIABLES
  logLen,     \* node -> lines of its log
  ended,      \* the nodes whose test ended
  onScreen,   \* "tree", "log" or "help" opened from the log
  node,       \* LogView.node
  seen,       \* lines its renderers hold
  mode,       \* LogView.viewMode
  shown,      \* what the viewport was last given: [of, mode, len, end]
  y, height,  \* of the viewport
  otherY,     \* the offset saved for the mode not shown: processed- or rawYOffset
  searchY,    \* searchYOffsetSaved, 0 when no search is being typed
  autoScroll,
  searching, query,          \* searchMode; the query is not empty
  matches, current,          \* searchMatches and currentMatchIndex + 1
  active,     \* searchActive
  marked      \* highlightedContent: [of, mode, len], or NoText

docVars == <<logLen, ended>>
findVars == <<searching, query, matches, current, active, marked>>
logViewVars == <<docVars, onScreen, node, seen, mode, shown, y, height, otherY, searchY, autoScroll, findVars>>

NoNode == "none"
Bottom == -1
NoText == [of |-> NoNode, mode |-> "processed", len |-> 0]
Modes == {"processed", "raw"}
Other(m) == IF m = "raw" THEN "processed" ELSE "raw"
OnLog == onScreen = "log"
Least(a, b) == IF a < b THEN a ELSE b
Most(a, b) == IF a > b THEN a ELSE b

LogViewInit ==
  /\ logLen = [n \in LogNodes |-> 0] /\ ended = {}
  /\ onScreen = "tree" /\ node = NoNode /\ seen = 0 /\ mode = "processed"
  /\ shown = [of |-> NoNode, mode |-> "processed", len |-> 0, end |-> FALSE]
  /\ y = 0 /\ height \in Heights
  /\ otherY = Bottom /\ searchY = 0
  /\ autoScroll = FALSE
  /\ searching = FALSE /\ query = FALSE /\ matches = << >> /\ current = 0
  /\ active = FALSE /\ marked = NoText

-----------------------------------------------------------------------------
(* The viewport of the bubbles library. *)

LineCount(c) == IF c.len = 0 THEN 1 ELSE c.len + 1 + (IF c.end THEN 2 ELSE 0)
MaxY(c, h) == Most(0, LineCount(c) - h)
AtBottom == y >= MaxY(shown, height)
Clamp(v, c, h) == IF v = Bottom THEN MaxY(c, h) ELSE Least(v, MaxY(c, h))
AfterSet(c) == IF y > LineCount(c) - 1 THEN MaxY(c, height) ELSE y

(* getContent: the highlighted copy, if there is one, else the renderer of  *)
(* the mode.                                                                *)
Content(n, m, len, act, mk) ==
  LET t == IF act /\ mk.len > 0 THEN mk ELSE [of |-> n, mode |-> m, len |-> len]
  IN  [of |-> t.of, mode |-> t.mode, len |-> t.len, end |-> n \in ended /\ t.len > 0]

(* The loop over the lines after the first ones, which were looked at.      *)
HitsIn(first, len) ==
  FlattenSeq([i \in 1..(len - first) |-> IF first + i \in Hits THEN <<first + i>> ELSE << >>])

-----------------------------------------------------------------------------
(* The tests and the app. *)

(* UpdateContent for an event of the node on screen.  The node that comes   *)
(* in is the one the view holds, changed already: "was running" is what it  *)
(* is now.  Mutants: the place in the log is looked up after the new text   *)
(* is set; the view follows wherever the user has scrolled to.              *)
UpdatedLate(len, over) ==
  LET mk == IF active THEN [marked EXCEPT !.len = Most(@, len)] ELSE marked
      c == [Content(node, mode, len, active, mk) EXCEPT !.end = over]
  IN  /\ seen' = len /\ marked' = mk /\ shown' = c
      /\ y' = IF autoScroll /\ y >= MaxY(c, height) THEN MaxY(c, height) ELSE AfterSet(c)
      /\ matches' = IF active THEN matches \o HitsIn(marked.len, len) ELSE matches
UpdatedAlways(len, over) ==
  LET mk == IF active THEN [marked EXCEPT !.len = Most(@, len)] ELSE marked
      c == [Content(node, mode, len, active, mk) EXCEPT !.end = over]
  IN  /\ seen' = len /\ marked' = mk /\ shown' = c
      /\ y' = MaxY(c, height)
      /\ matches' = IF active THEN matches \o HitsIn(marked.len, len) ELSE matches

Updated(len, over) ==
  LET mk == IF active THEN [marked EXCEPT !.len = Most(@, len)] ELSE marked
      c == [Content(node, mode, len, active, mk) EXCEPT !.end = over]
  IN  /\ seen' = len /\ marked' = mk /\ shown' = c
      /\ y' = IF autoScroll /\ AtBottom THEN MaxY(c, height) ELSE AfterSet(c)
      /\ matches' = IF active THEN matches \o HitsIn(marked.len, len) ELSE matches

Output(n) ==
  /\ n \notin ended /\ logLen[n] < MaxLines
  /\ logLen' = [logLen EXCEPT ![n] = @ + 1]
  /\ IF OnLog /\ node = n THEN Updated(logLen[n] + 1, FALSE)
                          ELSE UNCHANGED <<seen, marked, shown, y, matches>>
  /\ UNCHANGED <<ended, onScreen, node, mode, height, otherY, searchY, autoScroll, searching, query,
                 current, active>>

(* The last event of a test has no output: it brings nothing new, unless    *)
(* the view missed events while the help was open.                          *)
RunEnd(n) ==
  /\ n \notin ended
  /\ ended' = ended \cup {n}
  /\ IF OnLog /\ node = n /\ seen < logLen[n] THEN Updated(logLen[n], TRUE)
                                            ELSE UNCHANGED <<seen, marked, shown, y, matches>>
  /\ UNCHANGED <<logLen, onScreen, node, mode, height, otherY, searchY, autoScroll, searching,
                 query, current, active>>

(* SelectTestRequest: SetData, which leaves the search as it is. *)
OpenNode(n) ==
  /\ onScreen = "tree"
  /\ onScreen' = "log" /\ node' = n /\ seen' = logLen[n]
  /\ autoScroll' = (n \notin ended)
  /\ otherY' = Bottom
  /\ shown' = Content(n, mode, logLen[n], active, marked)
  /\ y' = MaxY(shown', height)
  /\ UNCHANGED <<docVars, mode, height, searchY, findVars>>

BackToTree ==
  /\ OnLog /\ ~searching
  /\ onScreen' = "tree"
  /\ UNCHANGED <<docVars, node, seen, mode, shown, y, height, otherY, searchY, autoScroll, findVars>>

(* The help returns with the size of the window, which changes no text. *)
OpenHelp ==
  /\ OnLog /\ ~searching
  /\ onScreen' = "help"
  /\ UNCHANGED <<docVars, node, seen, mode, shown, y, height, otherY, searchY, autoScroll, findVars>>
CloseHelp ==
  /\ onScreen = "help"
  /\ onScreen' = "log"
  /\ UNCHANGED <<docVars, node, seen, mode, shown, y, height, otherY, searchY, autoScroll, findVars>>

(* A new width wraps the log anew, a new height only moves the edge. *)
ResizeWidth ==
  /\ OnLog
  /\ shown' = Content(node, mode, seen, active, marked)
  /\ y' = IF AtBottom THEN MaxY(shown', height) ELSE AfterSet(shown')
  /\ UNCHANGED <<docVars, onScreen, node, seen, mode, height, otherY, searchY, autoScroll, findVars>>
ResizeHeight(h) ==
  /\ OnLog /\ h # height
  /\ height' = h
  /\ UNCHANGED <<docVars, onScreen, node, seen, mode, shown, y, otherY, searchY, autoScroll, findVars>>

-----------------------------------------------------------------------------
(* The keys. *)

Viewing == OnLog /\ ~searching

Up(k) ==
  /\ Viewing
  /\ y' = Most(0, y - k) /\ autoScroll' = FALSE
  /\ UNCHANGED <<docVars, onScreen, node, seen, mode, shown, height, otherY, searchY, findVars>>

Follow == IF node \in ended THEN autoScroll ELSE TRUE

Down(k) ==
  /\ Viewing /\ ~AtBottom
  /\ y' = Least(MaxY(shown, height), y + k)
  /\ autoScroll' = IF y' = MaxY(shown, height) THEN Follow ELSE autoScroll
  /\ UNCHANGED <<docVars, onScreen, node, seen, mode, shown, height, otherY, searchY, findVars>>

GoBottom ==
  /\ Viewing
  /\ y' = MaxY(shown, height) /\ autoScroll' = Follow
  /\ UNCHANGED <<docVars, onScreen, node, seen, mode, shown, height, otherY, searchY, findVars>>

(* Mutant: the text of the mode before stays. *)
ToggleModeOnly ==
  /\ Viewing
  /\ mode' = Other(mode)
  /\ otherY' = y
  /\ seen' = logLen[node]
  /\ y' = Clamp(otherY, shown, height)
  /\ UNCHANGED <<docVars, onScreen, node, shown, height, searchY, autoScroll, findVars>>

(* ToggleMode rebuilds the renderer of the mode, not the highlighted copy. *)
ToggleMode ==
  /\ Viewing
  /\ mode' = Other(mode)
  /\ otherY' = y
  /\ seen' = logLen[node]
  /\ shown' = Content(node, mode', logLen[node], active, marked)
  /\ y' = Clamp(otherY, shown', height)
  /\ UNCHANGED <<docVars, onScreen, node, height, searchY, autoScroll, findVars>>

(* Mutant: the last search's highlights stay on. *)
SearchKeeps ==
  /\ Viewing
  /\ searching' = TRUE /\ query' = FALSE /\ matches' = << >> /\ current' = 0
  /\ active' = active /\ marked' = marked
  /\ searchY' = y
  /\ shown' = Content(node, mode, seen, active, marked)
  /\ y' = AfterSet(shown')
  /\ UNCHANGED <<docVars, onScreen, node, seen, mode, height, otherY, autoScroll>>

Search ==
  /\ Viewing
  /\ searching' = TRUE /\ query' = FALSE /\ matches' = << >> /\ current' = 0
  /\ active' = FALSE /\ marked' = NoText
  /\ searchY' = y
  /\ shown' = Content(node, mode, seen, FALSE, NoText)
  /\ y' = AfterSet(shown')
  /\ UNCHANGED <<docVars, onScreen, node, seen, mode, height, otherY, autoScroll>>

(* scrollToCurrentMatch: line numbers start at 0 there. *)
ScrollTo(line) ==
  /\ y' = Clamp(Most(0, line - 1 - height \div 2), shown, height)
  /\ autoScroll' = FALSE

(* performSearch looks at what the renderer holds now. *)
Type ==
  /\ searching /\ OnLog
  /\ query' = TRUE
  /\ matches' = HitsIn(0, seen)
  /\ IF matches' = << >> THEN current' = 0 /\ UNCHANGED <<y, autoScroll>>
                         ELSE current' = 1 /\ ScrollTo(Head(matches'))
  /\ UNCHANGED <<docVars, onScreen, node, seen, mode, shown, height, otherY, searchY, searching, active, marked>>

(* Mutant: the number of the current match stays. *)
EraseKeeps ==
  /\ searching /\ OnLog /\ query
  /\ query' = FALSE /\ matches' = << >>
  /\ UNCHANGED <<docVars, onScreen, node, seen, mode, shown, y, height, otherY, searchY, autoScroll,
                 searching, current, active, marked>>
Erase ==
  /\ searching /\ OnLog /\ query
  /\ query' = FALSE /\ matches' = << >> /\ current' = 0
  /\ UNCHANGED <<docVars, onScreen, node, seen, mode, shown, y, height, otherY, searchY, autoScroll,
                 searching, active, marked>>

(* rebuildHighlightedContent *)
ConfirmSearch ==
  /\ searching /\ OnLog
  /\ searching' = FALSE /\ searchY' = 0
  /\ IF query /\ matches # << >>
       THEN /\ active' = TRUE
            /\ marked' = [of |-> node, mode |-> mode, len |-> seen]
            /\ shown' = Content(node, mode, seen, TRUE, marked')
            /\ y' = AfterSet(shown')
       ELSE UNCHANGED <<active, marked, shown, y>>
  /\ UNCHANGED <<docVars, onScreen, node, seen, mode, height, otherY, autoScroll, query, matches, current>>

LeaveSearch ==
  /\ searching /\ OnLog
  /\ searching' = FALSE /\ query' = FALSE /\ matches' = << >> /\ current' = 0
  /\ active' = FALSE /\ marked' = NoText
  /\ shown' = Content(node, mode, seen, FALSE, NoText)
  /\ y' = Clamp(searchY, shown', height) /\ searchY' = 0
  /\ UNCHANGED <<docVars, onScreen, node, seen, mode, height, otherY, autoScroll>>

NextMatch ==
  /\ Viewing /\ matches # << >>
  /\ current' = (current % Len(matches)) + 1
  /\ ScrollTo(matches[current'])
  /\ UNCHANGED <<docVars, onScreen, node, seen, mode, shown, height, otherY, searchY, searching, query,
                 matches, active, marked>>

PrevMatch ==
  /\ Viewing /\ matches # << >>
  /\ current' = IF current <= 1 THEN Len(matches) ELSE current - 1
  /\ ScrollTo(matches[current'])
  /\ UNCHANGED <<docVars, onScreen, node, seen, mode, shown, height, otherY, searchY, searching, query,
                 matches, active, marked>>

-----------------------------------------------------------------------------
LogViewNext ==
  \/ \E n \in LogNodes : Output(n) \/ RunEnd(n) \/ OpenNode(n)
  \/ BackToTree \/ OpenHelp \/ CloseHelp \/ ResizeWidth
  \/ \E h \in Heights : ResizeHeight(h)
  \/ \E k \in {1, height} : Up(k) \/ Down(k)
  \/ GoBottom \/ ToggleMode \/ Search \/ Type \/ Erase \/ ConfirmSearch \/ LeaveSearch
  \/ NextMatch \/ PrevMatch

LogViewSpec == LogViewInit /\ [][LogViewNext]_logViewVars

-----------------------------------------------------------------------------
(* Properties *)

LogViewTypeOK ==
  /\ logLen \in [LogNodes -> 0..MaxLines] /\ ended \subseteq LogNodes
  /\ onScreen \in {"tree", "log", "help"} /\ node \in LogNodes \cup {NoNode}
  /\ onScreen # "tree" => node # NoNode
  /\ seen \in 0..MaxLines /\ mode \in Modes
  /\ shown.len \in 0..MaxLines /\ y \in 0..MaxLines + 2 /\ height \in Heights
  /\ autoScroll \in BOOLEAN /\ searching \in BOOLEAN /\ query \in BOOLEAN
  /\ matches \in Seq(Nat) /\ current \in 0..Len(matches) /\ active \in BOOLEAN

(* Who has scrolled up to read is not moved by the output that comes in. *)
ScrollHeld ==
  [][OnLog /\ node # NoNode /\ logLen'[node] # logLen[node] /\ ~AtBottom => y' = y]_logViewVars

(* Who follows the end of a running log stays at its end. *)
TailFollowed ==
  [][OnLog /\ node # NoNode /\ logLen'[node] # logLen[node] /\ autoScroll /\ AtBottom
       => y' = MaxY(shown', height)]_logViewVars

(* A search that is being typed shows the log without the highlights of the *)
(* search before it.                                                        *)
NoOldMarks == searching => ~active /\ marked = NoText

(* The text on screen is that of the node and the mode in the title, as far *)
(* as its renderer has read, unless a confirmed search is kept: then it is  *)
(* the highlighted copy of where the search was confirmed, whatever node or *)
(* mode was opened since (SetData and ToggleMode leave the search as it is).*)
(* Without a kept search no other node's log is shown.                      *)
TextIsNodes ==
  node # NoNode =>
    LET t == IF active /\ marked.len > 0 THEN marked
                                         ELSE [of |-> node, mode |-> mode, len |-> seen]
    IN  shown.of = t.of /\ shown.mode = t.mode /\ shown.len = t.len

=============================================================================
