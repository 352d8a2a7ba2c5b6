-------------------------------- MODULE ListTabs -------------------------------
(***************************************************************************)
(* The tabs of cooper's control panel that show what keeps coming: Blocked, *)
(* Allowed (tui/history/model.go) and Bridge Logs (tui/bridgeui/model.go),  *)
(* newest entry first in a ScrollableList (components/table.go), and Squid  *)
(* Logs (tui/squidlog/model.go), newest line last in a ScrollableContent    *)
(* (components/viewport.go) that follows its tail.  Positions count from 0. *)
(***************************************************************************)
EXTENDS Integers, Sequences, FiniteSets, SequencesExt, FiniteSetsExt

CONSTANTS
  Capacities,  \* what can be set for the entries kept
  Heights,     \* heights of the tab
  DetailRows,  \* rows below the list of Bridge Logs for an open detail
  MaxEntries,  \* entries and lines that come
  MaxLines     \* 1000 lines kept

ASSUME ListTabsAssumption ==
  /\ Capacities \subseteq Nat \ {0} /\ Capacities # {} /\ Heights \subseteq Nat \ {0} /\ Heights # {}
  /\ DetailRows \in Nat /\ MaxEntries \in Nat /\ MaxLines \in Nat \ {0}

VARIABLES
  hasDetail,               \* the tab is Bridge Logs: its detail takes rows
  entries, capacity, come, \* Items, its capacity, and the entries so far
  sel, off, listHeight,    \* SelectedIdx, ScrollOffset and Height of the list
  detailOpen,
  reshaped,                \* history: Height changed since the window was last put around the selection
  lines, gone, follow,     \* Squid: lines kept, lines dropped, autoScroll
  top, lastHeight          \* ScrollOffset of the viewport, and its height when last shown

entryVars == <<hasDetail, entries, capacity, come, sel, off, listHeight, detailOpen, reshaped>>
squidVars == <<lines, gone, follow, top, lastHeight>>
listVars == <<entryVars, squidVars>>

AtLeast(a, b) == IF a < b THEN b ELSE a
AtMost(a, b) == IF a > b THEN b ELSE a
Prefix(s, n) == SubSeq(s, 1, AtMost(Len(s), n))

ListTabsInit ==
  /\ hasDetail \in BOOLEAN /\ entries = << >> /\ capacity \in Capacities /\ come = 0
  /\ sel = 0 /\ off = 0 /\ listHeight = (IF hasDetail THEN 10 ELSE 0) /\ detailOpen = FALSE /\ reshaped = FALSE
  /\ lines = 0 /\ gone = 0 /\ follow = TRUE /\ top = 0 /\ lastHeight = 0

-----------------------------------------------------------------------------
(* ScrollableList *)

(* Mutant: the bottom row counts as outside no more than the one below it. *)
ClampedLate(o, s, n) ==
  IF listHeight <= 0 THEN 0
  ELSE LET around == IF s < o THEN s ELSE IF s > o + listHeight THEN s - listHeight + 1 ELSE o
       IN  AtLeast(AtMost(around, AtLeast(n - listHeight, 0)), 0)
(* clampScroll *)
Clamped(o, s, n) ==
  IF listHeight <= 0 THEN 0
  ELSE LET around == IF s < o THEN s ELSE IF s >= o + listHeight THEN s - listHeight + 1 ELSE o
       IN  AtLeast(AtMost(around, AtLeast(n - listHeight, 0)), 0)

\* SelectedIdx is set and the window follows.
Selects(s) ==
  /\ sel' = s /\ off' = Clamped(off, s, Len(entries)) /\ reshaped' = FALSE
\* SetItems
SetItems(items) ==
  /\ entries' = items
  /\ sel' = IF sel >= Len(items) THEN AtLeast(Len(items) - 1, 0) ELSE sel
  /\ off' = Clamped(off, sel', Len(items))
  /\ reshaped' = FALSE

MoveUp ==
  /\ sel > 0 /\ Selects(sel - 1)
  /\ UNCHANGED <<hasDetail, entries, capacity, come, listHeight, detailOpen, squidVars>>
MoveDown ==
  /\ sel < Len(entries) - 1 /\ Selects(sel + 1)
  /\ UNCHANGED <<hasDetail, entries, capacity, come, listHeight, detailOpen, squidVars>>
JumpTop ==
  /\ sel > 0 /\ Selects(0)
  /\ UNCHANGED <<hasDetail, entries, capacity, come, listHeight, detailOpen, squidVars>>
JumpBottom ==
  /\ entries # << >> /\ Selects(Len(entries) - 1)
  /\ UNCHANGED <<hasDetail, entries, capacity, come, listHeight, detailOpen, squidVars>>
\* The wheel moves three rows; the window follows each.
Wheel(d) ==
  /\ d \in {-3, 3} /\ entries # << >>
  /\ Selects(IF d < 0 THEN AtLeast(sel + d, 0) ELSE AtLeast(AtMost(sel + d, Len(entries) - 1), sel))
  /\ UNCHANGED <<hasDetail, entries, capacity, come, listHeight, detailOpen, squidVars>>

(* Mutant: a full list keeps its oldest entries. *)
AddEntryFull ==
  /\ come < MaxEntries /\ come' = come + 1
  /\ SetItems(IF Len(entries) = capacity THEN entries ELSE <<come + 1>> \o entries)
  /\ UNCHANGED <<hasDetail, capacity, listHeight, detailOpen, squidVars>>
(* AddEntry and AddLog: in front, and the selection keeps its place. *)
AddEntry ==
  /\ come < MaxEntries /\ come' = come + 1
  /\ SetItems(Prefix(<<come + 1>> \o entries, capacity))
  /\ UNCHANGED <<hasDetail, capacity, listHeight, detailOpen, squidVars>>
SetMaxCapacity(n) ==
  /\ n # capacity /\ capacity' = n
  /\ IF Len(entries) > n THEN SetItems(Prefix(entries, n)) ELSE UNCHANGED <<entries, sel, off, reshaped>>
  /\ UNCHANGED <<hasDetail, come, listHeight, detailOpen, squidVars>>
(* Enter and Esc; Bridge Logs opens nothing without an entry. *)
ToggleDetail ==
  /\ hasDetail => entries # << >>
  /\ detailOpen' = ~detailOpen
  /\ UNCHANGED <<hasDetail, entries, capacity, come, sel, off, listHeight, reshaped, squidVars>>
(* View takes the height there is, and leaves the window where it is. *)
ShowList(height) ==
  LET h == AtLeast(IF hasDetail THEN height - 3 - (IF detailOpen THEN DetailRows ELSE 0) ELSE height - 1, 1) IN
  /\ hasDetail => entries # << >>
  /\ h # listHeight /\ listHeight' = h /\ reshaped' = TRUE
  /\ UNCHANGED <<hasDetail, entries, capacity, come, sel, off, detailOpen, squidVars>>

(* buildScrollIndicator: where the thumb begins and how long it is.         *)
(* Mutant: the offset is taken as a share of all items. *)
ThumbOfAll(total, offset, visible) ==
  LET size == AtLeast((visible * visible) \div total, 1) IN
  [size |-> size, pos |-> (offset * (visible - size)) \div total]
Thumb(total, offset, visible) ==
  LET size == AtLeast((visible * visible) \div total, 1)
      pos == AtLeast((offset * (visible - size)) \div AtLeast(total - visible, 1), 0)
  IN  [size |-> size, pos |-> IF pos + size > visible THEN visible - size ELSE pos]

-----------------------------------------------------------------------------
(* Squid Logs *)

\* The content has one line at least, an empty one.
Total == AtLeast(lines, 1)
\* clampScroll of the viewport
Held(o, n, height) == AtMost(AtLeast(o, 0), AtLeast(n - height, 0))
Bottom(n) == AtLeast(n - lastHeight, 0)
AtBottom(o) == o >= Bottom(lines)

(* Mutant: the last line is scrolled to whether it is followed or not. *)
AddLineFollowed ==
  /\ lines + gone < MaxEntries
  /\ lines' = AtMost(lines + 1, MaxLines) /\ gone' = gone + (lines + 1 - lines')
  /\ top' = IF lastHeight > 0 THEN Bottom(lines') ELSE Held(top, lines', 0)
  /\ UNCHANGED <<follow, lastHeight, entryVars>>
(* AddLine: the oldest line goes, and what is shown moves with it. *)
AddLine ==
  /\ lines + gone < MaxEntries
  /\ lines' = AtMost(lines + 1, MaxLines) /\ gone' = gone + (lines + 1 - lines')
  /\ top' = IF follow /\ lastHeight > 0 THEN Bottom(lines') ELSE Held(top, lines', 0)
  /\ UNCHANGED <<follow, lastHeight, entryVars>>
(* Mutant: scrolling up leaves the tail followed. *)
ScrollUpFollowing ==
  /\ Held(top, Total, lastHeight) > 0 /\ top' = Held(top, Total, lastHeight) - 1
  /\ UNCHANGED <<lines, gone, lastHeight, follow, entryVars>>
ScrollUp ==
  /\ Held(top, Total, lastHeight) > 0 /\ top' = Held(top, Total, lastHeight) - 1
  /\ follow' = FALSE
  /\ UNCHANGED <<lines, gone, lastHeight, entryVars>>
ScrollDown ==
  /\ Held(top, Total, lastHeight) < AtLeast(Total - lastHeight, 0)
  /\ top' = Held(top, Total, lastHeight) + 1
  /\ follow' = AtBottom(top')
  /\ UNCHANGED <<lines, gone, lastHeight, entryVars>>
PageUp ==
  /\ top' = Held(top - lastHeight \div 2, Total, lastHeight) /\ follow' = FALSE
  /\ UNCHANGED <<lines, gone, lastHeight, entryVars>>
PageDown ==
  /\ top' = Held(top + lastHeight \div 2, Total, lastHeight) /\ follow' = AtBottom(top')
  /\ UNCHANGED <<lines, gone, lastHeight, entryVars>>
Home0 ==
  /\ top' = 0 /\ follow' = FALSE
  /\ UNCHANGED <<lines, gone, lastHeight, entryVars>>
EndKey ==
  /\ top' = AtLeast(Total - lastHeight, 0) /\ follow' = TRUE
  /\ UNCHANGED <<lines, gone, lastHeight, entryVars>>
(* HandleMouse: at an end the wheel is not handled. *)
WheelLines(d) ==
  /\ d \in {-3, 3} /\ (IF d < 0 THEN top > 0 ELSE top < AtLeast(Total - lastHeight, 0))
  /\ top' = Held(top + d, Total, lastHeight) /\ follow' = AtBottom(top')
  /\ UNCHANGED <<lines, gone, lastHeight, entryVars>>
ShowLines(height) ==
  /\ lastHeight' = height
  /\ top' = IF lines > 0 /\ follow THEN AtLeast(lines - height, 0) ELSE top
  /\ <<lastHeight', top'>> # <<lastHeight, top>>
  /\ UNCHANGED <<lines, gone, follow, entryVars>>

EntriesNext ==
  \/ MoveUp \/ MoveDown \/ JumpTop \/ JumpBottom \/ AddEntry \/ ToggleDetail
  \/ \E d \in {-3, 3} : Wheel(d)
  \/ \E n \in Capacities : SetMaxCapacity(n)
  \/ \E h \in Heights : ShowList(h)
SquidNext ==
  \/ AddLine \/ ScrollUp \/ ScrollDown \/ PageUp \/ PageDown \/ Home0 \/ EndKey
  \/ \E d \in {-3, 3} : WheelLines(d)
  \/ \E h \in Heights : ShowLines(h)
ListTabsNext == EntriesNext \/ SquidNext
ListTabsSpec == ListTabsInit /\ [][ListTabsNext]_listVars

-----------------------------------------------------------------------------
(* Properties *)

ListTabsTypeOK ==
  /\ Len(entries) <= capacity /\ sel \in 0..AtLeast(Len(entries) - 1, 0)
  /\ off \in 0..Len(entries) /\ top \in 0..Total /\ lines <= MaxLines

(* A tab keeps the entries that came last, newest first, however its        *)
(* capacity is changed while they come.                                     *)
NewestKept == \A i \in DOMAIN entries : entries[i] = come + 1 - i

(* Whatever comes, goes and is selected, the selected entry is on the       *)
(* screen and no row is wasted, until a View with another height.           *)
SelectedShown ==
  entries # << >> /\ ~reshaped /\ listHeight > 0 =>
    /\ sel >= off /\ sel < off + listHeight
    /\ off + listHeight <= AtLeast(Len(entries), listHeight)

(* The scroll bar is at its top when the list is and at its bottom when the *)
(* list is, and never leaves its track.                                     *)
ThumbTells ==
  Len(entries) > listHeight /\ listHeight > 0 /\ ~reshaped =>
    LET t == Thumb(Len(entries), off, listHeight) IN
    /\ t.pos >= 0 /\ t.pos + t.size <= listHeight
    /\ off = 0 => t.pos = 0
    /\ off = Len(entries) - listHeight => t.pos + t.size = listHeight

(* Who scrolled up reads on: new lines move nothing on the screen, as long  *)
(* as none is dropped.                                                      *)
ReadingStays == [][lines' > lines /\ ~follow => top' = top]_listVars
(* Who follows sees the last line.                                          *)
TailFollowed == follow /\ lines > 0 /\ lastHeight > 0 => top + lastHeight >= lines

(* What a list shows is what it holds: the newest entries are kept, the      *)
(* selected row is on the screen, the scroll bar tells where it is, and a    *)
(* view that follows shows the end.                                          *)
ListsSound ==
  ListTabsTypeOK /\ NewestKept /\ SelectedShown /\ ThumbTells /\ TailFollowed
=============================================================================
