------------------------------- MODULE TuiShell --------------------------------
(***************************************************************************)
(* The root of cooper's control panel, cooper/internal/tui/app.go, with its *)
(* tab bar and modal (tui/components) and the Containers tab                *)
(* (tui/containers/model.go), whose stop and restart go through the root:   *)
(* key, request, modal, confirmation, docker, result.  Each arrow is a      *)
(* message of a command's goroutine, so others come in between.             *)
(***************************************************************************)
EXTENDS ClipboardHeader, LoadingScreen

CONSTANTS
  Tabs,       \* the tabs in their order
  Home,       \* the Containers tab
  Barrels,    \* names of barrels
  Proxy,      \* the proxy's container, listed first
  MaxOrders   \* stops and restarts asked for

ASSUME ShellAssumption ==
  /\ Tabs \in Seq(Range(Tabs)) /\ Home \in Range(Tabs)
  /\ IsFiniteSet(Barrels) /\ Proxy \notin Barrels /\ MaxOrders \in Nat

VARIABLES
  activeTab, tuiModal,   \* the tab; the modal: [kind, confirm, about]
  asked,                 \* pendingContainerAction and -Name: the order, 0 for none
  orders,                \* each: [action, name, at, ok]
  rows, rowSel, feedback, \* the Containers tab and the line below its list
  poll,                  \* the poll of docker: "off", or the names it saw
  running,               \* what docker runs
  shuttingDown,
  dropped                \* history: a message for the Containers tab met another tab

rootVars == <<activeTab, tuiModal, asked, shuttingDown>>
containerVars == <<rows, rowSel, feedback>>
shellVars == <<rootVars, orders, containerVars, poll, running, dropped>>

NoModal == [kind |-> "none", confirm |-> FALSE, about |-> 0]
NewModal(kind, about) == [kind |-> kind, confirm |-> TRUE, about |-> about]
\* The rows of a poll: the proxy, then the others in an order.
Listed(names) == (IF Proxy \in names THEN <<Proxy>> ELSE << >>) \o SetToSeq(names \ {Proxy})
(* Mutant: the selection stays where it was. *)
InsideKept(s, rs) == s
\* SetItems of the list keeps the selection inside.
Inside(s, rs) == IF s > Len(rs) THEN (IF rs = << >> THEN 1 ELSE Len(rs)) ELSE s

ShellInit ==
  /\ activeTab = Home /\ tuiModal = NoModal /\ asked = 0
  /\ orders = << >>
  /\ running = Barrels \cup {Proxy}
  \* before or after the first poll
  /\ rows \in {<< >>, Listed(running)} /\ rowSel = 1 /\ feedback = "none"
  /\ poll = {"off"}
  /\ shuttingDown = FALSE
  /\ dropped = FALSE

Live == ~shuttingDown
Free == Live /\ tuiModal.kind = "none"
\* An order that is over is forgotten.
OrderOver == [action |-> "none", name |-> Proxy, at |-> "end", ok |-> FALSE]
OrderEnds(i) == orders' = [orders EXCEPT ![i] = OrderOver]
IsAt(i, stage) == orders[i].at = stage
Turns(i, stage) == orders' = [orders EXCEPT ![i].at = stage]

-----------------------------------------------------------------------------
(* Keys. *)

(* Next and Prev of the tab bar wrap around. *)
SwitchTab(d) ==
  /\ Free /\ d \in {-1, 1}
  /\ LET n == Len(Tabs)
         i == CHOOSE k \in 1..n : Tabs[k] = activeTab
     IN  activeTab' = Tabs[((i - 1 + d + n) % n) + 1]
  /\ UNCHANGED <<tuiModal, asked, shuttingDown, orders, containerVars, poll, running, dropped>>
SelectRow(d) ==
  /\ Free /\ activeTab = Home /\ rowSel + d \in DOMAIN rows
  /\ rowSel' = rowSel + d
  /\ UNCHANGED <<rootVars, orders, rows, feedback, poll, running, dropped>>
(* "s" and "r": the name is that of the row selected when the key comes. *)
RequestAction(action) ==
  /\ Free /\ activeTab = Home /\ rowSel \in DOMAIN rows /\ Len(orders) < MaxOrders
  /\ orders' = Append(orders, [action |-> action, name |-> rows[rowSel], at |-> "requested", ok |-> FALSE])
  /\ UNCHANGED <<rootVars, containerVars, poll, running, dropped>>
ShowExitModal ==
  /\ Free /\ tuiModal' = NewModal("exit", 0)
  /\ UNCHANGED <<activeTab, asked, shuttingDown, orders, containerVars, poll, running, dropped>>
ToggleFocus ==
  /\ Live /\ tuiModal.kind # "none"
  /\ tuiModal' = [tuiModal EXCEPT !.confirm = ~@]
  /\ UNCHANGED <<activeTab, asked, shuttingDown, orders, containerVars, poll, running, dropped>>
(* Esc, and Enter on the cancel button. *)
DismissDialog ==
  /\ Live /\ tuiModal.kind # "none"
  /\ tuiModal' = NoModal /\ asked' = 0
  /\ UNCHANGED <<activeTab, shuttingDown, orders, containerVars, poll, running, dropped>>

(* Mutant: Enter confirms whatever button has the focus. *)
EnterConfirmsAny == tuiModal.kind # "none"
EnterConfirms == tuiModal.kind # "none" /\ tuiModal.confirm
(* executeModalConfirm *)
ConfirmDialog ==
  /\ Live /\ EnterConfirms
  /\ tuiModal' = NoModal
  /\ IF tuiModal.kind = "exit"
       THEN shuttingDown' = TRUE /\ UNCHANGED <<asked, orders>>
       ELSE /\ UNCHANGED shuttingDown
            /\ IF tuiModal.kind \in {"stop", "restart"}
                 THEN /\ asked' = 0
                      /\ IF asked = 0 THEN UNCHANGED orders ELSE Turns(asked, "confirmed")
                 ELSE UNCHANGED <<asked, orders>>
  /\ UNCHANGED <<activeTab, containerVars, poll, running, dropped>>

-----------------------------------------------------------------------------
(* Messages. *)

(* Mutant: an action that is already asked about stays the pending one. *)
ShowActionModalKeeps(i) ==
  /\ Live /\ IsAt(i, "requested") /\ Turns(i, "shown")
  /\ asked' = (IF asked = 0 THEN i ELSE asked)
  /\ tuiModal' = NewModal(orders[i].action, i)
  /\ UNCHANGED <<activeTab, shuttingDown, containerVars, poll, running, dropped>>
(* ContainerActionRequestMsg takes the screen, whatever modal is open. *)
ShowActionModal(i) ==
  /\ Live /\ IsAt(i, "requested") /\ Turns(i, "shown")
  /\ asked' = i
  /\ tuiModal' = NewModal(orders[i].action, i)
  /\ UNCHANGED <<activeTab, shuttingDown, containerVars, poll, running, dropped>>
(* RunUpdateMsg of the About tab, and the result of a reload of port        *)
(* forwards, open their modal over another one, whose pending action stays. *)
ShowInfoModal ==
  /\ Live /\ tuiModal.kind # "info" /\ tuiModal' = NewModal("info", 0)
  /\ UNCHANGED <<activeTab, asked, shuttingDown, orders, containerVars, poll, running, dropped>>

(* The confirmed action and its result reach the tab that is shown: another *)
(* one ignores them.                                                        *)
ConfirmedAction(i) ==
  /\ Live /\ IsAt(i, "confirmed")
  /\ IF activeTab = Home
       THEN /\ Turns(i, "working")
            /\ feedback' = "pending"
            /\ UNCHANGED dropped
       ELSE OrderEnds(i) /\ dropped' = TRUE /\ UNCHANGED feedback
  /\ UNCHANGED <<rootVars, rows, rowSel, poll, running>>
DockerActs(i) ==
  /\ IsAt(i, "working")
  /\ \E ok \in BOOLEAN :
       /\ ok => orders[i].name \in running
       /\ orders' = [orders EXCEPT ![i].at = "acted", ![i].ok = ok]
       /\ running' = IF ok /\ orders[i].action = "stop" THEN running \ {orders[i].name} ELSE running
  /\ UNCHANGED <<rootVars, containerVars, poll, dropped>>
(* Mutant: a stop that failed says nothing. *)
ActionResultQuiet(i) ==
  /\ Live /\ IsAt(i, "acted") /\ OrderEnds(i)
  /\ IF activeTab # Home \/ ~orders[i].ok
       THEN dropped' = (dropped \/ activeTab # Home) /\ UNCHANGED containerVars
       ELSE feedback' = "success" /\ UNCHANGED <<rows, rowSel, dropped>>
  /\ UNCHANGED <<rootVars, poll, running>>
(* handleActionResult; docker gives no name twice, so removeContainer, which *)
(* filters the rows by name, takes away one row.                             *)
ActionResult(i) ==
  /\ Live /\ IsAt(i, "acted") /\ OrderEnds(i)
  /\ IF activeTab # Home
       THEN dropped' = TRUE /\ UNCHANGED containerVars
       ELSE /\ rows' = IF orders[i].ok /\ orders[i].action = "stop"
                         THEN RemoveFirst(rows, orders[i].name)
                         ELSE rows
            /\ rowSel' = Inside(rowSel, rows')
            /\ feedback' = IF orders[i].ok THEN "success" ELSE "failed"
            /\ UNCHANGED dropped
  /\ UNCHANGED <<rootVars, poll, running>>

(* The poll looks at docker, and its message asks for the next one. *)
PollStats ==
  /\ Live /\ poll = {"off"} /\ poll' = running
  /\ UNCHANGED <<rootVars, orders, containerVars, running, dropped>>
(* Mutant: only the statuses of rows that are there are taken over. *)
ApplyStatsKnown ==
  /\ Live /\ poll # {"off"} /\ poll' = {"off"}
  /\ rows' = IF rows = << >> THEN Listed(poll) ELSE rows
  /\ rowSel' = Inside(rowSel, rows')
  /\ feedback' = IF poll = {} THEN "none" ELSE feedback
  /\ UNCHANGED <<rootVars, orders, running, dropped>>
(* applyStats; a status that an action under way has marked is overwritten. *)
ApplyStats ==
  /\ Live /\ poll # {"off"} /\ poll' = {"off"}
  /\ rows' = Listed(poll)
  /\ rowSel' = Inside(rowSel, rows')
  /\ feedback' = IF poll = {} THEN "none" ELSE feedback
  /\ UNCHANGED <<rootVars, orders, running, dropped>>

\* Outside: a session of cooper cli ends with its barrel.
BarrelEnds(b) ==
  /\ b \in running /\ b \in Barrels /\ running' = running \ {b}
  /\ UNCHANGED <<rootVars, orders, containerVars, poll, dropped>>

ShellKeys ==
  \/ \E d \in {-1, 1} : SwitchTab(d) \/ SelectRow(d)
  \/ \E action \in {"stop", "restart"} : RequestAction(action)
  \/ ShowExitModal \/ ToggleFocus \/ DismissDialog \/ ConfirmDialog
Delivered(i) == ShowActionModal(i) \/ ConfirmedAction(i) \/ DockerActs(i) \/ ActionResult(i)
ShellMessages == \E i \in DOMAIN orders : Delivered(i)
Polls == PollStats \/ ApplyStats
ShellNext ==
  \/ ShellKeys \/ ShellMessages \/ Polls
  \/ ShowInfoModal
  \/ \E b \in Barrels : BarrelEnds(b)
ShellSpec == ShellInit /\ [][ShellNext]_shellVars

-----------------------------------------------------------------------------
(* Properties *)

ShellTypeOK ==
  /\ activeTab \in Range(Tabs) /\ tuiModal.kind \in {"none", "exit", "stop", "restart", "info"}
  /\ asked \in 0..Len(orders) /\ Range(rows) \subseteq Barrels \cup {Proxy}
  /\ rows # << >> => rowSel \in DOMAIN rows

(* What a dialog names is what its confirmation does, whatever requests,    *)
(* results and other dialogs came in between.                               *)
AsksWhatItDoes ==
  tuiModal.kind \in {"stop", "restart"} =>
    /\ asked = tuiModal.about /\ orders[asked].action = tuiModal.kind /\ IsAt(asked, "shown")

(* Nothing is stopped or restarted but what was named in a dialog, when its *)
(* confirm button had the focus.                                            *)
OnlyConfirmed ==
  [][\A i \in DOMAIN orders :
       orders[i].at # "confirmed" /\ orders'[i].at = "confirmed" =>
         tuiModal = [kind |-> orders[i].action, confirm |-> TRUE, about |-> i]]_shellVars

(* "Stopping ..." does not stay, unless the result met another tab.         *)
FeedbackEnds == []<>(feedback # "pending" \/ dropped \/ ~Live)

(* The rows come to be what docker runs.                                    *)
RowsCatchUp == []<>(Range(rows) = running \/ ~Live)

(* What the panel asks is what it does, the row it acts on is the one it      *)
(* shows, the header tells of the clipboard's own picture, and the loading    *)
(* screen of the steps that ran (internal/tui).                               *)
PanelTells ==
  /\ ShellTypeOK /\ AsksWhatItDoes /\ DropsAreFound
  /\ HeaderTypeOK /\ HeaderTellsClipboard
  /\ LoadingTypeOK /\ ReadyIsReady /\ OneStepAtATime
=============================================================================
