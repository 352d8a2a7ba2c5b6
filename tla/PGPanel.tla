------------------------------- MODULE PGPanel --------------------------------
(***************************************************************************)
(* The main view of pgflock (internal/tui/app.go, model.go, view.go) and    *)
(* the feed of lock snapshots from internal/locker/handler.go.              *)
(*                                                                         *)
(* Every handler that changes the locks then computes a snapshot and sends  *)
(* it, without a lock over both and never waiting for room in the channel.  *)
(* waitForStateUpdate commands turn snapshots into messages, which Bubble   *)
(* Tea delivers in any order; once a second the view asks the handler       *)
(* itself.                                                                  *)
(* The loading screens over it, and the jobs behind them, are PGControl's.  *)
(***************************************************************************)
EXTENDS PGControl

CONSTANTS
  NDbs,       \* databases, numbered in the order of the list of all of them
  MaxChanges, \* locks and unlocks by tests
  FeedCap,    \* stateUpdateChan (10)
  MaxLate,    \* handlers and snapshots between a change and the channel
  MaxReaders, \* waitForStateUpdate commands: one per completed loading screen
  PanelRows   \* rows of the content area, one of them chosen by the terminal

ASSUME PanelAssumption == NDbs \in Nat \ {0} /\ MaxChanges \in Nat /\ FeedCap \in Nat \ {0}
  /\ MaxLate \in Nat \ {0}
  /\ MaxReaders \in Nat \ {0} /\ PanelRows \in SUBSET (Nat \ {0}) /\ PanelRows # {}

VARIABLES
  held,     \* of the handler: databases, the oldest lock first
  owed,      \* handlers between their change and their snapshot
  snaps,     \* snapshots computed and not sent
  feed,      \* stateUpdateChan
  readers, updates, \* waitForStateUpdate commands; stateUpdateMsg not handled
  shown,     \* m.state.Locks
  showAll, selected, scroll, panelRows,
  dialog,    \* the unlock dialog: [db, steady]: its database (0: no dialog), the list
             \* has not changed under it
  slip,      \* history: a database other than the dialog's was unlocked, with the list unchanged
  unfit,     \* history: the state was refreshed without fitting the selection
  changes

panelVars == <<held, owed, snaps, feed, readers, updates, shown, showAll, selected, scroll, panelRows,
               dialog, slip, unfit, changes>>
serverSide == <<held, owed, snaps, changes>>
channelSide == <<feed, readers, updates>>
viewSide == <<shown, showAll, selected, scroll, panelRows, dialog, slip, unfit>>

All == [i \in 1..NDbs |-> i]
NoRow == 0
NoDialog == [db |-> NoRow, steady |-> TRUE]
Listed(s) == {s[i] : i \in DOMAIN s}
DropNth(s, i) == SubSeq(s, 1, i - 1) \o SubSeq(s, i + 1, Len(s))
Without(s, d) == DropNth(s, CHOOSE i \in DOMAIN s : s[i] = d)
Lesser(a, b) == IF a < b THEN a ELSE b
Greater(a, b) == IF a > b THEN a ELSE b

PanelInit ==
  /\ held = << >> /\ owed = 0 /\ snaps = << >> /\ feed = << >>
  /\ readers = 1 /\ updates = << >>
  /\ shown = << >> /\ showAll = FALSE /\ selected = 0 /\ scroll = 0 /\ panelRows \in PanelRows
  /\ dialog = NoDialog /\ slip = FALSE
  /\ unfit = FALSE /\ changes = 0

-----------------------------------------------------------------------------
(* The handler's side. *)

Change(to) == owed + Len(snaps) < MaxLate /\ held' = to /\ owed' = owed + 1
LockDb(d) ==
  /\ changes < MaxChanges /\ changes' = changes + 1
  /\ d \notin Listed(held) /\ Change(Append(held, d))
  /\ UNCHANGED <<snaps, channelSide, viewSide>>
UnlockDb(d) ==
  /\ changes < MaxChanges /\ changes' = changes + 1
  /\ d \in Listed(held) /\ Change(Without(held, d))
  /\ UNCHANGED <<snaps, channelSide, viewSide>>

GetState ==
  /\ owed > 0 /\ owed' = owed - 1 /\ snaps' = Append(snaps, held)
  /\ UNCHANGED <<held, changes, channelSide, viewSide>>

SendStateUpdate(i) ==
  /\ snaps' = DropNth(snaps, i)
  /\ feed' = IF Len(feed) < FeedCap THEN Append(feed, snaps[i]) ELSE feed
  /\ UNCHANGED <<held, owed, changes, readers, updates, viewSide>>

WaitForStateUpdate ==
  /\ readers > 0 /\ feed # << >>
  /\ readers' = readers - 1 /\ feed' = Tail(feed) /\ updates' = Append(updates, Head(feed))
  /\ UNCHANGED <<serverSide, viewSide>>

-----------------------------------------------------------------------------
(* The view. *)

(* Mutant: the selection is brought into view, the end of the list forgotten. *)
AdjustedLoosely(at, off, n, r) ==
  IF n <= r THEN 0
  ELSE IF at < off THEN at ELSE IF at >= off + r THEN at - r + 1 ELSE off

(* adjustScrollOffset for n items on r rows. *)
Adjusted(at, off, n, r) ==
  IF n <= r THEN 0
  ELSE LET inView == IF at < off THEN at ELSE IF at >= off + r THEN at - r + 1 ELSE off
       IN Greater(0, Lesser(inView, n - r))

(* A new list; a dialog over the old one notices. *)
Replace(s) ==
  /\ shown' = s
  /\ dialog' = IF dialog.db # NoRow /\ ~showAll /\ s # shown THEN [dialog EXCEPT !.steady = FALSE] ELSE dialog

(* Mutant: the list is taken over, the selection left as it is. *)
ShowOnly(s) == Replace(s) /\ UNCHANGED <<selected, scroll, unfit>>

(* Taking over a snapshot fits selection and scroll offset to the list of   *)
(* locks; the list of all databases does not change.                        *)
Show(s) ==
  /\ Replace(s)
  /\ IF showAll THEN UNCHANGED <<selected, scroll, unfit>>
     ELSE /\ selected' = Lesser(selected, Greater(Len(s) - 1, 0))
          /\ scroll' = Adjusted(selected', scroll, Len(s), panelRows)
          /\ unfit' = FALSE

HandleStateUpdate(i) ==
  /\ Show(updates[i])
  /\ updates' = DropNth(updates, i) /\ readers' = readers + 1
  /\ UNCHANGED <<serverSide, feed, showAll, panelRows, slip>>

(* Mutant: the tick redraws what is there. *)
TickIdle == FALSE /\ UNCHANGED panelVars

(* tickMsg: the state is asked for, not waited for. *)
Tick ==
  /\ Show(held)
  /\ UNCHANGED <<serverSide, channelSide, showAll, panelRows, slip>>

(* handleLoadingComplete after a restart: fresh state, one more reader. *)
RestartComplete ==
  /\ readers + Len(updates) < MaxReaders
  /\ Replace(held) /\ unfit' = TRUE /\ readers' = readers + 1
  /\ UNCHANGED <<serverSide, feed, updates, showAll, selected, scroll, panelRows, slip>>

Shown == IF showAll THEN All ELSE shown
SelectedDb == IF selected < Len(Shown) THEN Shown[selected + 1] ELSE NoRow

MoveTo(i) ==
  /\ dialog.db = NoRow /\ selected' = i /\ scroll' = Adjusted(i, scroll, Len(Shown), panelRows)
  /\ UNCHANGED <<serverSide, channelSide, shown, showAll, panelRows, dialog, slip, unfit>>
SelectUp == selected > 0 /\ MoveTo(selected - 1)
SelectDown == selected < Len(Shown) - 1 /\ MoveTo(selected + 1)

ToggleView ==
  /\ dialog.db = NoRow
  /\ showAll' = ~showAll /\ selected' = 0 /\ scroll' = 0 /\ unfit' = FALSE
  /\ UNCHANGED <<serverSide, channelSide, shown, panelRows, dialog, slip>>

WindowResized(r) ==
  /\ panelRows' = r /\ r # panelRows
  /\ scroll' = Adjusted(selected, scroll, Len(Shown), r)
  /\ UNCHANGED <<serverSide, channelSide, shown, showAll, selected, dialog, slip, unfit>>

AskUnlock ==
  /\ dialog.db = NoRow /\ SelectedDb \in Listed(shown)
  /\ dialog' = [db |-> SelectedDb, steady |-> TRUE]
  /\ UNCHANGED <<serverSide, channelSide, shown, showAll, selected, scroll, panelRows, slip, unfit>>

Dismiss ==
  /\ dialog.db # NoRow /\ dialog' = NoDialog
  /\ UNCHANGED <<serverSide, channelSide, shown, showAll, selected, scroll, panelRows, slip, unfit>>

(* Mutant: the selection is counted from one when it is used. *)
ConfirmNext ==
  /\ dialog.db # NoRow
  /\ dialog' = NoDialog
  /\ LET d == IF selected + 1 < Len(Shown) THEN Shown[selected + 2] ELSE SelectedDb IN
     IF d \in Listed(shown) /\ d \in Listed(held)
       THEN /\ Change(Without(held, d))
            /\ slip' = (slip \/ (dialog.steady /\ d # dialog.db))
       ELSE UNCHANGED <<held, owed, slip>>
  /\ UNCHANGED <<snaps, changes, channelSide, shown, showAll, selected, scroll, panelRows, unfit>>

(* ConfirmUnlock looks the selection up again. *)
Confirm ==
  /\ dialog.db # NoRow
  /\ dialog' = NoDialog
  /\ IF SelectedDb \in Listed(shown) /\ SelectedDb \in Listed(held)
       THEN /\ Change(Without(held, SelectedDb))
            /\ slip' = (slip \/ (dialog.steady /\ SelectedDb # dialog.db))
       ELSE UNCHANGED <<held, owed, slip>>
  /\ UNCHANGED <<snaps, changes, channelSide, shown, showAll, selected, scroll, panelRows, unfit>>

FeedStep ==
  \/ GetState \/ WaitForStateUpdate
  \/ \E i \in DOMAIN snaps : SendStateUpdate(i)
  \/ \E i \in DOMAIN updates : HandleStateUpdate(i)
PanelNext ==
  \/ \E d \in 1..NDbs : LockDb(d) \/ UnlockDb(d)
  \/ FeedStep \/ Tick \/ RestartComplete
  \/ SelectUp \/ SelectDown \/ ToggleView \/ AskUnlock \/ Dismiss \/ Confirm
  \/ \E r \in PanelRows : WindowResized(r)

PanelSpec == PanelInit /\ [][PanelNext]_panelVars

-----------------------------------------------------------------------------
(* Properties *)

(* However snapshots shrink and grow the list under the user, the selection *)
(* is in it and on the screen; the one exception is the moment after a      *)
(* restart, until the next tick.                                            *)
SelectionOnScreen ==
  ~unfit => /\ selected < Greater(Len(Shown), 1)
            /\ Len(Shown) > 0 => selected \in scroll..(scroll + panelRows - 1)

(* No rows of the screen are left empty while there are databases above.    *)
ScreenFilled == ~unfit => scroll = 0 \/ scroll + panelRows <= Len(Shown)

(* A database is only unlocked by force when it is the one the dialog asked *)
(* about, unless the list has changed under the dialog; in the view of all  *)
(* databases it cannot.                                                     *)
ForcedAsAsked == ~slip

(* What the panel shows is what its keys act on, a restart is offered when   *)
(* it can be had, and its caller is told the end (model.go and app.go).      *)
PanelSound ==
  /\ PGControlTypeOK /\ RestartAvailable /\ NotBeforeReady /\ CallersKept
  /\ SelectionOnScreen /\ ScreenFilled /\ ForcedAsAsked
=============================================================================
