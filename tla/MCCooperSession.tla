---------------------------- MODULE MCCooperSession ----------------------------
(* The control panel of a session of cooper, its tabs and screens side by side: *)
(* a behaviour is one of the part that which names, the others keep their       *)
(* initial states.                                                              *)
EXTENDS TuiShell, ListTabs, RuntimeTabs

\* Numbers that can be set: one with room, one without.
LeastSet == [timeout |-> 1, limit |-> 1]
MostSet == [timeout |-> 3, limit |-> 1]
\* What can be typed for a port forward: two ranges that share a port, one of
\* them with a reserved port.
TypedRules == {[first |-> 1, last |-> 2, host |-> 1], [first |-> 2, last |-> 3, host |-> 1]}
TabOrder == <<"containers", "about">>
\* startupProgress and shutdownProgress
StartTable == <<12, 30, 42, 55, 65, 78, 92, 100>>
StopTable == <<10, 30, 60, 85, 100>>

VARIABLE which
vars == <<shellVars, headerVars, loadingVars, listVars, portForwardVars, settingsVars, routesVars, which>>

Init ==
  /\ which \in {"shell", "header", "loading", "entries", "squid", "ports", "settings", "routes"}
  /\ ShellInit /\ HeaderInit /\ LoadingInit /\ ListTabsInit /\ PortForwardInit /\ RuntimeTabsInit
  /\ which # "shell" => rows # << >>
  /\ which # "loading" => stopping = FALSE
  /\ which # "entries" => hasDetail = FALSE /\ capacity = CHOOSE c \in Capacities : TRUE
  /\ which # "settings" => stSel = CHOOSE s \in Settings : TRUE

Only(name, Step) == which = name /\ Step /\ UNCHANGED which
OfShell(Step) == Only("shell", Step)
  /\ UNCHANGED <<headerVars, loadingVars, listVars, portForwardVars, settingsVars, routesVars>>
OfHeader(Step) == Only("header", Step)
  /\ UNCHANGED <<shellVars, loadingVars, listVars, portForwardVars, settingsVars, routesVars>>
OfLoading(Step) == Only("loading", Step)
  /\ UNCHANGED <<shellVars, headerVars, listVars, portForwardVars, settingsVars, routesVars>>
OfLists(name, Step) == Only(name, Step)
  /\ UNCHANGED <<shellVars, headerVars, loadingVars, portForwardVars, settingsVars, routesVars>>
OfPorts(Step) == Only("ports", Step)
  /\ UNCHANGED <<shellVars, headerVars, loadingVars, listVars, settingsVars, routesVars>>
OfRuntimeTabs(name, Step) == Only(name, Step)
  /\ UNCHANGED <<shellVars, headerVars, loadingVars, listVars, portForwardVars>>
Next ==
  \/ OfShell(ShellNext)
  \/ OfHeader(HeaderNext)
  \/ OfLoading(LoadingNext)
  \/ OfLists("entries", EntriesNext)
  \/ OfLists("squid", SquidNext)
  \/ OfPorts(PortForwardNext)
  \/ OfRuntimeTabs("settings", SettingsNext)
  \/ OfRuntimeTabs("routes", RoutesNext)

(* Commands end and their messages arrive; the panel's ticks come.  The poll  *)
(* of docker is a command of its own beside the user's.                       *)
Proceeds ==
  \/ OfShell(ShellMessages)
  \/ OfHeader(HeaderStep)
  \/ OfLoading(LoadingStep)
  \/ OfPorts(Applying)
OthersProceed == OfShell(Polls)
Fairness == WF_vars(Proceeds) /\ WF_vars(OthersProceed)
Spec == Init /\ [][Next]_vars /\ Fairness

(* Only what was confirmed is done; flashes, rows, pictures and screens of    *)
(* the past go; who reads back is not moved; and a reload of the rules ends.  *)
SessionProgress ==
  /\ OnlyConfirmed /\ FeedbackEnds /\ RowsCatchUp /\ ImageExpires /\ HeaderSettles
  /\ ScreenEnds /\ ReadingStays /\ ReloadEnds
=============================================================================
