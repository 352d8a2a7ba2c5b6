----------------------------- MODULE RuntimeTabs ------------------------------
(***************************************************************************)
(* cooper/internal/tui/settings/model.go and tui/bridgeui/routes.go, and    *)
(* what becomes of their changes: SettingsChangedMsg and RoutesChangedMsg   *)
(* in tui/app.go, UpdateSettings and UpdateBridgeRoutes of app/cooper.go.   *)
(*                                                                         *)
(* A change is sent by a command, and commands run in goroutines of their   *)
(* own: two changes may reach Update in either order.  The command of the   *)
(* settings tab holds the values; that of the routes tab reads the routes   *)
(* when it runs, while Update may be changing them.                         *)
(***************************************************************************)
EXTENDS PortForwardTab

CONSTANTS
  Settings,      \* the numbers that can be set
  Least, Most,   \* the bounds of each
  Routes,        \* what can be typed for a route and is accepted
  Typed,         \* what can be typed for a number
  MaxSent,       \* changes sent, of each tab
  MaxRoutes

ASSUME RuntimeTabsAssumption ==
  /\ Least \in [Settings -> Nat] /\ Most \in [Settings -> Nat]
  /\ \A s \in Settings : Least[s] <= Most[s]
  /\ Typed \subseteq Nat /\ MaxSent \in Nat /\ MaxRoutes \in Nat \ {0}

VARIABLES
  values, sound,    \* the settings tab
  stSel, stEditing, stBuf,
  stSent,           \* the changes sent: [values, sound, at]
  config,           \* memory and config.json: [memory, file], each [values, sound]
  live,             \* what runs: [acl, alert, views], the ACL listener and clipboard, the alert player, the tabs
  stOvertaken, stFailed, \* history: a change came after a later one; the last save failed
  routes, rtSel, rtMode, rtEditIdx, \* the routes tab
  rtSent,           \* its changes: [at, read]
  server, kept,     \* the routes of the bridge server; those of config and disk
  rtOvertaken, rtFailed

settingsVars == <<values, sound, stSel, stEditing, stBuf, stSent, config, live, stOvertaken, stFailed>>
routesVars == <<routes, rtSel, rtMode, rtEditIdx, rtSent, server, kept, rtOvertaken, rtFailed>>
runtimeTabsVars == <<settingsVars, routesVars>>

NoNumber == -1
Blank == "blank"
Clamp(v, s) == IF v < Least[s] THEN Least[s] ELSE IF v > Most[s] THEN Most[s] ELSE v
Arrived(sent) == \A i \in DOMAIN sent : sent[i].at = "end"
Overtakes(sent, i) == \E j \in DOMAIN sent : j > i /\ sent[j].at = "end"

RuntimeTabsInit ==
  /\ values = Least /\ sound = FALSE
  /\ stSel \in Settings /\ stEditing = FALSE /\ stBuf = NoNumber
  /\ stSent = << >>
  /\ config = [memory |-> [values |-> Least, sound |-> FALSE], file |-> [values |-> Least, sound |-> FALSE]]
  /\ live = [acl |-> Least, alert |-> FALSE, views |-> Least]
  /\ stOvertaken = FALSE /\ stFailed = FALSE
  /\ routes = << >> /\ rtSel = 1 /\ rtMode = "none" /\ rtEditIdx = 0
  /\ rtSent = << >> /\ server = << >> /\ kept = << >>
  /\ rtOvertaken = FALSE /\ rtFailed = FALSE

-----------------------------------------------------------------------------
(* The settings tab. *)

EmitSettings(v, s) ==
  /\ Len(stSent) < MaxSent
  /\ values' = v /\ sound' = s
  /\ stSent' = Append(stSent, [at |-> "sent", values |-> v, sound |-> s])
  /\ UNCHANGED <<config, live, stOvertaken, stFailed, routesVars>>

SelectSetting(s) ==
  /\ ~stEditing /\ stSel' = s /\ s # stSel
  /\ UNCHANGED <<values, sound, stEditing, stBuf, stSent, config, live, stOvertaken, stFailed, routesVars>>
(* A value at its bound is sent all the same. *)
AdjustValue(d) ==
  /\ ~stEditing /\ d \in {-1, 1}
  /\ EmitSettings([values EXCEPT ![stSel] = Clamp(@ + d, stSel)], sound)
  /\ UNCHANGED <<stSel, stEditing, stBuf>>
SetSound ==
  /\ ~stEditing /\ EmitSettings(values, ~sound)
  /\ UNCHANGED <<stSel, stEditing, stBuf>>
EditSetting ==
  /\ ~stEditing /\ stEditing' = TRUE /\ stBuf' = values[stSel]
  /\ UNCHANGED <<values, sound, stSel, stSent, config, live, stOvertaken, stFailed, routesVars>>
TypeNumber(v) ==
  /\ stEditing /\ v # stBuf /\ stBuf' = v
  /\ UNCHANGED <<values, sound, stSel, stEditing, stSent, config, live, stOvertaken, stFailed, routesVars>>
AdjustBuf(d) ==
  /\ stEditing /\ stBuf # NoNumber /\ d \in {-10, -1, 1, 10}
  /\ stBuf' = Clamp(stBuf + d, stSel)
  /\ UNCHANGED <<values, sound, stSel, stEditing, stSent, config, live, stOvertaken, stFailed, routesVars>>
(* Enter and Esc alike; without a number the old value stays. *)
CommitSetting ==
  /\ stEditing /\ stEditing' = FALSE
  /\ IF stBuf = NoNumber
       THEN UNCHANGED <<values, sound, stSent, config, live, stOvertaken, stFailed, routesVars>>
       ELSE EmitSettings([values EXCEPT ![stSel] = Clamp(stBuf, stSel)], sound)
  /\ UNCHANGED <<stSel, stBuf>>

(* Mutant: the listener keeps its timeout. *)
SettingsChangedShown(i) ==
  /\ stSent[i].at = "sent"
  /\ stSent' = [stSent EXCEPT ![i].at = "end"]
  /\ LET new == [values |-> stSent[i].values, sound |-> stSent[i].sound] IN
     /\ \/ config' = [memory |-> new, file |-> new] /\ stFailed' = FALSE /\ UNCHANGED live
        \/ stFailed' = TRUE /\ UNCHANGED <<config, live>>
     /\ stOvertaken' = (stOvertaken \/ Overtakes(stSent, i))
  /\ UNCHANGED <<values, sound, stSel, stEditing, stBuf, routesVars>>
\* What os.WriteFile leaves of config.json when it fails half way.
CutSetting == [values |-> << >>, sound |-> FALSE]
(* UpdateSettings; when config.json cannot be written the listener and the  *)
(* clipboard keep the old values, the sound and the tabs take the new ones. *)
(* Its copy, save and store are one step here, where no port forward runs   *)
(* beside it: PortForwardTab has them apart.                                *)
SettingsChanged(i) ==
  /\ stSent[i].at = "sent"
  /\ stSent' = [stSent EXCEPT ![i].at = "end"]
  /\ LET new == [values |-> stSent[i].values, sound |-> stSent[i].sound] IN
     /\ \/ config' = [memory |-> new, file |-> new] /\ stFailed' = FALSE
        \/ stFailed' = TRUE /\ \E f \in {config.file, CutSetting} : config' = [config EXCEPT !.file = f]
     /\ live' = [acl |-> config'.memory.values, alert |-> new.sound, views |-> new.values]
     /\ stOvertaken' = (stOvertaken \/ Overtakes(stSent, i))
  /\ UNCHANGED <<values, sound, stSel, stEditing, stBuf, routesVars>>

-----------------------------------------------------------------------------
(* The routes tab. *)

EmitRoutes(rs) ==
  /\ Len(rtSent) < MaxSent
  /\ routes' = rs /\ rtSel' = IF rtSel > Len(rs) /\ rs # << >> THEN Len(rs) ELSE rtSel
  /\ rtMode' = "none"
  /\ rtSent' = Append(rtSent, [at |-> "command", length |-> 0, read |-> << >>])
  /\ UNCHANGED <<rtEditIdx, server, kept, rtOvertaken, rtFailed, settingsVars>>

RouteDialog(mode) ==
  /\ rtMode = "none" /\ mode \in {"adding", "editing", "deleting"}
  /\ mode # "adding" => rtSel \in DOMAIN routes
  /\ rtMode' = mode
  /\ rtEditIdx' = CASE mode = "adding" -> 0 [] mode = "editing" -> rtSel [] OTHER -> rtEditIdx
  /\ UNCHANGED <<routes, rtSel, rtSent, server, kept, rtOvertaken, rtFailed, settingsVars>>
SelectRoute(s) ==
  /\ rtMode = "none" /\ s \in DOMAIN routes /\ s # rtSel /\ rtSel' = s
  /\ UNCHANGED <<routes, rtMode, rtEditIdx, rtSent, server, kept, rtOvertaken, rtFailed, settingsVars>>
CancelRoute ==
  /\ rtMode # "none" /\ rtMode' = "none"
  /\ UNCHANGED <<routes, rtSel, rtEditIdx, rtSent, server, kept, rtOvertaken, rtFailed, settingsVars>>
(* saveRoute: an empty script and a path below /clipboard are refused. *)
SaveRoute(r) ==
  /\ rtMode \in {"adding", "editing"} /\ r \in Routes
  /\ IF rtMode = "adding" THEN Len(routes) < MaxRoutes /\ EmitRoutes(Append(routes, r))
                          ELSE EmitRoutes([routes EXCEPT ![rtEditIdx] = r])
DeleteRoute == rtMode = "deleting" /\ EmitRoutes(RemoveAt(routes, rtSel))

(* The command makes room for the routes there are, and then copies those   *)
(* there are: one deleted in between leaves a blank one.                    *)
ReadLength(i) ==
  /\ rtSent[i].at = "command"
  /\ rtSent' = [rtSent EXCEPT ![i].at = "copying", ![i].length = Len(routes)]
  /\ UNCHANGED <<routes, rtSel, rtMode, rtEditIdx, server, kept, rtOvertaken, rtFailed, settingsVars>>
CopyRoutes(i) ==
  /\ rtSent[i].at = "copying"
  /\ rtSent' = [rtSent EXCEPT ![i].at = "sent", ![i].read =
                  [k \in 1..rtSent[i].length |-> IF k \in DOMAIN routes THEN routes[k] ELSE Blank]]
  /\ UNCHANGED <<routes, rtSel, rtMode, rtEditIdx, server, kept, rtOvertaken, rtFailed, settingsVars>>
(* Mutant: the server is told after the file is written, and only then. *)
RoutesSavedFirst(i) ==
  /\ rtSent[i].at = "sent"
  /\ rtSent' = [rtSent EXCEPT ![i].at = "end"]
  /\ \/ server' = rtSent[i].read /\ kept' = rtSent[i].read /\ rtFailed' = FALSE
     \/ rtFailed' = TRUE /\ UNCHANGED <<kept, server>>
  /\ rtOvertaken' = (rtOvertaken \/ Overtakes(rtSent, i))
  /\ UNCHANGED <<routes, rtSel, rtMode, rtEditIdx, settingsVars>>
(* UpdateBridgeRoutes: the server first, whatever becomes of the file. *)
RoutesChanged(i) ==
  /\ rtSent[i].at = "sent"
  /\ rtSent' = [rtSent EXCEPT ![i].at = "end"]
  /\ server' = rtSent[i].read
  /\ \/ kept' = rtSent[i].read /\ rtFailed' = FALSE
     \/ rtFailed' = TRUE /\ UNCHANGED kept
  /\ rtOvertaken' = (rtOvertaken \/ Overtakes(rtSent, i))
  /\ UNCHANGED <<routes, rtSel, rtMode, rtEditIdx, settingsVars>>

SettingsNext ==
  \/ \E s \in Settings : SelectSetting(s)
  \/ \E d \in {-10, -1, 1, 10} : AdjustValue(d) \/ AdjustBuf(d)
  \/ SetSound \/ EditSetting \/ CommitSetting
  \/ \E v \in Typed \cup {NoNumber} : TypeNumber(v)
  \/ \E i \in DOMAIN stSent : SettingsChanged(i)
RoutesNext ==
  \/ \E mode \in {"adding", "editing", "deleting"} : RouteDialog(mode)
  \/ \E s \in 1..MaxRoutes : SelectRoute(s)
  \/ \E r \in Routes : SaveRoute(r)
  \/ CancelRoute \/ DeleteRoute
  \/ \E i \in DOMAIN rtSent : ReadLength(i) \/ CopyRoutes(i) \/ RoutesChanged(i)
RuntimeTabsNext == SettingsNext \/ RoutesNext
RuntimeTabsSpec == RuntimeTabsInit /\ [][RuntimeTabsNext]_runtimeTabsVars

-----------------------------------------------------------------------------
(* Properties *)

RuntimeTabsTypeOK ==
  /\ \A s \in Settings : values[s] \in Least[s]..Most[s] /\ config.memory.values[s] \in Least[s]..Most[s]
  /\ rtSel \in 1..MaxRoutes /\ rtEditIdx \in 0..MaxRoutes
  /\ \A i \in DOMAIN routes : routes[i] \in Routes

(* Once every change has arrived, none behind a later one, the listener,    *)
(* the clipboard, the sound and the tabs work with the values shown, and    *)
(* with those in config.json, unless the last save failed; and even then    *)
(* listener and clipboard have the values of the configuration, and         *)
(* config.json holds it or was cut by the save.                             *)
SettingsTake ==
  /\ live.acl = config.memory.values /\ config.file \in {config.memory, CutSetting}
  /\ Arrived(stSent) /\ ~stOvertaken =>
       /\ live.views = values /\ live.alert = sound
       /\ ~stFailed => config.memory = [values |-> values, sound |-> sound] /\ config.file = config.memory

(* ... and the bridge server has the routes shown, also when they could not *)
(* be written; what a command read while they changed does not stay.        *)
RoutesTake ==
  Arrived(rtSent) /\ ~rtOvertaken =>
    /\ server = routes
    /\ ~rtFailed => kept = routes

(* Once all commands are back, and none overlapped with or overtook another,  *)
(* the tabs and the running services hold the same rules, settings and        *)
(* routes, and so do the files, unless the last save failed; and no port is   *)
(* forwarded twice, whatever overlapped (app.go, portfwd and settings).       *)
ChangesSound == PortForwardTypeOK /\ PortsFree /\ ChangesAgree /\ RuntimeTabsTypeOK /\ SettingsTake /\ RoutesTake
=============================================================================
