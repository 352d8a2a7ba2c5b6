----------------------------- MODULE ConfigWizard -----------------------------
(***************************************************************************)
(* cooper configure: the wizard's screens, each editing its own copy, and   *)
(* what is written when it ends (cooper/internal/configure, LoadConfig,     *)
(* Validate and SaveWithProgress).  A run of the wizard starts from         *)
(* config.json and ends by quitting or by saving; then it may be run again. *)
(* The two tool screens, and the three screens that edit a list in a modal, *)
(* are one definition each with what differs as an operator.                *)
(***************************************************************************)
EXTENDS Integers, Sequences, FiniteSets, SequencesExt

CONSTANTS
  ToolScreens,  \* of "programming" and "aicli" the tools, in order
  HostHas,      \* of each tool the version on the host, or NoVersion
  LatestOf,     \* of each tool the latest version
  Findable,    \* <<tool, version>> that ValidateVersion finds
  Defaults,     \* default domains
  Files,        \* what config.json may hold at first
  Typed,        \* of each list screen what can be typed in its modal
  TypedPins, TypedPorts,
  MaxEdits, MaxRuns, MaxRows \* edits of data in all runs, runs, rows

VARIABLES
  file,     \* config.json
  conf,     \* m.cfg
  tools,    \* the tools of both tool screens
  detail,   \* of each tool screen: cursor, row of the detail view (0: list), pin input
  lists,    \* of each list screen: rows, cursor, modal
  ports,    \* the proxy screen: committed ports and what is typed
  at,       \* screen, question on top, how the run ended
  spent     \* history: [edits, runs]

wizardVars == <<file, conf, tools, detail, lists, ports, at, spent>>

NoFile == [none |-> TRUE]
NoVersion == "-"
NoModal == [row |-> -1]
MaxPort == 65535
AllTools == UNION {ToSet(ToolScreens[s]) : s \in DOMAIN ToolScreens}
ListScreens == {"whitelist", "portforward", "barrelenv"}
NoDetail == [cursor |-> 1, row |-> 0, text |-> NoVersion, focused |-> FALSE]

(* The shape of config.json, and what the constants are assumed to be. *)
ToolModes == {"off", "mirror", "latest", "pin"}
EnvFields == {"word", "form", "padded", "good"}
IsList(s) == s \in Seq(ToSet(s))
AreTools(ts) ==
  /\ DOMAIN ts = AllTools
  /\ \A t \in AllTools : DOMAIN ts[t] = {"enabled", "mode", "pinned", "host"} /\ ts[t].mode \in ToolModes
IsConfig(c) ==
  /\ DOMAIN c = {"tools", "domains", "rules", "env", "proxy", "bridge"}
  /\ c.tools = << >> \/ AreTools(c.tools)
  /\ IsList(c.domains) /\ IsList(c.rules) /\ IsList(c.env)
  /\ \A i \in DOMAIN c.env : DOMAIN c.env[i] = EnvFields
ASSUME WizardAssumption ==
  /\ DOMAIN ToolScreens = {"programming", "aicli"}
  /\ \A s \in DOMAIN ToolScreens : IsList(ToolScreens[s]) /\ ToolScreens[s] # << >>
  /\ IsList(Defaults) /\ \A i \in DOMAIN Defaults : Defaults[i].source = "default"
  /\ \A f \in Files : f = NoFile \/ IsConfig(f)
  /\ \A t \in Typed["whitelist"] : t.source # "default"
  /\ \A t \in Typed["barrelenv"] : DOMAIN t = EnvFields

-----------------------------------------------------------------------------
(* What the modals and Validate accept. *)

InPort(n) == n \in 1..MaxPort
(* parsePortRange *)
RangeOk(t) == Len(t) = 2 /\ InPort(t[1]) /\ InPort(t[2]) /\ t[2] > t[1]
(* parseRule: the end of the host's range is not kept. *)
RuleOk(t) == IF t.range THEN RangeOk(t.cli) /\ RangeOk(t.host)
             ELSE Len(t.cli) = 1 /\ Len(t.host) = 1 /\ InPort(t.cli[1]) /\ InPort(t.host[1])
RuleOf(t) == [range |-> t.range, first |-> t.cli[1], last |-> IF t.range THEN t.cli[2] ELSE 0, host |-> t.host[1]]
RuleText(r) ==
  [range |-> r.range,
   cli |-> IF r.range THEN <<r.first, r.last>> ELSE <<r.first>>,
   host |-> IF r.range THEN <<r.host, r.host + (r.last - r.first)>> ELSE <<r.host>>]

(* An env row is [word, form, padded, good]: names of one word differ in case *)
(* only; good unless the name is empty, malformed or protected, or the value  *)
(* has a line break.                                                         *)
Trimmed(e) == [e EXCEPT !.padded = FALSE]
CanonicalizeBarrelEnvVars(rows) == [i \in DOMAIN rows |-> Trimmed(rows[i])]
ValidateBarrelEnvVars(rows) ==
  /\ \A i \in DOMAIN rows : rows[i].good
  /\ \A i, j \in DOMAIN rows : i # j => rows[i].word # rows[j].word
(* NormalizeBarrelEnvVarsForRuntime: duplicates stay, the last one wins. *)
UsableBarrelEnvVars(rows) == SelectSeq(CanonicalizeBarrelEnvVars(rows), LAMBDA e : e.good)

RuleValid(r, reserved) ==
  /\ InPort(r.first) /\ InPort(r.host)
  /\ r.range => r.last > r.first /\ r.last <= MaxPort
  /\ \A port \in reserved : ~(r.first <= port /\ port <= IF r.range THEN r.last ELSE r.first)
Validate(c) ==
  /\ InPort(c.proxy) /\ InPort(c.bridge) /\ c.proxy # c.bridge
  /\ \A i \in DOMAIN c.rules : RuleValid(c.rules[i], {c.proxy, c.bridge})

(* parseEntry *)
(* Mutant: names are duplicates only when spelled alike. *)
EntryOkAlike(e, rows, row) == e.good /\ \A i \in DOMAIN rows \ {row} : rows[i].word # e.word \/ rows[i].form # e.form
EntryOk(e, rows, row) == e.good /\ \A i \in DOMAIN rows \ {row} : rows[i].word # e.word
(* updateDomainModal: any domain that is not empty. *)
DomainOk(t) == t.name # ""
Accepted(s, t, rows, row) ==
  CASE s = "whitelist" -> DomainOk(t)
    [] s = "portforward" -> RuleOk(t)
    [] s = "barrelenv" -> EntryOk(Trimmed(t), rows, row)
RowOf(s, t) == CASE s = "whitelist" -> t [] s = "portforward" -> RuleOf(t) [] s = "barrelenv" -> Trimmed(t)
TextOf(s, r) == IF s = "portforward" THEN RuleText(r) ELSE r
Blank(s) == CASE s = "whitelist" -> [name |-> "", source |-> "user"]
              [] s = "portforward" -> [range |-> FALSE, cli |-> << >>, host |-> << >>]
              [] s = "barrelenv" -> [word |-> "", form |-> 0, padded |-> FALSE, good |-> FALSE]

-----------------------------------------------------------------------------
(* Reading config.json, and the screens made from it. *)

DefaultConfig ==
  [tools |-> << >>, domains |-> Defaults, rules |-> << >>, env |-> << >>, proxy |-> 3128, bridge |-> 4343]
(* The rows of s that are in K, as a loop collects them. *)
Filtered(s, K) ==
  LET upTo[i \in 0 .. Len(s)] ==
        IF i = 0 THEN << >> ELSE IF s[i] \in K THEN Append(upTo[i - 1], s[i]) ELSE upTo[i - 1]
  IN  upTo[Len(s)]
DefaultsOf(domains) == Filtered(domains, {d \in ToSet(domains) : d.source = "default"})
UsersOf(domains) == Filtered(domains, {d \in ToSet(domains) : d.source # "default"})
MergeDefaultDomains(domains) ==
  domains \o Filtered(Defaults, {d \in ToSet(Defaults) : \A i \in DOMAIN domains : domains[i].name # d.name})
(* A file that cannot be read or parsed counts as none. *)
LoadConfig == IF file = NoFile THEN DefaultConfig ELSE [file EXCEPT !.domains = MergeDefaultDomains(@)]

(* Mutant: detected tools are turned on whenever all of them are off. *)
NewToolsAuto(c) ==
  [t \in AllTools |->
     IF c.tools # << >> /\ (\E u \in AllTools : c.tools[u].enabled)
     THEN [c.tools[t] EXCEPT !.host = IF HostHas[t] # NoVersion THEN HostHas[t] ELSE @]
     ELSE [enabled |-> HostHas[t] # NoVersion, mode |-> IF HostHas[t] # NoVersion THEN "mirror" ELSE "off",
           pinned |-> NoVersion, host |-> HostHas[t]]]
(* newProgrammingModel, newAICLIModel *)
NewTools(c) ==
  [t \in AllTools |->
     IF c.tools # << >> THEN [c.tools[t] EXCEPT !.host = IF HostHas[t] # NoVersion THEN HostHas[t] ELSE @]
     ELSE [enabled |-> HostHas[t] # NoVersion, mode |-> IF HostHas[t] # NoVersion THEN "mirror" ELSE "off",
           pinned |-> NoVersion, host |-> HostHas[t]]]
NewList(rows) == [rows |-> rows, cursor |-> 1, modal |-> NoModal]
NewLists(c) ==
  [s \in ListScreens |->
     NewList(CASE s = "whitelist" -> UsersOf(c.domains) [] s = "portforward" -> c.rules [] s = "barrelenv" -> c.env)]
NewPorts(c) == [proxy |-> c.proxy, bridge |-> c.bridge, typed |-> <<c.proxy, c.bridge>>]

(* A run of the wizard begins; newModel makes its screens.  A tool whose host *)
(* version changed since the build is shown first (detectMirrorChanges).      *)
NewModel ==
  /\ conf' = LoadConfig
  /\ tools' = NewTools(LoadConfig) /\ lists' = NewLists(LoadConfig) /\ ports' = NewPorts(LoadConfig)
  /\ detail' = [s \in DOMAIN ToolScreens |-> NoDetail]
  /\ \E changes \in BOOLEAN :
       at' = [screen |-> "welcome", top |-> IF changes /\ file # NoFile THEN "changes" ELSE "none", ended |-> "no"]
Run ==
  /\ at.ended \notin {"no", "save"} /\ spent.runs < MaxRuns
  /\ NewModel
  /\ spent' = [spent EXCEPT !.runs = @ + 1]
  /\ UNCHANGED file

-----------------------------------------------------------------------------
(* Keys that the model itself handles. *)

(* isTextInputActive: on the proxy screen always. *)
TextInputActive ==
  CASE at.screen \in DOMAIN ToolScreens -> detail[at.screen].focused
    [] at.screen \in ListScreens -> lists[at.screen].modal # NoModal
    [] OTHER -> at.screen = "proxy"
Open == at.ended = "no" /\ at.top = "none"
On(s) == Open /\ at.screen = s
Edits == spent.edits < MaxEdits /\ spent' = [spent EXCEPT !.edits = @ + 1]
Unspent == UNCHANGED <<file, spent>>
InWizard == UNCHANGED <<tools, detail, lists, ports>>

DismissChanges ==
  /\ at.ended = "no" /\ at.top = "changes" /\ at' = [at EXCEPT !.top = "none"]
  /\ UNCHANGED conf /\ InWizard /\ Unspent
KeyQuit ==
  /\ Open /\ ~TextInputActive /\ at' = [at EXCEPT !.top = "quit"]
  /\ UNCHANGED conf /\ InWizard /\ Unspent
(* The arrows move between the modal's two buttons; y and Enter on the first  *)
(* one quit, n, Esc and Enter on the other close it.                         *)
AnswerQuit(yes) ==
  /\ at.ended = "no" /\ at.top = "quit"
  /\ at' = [at EXCEPT !.top = "none", !.ended = IF yes THEN "quit" ELSE "no"]
  /\ UNCHANGED conf /\ InWizard /\ Unspent

(* syncConfigFromSubModels.  A version that was pinned is kept in Pin mode    *)
(* only (toToolConfigs); Esc on the proxy screen leaves what is typed there.  *)
ToToolConfigs == [t \in AllTools |-> [tools[t] EXCEPT !.pinned = IF tools[t].mode = "pin" THEN @ ELSE NoVersion]]
ToDomainEntries == DefaultsOf(conf.domains) \o lists["whitelist"].rows
Synced ==
  [tools |-> ToToolConfigs, domains |-> ToDomainEntries, rules |-> lists["portforward"].rows,
   env |-> lists["barrelenv"].rows, proxy |-> ports.proxy, bridge |-> ports.bridge]
(* Mutant: what the screens show is taken over when they are opened only. *)
NavigateLate(s) == at' = [at EXCEPT !.screen = s] /\ conf' = IF s = "save" THEN conf ELSE Synced
Navigate(s) == at' = [at EXCEPT !.screen = s] /\ conf' = Synced
Screens == DOMAIN ToolScreens \cup ListScreens \cup {"proxy", "save"}
ChooseScreen(s) == On("welcome") /\ Navigate(s) /\ InWizard /\ Unspent
Back(s) ==
  /\ On(s)
  /\ s \in DOMAIN ToolScreens => detail[s].row = 0
  /\ s \in ListScreens => lists[s].modal = NoModal
  /\ Navigate("welcome") /\ InWizard /\ Unspent

-----------------------------------------------------------------------------
(* The tool screens. *)

ToolAt(s) == ToolScreens[s][detail[s].cursor]
(* detailModes: Mirror needs a version on the host. *)
(* Mutant: Off is offered as well. *)
ModesWithOff(s) ==
  LET mirror == IF tools[ToolAt(s)].host # NoVersion THEN <<"mirror">> ELSE << >>
  IN  <<"off">> \o mirror \o <<"latest", "pin">>
Modes(s) ==
  LET mirror == IF tools[ToolAt(s)].host # NoVersion THEN <<"mirror">> ELSE << >>
  IN  IF s = "programming" THEN mirror \o <<"latest", "pin">> ELSE <<"latest">> \o mirror \o <<"pin">>
(* updateDetail routes keys to the input on the third row. *)
RoutedToPin(s) == detail[s].row = 3 /\ detail[s].focused
InScreens == UNCHANGED <<conf, lists, ports, at>>
InDetail(s) == On(s) /\ detail[s].row # 0 /\ ~RoutedToPin(s) /\ InScreens

ToolMove(s, row) ==
  /\ On(s) /\ detail[s].row = 0 /\ row \in DOMAIN ToolScreens[s] /\ row \in {detail[s].cursor - 1, detail[s].cursor + 1}
  /\ detail' = [detail EXCEPT ![s].cursor = row] /\ UNCHANGED tools /\ InScreens /\ Unspent
ToolToggle(s) ==
  /\ On(s) /\ detail[s].row = 0 /\ Edits /\ UNCHANGED <<file, detail>> /\ InScreens
  /\ tools' = [tools EXCEPT ![ToolAt(s)].enabled = ~@]
(* detailCursorForMode *)
RowOfMode(s) == LET row == SelectInSeq(Modes(s), LAMBDA m : m = tools[ToolAt(s)].mode) IN IF row = 0 THEN 1 ELSE row
ToolOpen(s) ==
  /\ On(s) /\ detail[s].row = 0
  /\ detail' = [detail EXCEPT ![s].row = RowOfMode(s), ![s].text = tools[ToolAt(s)].pinned]
  /\ UNCHANGED tools /\ InScreens /\ Unspent
DetailMove(s, row) ==
  /\ InDetail(s) /\ row \in DOMAIN Modes(s) /\ row \in {detail[s].row - 1, detail[s].row + 1}
  /\ detail' = [detail EXCEPT ![s].row = row] /\ UNCHANGED tools /\ Unspent
DetailSelect(s) ==
  /\ InDetail(s) /\ Edits /\ UNCHANGED file
  /\ LET mode == Modes(s)[detail[s].row] IN
       /\ tools' = [tools EXCEPT ![ToolAt(s)].mode = mode]
       /\ detail' = [detail EXCEPT ![s].focused = mode = "pin" \/ @]
DetailLeave(s) ==
  /\ InDetail(s) /\ detail' = [detail EXCEPT ![s].row = 0] /\ UNCHANGED tools /\ Unspent
PinType(s, v) ==
  /\ On(s) /\ RoutedToPin(s) /\ Edits /\ UNCHANGED <<file, tools>> /\ InScreens
  /\ detail' = [detail EXCEPT ![s].text = v]
PinBlur(s) ==
  /\ On(s) /\ RoutedToPin(s) /\ UNCHANGED tools /\ InScreens /\ Unspent
  /\ detail' = [detail EXCEPT ![s].focused = FALSE]
(* Enter: a version that is not found, or cannot be looked up, is refused. *)
(* Mutant: a lookup that fails lets the version through. *)
PinEnterUnchecked(s, reachable) ==
  LET v == detail[s].text IN
  /\ On(s) /\ RoutedToPin(s) /\ v # NoVersion /\ (~reachable \/ <<ToolAt(s), v>> \in Findable)
  /\ InScreens /\ Unspent
  /\ tools' = [tools EXCEPT ![ToolAt(s)].pinned = v, ![ToolAt(s)].mode = "pin"]
  /\ detail' = [detail EXCEPT ![s].focused = FALSE]
PinEnter(s, reachable) ==
  LET v == detail[s].text IN
  /\ On(s) /\ RoutedToPin(s) /\ v # NoVersion /\ reachable /\ <<ToolAt(s), v>> \in Findable
  /\ InScreens /\ Unspent
  /\ tools' = [tools EXCEPT ![ToolAt(s)].pinned = v, ![ToolAt(s)].mode = "pin"]
  /\ detail' = [detail EXCEPT ![s].focused = FALSE]

-----------------------------------------------------------------------------
(* The list screens and their modal. *)

InLists == UNCHANGED <<conf, tools, detail, ports, at>>
Listed(s) == On(s) /\ lists[s].modal = NoModal /\ InLists
InModal(s) == On(s) /\ lists[s].modal # NoModal /\ InLists
ListMove(s, row) ==
  /\ Listed(s) /\ row \in DOMAIN lists[s].rows /\ row \in {lists[s].cursor - 1, lists[s].cursor + 1}
  /\ lists' = [lists EXCEPT ![s].cursor = row] /\ Unspent
ListNew(s) ==
  /\ Listed(s) /\ Len(lists[s].rows) < MaxRows /\ Unspent
  /\ lists' = [lists EXCEPT ![s].modal = [row |-> 0, text |-> Blank(s), onCancel |-> FALSE]]
ListEdit(s) ==
  LET l == lists[s] IN
  /\ Listed(s) /\ l.rows # << >> /\ Unspent
  /\ lists' = [lists EXCEPT ![s].modal = [row |-> l.cursor, text |-> TextOf(s, l.rows[l.cursor]), onCancel |-> FALSE]]
(* Mutant: the cursor stays where the last row was. *)
ListDeleteOnly(s) ==
  LET l == lists[s] IN
  /\ Listed(s) /\ l.rows # << >> /\ Edits /\ UNCHANGED file
  /\ lists' = [lists EXCEPT ![s].rows = RemoveAt(l.rows, l.cursor)]
ListDelete(s) ==
  LET l == lists[s] IN
  /\ Listed(s) /\ l.rows # << >> /\ Edits /\ UNCHANGED file
  /\ lists' = [lists EXCEPT ![s].rows = RemoveAt(l.rows, l.cursor),
                            ![s].cursor = IF l.cursor = Len(l.rows) /\ l.cursor > 1 THEN l.cursor - 1 ELSE l.cursor]
(* The focus goes round the fields and the two buttons. *)
ModalFocus(s) ==
  /\ InModal(s) /\ lists' = [lists EXCEPT ![s].modal.onCancel = ~@] /\ Unspent
ModalType(s, t) ==
  /\ InModal(s) /\ ~lists[s].modal.onCancel /\ Edits /\ UNCHANGED file
  /\ lists' = [lists EXCEPT ![s].modal.text = t]
ModalCancel(s) ==
  /\ InModal(s) /\ lists' = [lists EXCEPT ![s].modal = NoModal] /\ Unspent
(* Enter anywhere but on Cancel; what is refused leaves the modal open.  The  *)
(* env screen selects the row it adds.                                       *)
ModalConfirm(s) ==
  LET l == lists[s]
      new == RowOf(s, l.modal.text)
  IN  /\ InModal(s) /\ ~l.modal.onCancel /\ Accepted(s, l.modal.text, l.rows, l.modal.row) /\ Unspent
      /\ lists' = [lists EXCEPT ![s].modal = NoModal,
                     ![s].rows = IF l.modal.row = 0 THEN Append(l.rows, new) ELSE [l.rows EXCEPT ![l.modal.row] = new],
                     ![s].cursor = IF l.modal.row = 0 /\ s = "barrelenv" THEN Len(l.rows) + 1 ELSE @]

-----------------------------------------------------------------------------
(* The proxy screen. *)

PortType(field, n) ==
  /\ On("proxy") /\ Edits /\ UNCHANGED <<file, conf, tools, detail, lists, at>>
  /\ ports' = [ports EXCEPT !.typed[field] = n]
PortsEnter ==
  LET now == [ports EXCEPT !.proxy = ports.typed[1], !.bridge = ports.typed[2]] IN
  /\ On("proxy") /\ InPort(ports.typed[1]) /\ InPort(ports.typed[2]) /\ ports.typed[1] # ports.typed[2]
  /\ ports' = now /\ at' = [at EXCEPT !.screen = "welcome"]
  /\ conf' = [Synced EXCEPT !.proxy = now.proxy, !.bridge = now.bridge]
  /\ UNCHANGED <<tools, detail, lists>> /\ Unspent

-----------------------------------------------------------------------------
(* The save screen, and the work after the wizard has ended. *)

KeySave ==
  /\ On("save") /\ at' = [at EXCEPT !.ended = "save"] /\ UNCHANGED conf /\ InWizard /\ Unspent
(* RefreshDesiredToolVersions: the versions wanted have to be known, and a    *)
(* Latest one is kept as the pinned one.                                     *)
Wanted(t, tool, online) ==
  tool.enabled /\ tool.mode # "off" =>
    CASE tool.mode = "mirror" -> tool.host # NoVersion
      [] tool.mode = "pin" -> tool.pinned # NoVersion
      [] OTHER -> online
WithLatest(c) ==
  [c EXCEPT !.tools = [t \in AllTools |->
     IF c.tools[t].enabled /\ c.tools[t].mode = "latest" THEN [c.tools[t] EXCEPT !.pinned = LatestOf[t]] ELSE c.tools[t]]]
(* SaveWithProgress: nothing is written before everything is known. *)
(* Mutant: rows of the environment that do not validate are left out. *)
SavedUsable(c) == WithLatest([c EXCEPT !.env = UsableBarrelEnvVars(SubSeq(c.env, 1, 1))])
Saved(c) == WithLatest([c EXCEPT !.env = CanonicalizeBarrelEnvVars(@)])
SaveWithProgress(online) ==
  /\ at.ended = "save"
  /\ LET ok == /\ Validate(conf) /\ ValidateBarrelEnvVars(CanonicalizeBarrelEnvVars(conf.env))
               /\ \A t \in AllTools : Wanted(t, conf.tools[t], online)
     IN  /\ file' = IF ok THEN Saved(conf) ELSE file
         /\ at' = [at EXCEPT !.ended = IF ok THEN "saved" ELSE "failed"]
  /\ UNCHANGED <<conf, spent>> /\ InWizard

-----------------------------------------------------------------------------
ToolKeys(s) ==
  \/ \E row \in DOMAIN ToolScreens[s] : ToolMove(s, row)
  \/ ToolToggle(s) \/ ToolOpen(s) \/ DetailSelect(s) \/ DetailLeave(s) \/ PinBlur(s)
  \/ \E row \in 1..4 : DetailMove(s, row)
  \/ \E v \in TypedPins : PinType(s, v)
  \/ \E reachable \in BOOLEAN : PinEnter(s, reachable)
ListKeys(s) ==
  \/ \E row \in 1..MaxRows : ListMove(s, row)
  \/ ListNew(s) \/ ListEdit(s) \/ ListDelete(s) \/ ModalFocus(s) \/ ModalCancel(s) \/ ModalConfirm(s)
  \/ \E t \in Typed[s] : ModalType(s, t)

WizardInit ==
  /\ file \in Files
  /\ conf = LoadConfig /\ tools = NewTools(conf) /\ lists = NewLists(conf) /\ ports = NewPorts(conf)
  /\ detail = [s \in DOMAIN ToolScreens |-> NoDetail]
  /\ at = [screen |-> "welcome", top |-> "none", ended |-> "no"]
  /\ spent = [edits |-> 0, runs |-> 1]
WizardNext ==
  \/ Run \/ DismissChanges \/ KeyQuit \/ \E yes \in BOOLEAN : AnswerQuit(yes)
  \/ \E s \in Screens : ChooseScreen(s) \/ Back(s)
  \/ \E s \in DOMAIN ToolScreens : ToolKeys(s)
  \/ \E s \in ListScreens : ListKeys(s)
  \/ \E field \in 1..2, n \in TypedPorts : PortType(field, n)
  \/ PortsEnter \/ KeySave
  \/ \E online \in BOOLEAN : SaveWithProgress(online)

WizardSpec == WizardInit /\ [][WizardNext]_wizardVars

-----------------------------------------------------------------------------
WizardTypeOK ==
  /\ at \in [screen : Screens \cup {"welcome"}, top : {"none", "changes", "quit"}, ended : {"no", "quit", "save", "saved", "failed"}]
  /\ \A s \in DOMAIN ToolScreens : detail[s].cursor \in DOMAIN ToolScreens[s] /\ detail[s].row \in 0..3
  /\ \A t \in AllTools : tools[t].mode \in ToolModes

(* What is saved is what the screens showed: nothing edited on any of them is *)
(* left behind when the save screen asks for it (configure.go navigateTo).   *)
SavedIsShown == at.ended = "save" => conf = Synced

(* What was saved comes back: after a save that succeeded, the next run shows *)
(* the same rows, ports and tools, whatever the host has by default           *)
(* (SaveWithProgress, LoadConfig, newProgrammingModel).                      *)
SavedComesBack ==
  [][(Run /\ at.ended = "saved") =>
       /\ \A s \in ListScreens \ {"barrelenv"} : lists'[s].rows = lists[s].rows
       /\ lists'["barrelenv"].rows = CanonicalizeBarrelEnvVars(lists["barrelenv"].rows)
       /\ ports'.proxy = ports.proxy /\ ports'.bridge = ports.bridge
       /\ \A t \in AllTools :
            /\ tools'[t].enabled = tools[t].enabled /\ tools'[t].mode = tools[t].mode
            /\ tools[t].mode = "pin" => tools'[t].pinned = tools[t].pinned]_wizardVars

(* No sequence of edits makes a list invalid that was not: rules keep ports   *)
(* in range, env rows stay free of names that differ in case only, and the    *)
(* proxy and the bridge keep different ports (parseRule, parseEntry, proxy.go).*)
SoundRows(c) ==
  /\ ValidateBarrelEnvVars(CanonicalizeBarrelEnvVars(c.env))
  /\ \A i \in DOMAIN c.rules : RuleValid(c.rules[i], {})
EditsStayValid ==
  /\ SoundRows(LoadConfig) /\ at.ended = "no" => SoundRows(Synced)
  /\ LoadConfig.proxy # LoadConfig.bridge => ports.proxy # ports.bridge

(* A version in a pinned field was found in the registry for that very tool,  *)
(* or came from config.json, whichever details were open and whatever was     *)
(* typed there before (updateDetail).                                        *)
PinsAreFound ==
  at.ended = "no" => \A t \in AllTools :
    tools[t].pinned \in {NoVersion, LatestOf[t]} \/ <<t, tools[t].pinned>> \in Findable
      \/ (file # NoFile /\ file.tools # << >> /\ tools[t].pinned = file.tools[t].pinned)

(* Every cursor, and every open modal, names a row there is: Enter after any  *)
(* deletion opens a row (whitelist.go, portfwdscreen.go, barrelenv.go).      *)
CursorsInside ==
  \A s \in ListScreens :
    /\ lists[s].cursor \in 1..Len(lists[s].rows) \/ (lists[s].cursor = 1 /\ lists[s].rows = << >>)
    /\ lists[s].modal # NoModal => lists[s].modal.row \in 0..Len(lists[s].rows)

(* What the wizard saves is what its screens show, every row of it passed    *)
(* the checks of its dialog, and a later run finds it again.                 *)
WizardSound ==
  [](WizardTypeOK /\ SavedIsShown /\ EditsStayValid /\ PinsAreFound /\ CursorsInside) /\ SavedComesBack
=============================================================================
