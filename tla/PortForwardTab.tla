---------------------------- MODULE PortForwardTab ----------------------------
(***************************************************************************)
(* cooper/internal/tui/portfwd/model.go with what a change of its rules     *)
(* goes through: PortForwardChangedMsg and its modal in tui/app.go,         *)
(* UpdatePortForwards of app/cooper.go in a goroutine of its own,           *)
(* ReloadSocat of docker/portforward.go, config.json, the host relay, and   *)
(* the result on its way back to the tab.  UpdateSettings copies, saves and *)
(* stores the same configuration in Update itself, while that goroutine     *)
(* goes on: no lock keeps the two apart.                                    *)
(***************************************************************************)
EXTENDS Integers, Sequences, FiniteSets, SequencesExt

CONSTANTS
  Forms,      \* what can be typed into the dialog: [first, last, host]
  Reserved,   \* the container ports of proxy and bridge
  MaxPort,    \* 65535
  MaxRules,   \* rules that are there at most
  MaxApplies, \* changes made
  MaxSettings \* changes of the runtime settings meanwhile

ASSUME PortForwardAssumption ==
  /\ \A f \in Forms : f.first \in Int /\ f.last \in Int /\ f.host \in Int
  /\ MaxPort \in Nat /\ Reserved \subseteq 1..MaxPort
  /\ MaxRules \in Nat \ {0} /\ MaxApplies \in Nat /\ MaxSettings \in Nat

VARIABLES
  pfRules, pfSel, pfMode, pfEditIdx, pfStatus, \* the tab
  pfModal,    \* the root's modal: "none", "reloading", "failed" or "done"
  applies,    \* each change: [at, rules, copy, ok, back]
  memory, file, \* Config and config.json: [rules, other]
  setting,    \* the candidate of UpdateSettings: [at, rules, other]
  socat, relay, \* socat-rules.json; the ports of the host relay
  pfDisturbed   \* history: a change met another one that was under way

tabVars == <<pfRules, pfSel, pfMode, pfEditIdx, pfStatus>>
diskVars == <<memory, file, setting, socat, relay>>
portForwardVars == <<tabVars, pfModal, applies, diskVars, pfDisturbed>>

PortsOf(r) == r.first..r.last
\* The host ports a rule needs; only the first is typed in.
Valid(r) == /\ r.first \in 1..MaxPort /\ r.last \in r.first..MaxPort /\ r.host \in 1..MaxPort

(* Mutant: only the first ports are compared. *)
UniqueFirst(rs) == \A i, j \in DOMAIN rs : i # j => rs[i].first # rs[j].first
(* validatePFRules *)
Unique(rs) == \A i, j \in DOMAIN rs : i # j => PortsOf(rs[i]) \cap PortsOf(rs[j]) = {}
(* Validate of config.go, as far as rules can fail it. *)
Accepted(rs) == \A i \in DOMAIN rs : Valid(rs[i]) /\ PortsOf(rs[i]) \cap Reserved = {}

ASSUME SomeRule == \E f \in Forms : Accepted(<<f>>)
Start == LET first == CHOOSE f \in Forms : Accepted(<<f>>) IN <<first>>
\* No UpdateSettings is under way, n were; Update takes keys and messages.
NoSetting(n) == [at |-> "idle", rules |-> << >>, other |-> n]
Responds == setting.at = "idle"
\* What os.WriteFile leaves of config.json when it fails half way.
Cut == [rules |-> << >>, other |-> -1]
PortForwardInit ==
  /\ pfRules = Start /\ pfSel = 1 /\ pfMode = "none" /\ pfEditIdx = 0 /\ pfStatus = "clean"
  /\ pfModal = "none" /\ applies = << >>
  /\ memory = [rules |-> Start, other |-> 0] /\ file = memory /\ setting = NoSetting(0)
  /\ socat = Start /\ relay = Start
  /\ pfDisturbed = FALSE

NewApply(rs) == [at |-> "emitted", rules |-> rs, copy |-> 0, ok |-> FALSE, back |-> rs]
ApplyOver == [NewApply(<< >>) EXCEPT !.at = "end"]
Ended == \A i \in DOMAIN applies : applies[i].at = "end"
(* syncPFList *)
SelInside(s, rs) == IF s > Len(rs) THEN (IF rs = << >> THEN 1 ELSE Len(rs)) ELSE s

-----------------------------------------------------------------------------
(* Keys.  They reach the tab while the root shows no modal. *)

KeyMove(s) ==
  /\ Responds /\ pfModal = "none" /\ pfMode = "none"
  /\ s \in DOMAIN pfRules /\ s - pfSel \in {-1, 1}
  /\ pfSel' = s
  /\ UNCHANGED <<pfRules, pfMode, pfEditIdx, pfStatus, pfModal, applies, diskVars, pfDisturbed>>

OpenDialog(mode) ==
  /\ Responds /\ pfModal = "none" /\ pfMode = "none"
  /\ mode \in {"adding", "editing", "deleting"}
  /\ mode # "adding" => pfSel \in DOMAIN pfRules
  /\ pfMode' = mode
  /\ pfEditIdx' = CASE mode = "adding" -> 0 [] mode = "editing" -> pfSel [] OTHER -> pfEditIdx
  /\ UNCHANGED <<pfRules, pfSel, pfStatus, pfModal, applies, diskVars, pfDisturbed>>

CancelDialog ==
  /\ Responds /\ pfModal = "none" /\ pfMode # "none"
  /\ pfMode' = "none"
  /\ UNCHANGED <<pfRules, pfSel, pfEditIdx, pfStatus, pfModal, applies, diskVars, pfDisturbed>>

(* emitPFChange: the rules are copied at once, the message comes later. *)
EmitChange(rs) ==
  /\ Len(applies) < MaxApplies
  /\ pfRules' = rs /\ pfSel' = SelInside(pfSel, rs)
  /\ pfMode' = "none" /\ pfStatus' = "pending"
  /\ applies' = Append(applies, NewApply(rs))
  /\ pfDisturbed' = (pfDisturbed \/ ~Ended)
  /\ UNCHANGED <<pfEditIdx, pfModal, diskVars>>

(* An edit whose rule is gone leaves the rules as they are, and is sent. *)
SaveRule(f) ==
  /\ Responds /\ pfModal = "none" /\ pfMode \in {"adding", "editing"} /\ Valid(f)
  /\ LET rs == CASE pfMode = "adding" -> Append(pfRules, f)
                 [] pfMode = "editing" /\ pfEditIdx \in DOMAIN pfRules -> [pfRules EXCEPT ![pfEditIdx] = f]
                 [] OTHER -> pfRules
     IN  Unique(rs) /\ Len(rs) <= MaxRules /\ EmitChange(rs)

ConfirmDelete ==
  /\ Responds /\ pfModal = "none" /\ pfMode = "deleting"
  /\ EmitChange(IF pfSel \in DOMAIN pfRules THEN RemoveAt(pfRules, pfSel) ELSE pfRules)

(* Enter and Esc close the modal of the root, also "Please wait". *)
DismissModal ==
  /\ Responds /\ pfModal # "none" /\ pfModal' = "none"
  /\ UNCHANGED <<tabVars, applies, diskVars, pfDisturbed>>

-----------------------------------------------------------------------------
(* A change on its way. *)

Goes(i, from, to) == applies[i].at = from /\ applies' = [applies EXCEPT ![i].at = to]
Fails(i, from) == applies[i].at = from /\ applies' = [applies EXCEPT ![i].at = "result"]

PortForwardChanged(i) ==
  /\ Responds /\ Goes(i, "emitted", "reload") /\ pfModal' = "reloading"
  /\ UNCHANGED <<tabVars, diskVars, pfDisturbed>>

(* The candidate is validated; ReloadSocat writes the file, then signals    *)
(* the proxy and the barrels.  A write that fails may leave a file without  *)
(* rules; a barrel that is just stopping fails the reload and the file      *)
(* stays as written.  A proxy that docker does not answer for is passed     *)
(* over in silence: that the reload succeeded does not tell it was          *)
(* signalled.                                                               *)
ReloadSocat(i) ==
  /\ \/ Goes(i, "reload", "copy") /\ Accepted(applies[i].rules) /\ socat' = applies[i].rules
     \/ Fails(i, "reload") /\ Accepted(applies[i].rules) /\ socat' \in {socat, applies[i].rules, << >>}
     \/ Fails(i, "reload") /\ ~Accepted(applies[i].rules) /\ UNCHANGED socat
  /\ UNCHANGED <<tabVars, pfModal, memory, file, setting, relay, pfDisturbed>>

CopyConfig(i) ==
  /\ applies[i].at = "copy"
  /\ applies' = [applies EXCEPT ![i].at = "save", ![i].copy = memory.other]
  /\ pfDisturbed' = (pfDisturbed \/ setting.at # "idle")
  /\ UNCHANGED <<tabVars, pfModal, diskVars>>
SaveConfig(i) ==
  /\ \/ Goes(i, "save", "memory") /\ file' = [rules |-> applies[i].rules, other |-> applies[i].copy]
     \/ Fails(i, "save") /\ file' \in {file, Cut}
  /\ UNCHANGED <<tabVars, pfModal, memory, setting, socat, relay, pfDisturbed>>
SetConfig(i) ==
  /\ Goes(i, "memory", "relay")
  /\ memory' = [memory EXCEPT !.rules = applies[i].rules]
  /\ UNCHANGED <<tabVars, pfModal, file, setting, socat, relay, pfDisturbed>>
UpdatePorts(i) ==
  /\ applies[i].at = "relay"
  /\ applies' = [applies EXCEPT ![i].at = "result", ![i].ok = TRUE]
  /\ relay' = applies[i].rules
  /\ UNCHANGED <<tabVars, pfModal, memory, file, setting, socat, pfDisturbed>>

(* Mutant: the tab is told to go back to the rules that failed. *)
ReloadResultTried(i) ==
  /\ Responds /\ applies[i].at = "result"
  /\ applies' = [applies EXCEPT ![i].at = "answer"]
  /\ pfModal' = IF applies[i].ok THEN "done" ELSE "failed"
  /\ UNCHANGED <<tabVars, diskVars, pfDisturbed>>
(* portForwardReloadResultMsg: the rules to go back to are those of now. *)
ReloadResult(i) ==
  /\ Responds /\ applies[i].at = "result"
  /\ applies' = [applies EXCEPT ![i].at = "answer",
                   ![i].back = IF applies[i].ok THEN @ ELSE memory.rules]
  /\ pfModal' = IF applies[i].ok THEN "done" ELSE "failed"
  /\ UNCHANGED <<tabVars, diskVars, pfDisturbed>>

(* Mutant: an open dialog keeps the result. *)
ApplyResultIdle(i) ==
  /\ Responds /\ applies[i].at = "answer" /\ applies' = [applies EXCEPT ![i] = ApplyOver]
  /\ IF pfMode # "none" THEN UNCHANGED <<pfRules, pfSel, pfStatus>>
     ELSE IF applies[i].ok THEN pfStatus' = "applied" /\ UNCHANGED <<pfRules, pfSel>>
     ELSE pfStatus' = "failed" /\ pfRules' = applies[i].back /\ pfSel' = SelInside(pfSel, applies[i].back)
  /\ UNCHANGED <<pfMode, pfEditIdx, pfModal, diskVars, pfDisturbed>>
(* PFApplyResultMsg: whatever tab is shown, whatever dialog is open. *)
ApplyResult(i) ==
  /\ Responds /\ applies[i].at = "answer" /\ applies' = [applies EXCEPT ![i] = ApplyOver]
  /\ IF applies[i].ok
       THEN pfStatus' = "applied" /\ UNCHANGED <<pfRules, pfSel>>
       ELSE pfStatus' = "failed" /\ pfRules' = applies[i].back /\ pfSel' = SelInside(pfSel, applies[i].back)
  /\ UNCHANGED <<pfMode, pfEditIdx, pfModal, diskVars, pfDisturbed>>

-----------------------------------------------------------------------------
(* UpdateSettings, in Update itself: a copy of the whole configuration with *)
(* the new numbers is saved and then stored over it, rules and all.  The    *)
(* numbers are those of the n-th change.                                    *)

BeginSetting ==
  /\ Responds /\ setting.other < MaxSettings
  /\ setting' = [at |-> "save", rules |-> memory.rules, other |-> setting.other + 1]
  /\ pfDisturbed' = (pfDisturbed \/ \E i \in DOMAIN applies : applies[i].at \in {"save", "memory"})
  /\ UNCHANGED <<tabVars, pfModal, applies, memory, file, socat, relay>>
SaveSetting ==
  /\ setting.at = "save"
  /\ \/ /\ setting' = [setting EXCEPT !.at = "store"]
        /\ file' = [rules |-> setting.rules, other |-> setting.other]
     \/ setting' = NoSetting(setting.other) /\ file' \in {file, Cut}
  /\ UNCHANGED <<tabVars, pfModal, applies, memory, socat, relay, pfDisturbed>>
StoreSetting ==
  /\ setting.at = "store" /\ setting' = NoSetting(setting.other)
  /\ memory' = [rules |-> setting.rules, other |-> setting.other]
  /\ UNCHANGED <<tabVars, pfModal, applies, file, socat, relay, pfDisturbed>>

ApplyStep(i) ==
  \/ PortForwardChanged(i) \/ ReloadSocat(i) \/ CopyConfig(i)
  \/ SaveConfig(i) \/ SetConfig(i) \/ UpdatePorts(i) \/ ReloadResult(i) \/ ApplyResult(i)
SettingStep == SaveSetting \/ StoreSetting
Applying == (\E i \in DOMAIN applies : ApplyStep(i)) \/ SettingStep
PortForwardNext ==
  \/ \E s \in 1..MaxRules : KeyMove(s)
  \/ \E mode \in {"adding", "editing", "deleting"} : OpenDialog(mode)
  \/ CancelDialog \/ ConfirmDelete \/ DismissModal \/ BeginSetting
  \/ \E f \in Forms : SaveRule(f)
  \/ Applying

PortForwardSpec == PortForwardInit /\ [][PortForwardNext]_portForwardVars

-----------------------------------------------------------------------------
(* Properties *)

PortForwardTypeOK ==
  /\ pfSel \in 1..MaxRules /\ (pfRules # << >> => pfSel <= Len(pfRules))
  /\ pfMode \in {"none", "adding", "editing", "deleting"} /\ pfEditIdx \in 0..MaxRules
  /\ pfStatus \in {"clean", "pending", "applied", "failed"}
  /\ pfModal \in {"none", "reloading", "failed", "done"}
  /\ \A rs \in {pfRules, memory.rules, file.rules, setting.rules, socat, relay} : rs \in Seq(Forms)

(* No container port is forwarded twice and none is the proxy's or the      *)
(* bridge's: in the configuration, on disk, in socat's rules and in the     *)
(* relay, whatever is edited while an earlier change fails and is undone.   *)
PortsFree ==
  /\ \A rs \in {pfRules, memory.rules, file.rules, socat, relay} : \A q \in 1..MaxPort :
       Cardinality({i \in DOMAIN rs : q \in PortsOf(rs[i])}) <= 1
  /\ \A rs \in {memory.rules, file.rules, socat, relay} : Accepted(rs)

(* Changes that do not overlap leave no disagreement: the tab, the          *)
(* configuration and the relay have the same rules, config.json holds the   *)
(* configuration, or was cut by a save that failed; a change that failed    *)
(* half way is undone in the tab.  After a success socat-rules.json has     *)
(* the rules too; after a failure it may keep those that were tried.        *)
(* Nothing is said once two changes of the rules were under way at once, or *)
(* a setting between the copy and the store of a change of the rules: then  *)
(* the code may lose one of them.                                           *)
ChangesAgree ==
  Ended /\ setting.at = "idle" /\ ~pfDisturbed =>
    /\ pfRules = memory.rules /\ relay = memory.rules /\ file \in {memory, Cut}
    /\ pfStatus = "applied" => socat = pfRules

(* The tab does not stay at "Reloading...", nor the modal at "Please wait". *)
ReloadEnds == <>[](pfStatus # "pending" /\ pfModal # "reloading")
=============================================================================
