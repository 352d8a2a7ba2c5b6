--------------------------- MODULE MCCooperServices ---------------------------
(* The services behind the control panel of cooper, side by side: a behaviour *)
(* is one of the part that which names, the others keep their initial states. *)
EXTENDS CooperRuntime, HostRelay, X11Bridge, LogFiles, AlertSound, Broker, BridgeServer

VARIABLE which
vars == <<runtimeVars, relayVars, x11Vars, clipboardVars, logFileVars, alertVars, brokerVars, bridgeVars, which>>

Init ==
  /\ which \in {"runtime", "relay", "x11", "clipboard", "logger", "tailer", "alert", "broker", "bridge"}
  /\ RuntimeInit /\ RelayInit /\ X11Init /\ ClipboardInit /\ LogFilesInit /\ AlertInit
  /\ BrokerInit /\ BridgeInit
  /\ which # "clipboard" => off = {}

Only(name, Step) == which = name /\ Step /\ UNCHANGED which
OfRuntime(Step) == Only("runtime", Step)
  /\ UNCHANGED <<relayVars, x11Vars, clipboardVars, logFileVars, alertVars, brokerVars, bridgeVars>>
OfRelay(Step) == Only("relay", Step)
  /\ UNCHANGED <<runtimeVars, x11Vars, clipboardVars, logFileVars, alertVars, brokerVars, bridgeVars>>
OfX11(Step) == Only("x11", Step)
  /\ UNCHANGED <<runtimeVars, relayVars, clipboardVars, logFileVars, alertVars, brokerVars, bridgeVars>>
OfLogs(name, Step) == Only(name, Step)
  /\ UNCHANGED <<runtimeVars, relayVars, x11Vars, clipboardVars, alertVars, brokerVars, bridgeVars>>
OfAlert(Step) == Only("alert", Step)
  /\ UNCHANGED <<runtimeVars, relayVars, x11Vars, clipboardVars, logFileVars, brokerVars, bridgeVars>>
OfBroker(Step) == Only("broker", Step)
  /\ UNCHANGED <<runtimeVars, relayVars, x11Vars, clipboardVars, logFileVars, alertVars, bridgeVars>>
OfBridge(Step) == Only("bridge", Step)
  /\ UNCHANGED <<runtimeVars, relayVars, x11Vars, clipboardVars, logFileVars, alertVars, brokerVars>>
Next ==
  \/ OfRuntime(RuntimeNext)
  \/ OfRelay(RelayNext)
  \/ OfX11(X11Next)
  \/ Only("clipboard", ClipboardNext)
       /\ UNCHANGED <<runtimeVars, relayVars, x11Vars, logFileVars, alertVars, brokerVars, bridgeVars>>
  \/ OfLogs("logger", LoggerNext)
  \/ OfLogs("tailer", TailerNext)
  \/ OfAlert(AlertNext)
  \/ OfBroker(BrokerNext)
  \/ OfBridge(BridgeNext)

(* Processes, goroutines and the X server's clients run on.  A run of cooper  *)
(* up and one of cooper down are processes of their own, and so are the loop  *)
(* of the relay and its connections, the X11 bridge and a program that pastes. *)
Proceeds ==
  \/ OfRuntime(\E u \in Ups : UpStep(u))
  \/ OfRelay(RelayStep)
  \/ OfX11(BridgeStep)
  \/ OfLogs("tailer", TailStep)
  \/ OfAlert(AlertStep)
  \/ OfBroker(PassEvents)
  \/ OfBridge(ServerStep)
OthersProceed ==
  \/ OfRuntime(\E d \in Downs : DownStep(d))
  \/ OfRelay(LoopScans)
  \/ OfX11(\E w \in Windows : ProgramStep(w))
  \/ OfBroker(EndSubs)
Fairness == WF_vars(Proceeds) /\ WF_vars(OthersProceed)
Spec == Init /\ [][Next]_vars /\ Fairness

(* What waits is served in the end: a down returns, the relays follow the    *)
(* ports, pastes and transfers end, the tailer and the alert stop, writers   *)
(* and requests are answered, and Stop returns.                              *)
ServicesProgress ==
  /\ DownReturns /\ RelaysSettle /\ EveryPasteAnswered /\ TransferEnds /\ ClipboardComesBack
  /\ TailerStops /\ SwitchReturns /\ WritersReturn /\ OverflowEnds /\ EveryRequestEnds /\ StopReturns
=============================================================================
