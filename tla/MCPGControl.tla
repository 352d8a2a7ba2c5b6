----------------------------- MODULE MCPGControl -----------------------------
(* The parts of pgflock around the locker, and the locker as a pool that     *)
(* nobody forces, side by side: a behaviour is one of the part that which    *)
(* names, the others keep their initial states.                              *)
EXTENDS PGLocker, PGClient, PGDocker, PGPanel

VARIABLE which
aroundVars == <<pgControlVars, libVars, resetVars, dockerVars, panelVars>>
allVars == <<aroundVars, vars, which>>

FirstRowCount == CHOOSE r \in PanelRows : TRUE
SomeOrder == CHOOSE s \in Bijection(1..Cardinality(Databases), Databases) : TRUE
PartsInit ==
  /\ which \in {"pool", "control", "client", "reset", "docker", "panel"}
  /\ Init /\ (which # "pool" => cLockedDbConn = SomeOrder)
  /\ PGControlInit /\ ClientInit /\ ResetInit /\ DockerInit /\ PanelInit
  /\ which # "docker" => box = [i \in Instances |-> "none"]
  /\ which # "panel" => panelRows = FirstRowCount

Only(name, Step) == which = name /\ Step /\ UNCHANGED which
OfPool(Step) == Only("pool", Step) /\ UNCHANGED aroundVars
Around(name, Step) == Only(name, Step) /\ UNCHANGED vars
OfControl(Step) == Around("control", Step) /\ UNCHANGED <<libVars, resetVars, dockerVars, panelVars>>
OfReset(Step) == Around("reset", Step) /\ UNCHANGED <<pgControlVars, libVars, dockerVars, panelVars>>
OfDocker(Step) == Around("docker", Step) /\ UNCHANGED <<pgControlVars, libVars, resetVars, panelVars>>
OfPanel(Step) == Around("panel", Step) /\ UNCHANGED <<pgControlVars, libVars, resetVars, dockerVars>>
PartsNext ==
  \/ OfPool(Next)
  \/ OfControl(PGControlNext)
  \/ Around("client", ClientNext) /\ UNCHANGED <<pgControlVars, resetVars, dockerVars, panelVars>>
  \/ OfReset(ResetNext)
  \/ OfDocker(DockerNext)
  \/ OfPanel(PanelNext)

(* Jobs and the steps of the start-up run on, Bubble Tea runs commands and   *)
(* delivers their messages, ticks come, psql and docker return.  One step of *)
(* its part is enough for each condition: the part does only finitely many   *)
(* of the others.                                                            *)
Proceeds ==
  \/ OfControl(\/ \E j \in Jobs : JobStep(j) \/ JobFails(j)
               \/ \E i \in DOMAIN waits : ReadChannel(i) \/ ReceiveProgress(i)
               \/ \E i \in DOMAIN progressMsgs : HandleProgress(i)
               \/ Hold \/ LoadingComplete)
  \/ OfReset(Take \/ ResetStep)
  \/ OfDocker(BootSteps \/ LeaveStop)
  \/ OfPanel(FeedStep \/ Tick)
\* Each request of the pool for itself: its handler runs, its timer fires.
PoolFairness ==
  \A r \in Requests : WF_allVars(OfPool(HandlerStep(r) \/ AutoUnlock(r)))
PartsSpec ==
  /\ PartsInit /\ [][PartsNext]_allVars
  /\ WF_allVars(Proceeds) /\ WF_allVars(OfReset(StartPg)) /\ PoolFairness

-----------------------------------------------------------------------------
(* Properties *)

(* A loading screen does not stay: it gives way to the main view, to an      *)
(* error or to the end (runUp and handleLoadingComplete).                    *)
LoadingEnds ==
  []<>(which = "control" => ~showingLoading \/ progress = "failed" \/ quitting \/ mixed)

(* However often psql fails, and whatever a failed reset leaves behind, a    *)
(* database that is asked for is handed out in the end (reset.go).           *)
ResetRecovers == []<>(which = "reset" => resetAt = "held")

(* The start-up ends although a container that exits before its init is      *)
(* complete is not noticed (waitForPostgresLogs and its deadline).           *)
BootEnds == <>[](which = "docker" => BootEnded \/ leaver.at = "gone")

(* Snapshots are dropped and overtake each other, and still the view comes   *)
(* to show the locks there are (sendStateUpdate and tickMsg).                *)
ShownCatchesUp == <>[](shown = held)

(* Whatever fails or is overtaken on the way, start-up, resets, restarts and *)
(* the display come to their end.                                            *)
ControlProgress == LoadingEnds /\ ResetRecovers /\ BootEnds /\ ShownCatchesUp
=============================================================================
