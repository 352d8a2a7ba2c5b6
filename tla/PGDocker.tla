------------------------------- MODULE PGDocker -------------------------------
(***************************************************************************)
(* pgflock/internal/docker/docker.go as the start-up goroutine of main.go   *)
(* runUp drives it: StopContainers, RunContainers, WaitForPostgresOnPort,   *)
(* one docker command per step and instance; and the quit key, whose        *)
(* StopContainers runs in the TUI's goroutine while the start-up may still  *)
(* be under way.  main returns after it, and takes the start-up with it.    *)
(* The databases in the containers are PGReset's.                           *)
(***************************************************************************)
EXTENDS PGReset

CONSTANTS
  NInstances, \* InstancePorts, in order
  MaxRefused  \* docker commands that fail

ASSUME DockerAssumption == NInstances \in Nat \ {0} /\ MaxRefused \in Nat

VARIABLES
  box,     \* instance -> "none", "booting", "inited", "ready", "bindError" or "exited"
  boot,    \* the start-up: [at, i], at "stop", "rm", "run", "wait", "pg_isready", "locker", "failed", "died"
  patience,\* the two minutes of the wait: "left" or "over"
  leaver,  \* the quit key: [at, i], at "no", "stop" or "gone"
  refused,
  ours,    \* history: instances whose container this start-up has run
  early    \* history: quit while the start-up was under way, or docker stop failed

dockerVars == <<box, boot, patience, leaver, refused, ours, early>>

Instances == 1..NInstances
Stage(a, i) == [at |-> a, i |-> i]
BootEnded == boot.at \in {"locker", "failed", "died"}
Alive(i) == box[i] \in {"booting", "inited", "ready"}

(* Containers of an earlier run may be there. *)
DockerInit ==
  /\ box \in [Instances -> {"none", "ready", "exited"}]
  /\ boot = Stage("stop", 1) /\ patience = "left" /\ leaver = Stage("no", 1) /\ refused = 0
  /\ ours = {} /\ early = FALSE

Working == leaver.at # "gone"
Past(a, b) == IF boot.i < NInstances THEN Stage(a, boot.i + 1) ELSE Stage(b, 1)
Refuse == refused < MaxRefused /\ refused' = refused + 1

(* StopContainers of the start-up: an error is ignored, and the container   *)
(* that would not stop is left as it is.                                    *)
BootStop ==
  /\ Working /\ boot.at = "stop"
  /\ boot' = Past("stop", "rm")
  /\ \/ box' = [box EXCEPT ![boot.i] = "none"] /\ UNCHANGED refused
     \/ Refuse /\ UNCHANGED box
  /\ UNCHANGED <<patience, leaver, ours, early>>

(* docker rm -f of the same name comes before every docker run. *)
BootRemove ==
  /\ Working /\ boot.at = "rm"
  /\ boot' = Stage("run", boot.i)
  /\ \/ box' = [box EXCEPT ![boot.i] = "none"] /\ UNCHANGED refused
     \/ Refuse /\ UNCHANGED box
  /\ UNCHANGED <<patience, leaver, ours, early>>

(* Mutant: a container that is there already will do. *)
BootRunAnyway ==
  /\ Working /\ boot.at = "run"
  /\ boot' = Past("rm", "wait")
  /\ IF box[boot.i] = "none"
       THEN box' = [box EXCEPT ![boot.i] = "booting"] /\ ours' = ours \cup {boot.i}
       ELSE UNCHANGED <<box, ours>>
  /\ UNCHANGED <<refused, patience, leaver, early>>

(* A container of that name makes docker run fail. *)
BootRun ==
  /\ Working /\ boot.at = "run"
  /\ \/ /\ box[boot.i] = "none"
        /\ box' = [box EXCEPT ![boot.i] = "booting"] /\ ours' = ours \cup {boot.i}
        /\ boot' = Past("rm", "wait") /\ UNCHANGED refused
     \/ box[boot.i] # "none" /\ boot' = Stage("failed", 1) /\ UNCHANGED <<box, ours, refused>>
     \/ Refuse /\ boot' = Stage("failed", 1) /\ UNCHANGED <<box, ours>>
  /\ UNCHANGED <<patience, leaver, early>>

(* Mutant: only the logs are looked at. *)
WaitLogsOnly ==
  /\ Working /\ boot.at = "wait"
  /\ \/ box[boot.i] = "bindError" /\ boot' = Stage("failed", 1)
     \/ box[boot.i] = "ready" /\ boot' = Stage("pg_isready", boot.i)
  /\ UNCHANGED <<box, patience, leaver, refused, ours, early>>

(* waitForPostgresLogs: the exit of the container is looked at only once    *)
(* the init process has completed; before that only the deadline ends it.   *)
Wait ==
  /\ Working /\ boot.at = "wait"
  /\ \/ (patience = "over" \/ box[boot.i] = "bindError") /\ boot' = Stage("failed", 1)
     \/ box[boot.i] = "ready" /\ boot' = Stage("pg_isready", boot.i)
  /\ UNCHANGED <<box, patience, leaver, refused, ours, early>>

PgIsReady ==
  /\ Working /\ boot.at = "pg_isready"
  /\ \/ box[boot.i] = "ready" /\ boot' = Past("wait", "locker") /\ UNCHANGED refused
     \/ box[boot.i] # "ready" /\ boot' = Stage("failed", 1) /\ UNCHANGED refused
     \/ Refuse /\ boot' = Stage("failed", 1)
  /\ UNCHANGED <<box, patience, leaver, ours, early>>

DeadlinePasses ==
  /\ Working /\ boot.at = "wait" /\ patience = "left" /\ patience' = "over"
  /\ UNCHANGED <<box, boot, leaver, refused, ours, early>>

(* The container's own life. *)
Container(i) ==
  /\ \/ box[i] = "booting" /\ box' = [box EXCEPT ![i] = "inited"]
     \/ box[i] = "inited" /\ \E b \in {"ready", "bindError"} : box' = [box EXCEPT ![i] = b]
     \/ Alive(i) /\ box' = [box EXCEPT ![i] = "exited"]
  /\ UNCHANGED <<boot, patience, leaver, refused, ours, early>>

QuitKey ==
  /\ leaver.at = "no"
  /\ leaver' = Stage("stop", 1) /\ early' = (early \/ ~BootEnded)
  /\ UNCHANGED <<box, boot, patience, refused, ours>>

(* Mutant: the first container that will not stop ends StopContainers. *)
LeaveStopOrGiveUp ==
  /\ leaver.at = "stop"
  /\ LET next == IF leaver.i < NInstances THEN Stage("stop", leaver.i + 1) ELSE Stage("gone", 1) IN
     IF Alive(leaver.i) THEN leaver' = next /\ box' = [box EXCEPT ![leaver.i] = "none"]
                        ELSE leaver' = Stage("gone", 1) /\ UNCHANGED box
  /\ boot' = IF leaver'.at = "gone" /\ ~BootEnded THEN Stage("died", 1) ELSE boot
  /\ UNCHANGED <<patience, refused, ours, early>>

(* StopContainers of the quit: an error is kept, the next instance follows. *)
LeaveStop ==
  /\ leaver.at = "stop"
  /\ leaver' = IF leaver.i < NInstances THEN Stage("stop", leaver.i + 1) ELSE Stage("gone", 1)
  /\ \/ box' = [box EXCEPT ![leaver.i] = "none"] /\ UNCHANGED <<refused, early>>
     \/ Refuse /\ early' = TRUE /\ UNCHANGED box
  /\ boot' = IF leaver'.at = "gone" /\ ~BootEnded THEN Stage("died", 1) ELSE boot
  /\ UNCHANGED <<patience, ours>>

BootSteps == BootStop \/ BootRemove \/ BootRun \/ Wait \/ PgIsReady \/ DeadlinePasses
DockerNext == BootSteps \/ (\E i \in Instances : Container(i)) \/ QuitKey \/ LeaveStop

DockerSpec == DockerInit /\ [][DockerNext]_dockerVars

-----------------------------------------------------------------------------
(* Properties *)

(* Quitting after the start-up has ended, well or badly, leaves no          *)
(* container behind; only a quit that overtakes the start-up, or a docker   *)
(* stop that fails, can.                                                    *)
NoOrphans == leaver.at = "gone" /\ ~early => \A i \in Instances : box[i] = "none"

(* The locker server is not started over containers of an earlier run: all  *)
(* of them were made by this start-up.                                      *)
OwnContainers == boot.at = "locker" => ours = Instances

(* A database is handed out fresh and empty after resets that failed at any  *)
(* step, and its containers are the instances' own (reset.go and docker.go). *)
DatabasesSound == HeldIsFresh /\ HeldIsEmpty /\ NoOrphans /\ OwnContainers
=============================================================================
