--------------------------- MODULE CooperRuntime ---------------------------
(* The processes that share one Cooper directory and one docker daemon:      *)
(* cooper up (runUp with its start-up goroutine and its two Bubble Tea       *)
(* programs), cooper down, cooper cli, and what they share: up.lock, the     *)
(* proxy and barrel containers, the networks, the token file of the barrel,  *)
(* and the log directory.                                                    *)
EXTENDS Naturals, FiniteSets

CONSTANTS Ups,         \* runs of cooper up
          Downs,       \* runs of cooper down
          Clis,        \* runs of cooper cli for the same workspace and tool
          MaxFaults    \* bound on runs of cooper up that die by themselves and commands that fail

NoProc == "none"

(* A process is a run of one of the two programs. *)
ASSUME RuntimeAssumption == Ups \cap Downs = {} /\ NoProc \notin Ups \cup Downs

VARIABLES
  flockHolder,  \* the process that holds the flock of up.lock
  pidInFile,    \* what up.lock says
  upAt,         \* where runUp is
  boot,         \* where its start-up goroutine is
  upLog,        \* the file behind its CmdLogger: "none", "linked" in the log directory or "unlinked"
  termed,       \* the signals that were forwarded to its main program
  downAt,       \* where runDown is
  victim,       \* the pid stopRunningUp read
  cliAt,        \* where runCLI is
  proxy,        \* the proxy container: "none", "half" (external network only), "up"
  networks,     \* the two networks exist
  barrel,       \* the barrel container runs
  token,        \* the barrel's token file exists
  raced,        \* a clean-up or a cli met a cli, or a docker run of a dead process, half-way
  refused,         \* history: what docker refused each process to stop or remove
  late,         \* history: runs of cooper up whose docker run was done after their own clean-up
  crashes
sharedVars == <<flockHolder, pidInFile, proxy, networks, barrel, token, raced, refused, late>>
runtimeVars == <<sharedVars, upAt, boot, upLog, termed, downAt, victim, cliAt, crashes>>

CliInFlight == \E c \in Clis : cliAt[c] \in {"token", "run"}
Overtakes == raced' = (raced \/ CliInFlight)
Boots == {"off", "networks", "prepare", "run", "connect", "services", "failed", "ready"}
Alive(u) == upAt[u] \notin {"idle", "ended", "refused"}
Loading(u) == upAt[u] = "loading"
CleansUp(d) == downAt[d] \in {"barrels", "proxy", "networks", "state", "release"}
Cleaning == \/ \E d \in Downs : CleansUp(d)
            \/ \E u \in Ups : upAt[u] \in {"cancelled", "barrels", "proxy", "release"}

RuntimeInit ==
  /\ flockHolder = NoProc /\ pidInFile = NoProc
  /\ upAt = [u \in Ups |-> "idle"] /\ boot = [u \in Ups |-> "off"]
  /\ upLog = [u \in Ups |-> "none"] /\ termed = [u \in Ups |-> FALSE]
  /\ downAt = [d \in Downs |-> "idle"] /\ victim = [d \in Downs |-> NoProc]
  /\ cliAt = [c \in Clis |-> "idle"]
  /\ proxy = "none" /\ crashes = 0
  /\ networks = FALSE /\ barrel = FALSE /\ token = FALSE /\ raced = FALSE
  /\ refused = [p \in Ups \cup Downs |-> {}] /\ late = {}

UpGoes(u, place) == upAt' = [upAt EXCEPT ![u] = place]
BootGoes(u, place) == boot' = [boot EXCEPT ![u] = place]
DownGoes(d, place) == downAt' = [downAt EXCEPT ![d] = place]
CliGoes(c, place) == cliAt' = [cliAt EXCEPT ![c] = place]

Faults == crashes + Cardinality(UNION {{p} \X refused[p] : p \in Ups \cup Downs})

(* docker obeys, or its command fails and what it names stays.               *)
Obeyed == UNCHANGED refused
Fails(p, what) == refused' = [refused EXCEPT ![p] = @ \cup {what}]
Refuses(p, what) == Faults < MaxFaults /\ Fails(p, what)

-----------------------------------------------------------------------------
(* up.lock *)

(* Mutant: the lock is the pid in the file, checked before it is written. *)
AcquireByPid(u) ==
  /\ upAt[u] = "idle"
  /\ IF pidInFile = NoProc
     THEN flockHolder' = u /\ UpGoes(u, "locked")
     ELSE flockHolder' = flockHolder /\ UpGoes(u, "refused")
  /\ UNCHANGED <<pidInFile, proxy, networks, barrel, token, raced, refused, late, boot,
                 upLog, termed, downAt, victim, cliAt, crashes>>
(* acquireUpLock: the flock first, the pid in a step of its own.             *)
AcquireUpLock(u) ==
  /\ upAt[u] = "idle"
  /\ IF flockHolder = NoProc
     THEN flockHolder' = u /\ UpGoes(u, "locked")
     ELSE flockHolder' = flockHolder /\ UpGoes(u, "refused")
  /\ UNCHANGED <<pidInFile, proxy, networks, barrel, token, raced, refused, late, boot,
                 upLog, termed, downAt, victim, cliAt, crashes>>

WritePID(u) ==
  /\ upAt[u] = "locked"
  /\ pidInFile' = u /\ UpGoes(u, "owner") /\ upLog' = [upLog EXCEPT ![u] = "linked"]
  /\ UNCHANGED <<flockHolder, proxy, networks, barrel, token, raced, refused, late, boot,
                 termed, downAt, victim, cliAt, crashes>>

(* Release clears the file before it gives the flock back.                   *)
Release(u, place) ==
  /\ pidInFile' = NoProc /\ flockHolder' = NoProc /\ UpGoes(u, place)
  /\ UNCHANGED <<proxy, networks, barrel, token, raced, refused, late>>

(* A process that dies takes its flock with it and leaves its pid; a docker  *)
(* command that it runs goes on.                                             *)
Dies(u) ==
  /\ flockHolder' = IF flockHolder = u THEN NoProc ELSE flockHolder
  /\ UpGoes(u, "ended")
  /\ BootGoes(u, IF boot[u] = "run" THEN "run" ELSE "off")

Crash(u) ==
  /\ Alive(u) /\ Faults < MaxFaults /\ crashes' = crashes + 1
  /\ Dies(u)
  /\ UNCHANGED <<pidInFile, proxy, networks, barrel, token, raced, refused, late, upLog,
                 termed, downAt, victim, cliAt>>

-----------------------------------------------------------------------------
(* cooper up *)

(* ensureNoRunningRuntimeBeforeUp, then the loading screen and its goroutine. *)
CheckRuntime(u) ==
  /\ upAt[u] = "owner"
  /\ IF proxy # "none" \/ barrel
     THEN Release(u, "refused") /\ UNCHANGED boot
     ELSE UpGoes(u, "loading") /\ BootGoes(u, "networks") /\ UNCHANGED sharedVars
  /\ UNCHANGED <<upLog, termed, downAt, victim, cliAt, crashes>>

Booting(u, place) == boot[u] = place /\ Alive(u)
BootKeeps == UNCHANGED <<flockHolder, pidInFile, upAt, termed, downAt, victim, cliAt,
                         crashes>>

(* A step of the goroutine that fails ends it; so does a cancelled context   *)
(* after the step.                                                           *)
Onward(u, place) == BootGoes(u, IF Loading(u) THEN place ELSE "off")

EnsureNetworks(u) ==
  /\ Booting(u, "networks")
  /\ networks' = TRUE /\ Onward(u, "prepare")
  /\ BootKeeps /\ UNCHANGED <<proxy, barrel, token, raced, refused, late, upLog>>

(* StartProxy: docker rm -f, then the run and log directories are removed    *)
(* and created anew; a log file that is open stays open but has no name.     *)
PrepareProxy(u) ==
  /\ Booting(u, "prepare")
  /\ proxy' = "none" /\ BootGoes(u, "run")
  /\ upLog' = [v \in Ups |-> IF upLog[v] = "linked" THEN "unlinked" ELSE upLog[v]]
  /\ BootKeeps /\ UNCHANGED <<networks, barrel, token, raced, refused, late>>

(* docker run: it needs the network and the name.  Once begun it does not    *)
(* depend on the process that began it, and a cancelled context is looked at *)
(* after it only.                                                            *)
RunProxy(u) ==
  /\ boot[u] = "run"
  /\ IF networks /\ proxy = "none"
     THEN proxy' = "half" /\ BootGoes(u, IF Alive(u) THEN "connect" ELSE "off")
     ELSE proxy' = proxy /\ BootGoes(u, IF Alive(u) THEN "failed" ELSE "off")
  /\ raced' = (raced \/ ~Alive(u))
  /\ late' = (IF upAt[u] = "release" THEN late \cup {u} ELSE late)
  /\ BootKeeps /\ UNCHANGED <<networks, barrel, token, refused, upLog>>

(* docker network connect, or the half-configured proxy is removed.          *)
ConnectProxy(u) ==
  /\ Booting(u, "connect")
  /\ \/ proxy = "half" /\ networks /\ proxy' = "up" /\ Onward(u, "services")
     \/ proxy' = "none" /\ BootGoes(u, "failed")
  /\ BootKeeps /\ UNCHANGED <<networks, barrel, token, raced, refused, late, upLog>>

(* CA, bridge, relay, fonts, versions, ACL listener: parts of the process.   *)
StartServices(u) ==
  /\ Booting(u, "services")
  /\ \/ Onward(u, "ready")
     \/ BootGoes(u, "failed")
  /\ BootKeeps /\ UNCHANGED <<proxy, networks, barrel, token, raced, refused, late, upLog>>

(* The bar is full: the main program takes over.                             *)
MainStarts(u) ==
  /\ Loading(u) /\ boot[u] = "ready"
  /\ UpGoes(u, "main") /\ BootGoes(u, "off")
  /\ UNCHANGED <<sharedVars, upLog, termed, downAt, victim, cliAt, crashes>>

(* q on the loading screen, with or without an error, or a signal that       *)
(* Bubble Tea takes: runUp goes on to cleanupServices.                       *)
Cancels(u) == Loading(u) /\ UpGoes(u, "cancelled")
CancelLoading(u) ==
  /\ Cancels(u)
  /\ UNCHANGED <<sharedVars, boot, upLog, termed, downAt, victim, cliAt, crashes>>

(* Mutant: only a proxy that came up is removed. *)
CleanupIfUp(u) ==
  /\ upAt[u] = "cancelled"
  /\ proxy' = (IF proxy = "up" THEN "none" ELSE proxy) /\ UpGoes(u, "release")
  /\ UNCHANGED <<flockHolder, pidInFile, networks, barrel, token, raced, refused, late,
                 boot, upLog, termed, downAt, victim, cliAt, crashes>>
(* cleanupServices drops the error of StopProxy.                             *)
CleanupServices(u) ==
  /\ upAt[u] = "cancelled" /\ UpGoes(u, "release")
  /\ \/ proxy' = "none" /\ Obeyed
     \/ Refuses(u, "proxy") /\ UNCHANGED proxy
  /\ UNCHANGED <<flockHolder, pidInFile, networks, barrel, token, raced, late, boot,
                 upLog, termed, downAt, victim, cliAt, crashes>>

(* A confirmed exit runs StopWithProgress behind the shutdown screen, which  *)
(* takes no signal; a forwarded signal quits the program and runUp calls     *)
(* Stop.  Both stop the barrels and their tokens, then the proxy; a failed   *)
(* list is taken for an empty one, and a barrel that stays keeps its token.  *)
LeaveMain(u) ==
  /\ upAt[u] = "main" /\ UpGoes(u, "barrels")
  /\ UNCHANGED <<sharedVars, boot, upLog, termed, downAt, victim, cliAt, crashes>>
SignalLeavesMain(u) == termed[u] /\ LeaveMain(u)

StopBarrels(u) ==
  /\ upAt[u] = "barrels" /\ UpGoes(u, "proxy") /\ Overtakes
  /\ \/ barrel' = FALSE /\ token' = (token /\ ~barrel) /\ Obeyed
     \/ Refuses(u, "barrel") /\ UNCHANGED <<barrel, token>>
  /\ UNCHANGED <<flockHolder, pidInFile, proxy, networks, late, boot, upLog, termed,
                 downAt, victim, cliAt, crashes>>

StopProxy(u) ==
  /\ upAt[u] = "proxy" /\ UpGoes(u, "release")
  /\ \/ proxy' = "none" /\ Obeyed
     \/ Refuses(u, "proxy") /\ UNCHANGED proxy
  /\ UNCHANGED <<flockHolder, pidInFile, networks, barrel, token, raced, late, boot,
                 upLog, termed, downAt, victim, cliAt, crashes>>

(* LogDone and the deferred Release; the goroutine ends with the process.    *)
EndUp(u) ==
  /\ upAt[u] = "release"
  /\ Release(u, "ended")
  /\ BootGoes(u, IF boot[u] = "run" THEN "run" ELSE "off")
  /\ UNCHANGED <<upLog, termed, downAt, victim, cliAt, crashes>>

-----------------------------------------------------------------------------
(* cooper down *)

DownKeeps == UNCHANGED <<upAt, boot, upLog, termed, cliAt, crashes>>
(* A flock that is free is taken, and the file cleared.                      *)
TakeLock(d) ==
  /\ flockHolder = NoProc
  /\ flockHolder' = d /\ pidInFile' = NoProc /\ DownGoes(d, "barrels")
  /\ UNCHANGED <<proxy, networks, barrel, token, raced, refused, late>>

(* stopRunningUp: nothing runs, or the pid is read, or there is none.        *)
DownStarts(d) ==
  /\ downAt[d] = "idle"
  /\ \/ TakeLock(d) /\ UNCHANGED victim
     \/ /\ flockHolder # NoProc
        /\ victim' = [victim EXCEPT ![d] = pidInFile]
        /\ DownGoes(d, IF pidInFile = NoProc THEN "failed" ELSE "term")
        /\ UNCHANGED sharedVars
  /\ DownKeeps

(* SIGTERM: taken by the loading screen, forwarded to the main program,      *)
(* ignored during the shutdown, deadly before.                               *)
SendTerm(d) ==
  /\ downAt[d] = "term" /\ DownGoes(d, "waiting")
  /\ LET u == victim[d] IN
     \/ /\ u \in Ups /\ upAt[u] \in {"locked", "owner"} /\ Dies(u)
        /\ UNCHANGED <<pidInFile, termed>>
     \/ /\ u \in Ups /\ Cancels(u)
        /\ UNCHANGED <<flockHolder, pidInFile, boot, termed>>
     \/ /\ u \in Ups /\ upAt[u] = "main"
        /\ termed' = [termed EXCEPT ![u] = TRUE]
        /\ UNCHANGED <<flockHolder, pidInFile, upAt, boot>>
     \/ /\ u \in Ups => upAt[u] \notin {"locked", "owner", "loading", "main"}
        /\ UNCHANGED <<flockHolder, pidInFile, upAt, boot, termed>>
  /\ UNCHANGED <<proxy, networks, barrel, token, raced, refused, late, upLog, victim, cliAt,
                 crashes>>

(* waitForUpLockRelease polls; its deadline passes; a last look; SIGKILL.    *)
LockComesFree(d) ==
  /\ downAt[d] \in {"waiting", "kill", "killed"}
  /\ TakeLock(d) /\ DownKeeps /\ UNCHANGED victim
(* Mutant: the wait after SIGKILL has no deadline. *)
WaitOnce(d) ==
  /\ downAt[d] = "waiting" /\ flockHolder # NoProc
  /\ DownGoes(d, "kill")
  /\ DownKeeps /\ UNCHANGED <<sharedVars, victim>>
WaitTimesOut(d) ==
  /\ downAt[d] \in {"waiting", "killed"} /\ flockHolder # NoProc
  /\ DownGoes(d, IF downAt[d] = "waiting" THEN "kill" ELSE "failed")
  /\ DownKeeps /\ UNCHANGED <<sharedVars, victim>>
SendKill(d) ==
  /\ downAt[d] = "kill" /\ flockHolder # NoProc /\ DownGoes(d, "killed")
  /\ IF victim[d] \in Ups /\ Alive(victim[d])
     THEN Dies(victim[d])
     ELSE UNCHANGED <<flockHolder, upAt, boot>>
  /\ UNCHANGED <<pidInFile, proxy, networks, barrel, token, raced, refused, late, upLog,
                 termed, victim, cliAt, crashes>>

(* Mutant: without a proxy there is nothing to stop. *)
DownStopsIfProxy(d) ==
  /\ downAt[d] = "barrels" /\ DownGoes(d, "proxy") /\ barrel' = (barrel /\ proxy = "none") /\ Overtakes
  /\ DownKeeps /\ UNCHANGED <<flockHolder, pidInFile, proxy, networks, token, refused, late,
                              victim>>
(* CleanupRuntime: barrels, proxy, networks (docker refuses while a          *)
(* container is attached); cleanupRuntimeState: the tokens, also those of    *)
(* barrels that stay; the lock.  Each step is tried, and any that failed     *)
(* makes the command fail.                                                   *)
DownStopsBarrels(d) ==
  /\ downAt[d] = "barrels" /\ DownGoes(d, "proxy") /\ Overtakes
  /\ \/ barrel' = FALSE /\ Obeyed
     \/ Refuses(d, "barrel") /\ UNCHANGED barrel
  /\ DownKeeps /\ UNCHANGED <<flockHolder, pidInFile, proxy, networks, token, late, victim>>
DownStopsProxy(d) ==
  /\ downAt[d] = "proxy" /\ DownGoes(d, "networks")
  /\ \/ proxy' = "none" /\ Obeyed
     \/ Refuses(d, "proxy") /\ UNCHANGED proxy
  /\ DownKeeps /\ UNCHANGED <<flockHolder, pidInFile, networks, barrel, token, raced,
                              late, victim>>
Attached == networks /\ (barrel \/ proxy # "none")
DownRemovesNetworks(d) ==
  /\ downAt[d] = "networks" /\ DownGoes(d, "state")
  /\ \/ ~Attached /\ networks' = FALSE /\ Obeyed
     \/ Attached /\ Fails(d, "networks") /\ UNCHANGED networks
     \/ Refuses(d, "networks") /\ UNCHANGED networks
  /\ DownKeeps /\ UNCHANGED <<flockHolder, pidInFile, proxy, barrel, token, raced, late,
                              victim>>
DownRemovesState(d) ==
  /\ downAt[d] = "state" /\ DownGoes(d, "release") /\ Overtakes
  /\ \/ token' = FALSE /\ Obeyed
     \/ Refuses(d, "token") /\ UNCHANGED token
  /\ DownKeeps /\ UNCHANGED <<flockHolder, pidInFile, proxy, networks, barrel, late,
                              victim>>
DownEnds(d) ==
  /\ downAt[d] = "release" /\ DownGoes(d, IF refused[d] = {} THEN "ended" ELSE "failed")
  /\ pidInFile' = NoProc /\ flockHolder' = NoProc
  /\ DownKeeps /\ UNCHANGED <<proxy, networks, barrel, token, raced, refused, late, victim>>

-----------------------------------------------------------------------------
(* cooper cli: it takes no lock *)

CliKeeps == UNCHANGED <<flockHolder, pidInFile, proxy, networks, refused, late, upAt, boot,
                        upLog, termed, downAt, victim, crashes>>
BehindBack(c) ==
  raced' = (raced \/ Cleaning \/ \E other \in Clis \ {c} : cliAt[other] \in {"token", "run"})
CliChecks(c) ==
  /\ cliAt[c] = "idle" /\ proxy # "none"
  /\ CliGoes(c, IF barrel THEN "inside" ELSE "token")
  /\ CliKeeps /\ UNCHANGED <<barrel, token, raced>>
(* Mutant: no token while the proxy is not up yet. *)
CliWritesIfUp(c) ==
  /\ cliAt[c] = "token" /\ CliGoes(c, "run") /\ token' = (token \/ proxy = "up")
  /\ BehindBack(c) /\ CliKeeps /\ UNCHANGED barrel
CliWritesToken(c) ==
  /\ cliAt[c] = "token" /\ CliGoes(c, "run") /\ token' = TRUE
  /\ BehindBack(c) /\ CliKeeps /\ UNCHANGED barrel
(* StartBarrel removes a container of the same name; a failed start removes  *)
(* the token file again.                                                     *)
CliStartsBarrel(c) ==
  /\ cliAt[c] = "run"
  /\ \/ networks /\ barrel' = TRUE /\ CliGoes(c, "inside") /\ UNCHANGED token
     \/ barrel' = FALSE /\ token' = FALSE /\ CliGoes(c, "ended")
  /\ BehindBack(c) /\ CliKeeps
CliLeaves(c) ==
  /\ cliAt[c] = "inside" /\ CliGoes(c, "ended")
  /\ CliKeeps /\ UNCHANGED <<barrel, token, raced>>

-----------------------------------------------------------------------------
UpStep(u) ==
  \/ WritePID(u) \/ CheckRuntime(u) \/ EnsureNetworks(u) \/ PrepareProxy(u) \/ RunProxy(u) \/ ConnectProxy(u)
  \/ StartServices(u) \/ MainStarts(u) \/ CleanupServices(u) \/ SignalLeavesMain(u)
  \/ StopBarrels(u) \/ StopProxy(u) \/ EndUp(u)
DownStep(d) ==
  \/ SendTerm(d) \/ LockComesFree(d) \/ WaitTimesOut(d) \/ SendKill(d)
  \/ DownStopsBarrels(d) \/ DownStopsProxy(d) \/ DownRemovesNetworks(d) \/ DownRemovesState(d) \/ DownEnds(d)
RuntimeNext ==
  \/ \E u \in Ups : AcquireUpLock(u) \/ UpStep(u) \/ CancelLoading(u) \/ LeaveMain(u) \/ Crash(u)
  \/ \E d \in Downs : DownStarts(d) \/ DownStep(d)
  \/ \E c \in Clis : CliChecks(c) \/ CliWritesToken(c) \/ CliStartsBarrel(c) \/ CliLeaves(c)
RuntimeSpec == RuntimeInit /\ [][RuntimeNext]_runtimeVars

-----------------------------------------------------------------------------
(* Properties *)

RuntimeTypeOK ==
  /\ flockHolder \in Ups \cup Downs \cup {NoProc} /\ pidInFile \in Ups \cup {NoProc}
  /\ boot \in [Ups -> Boots] /\ upLog \in [Ups -> {"none", "linked", "unlinked"}]
  /\ victim \in [Downs -> Ups \cup {NoProc}]
  /\ proxy \in {"none", "half", "up"} /\ {networks, barrel, token, raced} \subseteq BOOLEAN
  /\ refused \in [Ups \cup Downs -> SUBSET {"barrel", "proxy", "networks", "token"}] /\ late \subseteq Ups

Owning(u) == Alive(u)

(* "Holding it through Docker cleanup prevents a new cooper up from starting *)
(* halfway through cooper down": whatever dies when, one run of cooper up or *)
(* one clean-up of cooper down is past the lock.                             *)
OneRuntime ==
  /\ \A u, v \in Ups : Owning(u) /\ Owning(v) => u = v
  /\ \A d, e \in Downs : CleansUp(d) /\ CleansUp(e) => d = e
  /\ \A u \in Ups, d \in Downs : ~(Owning(u) /\ CleansUp(d))

(* A pid that cooper down reads is the holder's, or that of a process that   *)
(* ended without clearing it, read in the moment between the flock of the    *)
(* next cooper up and its pid (acquireUpLock takes them in two steps).  In   *)
(* that moment the signals go to a pid nobody holds the lock for.            *)
OnlyOwnerSignalled ==
  [][\A d \in Downs : DownStarts(d) /\ downAt'[d] = "term" =>
       \/ victim'[d] = flockHolder
       \/ upAt[victim'[d]] = "ended" /\ flockHolder \in Ups /\ upAt[flockHolder] = "locked"]_runtimeVars

(* When cooper down returns without an error nothing is left for the next    *)
(* cooper up to trip over, whatever docker refused whom before, unless a     *)
(* docker run of a dead process or a cli that had already made its checks    *)
(* started something in the meantime.                                        *)
DownLeavesNothing ==
  [][\A d \in Downs : DownEnds(d) /\ downAt'[d] = "ended" /\ ~raced =>
       proxy = "none" /\ ~barrel /\ ~token /\ ~networks]_runtimeVars

(* A cooper up that ends leaves a barrel behind its main program, or a       *)
(* proxy, in two cases only: docker refused it the stop, which               *)
(* cleanupServices and the shutdown screen's StopWithProgress tell nobody;   *)
(* or it was cancelled on the loading screen and its own docker run was done *)
(* after cleanupServices.  (One that is cancelled there also leaves the      *)
(* barrels a quick cli has started; it stops none.)                          *)
UpLeavesNothing ==
  [][\A u \in Ups : ~raced =>
       /\ StopProxy(u) /\ barrel => "barrel" \in refused[u]
       /\ EndUp(u) /\ proxy # "none" => "proxy" \in refused[u] \/ u \in late]_runtimeVars

(* The clipboard of a running barrel can be read: its token file exists as   *)
(* long as the barrel runs (it is written before and removed after), but for *)
(* a cooper down that could not stop the barrel and removes the token.       *)
BarrelHasToken ==
  barrel /\ ~raced =>
    token \/ \E d \in Downs : "barrel" \in refused[d] /\ downAt[d] \in {"release", "failed"}

(* cooper down comes back, with the runtime stopped or with an error.        *)
DownReturns == \A d \in Downs : []<>(downAt[d] \in {"idle", "ended", "failed"})

(* One runtime at a time, whoever dies or is killed: a second cooper up, a   *)
(* down and a cli beside it never make two, a barrel that runs has a token,  *)
(* a down signals the holder of the lock, and neither a down nor an up that  *)
(* ends leaves its containers behind, but in the cases the parts name.       *)
RuntimeSound ==
  /\ [](RuntimeTypeOK /\ OneRuntime /\ BarrelHasToken)
  /\ OnlyOwnerSignalled /\ DownLeavesNothing /\ UpLeavesNothing
=============================================================================
