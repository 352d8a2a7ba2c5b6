------------------------------ MODULE ProofRun ------------------------------
(* cooper proof and cooper cleanup: one stands the whole stack up, looks at  *)
(* it and takes it down again, the other removes what any command left.      *)
(* Neither takes the lock of cooper up.  Beside them the user runs cooper up *)
(* and cooper cli, a docker command fails now and then, and Ctrl-C ends a    *)
(* run of cooper proof without its deferred teardown.  What a container      *)
(* answers to a check is free, where the check depends on more than whether  *)
(* the container runs.                                                       *)
EXTENDS FiniteSets, Naturals

CONSTANTS ProofTools,  \* AI tools with an image
          MaxProofs,   \* bound on runs of cooper proof
          MaxHiccups,  \* bound on docker commands, and writes of the rules file, that fail
          MaxKills,    \* bound on runs of cooper proof that are interrupted
          MaxSessions  \* bound on what the user starts besides

\* A box is named for its tool, and the rule has places of its own.
ASSUME ToolNames == {"proxy", "file", "relay"} \cap ProofTools = {}

Boxes == ProofTools \cup {"proxy"}
NoBox == [state |-> "none", owner |-> "nobody"]
RunningFor(who) == [state |-> "running", owner |-> who]

VARIABLES
  proofAt,    \* the phase of cooper proof; "idle", "ended" and "killed" outside one
  enabled,    \* the tools the configuration enables
  untried,    \* those phaseContainer has not come to
  ctxBarrels, \* ctx.barrels: the containers teardown knows of
  ctxParts,   \* ctx.bridgeServer, ctx.hostRelay, ctx.aclListener that are set
  failed,     \* failCount > 0
  warned,     \* a run warned that the rules were not restored
  verdict,    \* what Run returns: "none", "ok", "failed"
  boxes,      \* the containers: none, created, or running and whose
  nets,       \* the two networks exist
  probing,    \* where the rule of the loopback check is: the file, the relay, containers
  passedOver, \* history: whom the last reload of the rules missed and told nobody of
  envFiles,   \* whose session env files lie in the session directory
  isolated,   \* the internal network has no way out
  cleanAt,    \* the step of cooper cleanup
  images,     \* the images exist
  missed,     \* "proof", "clean": a docker command of its end failed, or the user started something
  proofs, hiccups, kills, sessions
dockerVars == <<boxes, nets, probing, passedOver>>
ctxVars == <<untried, ctxBarrels, ctxParts, failed, warned, verdict>>
countVars == <<proofs, kills, sessions>>
proofVars == <<proofAt, enabled, ctxVars, dockerVars, envFiles, isolated, cleanAt, images, missed, hiccups, countVars>>

Up(b) == boxes[b].state = "running"
AnyUp == \E b \in Boxes : Up(b)
Resting == proofAt \in {"idle", "ended", "killed"}

(* What a cooper up of the user looks like, alone or with a barrel.          *)
ProofInit ==
  /\ proofAt = "idle" /\ enabled \in SUBSET ProofTools /\ isolated \in BOOLEAN
  /\ untried = {} /\ ctxBarrels = {} /\ ctxParts = {} /\ failed = FALSE /\ warned = FALSE /\ verdict = "none"
  /\ boxes \in {[b \in Boxes |-> NoBox],
                [b \in Boxes |-> IF b = "proxy" THEN RunningFor("user") ELSE NoBox],
                [b \in Boxes |-> RunningFor("user")]}
  /\ nets = (boxes["proxy"].state = "running") /\ probing = {} /\ passedOver = {} /\ envFiles = {}
  /\ cleanAt = "idle" /\ images = TRUE /\ missed = {}
  /\ proofs = 0 /\ hiccups = 0 /\ kills = 0 /\ sessions = 0

(* A docker command answers, or it fails by itself; so may a write.          *)
Answers == UNCHANGED hiccups
Hiccup == hiccups < MaxHiccups /\ hiccups' = hiccups + 1

Goes(place) == proofAt' = place
ProofFails(place) == failed' = TRUE /\ Goes(place)
\* Run returns before the later phases; the teardown is deferred.
Aborts == ProofFails("teardown") /\ verdict' = "failed"
Outside == UNCHANGED <<enabled, isolated, cleanAt, images, missed, countVars>>

-----------------------------------------------------------------------------
(* Phases *)

\* What a run leaves behind belongs to nobody it knows.
Left == [b \in Boxes |-> IF boxes[b].owner = "proof" THEN [boxes[b] EXCEPT !.owner = "earlier"] ELSE boxes[b]]
RunStarts ==
  /\ Resting /\ cleanAt \in {"idle", "done"} /\ proofs < MaxProofs /\ proofs' = proofs + 1
  /\ Goes("preflight") /\ untried' = enabled /\ ctxBarrels' = {} /\ ctxParts' = {}
  /\ failed' = FALSE /\ UNCHANGED warned /\ verdict' = "none" /\ missed' = missed \ {"proof"} /\ boxes' = Left
  /\ UNCHANGED <<enabled, nets, probing, passedOver, envFiles, isolated, cleanAt, images,
                 hiccups, kills, sessions>>

(* phasePreflight: the error of IsProxyRunning is ignored.                   *)
Preflight ==
  /\ proofAt = "preflight"
  /\ \/ images /\ (Up("proxy") => Hiccup) /\ (~Up("proxy") => Answers) /\ Goes("networks")
        /\ UNCHANGED <<failed, verdict>>
     \/ (~images \/ Up("proxy")) /\ Answers /\ Aborts
     \/ Hiccup /\ Aborts
  /\ Outside /\ UNCHANGED <<untried, ctxBarrels, ctxParts, warned, dockerVars, envFiles>>

\* WritePortForwardConfig fails: the file is as it was, or cut off.
NotWritten(rules) == Hiccup /\ probing' \in {rules, rules \ {"file"}}
(* phaseStartup: EnsureNetworks and StartProxy, which writes the rules file  *)
(* and then removes a container of the same name.                            *)
CreateNetworks ==
  /\ proofAt = "networks"
  /\ \/ Answers /\ nets' = TRUE /\ Goes("proxy") /\ UNCHANGED <<failed, verdict>>
     \/ Hiccup /\ Aborts /\ UNCHANGED nets
  /\ Outside /\ UNCHANGED <<untried, ctxBarrels, ctxParts, warned, boxes, probing,
                            passedOver, envFiles>>
ProofStartsProxy ==
  /\ proofAt = "proxy"
  /\ \/ /\ Answers /\ nets /\ Goes("bridge") /\ UNCHANGED <<failed, verdict>>
        /\ boxes' = [boxes EXCEPT !["proxy"] = RunningFor("proof")]
        /\ probing' = probing \ {"file", "proxy"}
     \/ /\ IF nets THEN Hiccup ELSE Answers
        /\ Aborts
        /\ \E left \in {NoBox, [state |-> "created", owner |-> "proof"]} :
             boxes' = [boxes EXCEPT !["proxy"] = left]
        /\ probing' = probing \ {"file", "proxy"}
     \/ Aborts /\ UNCHANGED boxes /\ NotWritten(probing)
  /\ Outside /\ UNCHANGED <<untried, ctxBarrels, ctxParts, warned, nets, passedOver,
                            envFiles>>

(* ctx.bridgeServer is set before Start, ctx.hostRelay after it; without a   *)
(* gateway neither is.                                                       *)
StartBridge ==
  /\ proofAt = "bridge"
  /\ \/ Answers /\ ctxParts' = {"bridge", "relay"} /\ Goes("acl") /\ UNCHANGED <<failed,
                                                                                 verdict>>
     \/ Answers /\ ctxParts' = {"bridge"} /\ Aborts
     \/ Hiccup /\ UNCHANGED ctxParts /\ Aborts
  /\ Outside /\ UNCHANGED <<untried, ctxBarrels, warned, dockerVars, envFiles>>
StartACL ==
  /\ proofAt = "acl" /\ ctxParts' = ctxParts \cup {"acl"}
  /\ \/ Goes("barrels") /\ UNCHANGED <<failed, verdict>>
     \/ Aborts
  /\ Outside /\ UNCHANGED <<untried, ctxBarrels, warned, dockerVars, envFiles, hiccups>>

(* phaseContainer for a tool, and what StartBarrel does: a container of that *)
(* name is removed, docker run works or not, the checks pass or fail.        *)
Barrel(t, recorded) ==
  /\ proofAt = "barrels" /\ t \in untried /\ untried' = untried \ {t}
  /\ \E state \in {"none", "created", "running"}, good \in BOOLEAN :
       /\ IF nets /\ state = "running" THEN Answers ELSE Hiccup
       /\ good => state = "running" /\ nets /\ Up("proxy")
       /\ state = "running" => nets
       /\ boxes' = [boxes EXCEPT ![t] = [state |-> state, owner |-> "proof"]]
       /\ failed' = (failed \/ ~good)
       /\ ctxBarrels' = IF recorded => good THEN ctxBarrels \cup {t} ELSE ctxBarrels
  /\ probing' = IF "file" \in probing THEN probing \cup {t} ELSE probing \ {t}
  /\ Outside /\ UNCHANGED <<proofAt, ctxParts, warned, verdict, nets, passedOver, envFiles>>
(* Mutant: a barrel is recorded once its checks have passed. *)
StartBarrelRecordsGood(t) == Barrel(t, TRUE)
StartBarrel(t) == Barrel(t, FALSE)
BarrelsDone ==
  /\ proofAt = "barrels" /\ untried = {}
  /\ IF failed THEN Aborts ELSE Goes("security") /\ UNCHANGED <<failed, verdict>>
  /\ Outside /\ UNCHANGED <<untried, ctxBarrels, ctxParts, warned, dockerVars, envFiles,
                            hiccups>>

(* firstBarrel takes any entry of the map.                                   *)
Reached(ok) == \E t \in ctxBarrels : Up(t) /\ ok
(* Mutant: what curl prints decides, and with -s it prints nothing. *)
EgressByOutput(asked) == TRUE
(* Every error of the exec counts as no way out.                             *)
EgressBlocked(asked) == asked => isolated
(* phaseNetworkSecurity: the SSL check needs an answer, the other two pass   *)
(* without one.                                                              *)
NetworkSecurity ==
  /\ proofAt = "security" /\ Goes("tools")
  /\ \E ssl, asked \in BOOLEAN :
       /\ ssl => Reached(Up("proxy"))
       /\ IF Reached(TRUE) /\ ~asked THEN Hiccup ELSE Answers
       /\ asked => Reached(TRUE)
       /\ failed' = (failed \/ ~ssl \/ ~EgressBlocked(asked))
  /\ Outside /\ UNCHANGED <<untried, ctxBarrels, ctxParts, warned, verdict, dockerVars,
                            envFiles>>

(* phaseTools asks each tool's own barrel; phaseAICLI can only warn.         *)
ToolsPhase ==
  /\ proofAt = "tools" /\ Goes("env")
  /\ \E good \in BOOLEAN :
       /\ good => ctxBarrels # {} /\ \A t \in enabled : t \in ctxBarrels /\ Up(t)
       /\ failed' = (failed \/ ~good)
  /\ Outside /\ UNCHANGED <<untried, ctxBarrels, ctxParts, warned, verdict, dockerVars,
                            envFiles, hiccups>>

(* phaseBarrelEnv: nothing without variables; the session env file goes when *)
(* the phase returns.                                                        *)
BarrelEnv ==
  /\ proofAt = "env"
  /\ \/ Goes("ports") /\ UNCHANGED <<failed, envFiles>>
     \/ ProofFails("ports") /\ UNCHANGED envFiles
     \/ ctxBarrels # {} /\ envFiles' = envFiles \cup {"proof"} /\ Goes("envcheck") /\ UNCHANGED failed
  /\ Outside /\ UNCHANGED <<untried, ctxBarrels, ctxParts, warned, verdict, dockerVars,
                            hiccups>>
BarrelEnvChecked ==
  /\ proofAt = "envcheck" /\ Goes("ports") /\ envFiles' = envFiles \ {"proof"}
  /\ \E good \in BOOLEAN : /\ good => Reached(TRUE)
                           /\ failed' = (failed \/ ~good)
  /\ Outside /\ UNCHANGED <<untried, ctxBarrels, ctxParts, warned, verdict, dockerVars,
                            hiccups>>

(* ReloadSocat: when the file cannot be written nobody is signalled.         *)
(* Otherwise every container that runs is, each on its own, and one that is  *)
(* not keeps its old rules; IsProxyRunning's error is dropped, so a proxy    *)
(* that docker gives no answer about is passed over and nobody is told.      *)
ReloadSocat(add, reported) ==
  LET rules == IF add THEN probing \cup {"relay"} ELSE probing \ {"relay"} IN
  \/ NotWritten(rules) /\ reported' = TRUE /\ UNCHANGED passedOver
  \/ \E deaf \in SUBSET {b \in Boxes : Up(b)} :
       /\ IF deaf = {} THEN Answers ELSE Hiccup
       /\ passedOver' \in SUBSET (deaf \cap {"proxy"})
       /\ probing' = IF add THEN rules \cup {"file"} \cup {b \in Boxes : Up(b) /\ b \notin deaf}
                            ELSE rules \cap deaf
       /\ reported' = (reported \/ ~(deaf \subseteq passedOver'))
(* phasePortForwarding: health, the rules' ports, and the loopback check,    *)
(* whose restore is deferred before anything is changed.                     *)
PortForwarding(onError) ==
  /\ proofAt = "ports"
  /\ \/ ctxBarrels = {} /\ ProofFails("summary") /\ Answers /\ UNCHANGED <<probing,
                                                                           passedOver>>
     \/ ctxBarrels # {} /\ ProofFails("summary") /\ Answers /\ UNCHANGED <<probing,
                                                                           passedOver>>
     \/ ctxBarrels # {} /\ ReloadSocat(TRUE, failed) /\ Goes(IF failed' /\ ~failed THEN onError ELSE "restore")
  /\ Outside /\ UNCHANGED <<untried, ctxBarrels, ctxParts, warned, verdict, boxes, nets,
                            envFiles>>
(* Mutant: the restore is deferred once the rule is loaded. *)
LoopbackCheckLate == PortForwarding("summary")
LoopbackCheck == PortForwarding("restore")
Restore ==
  /\ proofAt = "restore" /\ Goes("summary")
  /\ ReloadSocat(FALSE, warned)
  /\ failed' \in {failed, TRUE}
  /\ Outside /\ UNCHANGED <<untried, ctxBarrels, ctxParts, verdict, boxes, nets, envFiles>>
Summary ==
  /\ proofAt = "summary" /\ Goes("teardown")
  /\ verdict' = IF failed THEN "failed" ELSE "ok"
  /\ Outside /\ UNCHANGED <<untried, ctxBarrels, ctxParts, failed, warned, dockerVars,
                            envFiles, hiccups>>

-----------------------------------------------------------------------------
(* Teardown *)

Keeps == UNCHANGED <<enabled, untried, failed, warned, verdict, passedOver, envFiles,
                     isolated, cleanAt, images, countVars>>
TeardownParts ==
  /\ proofAt = "teardown" /\ Goes("barrelsdown") /\ ctxParts' = {} /\ probing' = probing \ {"relay"}
  /\ Keeps /\ UNCHANGED <<ctxBarrels, boxes, nets, missed, hiccups>>
(* IsBarrelRunning and IsProxyRunning: an error reads as not running, and    *)
(* what StopBarrel and StopProxy return is dropped.                          *)
Stopped(b) == boxes' = [boxes EXCEPT ![b] = NoBox] /\ Answers /\ UNCHANGED missed
NotStopped(who) == Hiccup /\ missed' = missed \cup {who} /\ UNCHANGED boxes
TeardownBarrel(t) ==
  /\ proofAt = "barrelsdown" /\ t \in ctxBarrels /\ ctxBarrels' = ctxBarrels \ {t}
  /\ \/ Up(t) /\ Stopped(t)
     \/ ~Up(t) /\ Answers /\ UNCHANGED <<boxes, missed>>
     \/ NotStopped("proof")
  /\ Keeps /\ UNCHANGED <<proofAt, ctxParts, nets, probing>>
TeardownProxy ==
  /\ proofAt = "barrelsdown" /\ ctxBarrels = {} /\ Goes("netsdown")
  /\ \/ Up("proxy") /\ Stopped("proxy")
     \/ ~Up("proxy") /\ Answers /\ UNCHANGED <<boxes, missed>>
     \/ NotStopped("proof")
  /\ Keeps /\ UNCHANGED <<ctxBarrels, ctxParts, nets, probing>>
(* docker refuses to remove a network a container is attached to.            *)
RemoveNetworks(who) ==
  \/ nets' = (nets /\ AnyUp) /\ Answers /\ UNCHANGED missed
  \/ Hiccup /\ missed' = missed \cup {who} /\ UNCHANGED nets
TeardownNetworks ==
  /\ proofAt = "netsdown" /\ Goes("ended")
  /\ RemoveNetworks("proof")
  /\ Keeps /\ UNCHANGED <<ctxBarrels, ctxParts, boxes, probing>>

(* Ctrl-C: nothing handles it, so the deferred calls do not run.             *)
Killed ==
  /\ ~Resting /\ kills < MaxKills /\ kills' = kills + 1 /\ Goes("killed")
  /\ boxes' = Left
  /\ envFiles' = IF "proof" \in envFiles THEN {"earlier"} ELSE envFiles
  /\ ctxParts' = {} /\ probing' = probing \ {"relay"}
  /\ UNCHANGED <<enabled, untried, ctxBarrels, failed, warned, verdict, nets, passedOver,
                 isolated, cleanAt, images, missed, proofs, hiccups, sessions>>

-----------------------------------------------------------------------------
(* cooper cleanup, and the user's other commands *)

CleanKeeps == UNCHANGED <<proofAt, enabled, ctxVars, probing, passedOver, envFiles,
                          isolated, countVars>>
CleanStarts ==
  /\ Resting /\ cleanAt = "idle" /\ cleanAt' = "barrels" /\ missed' = missed \ {"clean"}
  /\ CleanKeeps /\ UNCHANGED <<boxes, nets, images, hiccups>>
(* Mutant: without a proxy there is nothing to stop. *)
CleanBarrelsIfProxy ==
  /\ cleanAt = "barrels" /\ cleanAt' = "proxy" /\ Answers
  /\ boxes' = [b \in Boxes |-> IF b # "proxy" /\ Up(b) /\ Up("proxy") THEN NoBox ELSE boxes[b]]
  /\ CleanKeeps /\ UNCHANGED <<nets, images, missed>>
(* ListBarrels names the barrels that run; each is stopped and removed, and  *)
(* a failure is only a warning.                                              *)
CleanBarrels ==
  /\ cleanAt = "barrels" /\ cleanAt' = "proxy"
  /\ \/ /\ boxes' = [b \in Boxes |-> IF b # "proxy" /\ Up(b) THEN NoBox ELSE boxes[b]]
        /\ Answers /\ UNCHANGED missed
     \/ NotStopped("clean")
  /\ CleanKeeps /\ UNCHANGED <<nets, images>>
CleanProxy ==
  /\ cleanAt = "proxy" /\ cleanAt' = "images"
  /\ Stopped("proxy") \/ NotStopped("clean")
  /\ CleanKeeps /\ UNCHANGED <<nets, images>>
\* RemoveImage forces: a container that uses the image does not keep it.
CleanImages ==
  /\ cleanAt = "images" /\ cleanAt' = "networks"
  /\ \/ images' = FALSE /\ Answers /\ UNCHANGED missed
     \/ Hiccup /\ missed' = missed \cup {"clean"} /\ UNCHANGED images
  /\ CleanKeeps /\ UNCHANGED <<boxes, nets>>
CleanNetworks ==
  /\ cleanAt = "networks" /\ cleanAt' = "done"
  /\ RemoveNetworks("clean")
  /\ CleanKeeps /\ UNCHANGED <<boxes, images>>

(* cooper up refuses beside a proxy or a barrel; cooper cli needs a proxy    *)
(* and joins a barrel that runs.                                             *)
UserStarts ==
  /\ images /\ sessions < MaxSessions /\ sessions' = sessions + 1 /\ missed' = {"proof", "clean"}
  /\ \/ ~AnyUp /\ boxes' = [boxes EXCEPT !["proxy"] = RunningFor("user")] /\ nets' = TRUE
        /\ probing' = probing \ {"file", "proxy"}
     \/ Up("proxy") /\ nets /\ UNCHANGED nets
        /\ \E t \in ProofTools : /\ ~Up(t) /\ boxes' = [boxes EXCEPT ![t] = RunningFor("user")]
                                 /\ probing' = IF "file" \in probing THEN probing \cup {t} ELSE probing \ {t}
  /\ UNCHANGED <<proofAt, enabled, ctxVars, passedOver, envFiles, isolated, cleanAt,
                 images, proofs, hiccups, kills>>

ProofNext ==
  \/ RunStarts \/ Preflight \/ CreateNetworks \/ ProofStartsProxy \/ StartBridge \/ StartACL
  \/ \E t \in ProofTools : StartBarrel(t) \/ TeardownBarrel(t)
  \/ BarrelsDone \/ NetworkSecurity \/ ToolsPhase \/ BarrelEnv \/ BarrelEnvChecked
  \/ LoopbackCheck \/ Restore \/ Summary
  \/ TeardownParts \/ TeardownProxy \/ TeardownNetworks \/ Killed
  \/ CleanStarts \/ CleanBarrels \/ CleanProxy \/ CleanImages \/ CleanNetworks
  \/ UserStarts

ProofSpec == ProofInit /\ [][ProofNext]_proofVars

-----------------------------------------------------------------------------
(* Properties *)

ProofTypeOK ==
  /\ untried \subseteq enabled /\ ctxBarrels \subseteq enabled /\ enabled \subseteq ProofTools
  /\ ctxParts \subseteq {"bridge", "relay", "acl"} /\ verdict \in {"none", "ok", "failed"}
  /\ boxes \in [Boxes -> [state : {"none", "created", "running"}, owner : {"nobody", "proof", "earlier", "user"}]]
  /\ probing \subseteq Boxes \cup {"file", "relay"} /\ passedOver \subseteq {"proxy"} /\ missed \subseteq {"proof", "clean"} /\ envFiles \subseteq {"proof", "earlier"}

(* Whatever phase ends a run, and however many of its barrels came up, none  *)
(* of its containers runs on, its listeners are closed, its env file is      *)
(* gone, and so are the networks unless somebody is attached, all of this    *)
(* unless docker failed or another session came in meanwhile (phaseTeardown).*)
ProofCleansUp ==
  proofAt = "ended" /\ cleanAt = "idle" =>
    /\ ctxParts = {} /\ "proof" \notin envFiles
    /\ "proof" \in missed
       \/ /\ \A b \in Boxes : boxes[b].owner = "proof" => ~Up(b)
          /\ nets => AnyUp

(* The rule of the loopback check does not survive a run: it is out of the   *)
(* rules file, and no container forwards its port, unless a run warned       *)
(* (checkLoopbackOnlyHostAccess and its restore).  Two cases are out of the  *)
(* property: a run that was killed, and a proxy that the restore passed over *)
(* since docker ps failed, which ReloadSocat tells nobody of; such a proxy   *)
(* forwards the port for as long as it runs.                                 *)
ProbeRuleRemoved ==
  proofAt \in {"summary", "teardown", "ended"} /\ kills = 0 =>
    /\ "file" \in probing => warned
    /\ \A b \in Boxes : Up(b) /\ b \in probing => warned \/ b \in passedOver

(* A run that says all is well had a tool to look at, and would have seen a  *)
(* network with a way out unless docker failed when it asked: the check of   *)
(* direct egress passes on any error, so the checks beside it have to notice *)
(* that nobody answers (phaseNetworkSecurity, phaseTools).                   *)
OkMeansIsolated == verdict = "ok" => enabled # {} /\ (isolated \/ hiccups > 0)

(* cooper cleanup leaves nothing running, no network and no image, unless a  *)
(* command of its own failed or somebody started something meanwhile         *)
(* (runCleanup).                                                             *)
CleanupLeavesNothing ==
  cleanAt = "done" /\ "clean" \notin missed => ~AnyUp /\ ~nets /\ ~images

(* cooper proof refuses to run beside cooper up, and so does not stop the    *)
(* containers of that session.                                               *)
OnlyOwnTornDown ==
  [][\A b \in Boxes : boxes[b].owner = "user" /\ ~Resting => boxes'[b].owner = "user" \/ cleanAt # "idle"]_proofVars

(* A run of cooper proof takes down what it put up, in whatever phase it     *)
(* ends, and says all is well only of a network without a way out; cooper    *)
(* cleanup leaves nothing.  Each but for failures it names.                  *)
ProofSound ==
  ProofTypeOK /\ ProofCleansUp /\ ProbeRuleRemoved /\ OkMeansIsolated /\ CleanupLeavesNothing
=============================================================================
