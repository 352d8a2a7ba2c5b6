------------------------------ MODULE PGControl ------------------------------
(***************************************************************************)
(* pgflock/main.go runUp with internal/tui/app.go, loadingscreen.go and    *)
(* handleRestart of internal/locker/handler.go: start-up, restart (by key  *)
(* or by POST /restart) and shutdown of the containers and the locker      *)
(* server behind a loading screen.                                         *)
(*                                                                         *)
(* Each of these jobs is a goroutine that reports its progress on a        *)
(* channel of its own.  Update handles one message at a time; the commands *)
(* it returns (a wait for progress, a wait for a restart request) run in   *)
(* goroutines and end with a message.                                      *)
(***************************************************************************)
EXTENDS Integers, Sequences, FiniteSets

CONSTANTS
  Callers,    \* clients of POST /restart, each calls once
  MaxJobs,    \* jobs begun: the start-up and what keys and callers begin
  ProgressCap \* places of a progress channel (10)

NoCaller == "nobody"

ASSUME ControlAssumption ==
  MaxJobs \in Nat \ {0} /\ ProgressCap \in Nat \ {0} /\ NoCaller \notin Callers

VARIABLES
  job,        \* 1..number of jobs -> [kind, at, out, by]
  mixed,      \* history: two jobs have run at the same time
  crossed,    \* history: a job was begun behind the loading screen of another one
  containers, \* "up" or "down"
  server,     \* the locker's HTTP server: "none", "up", "died" or "stopped"
  showingLoading, mode,
  progress,   \* of the loading screen: "busy", "ready" (1.0), "holding" or "failed"
  progressOf, \* loadingProgressChan: the job it belongs to
  confirm,    \* the dialog: "none", "quit", "restart" or "died"
  pending,    \* pendingRestartResponse: a caller or NoCaller
  waits,      \* waitForLoadingProgress commands: 0 before the channel is read, then its job
  progressMsgs, \* loadingProgressMsg that Update has not handled
  listeners,  \* waitForRestartRequest commands under way
  requests,   \* callers whose restartRequestMsg Update has not handled
  errListening, diedErr, \* a waitForLockerError command is under way; an error in lockerErrChan
  caller,     \* caller -> "idle", "waiting", "ok", "failed" or "conflict"
  quitting

history == <<mixed, crossed>>
serverVars == <<containers, server, diedErr>>
screenVars == <<showingLoading, mode, progress, progressOf>>
callVars == <<pending, listeners, requests, caller>>
pgControlVars == <<job, history, serverVars, screenVars, confirm, callVars, waits, progressMsgs,
                   errListening, quitting>>

Jobs == DOMAIN job
Runs(j) == job[j].at # "end"
BagPut(b, x) == Append(b, x)
DropAt(s, i) == SubSeq(s, 1, i - 1) \o SubSeq(s, i + 1, Len(s))
NewJob(k, c) == [kind |-> k, at |-> "stop", out |-> << >>, by |-> c, failed |-> FALSE]

(* Mutant: requests are waited for while the start-up is shown. *)
PGControlInitListening ==
  /\ job = <<NewJob("startup", NoCaller)>> /\ mixed = FALSE /\ crossed = FALSE
  /\ containers = "down" /\ server = "none" /\ diedErr = FALSE
  /\ showingLoading = TRUE /\ mode = "startup" /\ progress = "busy" /\ progressOf = 1
  /\ confirm = "none"
  /\ pending = NoCaller /\ listeners = 1 /\ requests = {} /\ caller = [c \in Callers |-> "idle"]
  /\ waits = <<0>> /\ progressMsgs = << >> /\ errListening = FALSE
  /\ quitting = FALSE

PGControlInit ==
  /\ job = <<NewJob("startup", NoCaller)>> /\ mixed = FALSE /\ crossed = FALSE
  /\ containers = "down" /\ server = "none" /\ diedErr = FALSE
  /\ showingLoading = TRUE /\ mode = "startup" /\ progress = "busy" /\ progressOf = 1
  /\ confirm = "none"
  /\ pending = NoCaller /\ listeners = 0 /\ requests = {} /\ caller = [c \in Callers |-> "idle"]
  /\ waits = <<0>> /\ progressMsgs = << >> /\ errListening = FALSE
  /\ quitting = FALSE

-----------------------------------------------------------------------------
(* The jobs.  A step reports first and works then; a step that fails        *)
(* reports the failure and the job ends.                                    *)

After(j) ==
  LET k == job[j].kind IN
  CASE job[j].at = "stop" -> IF k = "shutdown" THEN "containers" ELSE "run"
    [] job[j].at = "run" -> "wait"
    [] job[j].at = "wait" -> IF k = "startup" THEN "locker" ELSE "ready"
    [] job[j].at \in {"locker", "containers"} -> "ready"
    [] OTHER -> "end"

MayFail(j) ==
  \/ job[j].at = "stop" /\ job[j].kind = "restart"
  \/ job[j].at \in {"run", "wait", "locker"}

JobStep(j) ==
  /\ ~quitting /\ Runs(j) /\ Len(job[j].out) < ProgressCap
  /\ job[j].at = "wait" => containers = "up"
  /\ job' = [job EXCEPT ![j].at = After(j),
               ![j].out = Append(@, IF job[j].at = "ready" THEN "ready" ELSE "busy")]
  /\ containers' = CASE job[j].at = "stop" /\ job[j].kind # "shutdown" -> "down"
                     [] job[j].at = "containers" -> "down"
                     [] job[j].at = "run" -> "up"
                     [] OTHER -> containers
  /\ server' = CASE job[j].at = "locker" -> "up"
                 [] job[j].at = "stop" /\ job[j].kind = "shutdown" -> "stopped"
                 [] OTHER -> server
  /\ UNCHANGED <<history, diedErr, screenVars, confirm, callVars, waits, progressMsgs, errListening, quitting>>

JobFails(j) ==
  /\ ~quitting /\ Runs(j) /\ Len(job[j].out) < ProgressCap /\ MayFail(j)
  /\ job' = [job EXCEPT ![j].at = "end", ![j].failed = TRUE, ![j].out = Append(@, "failed")]
  /\ UNCHANGED <<history, serverVars, screenVars, confirm, callVars, waits, progressMsgs, errListening, quitting>>

ServerDies ==
  /\ ~quitting /\ server = "up"
  /\ server' = "died" /\ diedErr' = TRUE
  /\ UNCHANGED <<job, history, containers, screenVars, confirm, callVars, waits, progressMsgs, errListening, quitting>>

-----------------------------------------------------------------------------
(* The waits for progress.                                                  *)

(* The command looks loadingProgressChan up when it runs, not when Update   *)
(* made it.                                                                 *)
ReadChannel(i) ==
  /\ ~quitting /\ waits[i] = 0
  /\ waits' = [waits EXCEPT ![i] = progressOf]
  /\ UNCHANGED <<job, history, serverVars, screenVars, confirm, callVars, progressMsgs, errListening, quitting>>

ReceiveProgress(i) ==
  /\ ~quitting /\ waits[i] # 0
  /\ LET j == waits[i] IN
     \/ /\ job[j].out # << >>
        /\ progressMsgs' = Append(progressMsgs, Head(job[j].out))
        /\ job' = [job EXCEPT ![j].out = Tail(@)]
     \/ /\ job[j].out = << >> /\ ~Runs(j)
        /\ UNCHANGED <<progressMsgs, job>>
  /\ waits' = DropAt(waits, i)
  /\ UNCHANGED <<history, serverVars, screenVars, confirm, callVars, errListening, quitting>>

(* Answer goes to the caller whose restart is pending, if there is one. *)
Answer(a) ==
  /\ pending' = NoCaller
  /\ caller' = IF pending = NoCaller THEN caller ELSE [caller EXCEPT ![pending] = a]

(* Mutant: every message starts two waits. *)
HandleProgressTwice(i) ==
  LET m == progressMsgs[i]
      shows == IF m = "failed" \/ progress = "failed" THEN "failed"
               ELSE IF progress = "holding" THEN "holding" ELSE m
  IN
  /\ ~quitting
  /\ progress' = shows
  /\ progressMsgs' = DropAt(progressMsgs, i)
  /\ IF shows = "failed"
       THEN Answer(IF m = "failed" THEN "failed" ELSE "ok") /\ UNCHANGED waits
       ELSE waits' = BagPut(BagPut(waits, 0), 0) /\ UNCHANGED <<pending, caller>>
  /\ UNCHANGED <<job, history, serverVars, showingLoading, mode, progressOf, confirm, listeners, requests,
                 errListening, quitting>>

(* Mutant: a message does not start the next wait. *)
HandleProgressOnce(i) ==
  LET m == progressMsgs[i]
      shows == IF m = "failed" \/ progress = "failed" THEN "failed"
               ELSE IF progress = "holding" THEN "holding" ELSE m
  IN
  /\ ~quitting
  /\ progress' = shows
  /\ progressMsgs' = DropAt(progressMsgs, i)
  /\ IF shows = "failed"
       THEN Answer(IF m = "failed" THEN "failed" ELSE "ok") /\ UNCHANGED waits
       ELSE UNCHANGED <<waits, pending, caller>>
  /\ UNCHANGED <<job, history, serverVars, showingLoading, mode, progressOf, confirm, listeners, requests,
                 errListening, quitting>>

(* loadingProgressMsg *)
HandleProgress(i) ==
  LET m == progressMsgs[i]
      shows == IF m = "failed" \/ progress = "failed" THEN "failed"
               ELSE IF progress = "holding" THEN "holding" ELSE m
  IN
  /\ ~quitting
  /\ progress' = shows
  /\ progressMsgs' = DropAt(progressMsgs, i)
  /\ IF shows = "failed"
       THEN Answer(IF m = "failed" THEN "failed" ELSE "ok") /\ UNCHANGED waits
       ELSE waits' = BagPut(waits, 0) /\ UNCHANGED <<pending, caller>>
  /\ UNCHANGED <<job, history, serverVars, showingLoading, mode, progressOf, confirm, listeners, requests,
                 errListening, quitting>>

-----------------------------------------------------------------------------
(* Loading screens. *)

Hold ==
  /\ ~quitting /\ showingLoading /\ progress = "ready"
  /\ progress' = "holding"
  /\ UNCHANGED <<job, history, serverVars, showingLoading, mode, progressOf, confirm, callVars, waits,
                 progressMsgs, errListening, quitting>>

(* Mutant: the next restart request is not waited for. *)
LoadingCompleteDeaf ==
  /\ ~quitting /\ showingLoading /\ progress = "holding"
  /\ IF mode = "shutdown"
       THEN quitting' = TRUE /\ UNCHANGED <<showingLoading, callVars, errListening>>
       ELSE /\ showingLoading' = FALSE
            /\ Answer("ok")
            /\ listeners' = IF mode = "startup" THEN listeners + 1 ELSE listeners
            /\ errListening' = TRUE
            /\ UNCHANGED <<requests, quitting>>
  /\ UNCHANGED <<job, history, serverVars, mode, progress, progressOf, confirm, waits, progressMsgs>>

(* handleLoadingComplete *)
LoadingComplete ==
  /\ ~quitting /\ showingLoading /\ progress = "holding"
  /\ IF mode = "shutdown"
       THEN quitting' = TRUE /\ UNCHANGED <<showingLoading, callVars, errListening>>
       ELSE /\ showingLoading' = FALSE
            /\ Answer("ok")
            /\ listeners' = listeners + 1 /\ errListening' = TRUE
            /\ UNCHANGED <<requests, quitting>>
  /\ UNCHANGED <<job, history, serverVars, mode, progress, progressOf, confirm, waits, progressMsgs>>

(* StartRestart and StartShutdown after onRestart and onShutdown. *)
Begin(kind, by) ==
  /\ Len(job) < MaxJobs
  /\ job' = Append(job, NewJob(kind, by))
  /\ mixed' = (mixed \/ progressMsgs # << >> \/ waits # << >> \/ \E j \in Jobs : Runs(j) \/ job[j].out # << >>)
  /\ crossed' = (crossed \/ showingLoading)
  /\ showingLoading' = TRUE /\ mode' = kind /\ progress' = "busy" /\ progressOf' = Len(job')
  /\ waits' = BagPut(waits, 0)
  /\ UNCHANGED <<serverVars, progressMsgs, errListening, quitting>>

-----------------------------------------------------------------------------
(* POST /restart: taken only by a listener that is waiting at that moment.  *)

CallRestart(c) ==
  /\ ~quitting /\ server = "up" /\ caller[c] = "idle"
  /\ IF listeners > 0
       THEN /\ caller' = [caller EXCEPT ![c] = "waiting"]
            /\ listeners' = listeners - 1 /\ requests' = requests \cup {c}
       ELSE caller' = [caller EXCEPT ![c] = "conflict"] /\ UNCHANGED <<listeners, requests>>
  /\ UNCHANGED <<job, history, serverVars, screenVars, confirm, pending, waits, progressMsgs, errListening, quitting>>

(* Mutant: the caller is not kept for the answer. *)
HandleRequestForgetting(c) ==
  /\ ~quitting /\ c \in requests
  /\ requests' = requests \ {c}
  /\ Begin("restart", c)
  /\ UNCHANGED <<confirm, pending, listeners, caller>>

HandleRequest(c) ==
  /\ ~quitting /\ c \in requests
  /\ requests' = requests \ {c} /\ pending' = c
  /\ Begin("restart", c)
  /\ UNCHANGED <<confirm, listeners, caller>>

HandleLockerErr ==
  /\ ~quitting /\ diedErr /\ errListening
  /\ diedErr' = FALSE /\ errListening' = FALSE /\ confirm' = "died"
  /\ UNCHANGED <<job, history, containers, server, screenVars, callVars, waits, progressMsgs, quitting>>

-----------------------------------------------------------------------------
(* Keys. *)

Leave == quitting' = TRUE /\ server' = "stopped" /\ containers' = "down"

QuitLoading ==
  /\ ~quitting /\ showingLoading /\ mode # "shutdown"
  /\ Leave
  /\ UNCHANGED <<job, history, diedErr, screenVars, confirm, callVars, waits, progressMsgs, errListening>>

OpenDialog(d) ==
  /\ ~quitting /\ ~showingLoading /\ confirm = "none"
  /\ confirm' = d
  /\ UNCHANGED <<job, history, serverVars, screenVars, callVars, waits, progressMsgs, errListening, quitting>>

DismissDialog ==
  /\ ~quitting /\ ~showingLoading /\ confirm # "none"
  /\ confirm' = "none"
  /\ UNCHANGED <<job, history, serverVars, screenVars, callVars, waits, progressMsgs, errListening, quitting>>

(* executeConfirmedAction *)
ExecuteConfirmed ==
  /\ ~quitting /\ ~showingLoading
  /\ confirm' = "none"
  /\ \/ confirm = "quit" /\ Begin("shutdown", NoCaller)
     \/ confirm = "restart" /\ Begin("restart", NoCaller)
     \/ /\ confirm = "died" /\ Leave
        /\ UNCHANGED <<job, history, diedErr, screenVars, waits, progressMsgs, errListening>>
  /\ UNCHANGED callVars

PGControlNext ==
  \/ \E j \in Jobs : JobStep(j) \/ JobFails(j)
  \/ \E i \in DOMAIN waits : ReadChannel(i) \/ ReceiveProgress(i)
  \/ \E i \in DOMAIN progressMsgs : HandleProgress(i)
  \/ \E c \in Callers : CallRestart(c) \/ HandleRequest(c)
  \/ \E d \in {"quit", "restart"} : OpenDialog(d)
  \/ Hold \/ LoadingComplete \/ ServerDies \/ HandleLockerErr
  \/ QuitLoading \/ DismissDialog \/ ExecuteConfirmed

PGControlSpec == PGControlInit /\ [][PGControlNext]_pgControlVars

-----------------------------------------------------------------------------
(* Properties *)

PGControlTypeOK ==
  /\ \A j \in Jobs : /\ job[j].kind \in {"startup", "restart", "shutdown"}
                     /\ Len(job[j].out) <= ProgressCap
  /\ progressOf \in Jobs /\ progress \in {"busy", "ready", "holding", "failed"}
  /\ pending \in Callers \cup {NoCaller}
  /\ \A i \in DOMAIN waits : waits[i] \in Jobs \cup {0}
  /\ Len(waits) + Len(progressMsgs) <= Len(job)
  /\ listeners \in 0..Len(job) /\ errListening \in BOOLEAN

(* While the main view is shown a caller of /restart finds a listener, or   *)
(* the one it would have found has just been taken.                         *)
RestartAvailable == ~showingLoading /\ ~quitting => listeners + Cardinality(requests) >= 1

(* A request is never accepted before the start-up has completed. *)
NotBeforeReady == showingLoading /\ mode = "startup" => \A c \in Callers : caller[c] \in {"idle", "conflict"}

(* Unless a job is begun behind the loading screen of another one, every     *)
(* accepted caller is remembered until it is answered, and is answered with  *)
(* what became of its own restart.                                           *)
CallersKept ==
  ~crossed => \A c \in Callers :
    /\ caller[c] = "waiting" => c \in requests \/ pending = c
    /\ caller[c] = "ok" => \E j \in Jobs : job[j].by = c /\ ~Runs(j) /\ ~job[j].failed

(* "Blocks until restart is complete" (POST /restart): the call returns      *)
(* then, so until it is answered something remembers it.                     *)
CallersRemembered ==
  \A c \in Callers : caller[c] = "waiting" => c \in requests \/ pending = c
=============================================================================
