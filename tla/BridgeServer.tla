---------------------------- MODULE BridgeServer ----------------------------
(***************************************************************************)
(* The execution bridge (cooper/internal/bridge/server.go, handler.go): an *)
(* HTTP server per bind address, all with one handler, that runs a script  *)
(* for a POST on a configured route and reports the run to logCh, which a  *)
(* forwarder (cooper/internal/app/cooper.go) passes on to the TUI.         *)
(*                                                                         *)
(* Stop holds mu for writing while it shuts the servers down one after the *)
(* other, at most five seconds in all, and closes logCh in the end.  A     *)
(* handler takes mu for reading to look at the routes.                     *)
(***************************************************************************)
EXTENDS Naturals, Sequences, FiniteSets

CONSTANTS Requests,     \* each is one HTTP request
          NumServers,   \* bind addresses
          LogCap,       \* places of logCh (256)
          FwdCap        \* places of bridgeFwd (256); the forwarder holds one more

ASSUME BridgeAssumption == /\ NumServers \in Nat \ {0} /\ LogCap \in Nat \ {0}
                           /\ FwdCap \in Nat

Servers == 1..NumServers

VARIABLES
  pc,         \* where the handler of a request is
  server,     \* the server that accepted it, 0 before
  draining,   \* 0, the server whose Shutdown runs, or NumServers + 1: Stop returned
  timedOut,   \* the context of Stop is over
  logCh, bridgeFwd,
  seen,       \* runs the TUI listed
  forwarding, \* the forwarder runs
  quitting    \* the TUI shows the shutdown screen and reads no more

pipeline == <<logCh, bridgeFwd, seen, forwarding, quitting>>
bridgeVars == <<pc, server, draining, timedOut, logCh, bridgeFwd, seen, forwarding, quitting>>

(* Two ways to end: "ran" after a script, "done" after a listing. *)
Phases == {"off", "lookup", "listing", "reply", "done",
           "script", "logging", "logged", "ran", "aborted"}
Active(r) == pc[r] \notin {"off", "done", "ran", "aborted"}
Closed == draining = NumServers + 1
(* Stop has mu from its first to its last Shutdown. *)
MuFree == draining = 0 \/ Closed

BridgeInit ==
  /\ pc = [r \in Requests |-> "off"]
  /\ server = [r \in Requests |-> 0]
  /\ draining = 0 /\ timedOut = FALSE
  /\ logCh = << >> /\ bridgeFwd = << >> /\ seen = {}
  /\ forwarding = TRUE /\ quitting = FALSE

Goto(r, p) == pc' = [pc EXCEPT ![r] = p]

-----------------------------------------------------------------------------
(* A request for the bridge arrives where a listener is still open: a POST, *)
(* or GET /routes.  (/health and the clipboard take no lock of the bridge.) *)
Accept(r, i) ==
  /\ pc[r] = "off" /\ draining < i
  /\ \E first \in {"lookup", "listing"} : Goto(r, first)
  /\ server' = [server EXCEPT ![r] = i]
  /\ UNCHANGED <<draining, timedOut, pipeline>>

(* getRoutes: the path is a route, or the 404 that lists the routes next. *)
Lookup(r) ==
  /\ pc[r] = "lookup" /\ MuFree
  /\ \E next \in {"script", "listing"} : Goto(r, next)
  /\ UNCHANGED <<server, draining, timedOut, pipeline>>

(* The listing of the routes takes the read lock of its own. *)
ListRoutes(r) ==
  /\ pc[r] = "listing" /\ MuFree
  /\ Goto(r, "reply")
  /\ UNCHANGED <<server, draining, timedOut, pipeline>>

(* executeScript returns, whatever came of it; its context is not the       *)
(* request's, so nothing but its own timeout interrupts it.                 *)
ScriptEnds(r) ==
  /\ pc[r] = "script"
  /\ Goto(r, "logging")
  /\ UNCHANGED <<server, draining, timedOut, pipeline>>

(* Mutants: the channel takes any number; the channel is never closed for   *)
(* the sender; the log entry is dropped when the channel is full.           *)
LogUnbounded(r) ==
  /\ pc[r] = "logging"
  /\ logCh' = Append(logCh, r) /\ Goto(r, "logged")
  /\ UNCHANGED <<server, draining, timedOut, bridgeFwd, seen, forwarding, quitting>>
LogUnlessClosed(r) ==
  /\ pc[r] = "logging" /\ ~Closed /\ Len(logCh) < LogCap
  /\ logCh' = Append(logCh, r) /\ Goto(r, "logged")
  /\ UNCHANGED <<server, draining, timedOut, bridgeFwd, seen, forwarding, quitting>>
LogOrDrop(r) ==
  /\ pc[r] = "logging"
  /\ \/ Closed /\ Goto(r, "aborted") /\ UNCHANGED logCh
     \/ ~Closed /\ Goto(r, "logged")
        /\ logCh' = IF Len(logCh) < LogCap THEN Append(logCh, r) ELSE logCh
  /\ UNCHANGED <<server, draining, timedOut, bridgeFwd, seen, forwarding, quitting>>

(* The send blocks while logCh is full.  Once it is closed the send panics; *)
(* net/http recovers and drops the connection without an answer.            *)
LogRun(r) ==
  /\ pc[r] = "logging"
  /\ \/ Closed /\ Goto(r, "aborted") /\ UNCHANGED logCh
     \/ /\ ~Closed /\ Len(logCh) < LogCap
        /\ logCh' = Append(logCh, r) /\ Goto(r, "logged")
  /\ UNCHANGED <<server, draining, timedOut, bridgeFwd, seen, forwarding, quitting>>

Reply(r) ==
  /\ \/ pc[r] = "reply" /\ Goto(r, "done")
     \/ pc[r] = "logged" /\ Goto(r, "ran")
  /\ UNCHANGED <<server, draining, timedOut, pipeline>>

-----------------------------------------------------------------------------
(* Stop *)

StopBegins ==
  /\ draining = 0 /\ quitting
  /\ draining' = 1
  /\ UNCHANGED <<pc, server, timedOut, pipeline>>

(* The five seconds are over. *)
TimesOut ==
  /\ draining \in Servers /\ ~timedOut
  /\ timedOut' = TRUE
  /\ UNCHANGED <<pc, server, draining, pipeline>>

Drained(i) == \A r \in Requests : server[r] = i => ~Active(r)

(* Mutants: the channel is closed before the last server is drained; the    *)
(* listeners are closed without waiting; Shutdown has no deadline.          *)
ShutdownAlmost ==
  /\ draining \in Servers
  /\ Drained(draining) \/ timedOut \/ draining = NumServers
  /\ draining' = draining + 1
  /\ UNCHANGED <<pc, server, timedOut, pipeline>>
ShutdownPatient ==
  /\ draining \in Servers /\ Drained(draining)
  /\ draining' = draining + 1
  /\ UNCHANGED <<pc, server, timedOut, pipeline>>

(* Shutdown returns when the connections of its server are idle or the      *)
(* context is over; after the last one logCh is closed and mu unlocked.     *)
ShutdownReturns ==
  /\ draining \in Servers
  /\ Drained(draining) \/ timedOut
  /\ draining' = draining + 1
  /\ UNCHANGED <<pc, server, timedOut, pipeline>>

-----------------------------------------------------------------------------
(* wireChannels and the TUI *)

Forward ==
  /\ logCh # << >> /\ Len(bridgeFwd) <= FwdCap
  /\ bridgeFwd' = Append(bridgeFwd, Head(logCh))
  /\ logCh' = Tail(logCh)
  /\ UNCHANGED <<pc, server, draining, timedOut, seen, forwarding, quitting>>

(* Mutant: the forwarder stops at the close, not at the end of the queue. *)
ForwarderQuits ==
  /\ forwarding /\ Closed
  /\ forwarding' = FALSE
  /\ UNCHANGED <<pc, server, draining, timedOut, logCh, bridgeFwd, seen, quitting>>

ForwarderEnds ==
  /\ forwarding /\ Closed /\ logCh = << >> /\ Len(bridgeFwd) <= FwdCap
  /\ forwarding' = FALSE
  /\ UNCHANGED <<pc, server, draining, timedOut, logCh, bridgeFwd, seen, quitting>>

ShowLog ==
  /\ ~quitting /\ bridgeFwd # << >>
  /\ seen' = seen \cup {Head(bridgeFwd)}
  /\ bridgeFwd' = Tail(bridgeFwd)
  /\ UNCHANGED <<pc, server, draining, timedOut, logCh, forwarding, quitting>>

ConfirmExit ==
  /\ ~quitting
  /\ quitting' = TRUE
  /\ UNCHANGED <<pc, server, draining, timedOut, logCh, bridgeFwd, seen, forwarding>>

-----------------------------------------------------------------------------
Handler(r) == Lookup(r) \/ ListRoutes(r) \/ ScriptEnds(r) \/ LogRun(r) \/ Reply(r)

BridgeNext ==
  \/ \E r \in Requests : Handler(r) \/ \E i \in Servers : Accept(r, i)
  \/ StopBegins \/ TimesOut \/ ShutdownReturns
  \/ Forward \/ ForwarderEnds \/ ShowLog \/ ConfirmExit

BridgeSpec == BridgeInit /\ [][BridgeNext]_bridgeVars

(* What happens of itself: goroutines are scheduled, scripts end             *)
(* (executeScript kills them after five minutes), the timer of Stop fires, a *)
(* TUI told to quit stops the server, and one that was not reads its events. *)
ServerStep ==
  \/ \E r \in Requests : Handler(r)
  \/ StopBegins \/ TimesOut \/ ShutdownReturns
  \/ Forward \/ ForwarderEnds \/ ShowLog

-----------------------------------------------------------------------------
(* Properties *)

BridgeTypeOK ==
  /\ pc \in [Requests -> Phases]
  /\ server \in [Requests -> 0..NumServers]
  /\ \A r \in Requests : server[r] = 0 <=> pc[r] = "off"
  /\ draining \in 0..(NumServers + 1)
  /\ timedOut \in BOOLEAN
  /\ logCh \in Seq(Requests) /\ Len(logCh) <= LogCap
  /\ bridgeFwd \in Seq(Requests) /\ Len(bridgeFwd) <= FwdCap + 1
  /\ seen \subseteq Requests
  /\ forwarding \in BOOLEAN /\ quitting \in BOOLEAN

(* A Stop whose five seconds were enough left nothing behind: no handler    *)
(* still runs on any of the servers when logCh is closed, so none loses its *)
(* answer and its log entry to the panic of a send on a closed channel.     *)
GracefulEnd == Closed /\ ~timedOut => \A r \in Requests : pc[r] \in {"off", "done", "ran"}

Count(q, r) == Cardinality({i \in DOMAIN q : q[i] = r})
Places(r) == Count(logCh, r) + Count(bridgeFwd, r) + (IF r \in seen THEN 1 ELSE 0)

(* A run is reported once, and exactly when its answer is on its way or     *)
(* was sent: a full channel delays the answer ("blocking send"), it does    *)
(* not lose the entry, and a run whose answer was lost has none.            *)
ReportedOnce ==
  \A r \in Requests : Places(r) = IF pc[r] \in {"logged", "ran"} THEN 1 ELSE 0

(* The forwarder ends with an empty queue behind it. *)
QueueDrained == ~forwarding => logCh = << >>

(* Every accepted request ends and Stop returns, whatever the handlers are  *)
(* blocked on: the lock, a full channel or a long script.                   *)
EveryRequestEnds == \A r \in Requests : []<>~Active(r)
StopReturns == []<>(draining = 0 \/ Closed)

(* Stop lets the scripts finish or times out, a script that ran is reported  *)
(* to the panel once, and the queue of reports is empty at the end.          *)
BridgeSound ==
  BridgeTypeOK /\ GracefulEnd /\ ReportedOnce /\ QueueDrained
=============================================================================
