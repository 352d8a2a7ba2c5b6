---------------------------- MODULE ACLListener ----------------------------
(***************************************************************************)
(* The approval path of cooper's proxy: a Squid ACL helper                 *)
(* (cooper/internal/proxy/helper.go) opens one connection per request to   *)
(* the listener (cooper/internal/proxy/acl.go); a handler goroutine queues *)
(* the request for the TUI, polls for the user's decision until a          *)
(* deadline, queues the outcome for the TUI's history and answers OK or    *)
(* ERR.  Stop closes the two queues under the write side of sendMu.        *)
(*                                                                         *)
(* A connection is used once, as in the code; the model follows the        *)
(* finitely many Conns of one session.  Both forwarders                    *)
(* (cooper/internal/app/cooper.go, wireChannels) hold one element while    *)
(* they wait for room, so a forwarded channel is a queue of one place more *)
(* than its buffer.                                                        *)
(***************************************************************************)
EXTENDS Naturals, Sequences, FiniteSets

CONSTANTS Conns,          \* the requests of the helpers
          RequestCap,     \* places of requestCh (256)
          DecisionCap,    \* places of decisionIn (256)
          AclFwdCap,      \* places of aclFwd (256)
          DecisionFwdCap, \* places of decisionFwd (1024)
          Keys            \* the keys the user presses in the proxy monitor

ASSUME CapAssumption == /\ RequestCap \in Nat \ {0} /\ DecisionCap \in Nat \ {0}
                        /\ AclFwdCap \in Nat /\ DecisionFwdCap \in Nat
ASSUME KeysAssumption == Keys \subseteq {"a", "d", "A"}

VARIABLES
  pc,           \* where the handler of a connection is
  expired,      \* the Deadline of its PendingRequest is over
  decision,     \* the atomic of its PendingRequest
  verdict,      \* what waitForDecision returned, "pending" before
  reply,        \* what the handler wrote
  answer,       \* what the helper printed for Squid
  pending,      \* the keys of the pending map
  requestCh, aclFwd,
  decisionIn, buf, decisionFwd,
  allowed, blocked,  \* history of the listener
  stop,         \* "running", "locking" (Lock called, waiting), "stopped"
  exited,       \* the queue goroutines that are done
  shown,        \* what the proxy monitor lists
  seen,         \* what the history tabs list
  clicked,      \* the user's decision that reached a still undecided request
  quitting,     \* every message goes to the shutdown screen
  alive         \* cooper up still runs

conn == <<pc, expired, decision, verdict, reply, answer, clicked>>
queues == <<requestCh, aclFwd, decisionIn, buf, decisionFwd>>
tui == <<shown, seen, quitting>>
history == <<allowed, blocked>>
vars == <<pc, expired, decision, verdict, reply, answer, clicked, pending,
          requestCh, aclFwd, decisionIn, buf, decisionFwd, allowed, blocked,
          stop, exited, shown, seen, quitting, alive>>

Phases == {"off", "connected", "stored", "sending", "polling", "checking",
           "decided", "recorded", "emitting", "answering", "closed"}
Decisions == {"pending", "allow", "deny", "timeout"}
Goroutines == {"requests", "buffer", "decisions"}

Init ==
  /\ pc = [c \in Conns |-> "off"]
  /\ expired = [c \in Conns |-> FALSE]
  /\ decision = [c \in Conns |-> "pending"]
  /\ verdict = [c \in Conns |-> "pending"]
  /\ reply = [c \in Conns |-> "none"]
  /\ answer = [c \in Conns |-> "none"]
  /\ clicked = [c \in Conns |-> "none"]
  /\ pending = {}
  /\ requestCh = << >> /\ aclFwd = << >>
  /\ decisionIn = << >> /\ buf = << >> /\ decisionFwd = << >>
  /\ allowed = {} /\ blocked = {}
  /\ stop = "running" /\ exited = {}
  /\ shown = {} /\ seen = {} /\ quitting = FALSE
  /\ alive = TRUE

(* RWMutex: a waiting writer keeps new readers out; the goroutines that     *)
(* hold the read side are the ones about to send.                           *)
RLockFree == stop # "locking"
Readers == {c \in Conns : pc[c] \in {"sending", "emitting"}}

Goto(c, p) == pc' = [pc EXCEPT ![c] = p]
WriteReply(c, r) == Goto(c, "closed") /\ reply' = [reply EXCEPT ![c] = r]

-----------------------------------------------------------------------------
(* processHelperRequest *)

Dial(c) ==
  /\ stop = "running" /\ pc[c] = "off"
  /\ Goto(c, "connected")
  /\ UNCHANGED <<expired, decision, verdict, reply, answer, clicked, pending,
                 queues, history, stop, exited, tui, alive>>

(* The socket is missing or nobody accepts. *)
DialFails(c) ==
  /\ stop # "running" /\ pc[c] = "off"
  /\ Goto(c, "closed")
  /\ answer' = [answer EXCEPT ![c] = "ERR"]
  /\ UNCHANGED <<expired, decision, verdict, reply, clicked, pending, queues,
                 history, stop, exited, tui, alive>>

(* Mutant: a reply that never came counts as approval. *)
HelperReadsOpen(c) ==
  /\ pc[c] # "off" /\ answer[c] = "none"
  /\ pc[c] = "closed"
  /\ answer' = [answer EXCEPT ![c] = IF reply[c] = "ERR" THEN "ERR" ELSE "OK"]
  /\ UNCHANGED <<pc, expired, decision, verdict, reply, clicked, pending, queues,
                 history, stop, exited, tui, alive>>

(* Only the reply OK is an approval; end of file, once the process is gone, *)
(* is not.                                                                  *)
HelperReads(c) ==
  /\ pc[c] # "off" /\ answer[c] = "none"
  /\ pc[c] = "closed"
  /\ answer' = [answer EXCEPT ![c] = IF reply[c] = "OK" THEN "OK" ELSE "ERR"]
  /\ UNCHANGED <<pc, expired, decision, verdict, reply, clicked, pending, queues,
                 history, stop, exited, tui, alive>>

(* DefaultHelperReadTimeout is longer than any approval timeout. *)
HelperTimesOut(c) ==
  /\ pc[c] # "off" /\ expired[c] /\ answer[c] = "none"
  /\ answer' = [answer EXCEPT ![c] = "ERR"]
  /\ UNCHANGED <<pc, expired, decision, verdict, reply, clicked, pending, queues,
                 history, stop, exited, tui, alive>>

-----------------------------------------------------------------------------
(* handleConnection *)

(* The read fails or the line is malformed. *)
BadRequest(c) ==
  /\ pc[c] = "connected"
  /\ WriteReply(c, "ERR")
  /\ UNCHANGED <<expired, decision, verdict, answer, clicked, pending, queues,
                 history, stop, exited, tui, alive>>

StorePending(c) ==
  /\ pc[c] = "connected"
  /\ pending' = pending \cup {c}
  /\ Goto(c, "stored")
  /\ UNCHANGED <<expired, decision, verdict, reply, answer, clicked, queues,
                 history, stop, exited, tui, alive>>

DeadlinePasses(c) ==
  /\ pc[c] \notin {"off", "connected", "closed"} /\ ~expired[c]
  /\ expired' = [expired EXCEPT ![c] = TRUE]
  /\ UNCHANGED <<pc, decision, verdict, reply, answer, clicked, pending, queues,
                 history, stop, exited, tui, alive>>

(* sendMu is read-locked; a stopped listener answers ERR and leaves the     *)
(* entry in pending.                                                        *)
LockToSend(c) ==
  /\ pc[c] = "stored" /\ RLockFree
  /\ \/ stop = "stopped" /\ WriteReply(c, "ERR")
     \/ stop = "running" /\ Goto(c, "sending") /\ UNCHANGED reply
  /\ UNCHANGED <<expired, decision, verdict, answer, clicked, pending, queues,
                 history, stop, exited, tui, alive>>

(* Mutant: a non-blocking send that drops the request when the TUI is slow. *)
SendOrDrop(c) ==
  /\ pc[c] = "sending"
  /\ requestCh' = IF Len(requestCh) < RequestCap THEN Append(requestCh, c) ELSE requestCh
  /\ Goto(c, "polling")
  /\ UNCHANGED <<expired, decision, verdict, reply, answer, clicked, pending,
                 aclFwd, decisionIn, buf, decisionFwd, history, stop, exited, tui, alive>>

(* The send blocks, with sendMu held, while requestCh is full. *)
SendRequest(c) ==
  /\ pc[c] = "sending" /\ Len(requestCh) < RequestCap
  /\ requestCh' = Append(requestCh, c)
  /\ Goto(c, "polling")
  /\ UNCHANGED <<expired, decision, verdict, reply, answer, clicked, pending,
                 aclFwd, decisionIn, buf, decisionFwd, history, stop, exited, tui, alive>>

(* waitForDecision: one look at the atomic ... *)
PollDecision(c) ==
  /\ pc[c] = "polling"
  /\ verdict' = [verdict EXCEPT ![c] = decision[c]]
  /\ Goto(c, IF decision[c] = "pending" THEN "checking" ELSE "decided")
  /\ UNCHANGED <<expired, decision, reply, answer, clicked, pending, queues,
                 history, stop, exited, tui, alive>>

(* Mutants: the clock is never looked at; an overdue request is let through. *)
CheckNothing(c) ==
  /\ pc[c] = "checking"
  /\ Goto(c, "polling")
  /\ UNCHANGED <<expired, decision, verdict, reply, answer, clicked, pending, queues,
                 history, stop, exited, tui, alive>>
CheckDeadlineOpen(c) ==
  /\ pc[c] = "checking"
  /\ \/ /\ expired[c]
        /\ decision' = [decision EXCEPT ![c] = "allow"]
        /\ verdict' = [verdict EXCEPT ![c] = "allow"]
        /\ Goto(c, "decided")
     \/ ~expired[c] /\ Goto(c, "polling") /\ UNCHANGED <<decision, verdict>>
  /\ UNCHANGED <<expired, reply, answer, clicked, pending, queues, history,
                 stop, exited, tui, alive>>

(* ... then one at the clock; the store of Timeout does not look again. *)
CheckDeadline(c) ==
  /\ pc[c] = "checking"
  /\ \/ /\ expired[c]
        /\ decision' = [decision EXCEPT ![c] = "timeout"]
        /\ verdict' = [verdict EXCEPT ![c] = "timeout"]
        /\ Goto(c, "decided")
     \/ ~expired[c] /\ Goto(c, "polling") /\ UNCHANGED <<decision, verdict>>
  /\ UNCHANGED <<expired, reply, answer, clicked, pending, queues, history,
                 stop, exited, tui, alive>>

(* Mutant: everything but a denial is history of the allowed. *)
RecordLax(c) ==
  /\ pc[c] = "decided"
  /\ IF verdict[c] # "deny"
     THEN allowed' = allowed \cup {c} /\ UNCHANGED blocked
     ELSE blocked' = blocked \cup {c} /\ UNCHANGED allowed
  /\ Goto(c, "recorded")
  /\ UNCHANGED <<expired, decision, verdict, reply, answer, clicked, pending,
                 queues, stop, exited, tui, alive>>

recordHistory(c) ==
  /\ pc[c] = "decided"
  /\ IF verdict[c] = "allow"
     THEN allowed' = allowed \cup {c} /\ UNCHANGED blocked
     ELSE blocked' = blocked \cup {c} /\ UNCHANGED allowed
  /\ Goto(c, "recorded")
  /\ UNCHANGED <<expired, decision, verdict, reply, answer, clicked, pending,
                 queues, stop, exited, tui, alive>>

(* A stopped listener skips the event. *)
LockToEmit(c) ==
  /\ pc[c] = "recorded" /\ RLockFree
  /\ Goto(c, IF stop = "stopped" THEN "answering" ELSE "emitting")
  /\ UNCHANGED <<expired, decision, verdict, reply, answer, clicked, pending,
                 queues, history, stop, exited, tui, alive>>

(* Mutant: the queue never blocks its producer. *)
EmitUnbounded(c) ==
  /\ pc[c] = "emitting"
  /\ decisionIn' = Append(decisionIn, c)
  /\ Goto(c, "answering")
  /\ UNCHANGED <<expired, decision, verdict, reply, answer, clicked, pending,
                 requestCh, aclFwd, buf, decisionFwd, history, stop, exited, tui, alive>>

EmitDecision(c) ==
  /\ pc[c] = "emitting" /\ Len(decisionIn) < DecisionCap
  /\ decisionIn' = Append(decisionIn, c)
  /\ Goto(c, "answering")
  /\ UNCHANGED <<expired, decision, verdict, reply, answer, clicked, pending,
                 requestCh, aclFwd, buf, decisionFwd, history, stop, exited, tui, alive>>

(* Mutant: the answer is taken from the atomic again. *)
WriteAnswerRereads(c) ==
  /\ pc[c] = "answering"
  /\ pending' = pending \ {c}
  /\ verdict' = [verdict EXCEPT ![c] = decision[c]]
  /\ WriteReply(c, IF decision[c] = "allow" THEN "OK" ELSE "ERR")
  /\ UNCHANGED <<expired, decision, answer, clicked, queues, history,
                 stop, exited, tui, alive>>

WriteAnswer(c) ==
  /\ pc[c] = "answering"
  /\ pending' = pending \ {c}
  /\ WriteReply(c, IF verdict[c] = "allow" THEN "OK" ELSE "ERR")
  /\ UNCHANGED <<expired, decision, verdict, answer, clicked, queues, history,
                 stop, exited, tui, alive>>

-----------------------------------------------------------------------------
(* Stop: close the listener, ask for the write lock ... *)
StopListening ==
  /\ stop = "running" /\ quitting
  /\ stop' = "locking"
  /\ UNCHANGED <<conn, pending, queues, history, exited, tui, alive>>

(* Mutants: Stop closes the channels without the lock; or it also waits    *)
(* until the requests it queued are read.                                  *)
CloseUnlocked ==
  /\ stop = "locking"
  /\ stop' = "stopped"
  /\ UNCHANGED <<conn, pending, queues, history, exited, tui, alive>>
CloseAfterDrain ==
  /\ stop = "locking" /\ Readers = {} /\ requestCh \o aclFwd = << >>
  /\ stop' = "stopped"
  /\ UNCHANGED <<conn, pending, queues, history, exited, tui, alive>>

(* ... and, when no sender holds the read side, close both channels. *)
CloseChannels ==
  /\ stop = "locking" /\ Readers = {}
  /\ stop' = "stopped"
  /\ UNCHANGED <<conn, pending, queues, history, exited, tui, alive>>

-----------------------------------------------------------------------------
(* The queue goroutines *)

ForwardRequest ==
  /\ requestCh # << >> /\ Len(aclFwd) <= AclFwdCap
  /\ aclFwd' = Append(aclFwd, Head(requestCh))
  /\ requestCh' = Tail(requestCh)
  /\ UNCHANGED <<conn, pending, decisionIn, buf, decisionFwd, history, stop,
                 exited, tui, alive>>

(* Mutant: the buffer overwrites what it has not delivered. *)
BufferLatest ==
  /\ decisionIn # << >>
  /\ buf' = <<Head(decisionIn)>>
  /\ decisionIn' = Tail(decisionIn)
  /\ UNCHANGED <<conn, pending, requestCh, aclFwd, decisionFwd, history, stop,
                 exited, tui, alive>>

BufferDecision ==
  /\ decisionIn # << >>
  /\ buf' = Append(buf, Head(decisionIn))
  /\ decisionIn' = Tail(decisionIn)
  /\ UNCHANGED <<conn, pending, requestCh, aclFwd, decisionFwd, history, stop,
                 exited, tui, alive>>

(* decisionCh has no buffer: the send meets the forwarder's receive. *)
ForwardDecision ==
  /\ buf # << >> /\ Len(decisionFwd) <= DecisionFwdCap
  /\ decisionFwd' = Append(decisionFwd, Head(buf))
  /\ buf' = Tail(buf)
  /\ UNCHANGED <<conn, pending, requestCh, aclFwd, decisionIn, history, stop,
                 exited, tui, alive>>

(* Mutants: a forwarder ends only when the TUI has read everything; the     *)
(* buffer goroutine does not drain its slice.                               *)
EndsWhenRead(g) ==
  /\ g \notin exited
  /\ CASE g = "requests"  -> stop = "stopped" /\ requestCh = << >> /\ aclFwd = << >>
       [] g = "buffer"    -> stop = "stopped" /\ decisionIn = << >> /\ buf = << >>
       [] g = "decisions" -> "buffer" \in exited /\ decisionFwd = << >>
  /\ exited' = exited \cup {g}
  /\ UNCHANGED <<conn, pending, queues, history, stop, tui, alive>>
EndsUndrained(g) ==
  /\ g \notin exited
  /\ CASE g = "requests"  -> stop = "stopped" /\ requestCh = << >> /\ Len(aclFwd) <= AclFwdCap
       [] g = "buffer"    -> stop = "stopped" /\ decisionIn = << >>
       [] g = "decisions" -> "buffer" \in exited /\ Len(decisionFwd) <= DecisionFwdCap
  /\ exited' = exited \cup {g}
  /\ UNCHANGED <<conn, pending, queues, history, stop, tui, alive>>

(* A goroutine ends when its input is closed and drained and its hand is    *)
(* empty; its output is closed with it.                                     *)
Ends(g) ==
  /\ g \notin exited
  /\ CASE g = "requests"  -> stop = "stopped" /\ requestCh = << >> /\ Len(aclFwd) <= AclFwdCap
       [] g = "buffer"    -> stop = "stopped" /\ decisionIn = << >> /\ buf = << >>
       [] g = "decisions" -> "buffer" \in exited /\ Len(decisionFwd) <= DecisionFwdCap
  /\ exited' = exited \cup {g}
  /\ UNCHANGED <<conn, pending, queues, history, stop, tui, alive>>

-----------------------------------------------------------------------------
(* The TUI: one goroutine, one message at a time *)

ShowRequest ==
  /\ ~quitting /\ aclFwd # << >>
  /\ shown' = shown \cup {Head(aclFwd)}
  /\ aclFwd' = Tail(aclFwd)
  /\ UNCHANGED <<conn, pending, requestCh, decisionIn, buf, decisionFwd, history,
                 stop, exited, seen, quitting, alive>>

ShowDecision ==
  /\ ~quitting /\ decisionFwd # << >>
  /\ seen' = seen \cup {Head(decisionFwd)}
  /\ decisionFwd' = Tail(decisionFwd)
  /\ UNCHANGED <<conn, pending, requestCh, aclFwd, decisionIn, buf, history,
                 stop, exited, shown, quitting, alive>>

(* Approve and Deny store their decision whatever the atomic holds. *)
Decide(chosen, d) ==
  /\ decision' = [c \in Conns |-> IF c \in chosen \cap pending THEN d ELSE decision[c]]
  /\ clicked' = [c \in Conns |->
       IF c \in chosen \cap pending /\ decision[c] = "pending" THEN d ELSE clicked[c]]
  /\ shown' = shown \ chosen
  /\ UNCHANGED <<pc, expired, verdict, reply, answer, pending, queues, history,
                 stop, exited, seen, quitting, alive>>

ApproveKey(c) == "a" \in Keys /\ ~quitting /\ c \in shown /\ Decide({c}, "allow")
DenyKey(c) == "d" \in Keys /\ ~quitting /\ c \in shown /\ Decide({c}, "deny")
ApproveAllKey == "A" \in Keys /\ ~quitting /\ shown # {} /\ Decide(shown, "allow")

(* The TUI's deadline of a request starts when it is shown, so it is over   *)
(* after the listener's (the timeout setting is constant here).             *)
pruneExpired ==
  /\ ~quitting
  /\ \E old \in SUBSET {c \in shown : expired[c]} : old # {} /\ shown' = shown \ old
  /\ UNCHANGED <<conn, pending, queues, history, stop, exited, seen, quitting, alive>>

(* The exit is confirmed: updateShutdown takes all messages and re-arms no  *)
(* channel.                                                                 *)
ConfirmExit ==
  /\ ~quitting
  /\ quitting' = TRUE
  /\ UNCHANGED <<conn, pending, queues, history, stop, exited, shown, seen, alive>>

(* The process ends, after its shutdown or in the middle of anything: its   *)
(* memory is gone, its connections are closed.                              *)
ProcessEnds ==
  /\ alive
  /\ alive' = FALSE
  /\ pc' = [c \in Conns |-> IF pc[c] = "off" THEN "off" ELSE "closed"]
  /\ expired' = [c \in Conns |-> FALSE]
  /\ decision' = [c \in Conns |-> "pending"] /\ verdict' = decision'
  /\ pending' = {} /\ allowed' = {} /\ blocked' = {}
  /\ requestCh' = << >> /\ aclFwd' = << >>
  /\ decisionIn' = << >> /\ buf' = << >> /\ decisionFwd' = << >>
  /\ stop' = "stopped" /\ exited' = Goroutines
  /\ shown' = {} /\ seen' = {} /\ quitting' = TRUE
  /\ UNCHANGED <<reply, answer, clicked>>

-----------------------------------------------------------------------------
HandlerStep(c) ==
  \/ BadRequest(c) \/ StorePending(c) \/ LockToSend(c) \/ SendRequest(c)
  \/ PollDecision(c) \/ CheckDeadline(c) \/ recordHistory(c)
  \/ LockToEmit(c) \/ EmitDecision(c) \/ WriteAnswer(c)
StopStep == CloseChannels
QueueStep == \/ ForwardRequest \/ BufferDecision \/ ForwardDecision
             \/ \E g \in Goroutines : Ends(g)
ScreenStep == ShowRequest \/ ShowDecision
UserStep == \/ \E c \in Conns : ApproveKey(c) \/ DenyKey(c)
            \/ ApproveAllKey \/ pruneExpired \/ ConfirmExit

Next ==
  \/ \E c \in Conns : Dial(c) \/ DialFails(c) \/ HelperReads(c) \/ HelperTimesOut(c)
  \/ alive /\ \/ \E c \in Conns : HandlerStep(c) \/ DeadlinePasses(c)
              \/ StopListening \/ StopStep \/ QueueStep \/ ScreenStep \/ UserStep
  \/ ProcessEnds

Spec == Init /\ [][Next]_vars

(* Goroutines are scheduled, the TUI's event loop runs, timers fire and the *)
(* helper reads what it is sent.  Nobody has to click, quit or stop.  The   *)
(* queue goroutines do finitely much for finitely many Conns, so one        *)
(* fairness condition serves them all.                                      *)
Fairness ==
  /\ \A c \in Conns : /\ WF_vars(alive /\ HandlerStep(c))
                      /\ WF_vars(alive /\ DeadlinePasses(c))
                      /\ WF_vars(HelperReads(c))
  /\ WF_vars(alive /\ StopStep)
  /\ WF_vars(alive /\ QueueStep)
  /\ WF_vars(alive /\ ScreenStep)

FairSpec == Spec /\ Fairness

-----------------------------------------------------------------------------
(* Properties *)

TypeOK ==
  /\ pc \in [Conns -> Phases]
  /\ expired \in [Conns -> BOOLEAN]
  /\ decision \in [Conns -> Decisions]
  /\ verdict \in [Conns -> Decisions]
  /\ reply \in [Conns -> {"none", "OK", "ERR"}]
  /\ answer \in [Conns -> {"none", "OK", "ERR"}]
  /\ clicked \in [Conns -> {"none", "allow", "deny"}]
  /\ pending \subseteq Conns
  /\ requestCh \in Seq(Conns) /\ Len(requestCh) <= RequestCap
  /\ aclFwd \in Seq(Conns) /\ Len(aclFwd) <= AclFwdCap + 1
  /\ decisionIn \in Seq(Conns) /\ Len(decisionIn) <= DecisionCap
  /\ buf \in Seq(Conns)
  /\ decisionFwd \in Seq(Conns) /\ Len(decisionFwd) <= DecisionFwdCap + 1
  /\ allowed \subseteq Conns /\ blocked \subseteq Conns
  /\ stop \in {"running", "locking", "stopped"}
  /\ exited \subseteq Goroutines
  /\ shown \subseteq Conns /\ seen \subseteq Conns
  /\ quitting \in BOOLEAN /\ alive \in BOOLEAN

(* "Fail-closed" (acl.go, helper.go): Squid is told OK only for a request   *)
(* that the user approved while it was undecided; a denial, a timeout, a    *)
(* stop, an error and a crash all end in ERR.                               *)
FailClosed == \A c \in Conns : answer[c] = "OK" => clicked[c] = "allow"

(* No goroutine is about to send when Stop closes the channels; a send on a *)
(* closed channel would panic and end cooper up with all its barrels.       *)
NoSendOnClosed == stop = "stopped" => Readers = {}

Count(q, c) == Cardinality({i \in DOMAIN q : q[i] = c})

(* TestBackpressureSlowConsumer's rule: a request that can still be decided *)
(* is in front of the user or on its way there, so a slow TUI never turns   *)
(* into a denial nobody saw.                                                *)
NotSilentlyDenied ==
  \A c \in Conns :
    pc[c] \in {"polling", "checking"} /\ decision[c] = "pending" /\ ~expired[c] =>
      Count(requestCh, c) + Count(aclFwd, c) + (IF c \in shown THEN 1 ELSE 0) = 1

Places(c) == Count(decisionIn, c) + Count(buf, c) + Count(decisionFwd, c)
               + (IF c \in seen THEN 1 ELSE 0)

(* The unbounded buffer "never drops": the outcome of a request is in the   *)
(* pipeline to the history tabs exactly once; only a listener already       *)
(* stopped may leave it out.                                                *)
OutcomeInPipeline ==
  \A c \in Conns :
    /\ Places(c) <= 1
    /\ Places(c) = 1 => pc[c] \in {"answering", "closed"} /\ verdict[c] # "pending"
    /\ pc[c] \in {"answering", "closed"} /\ verdict[c] # "pending" /\ Places(c) = 0
         => stop = "stopped"

(* The queue goroutines leave nothing behind when they end. *)
DrainedBeforeExit ==
  /\ "requests" \in exited => requestCh = << >>
  /\ "buffer" \in exited => decisionIn = << >> /\ buf = << >>

(* The listener's history tells what the helper was told: OK only for what  *)
(* is listed as allowed, and no request is listed on both sides.            *)
HistoryAgrees ==
  /\ allowed \cap blocked = {}
  /\ \A c \in Conns : /\ c \in allowed => clicked[c] = "allow"
                      /\ alive /\ reply[c] = "OK" => c \in allowed

(* acl.go 394: "If the deadline passes with no decision, it sets the        *)
(* decision to Timeout": a request that timed out had no decision before.   *)
TimeoutMeansUndecided ==
  \A c \in Conns : verdict[c] = "timeout" => clicked[c] = "none"

(* A decided request never changes its mind: later clicks of the TUI and a  *)
(* second look at the clock do not reach the helper.                        *)
VerdictIsFinal ==
  [][\A c \in Conns : alive' /\ verdict[c] # "pending" => verdict'[c] = verdict[c]]_vars

(* Squid gets an answer for every request, whatever the user does and       *)
(* whenever the process ends: the helper "never hangs indefinitely".        *)
EveryRequestAnswered == <>[](\A c \in Conns : pc[c] # "off" => answer[c] # "none")

(* Stop returns, although it waits for senders that may be blocked on a     *)
(* full queue, and the goroutines that range over the queues then end.      *)
StopReturns == <>[](stop # "locking" \/ ~alive)
QueuesEnd == <>[](stop = "stopped" => exited = Goroutines \/ ~alive)

(* No request is refused without its place on the screen, and each outcome   *)
(* reaches the history once, also when Stop overtakes it (waitForDecision).  *)
OutcomesArrive == NotSilentlyDenied /\ OutcomeInPipeline /\ DrainedBeforeExit

(* Every helper is answered, Stop returns, and the queue goroutines end.     *)
ListenerProgress == EveryRequestAnswered /\ StopReturns /\ QueuesEnd
=============================================================================
