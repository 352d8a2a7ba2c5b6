------------------------- MODULE ACLListenerProofs -------------------------
(***************************************************************************)
(* Theorems about ACLListener for any set of requests and any capacities.  *)
(* The inductive invariant is IInv.  Three facts carry it: a request is    *)
(* offered to the user in one place at a time (so it is clicked at most    *)
(* once), an undecided handler's atomic holds only what that click stored, *)
(* and the history is written once, from the verdict.                      *)
(***************************************************************************)
EXTENDS ACLListener, SeqFacts, TLAPS

(* The handler has not queued its request yet. *)
Unsent == {"off", "connected", "stored", "sending"}
Undecided == Unsent \cup {"polling", "checking"}

(* A request is in front of the user or on its way, in one place; neither   *)
(* before the handler queued it nor after it was clicked.                   *)
OfferedOnce ==
  /\ Distinct(requestCh) /\ Distinct(aclFwd)
  /\ \A c \in Conns :
       /\ Occurs(requestCh, c) => ~Occurs(aclFwd, c) /\ c \notin shown
       /\ Occurs(aclFwd, c) => c \notin shown
       /\ Occurs(requestCh, c) \/ Occurs(aclFwd, c) \/ c \in shown =>
            pc[c] \notin Unsent /\ clicked[c] = "none"
       /\ pc[c] \in Unsent => clicked[c] = "none"

(* The verdict is what the atomic held when the handler left the poll. *)
VerdictFollows ==
  \A c \in Conns :
    /\ pc[c] \in Undecided => verdict[c] = "pending" /\ decision[c] # "timeout"
    /\ pc[c] \in Undecided /\ decision[c] = "pending" => clicked[c] = "none"
    /\ pc[c] \in Undecided /\ decision[c] # "pending" => clicked[c] = decision[c]
    /\ pc[c] \in Unsent => decision[c] = "pending"
    /\ verdict[c] = "allow" => clicked[c] = "allow"
    /\ reply[c] = "OK" => clicked[c] = "allow" /\ pc[c] = "closed"
    /\ answer[c] = "OK" => reply[c] = "OK"

(* The history has the request on one side, once it is recorded. *)
RecordedOnce ==
  \A c \in Conns :
    /\ pc[c] \in Undecided \cup {"decided"} => c \notin allowed \cup blocked
    /\ c \in allowed => c \notin blocked /\ clicked[c] = "allow"
    /\ alive /\ verdict[c] = "allow" /\ pc[c] \in {"recorded", "emitting", "answering"}
         => c \in allowed
    /\ alive /\ reply[c] = "OK" => c \in allowed

IInv == TypeOK /\ NoSendOnClosed /\ OfferedOnce /\ VerdictFollows /\ RecordedOnce

-----------------------------------------------------------------------------
LEMMA InitInv == Init => IInv
<1> SUFFICES ASSUME Init PROVE IInv
  OBVIOUS
<1> USE DEF Init
<1>1. TypeOK
  <2>1. expired \in [Conns -> BOOLEAN]
    OBVIOUS
  <2>2. quitting \in BOOLEAN /\ alive \in BOOLEAN
    OBVIOUS
  <2>3. << >> \in Seq(Conns) /\ Len(<< >>) = 0
    BY EmptySeq
  <2> QED BY <2>1, <2>2, <2>3, CapAssumption DEF TypeOK, Phases, Decisions, Goroutines
<1>2. NoSendOnClosed
  BY DEF NoSendOnClosed
<1>3. OfferedOnce
  BY DEF OfferedOnce, Unsent, Distinct, Occurs
<1>4. VerdictFollows /\ RecordedOnce
  BY DEF VerdictFollows, RecordedOnce, Undecided, Unsent
<1> QED BY <1>1, <1>2, <1>3, <1>4 DEF IInv

-----------------------------------------------------------------------------
(* The steps of the helper and of the handler that only look at the state   *)
(* of their own request.                                                    *)
LEMMA OwnStepInv ==
  ASSUME IInv, NEW c \in Conns,
         \/ Dial(c) \/ DialFails(c) \/ HelperReads(c) \/ HelperTimesOut(c)
         \/ BadRequest(c) \/ StorePending(c) \/ DeadlinePasses(c)
         \/ PollDecision(c) \/ recordHistory(c) \/ LockToEmit(c) \/ WriteAnswer(c)
  PROVE  IInv'
<1> USE DEF IInv, TypeOK, Phases, Decisions, NoSendOnClosed, Readers, OfferedOnce,
            VerdictFollows, RecordedOnce, Undecided, Unsent, conn, queues, tui,
            history, Goto, WriteReply
<1>1. CASE Dial(c)
  BY <1>1 DEF Dial
<1>2. CASE DialFails(c)
  BY <1>2 DEF DialFails
<1>3. CASE HelperReads(c)
  BY <1>3 DEF HelperReads
<1>4. CASE HelperTimesOut(c)
  BY <1>4 DEF HelperTimesOut
<1>5. CASE BadRequest(c)
  BY <1>5 DEF BadRequest
<1>6. CASE StorePending(c)
  BY <1>6 DEF StorePending
<1>7. CASE DeadlinePasses(c)
  BY <1>7 DEF DeadlinePasses
<1>8. CASE PollDecision(c)
  BY <1>8 DEF PollDecision
<1>9. CASE recordHistory(c)
  BY <1>9 DEF recordHistory
<1>10. CASE LockToEmit(c)
  BY <1>10 DEF LockToEmit, RLockFree
<1>11. CASE WriteAnswer(c)
  BY <1>11 DEF WriteAnswer
<1> QED BY <1>1, <1>2, <1>3, <1>4, <1>5, <1>6, <1>7, <1>8, <1>9, <1>10, <1>11

(* A stopped listener answers ERR; a running one leaves the handler with    *)
(* the read lock, so NoSendOnClosed needs stop = "running".                 *)
LEMMA LockToSendInv ==
  ASSUME IInv, NEW c \in Conns, LockToSend(c)
  PROVE  IInv'
<1> USE DEF IInv, LockToSend, Goto, WriteReply, queues, tui, history
<1>1. TypeOK'
  BY DEF TypeOK, Phases
<1>2. NoSendOnClosed'
  BY DEF NoSendOnClosed, Readers, TypeOK
<1>3. OfferedOnce'
  BY DEF OfferedOnce, Unsent, TypeOK
<1>4. VerdictFollows'
  BY DEF VerdictFollows, Undecided, Unsent, TypeOK
<1>5. RecordedOnce'
  BY DEF RecordedOnce, Undecided, Unsent, TypeOK
<1> QED BY <1>1, <1>2, <1>3, <1>4, <1>5

(* The timeout overwrites the atomic and is the verdict at once. *)
LEMMA CheckDeadlineInv ==
  ASSUME IInv, NEW c \in Conns, CheckDeadline(c)
  PROVE  IInv'
<1> USE DEF IInv, CheckDeadline, Goto, queues, tui, history
<1>1. TypeOK'
  BY DEF TypeOK, Phases, Decisions
<1>2. NoSendOnClosed'
  BY DEF NoSendOnClosed, Readers, TypeOK
<1>3. OfferedOnce'
  BY DEF OfferedOnce, Unsent, TypeOK
<1>4. VerdictFollows'
  BY DEF VerdictFollows, Undecided, Unsent, TypeOK
<1>5. RecordedOnce'
  BY DEF RecordedOnce, VerdictFollows, Undecided, Unsent, TypeOK
<1> QED BY <1>1, <1>2, <1>3, <1>4, <1>5

-----------------------------------------------------------------------------
(* The request enters the path to the user, where it has never been. *)
LEMMA SendRequestInv ==
  ASSUME IInv, NEW c \in Conns, SendRequest(c)
  PROVE  IInv'
<1> USE DEF IInv, SendRequest, Goto, tui, history
<1>1. /\ pc[c] = "sending" /\ Distinct(requestCh)
      /\ ~Occurs(requestCh, c) /\ ~Occurs(aclFwd, c) /\ c \notin shown
  BY DEF OfferedOnce, Unsent
<1>2. requestCh' \in Seq(Conns) /\ Len(requestCh') <= RequestCap
  BY CapAssumption, SendType DEF TypeOK
<1>3. /\ Distinct(requestCh')
      /\ \A e : Occurs(requestCh', e) <=> Occurs(requestCh, e) \/ e = c
  BY <1>1, AppendFacts DEF TypeOK
<1>4. TypeOK'
  BY <1>2 DEF TypeOK, Phases
<1>5. OfferedOnce'
  BY <1>1, <1>3 DEF OfferedOnce, Unsent, TypeOK
<1>6. NoSendOnClosed'
  BY DEF NoSendOnClosed, Readers, TypeOK
<1>7. VerdictFollows' /\ RecordedOnce'
  BY DEF VerdictFollows, RecordedOnce, Undecided, Unsent, TypeOK
<1> QED BY <1>4, <1>5, <1>6, <1>7

(* It moves from one queue to the next. *)
LEMMA ForwardRequestInv ==
  ASSUME IInv, ForwardRequest
  PROVE  IInv'
<1> USE DEF IInv, ForwardRequest, conn, tui, history
<1> DEFINE c == Head(requestCh)
<1>1. /\ c \in Conns /\ requestCh' \in Seq(Conns) /\ Len(requestCh') <= RequestCap
      /\ Occurs(requestCh, c) /\ Distinct(requestCh')
      /\ \A e : Occurs(requestCh', e) <=> Occurs(requestCh, e) /\ e # c
  BY CapAssumption, ReceiveType, TailFacts DEF TypeOK, OfferedOnce
<1>2. aclFwd' \in Seq(Conns) /\ Len(aclFwd') <= AclFwdCap + 1
  <2>1. aclFwd \in Seq(Conns) /\ Len(aclFwd) \in Nat /\ Len(aclFwd) < AclFwdCap + 1
    BY CapAssumption, LenProperties DEF TypeOK
  <2> QED BY <1>1, <2>1, CapAssumption, SendType
<1>3. /\ Distinct(aclFwd')
      /\ \A e : Occurs(aclFwd', e) <=> Occurs(aclFwd, e) \/ e = c
  BY <1>1, AppendFacts DEF TypeOK, OfferedOnce
<1> HIDE DEF c
<1>4. TypeOK'
  BY <1>1, <1>2 DEF TypeOK
<1>5. OfferedOnce'
  BY <1>1, <1>3 DEF OfferedOnce, Unsent
<1>6. NoSendOnClosed' /\ VerdictFollows' /\ RecordedOnce'
  BY DEF NoSendOnClosed, Readers, VerdictFollows, RecordedOnce
<1> QED BY <1>4, <1>5, <1>6

(* The TUI lists it: it left the queue, and is on the screen only. *)
LEMMA ShowRequestInv ==
  ASSUME IInv, ShowRequest
  PROVE  IInv'
<1> USE DEF IInv, ShowRequest, conn, history
<1> DEFINE c == Head(aclFwd)
<1>1. /\ c \in Conns /\ aclFwd' \in Seq(Conns) /\ Len(aclFwd') <= AclFwdCap + 1
      /\ Occurs(aclFwd, c) /\ Distinct(aclFwd')
      /\ \A e : Occurs(aclFwd', e) <=> Occurs(aclFwd, e) /\ e # c
  BY CapAssumption, ReceiveType, TailFacts DEF TypeOK, OfferedOnce
<1>2. shown' = shown \cup {c}
  OBVIOUS
<1> HIDE DEF c
<1>3. TypeOK'
  BY <1>1, <1>2 DEF TypeOK
<1>4. OfferedOnce'
  BY <1>1, <1>2 DEF OfferedOnce, Unsent
<1>5. NoSendOnClosed' /\ VerdictFollows' /\ RecordedOnce'
  BY DEF NoSendOnClosed, Readers, VerdictFollows, RecordedOnce
<1> QED BY <1>3, <1>4, <1>5

-----------------------------------------------------------------------------
(* The outcomes on their way to the history tabs touch the types only. *)
LEMMA EmitDecisionInv ==
  ASSUME IInv, NEW c \in Conns, EmitDecision(c)
  PROVE  IInv'
<1> USE DEF IInv, EmitDecision, Goto, tui, history
<1>1. TypeOK'
  BY CapAssumption, SendType DEF TypeOK, Phases
<1>2. NoSendOnClosed' /\ OfferedOnce'
  BY DEF NoSendOnClosed, Readers, OfferedOnce, Unsent, TypeOK
<1>3. VerdictFollows' /\ RecordedOnce'
  BY DEF VerdictFollows, RecordedOnce, Undecided, Unsent, TypeOK
<1> QED BY <1>1, <1>2, <1>3

LEMMA OutcomeStepInv ==
  ASSUME IInv, BufferDecision \/ ForwardDecision \/ ShowDecision
  PROVE  IInv'
<1> USE DEF IInv, conn, history
<1>1. TypeOK'
  <2> USE CapAssumption DEF TypeOK, tui
  <2>1. CASE BufferDecision
    <3>1. decisionIn' \in Seq(Conns) /\ Len(decisionIn') <= DecisionCap /\ Head(decisionIn) \in Conns
      BY <2>1, ReceiveType DEF BufferDecision
    <3> QED BY <2>1, <3>1, AppendProperties DEF BufferDecision
  <2>2. CASE ForwardDecision
    <3>1. buf' \in Seq(Conns) /\ Head(buf) \in Conns
      BY <2>2, HeadTailProperties DEF ForwardDecision
    <3>2. Len(decisionFwd) \in Nat /\ Len(decisionFwd) < DecisionFwdCap + 1
      BY <2>2, LenProperties DEF ForwardDecision
    <3>3. decisionFwd' \in Seq(Conns) /\ Len(decisionFwd') <= DecisionFwdCap + 1
      BY <2>2, <3>1, <3>2, SendType DEF ForwardDecision
    <3> QED BY <2>2, <3>1, <3>3 DEF ForwardDecision
  <2>3. CASE ShowDecision
    <3>1. /\ decisionFwd' \in Seq(Conns) /\ Len(decisionFwd') <= DecisionFwdCap + 1
          /\ Head(decisionFwd) \in Conns
      BY <2>3, ReceiveType DEF ShowDecision
    <3> QED BY <2>3, <3>1 DEF ShowDecision
  <2> QED BY <2>1, <2>2, <2>3
<1>2. UNCHANGED <<pc, decision, verdict, reply, answer, clicked, requestCh, aclFwd,
                  allowed, blocked, stop, shown, alive>>
  BY DEF BufferDecision, ForwardDecision, ShowDecision, tui
<1>3. NoSendOnClosed' /\ OfferedOnce'
  BY <1>2 DEF NoSendOnClosed, Readers, OfferedOnce
<1>4. VerdictFollows' /\ RecordedOnce'
  BY <1>2 DEF VerdictFollows, RecordedOnce
<1> QED BY <1>1, <1>3, <1>4

-----------------------------------------------------------------------------
(* Stop, the ends of the goroutines and the user. *)
LEMMA ControlStepInv ==
  ASSUME IInv,
         \/ StopListening \/ CloseChannels \/ \E g \in Goroutines : Ends(g)
         \/ pruneExpired \/ ConfirmExit
  PROVE  IInv'
<1> USE DEF IInv, TypeOK, Goroutines, NoSendOnClosed, Readers, OfferedOnce,
            VerdictFollows, RecordedOnce, conn, queues, tui, history
<1>1. CASE StopListening
  BY <1>1 DEF StopListening
<1>2. CASE CloseChannels
  BY <1>2 DEF CloseChannels
<1>3. ASSUME NEW g \in Goroutines, Ends(g) PROVE IInv'
  BY <1>3 DEF Ends
<1>4. CASE pruneExpired
  BY <1>4 DEF pruneExpired
<1>5. CASE ConfirmExit
  BY <1>5 DEF ConfirmExit
<1> QED BY <1>1, <1>2, <1>3, <1>4, <1>5

(* A click: what is on the screen was not clicked before, so while the      *)
(* handler polls its atomic is still pending.                               *)
LEMMA DecideInv ==
  ASSUME IInv, NEW chosen \in SUBSET shown, NEW d \in {"allow", "deny"},
         Decide(chosen, d)
  PROVE  IInv'
<1> USE DEF IInv, Decide, queues, history
<1>1. TypeOK'
  BY DEF TypeOK, Decisions
<1>2. NoSendOnClosed' /\ OfferedOnce'
  BY DEF NoSendOnClosed, Readers, OfferedOnce, TypeOK
<1>3. \A c \in chosen \cap pending : /\ clicked[c] = "none" /\ pc[c] \notin Unsent
                                     /\ pc[c] \in Undecided => decision[c] = "pending"
  BY DEF OfferedOnce, VerdictFollows, TypeOK, Decisions
<1>4. VerdictFollows'
  BY <1>3 DEF VerdictFollows, TypeOK, Decisions, Undecided
<1>5. RecordedOnce'
  BY <1>3, <1>4 DEF RecordedOnce, VerdictFollows, TypeOK
<1> QED BY <1>1, <1>2, <1>4, <1>5

(* The process ends: nothing of it is left but what the helper was told. *)
LEMMA ProcessEndsInv ==
  ASSUME IInv, ProcessEnds
  PROVE  IInv'
<1> USE DEF IInv, ProcessEnds
<1>1. TypeOK'
  <2>1. expired' \in [Conns -> BOOLEAN]
    OBVIOUS
  <2>2. quitting' \in BOOLEAN /\ alive' \in BOOLEAN
    OBVIOUS
  <2>3. << >> \in Seq(Conns) /\ Len(<< >>) = 0
    BY EmptySeq
  <2> QED BY <2>1, <2>2, <2>3, CapAssumption DEF TypeOK, Phases, Decisions, Goroutines
<1>2. NoSendOnClosed'
  BY DEF NoSendOnClosed, Readers
<1>3. OfferedOnce'
  BY DEF OfferedOnce, Unsent, Distinct, Occurs
<1>4. VerdictFollows' /\ RecordedOnce'
  BY DEF VerdictFollows, RecordedOnce, Undecided, Unsent
<1> QED BY <1>1, <1>2, <1>3, <1>4

-----------------------------------------------------------------------------
LEMMA NextInv == IInv /\ [Next]_vars => IInv'
<1> SUFFICES ASSUME IInv, [Next]_vars PROVE IInv'
  OBVIOUS
<1>1. ASSUME NEW c \in Conns, Dial(c) \/ DialFails(c) \/ HelperReads(c) \/ HelperTimesOut(c)
      PROVE  IInv'
  BY <1>1, OwnStepInv
<1>2. ASSUME NEW c \in Conns, HandlerStep(c) \/ DeadlinePasses(c)
      PROVE  IInv'
  BY <1>2, OwnStepInv, LockToSendInv, SendRequestInv, CheckDeadlineInv, EmitDecisionInv
     DEF HandlerStep
<1>3. CASE StopListening \/ StopStep \/ QueueStep
  BY <1>3, ControlStepInv, ForwardRequestInv, OutcomeStepInv DEF StopStep, QueueStep
<1>4. CASE ScreenStep
  BY <1>4, ShowRequestInv, OutcomeStepInv DEF ScreenStep
<1>5. CASE UserStep
  <2>1. ASSUME NEW c \in Conns, ApproveKey(c) \/ DenyKey(c) PROVE IInv'
    BY <2>1, DecideInv DEF ApproveKey, DenyKey
  <2>2. CASE ApproveAllKey
    BY <2>2, DecideInv DEF ApproveAllKey
  <2> QED BY <1>5, <2>1, <2>2, ControlStepInv DEF UserStep
<1>6. CASE ProcessEnds
  BY <1>6, ProcessEndsInv
<1>7. CASE UNCHANGED vars
  BY <1>7 DEF vars, IInv, TypeOK, NoSendOnClosed, Readers, OfferedOnce,
              VerdictFollows, RecordedOnce
<1> QED BY <1>1, <1>2, <1>3, <1>4, <1>5, <1>6, <1>7 DEF Next

THEOREM Invariance == Spec => []IInv
BY InitInv, NextInv, PTL DEF Spec

-----------------------------------------------------------------------------
(* The types of the listener's and the TUI's state, with every channel      *)
(* within its capacity (acl.go, wireChannels).                              *)
THEOREM TypeCorrect == Spec => []TypeOK
<1>1. IInv => TypeOK
  BY DEF IInv
<1> QED BY <1>1, Invariance, PTL

(* No handler is about to send when Stop closes the channels (acl.go 210):  *)
(* a send on a closed channel cannot happen.                                *)
THEOREM StopIsSafe == Spec => []NoSendOnClosed
<1>1. IInv => NoSendOnClosed
  BY DEF IInv
<1> QED BY <1>1, Invariance, PTL

(* Squid is told OK only for a request the user approved while it was       *)
(* undecided (acl.go, helper.go), for any number of requests, any queue     *)
(* sizes and a crash at any point.                                          *)
THEOREM HelperFailsClosed == Spec => []FailClosed
<1>1. IInv => FailClosed
  BY DEF IInv, VerdictFollows, FailClosed
<1> QED BY <1>1, Invariance, PTL

(* The listener's history is what the helpers were told (recordHistory).    *)
THEOREM HistoryIsRight == Spec => []HistoryAgrees
<1>1. IInv => HistoryAgrees
  BY DEF IInv, RecordedOnce, HistoryAgrees, TypeOK
<1> QED BY <1>1, Invariance, PTL

(* The verdict of waitForDecision is read once: no later click or deadline  *)
(* changes it while the process lives.                                      *)
THEOREM VerdictStays == Spec => VerdictIsFinal
<1>1. ASSUME IInv, [Next]_vars
      PROVE  [\A c \in Conns : alive' /\ verdict[c] # "pending" => verdict'[c] = verdict[c]]_vars
  <2> SUFFICES ASSUME NEW c \in Conns, alive', verdict[c] # "pending", Next
               PROVE  verdict'[c] = verdict[c]
    BY <1>1 DEF vars
  <2>1. pc[c] \notin Undecided
    BY <1>1 DEF IInv, VerdictFollows
  <2>2. ASSUME NEW e \in Conns, PollDecision(e) \/ CheckDeadline(e)
        PROVE  verdict'[c] = verdict[c]
    BY <1>1, <2>1, <2>2 DEF PollDecision, CheckDeadline, Undecided, IInv, TypeOK
  <2>3. CASE ProcessEnds
    BY <2>3 DEF ProcessEnds
  <2>4. CASE UNCHANGED verdict
    BY <2>4
  <2> QED
    BY <2>2, <2>3, <2>4 DEF Next, HandlerStep, StopStep, QueueStep, ScreenStep, UserStep,
       Dial, DialFails, HelperReads, HelperTimesOut, BadRequest, StorePending, LockToSend,
       SendRequest, recordHistory, LockToEmit, EmitDecision, WriteAnswer, DeadlinePasses,
       StopListening, CloseChannels, ForwardRequest, BufferDecision, ForwardDecision, Ends,
       ShowRequest, ShowDecision, ApproveKey, DenyKey, ApproveAllKey, Decide, pruneExpired,
       ConfirmExit, Goto, WriteReply, conn
<1> QED BY <1>1, Invariance, PTL DEF Spec, VerdictIsFinal

-----------------------------------------------------------------------------
(***************************************************************************)
(* What is queued arrives.  OutcomesArrive follows from IInv and OInv: a    *)
(* request that waits for its decision is still known to the listener and   *)
(* on the way to the user, a decided handler has a verdict, its outcome is   *)
(* in one place of the pipeline, and what a goroutine leaves when it ends is *)
(* empty and stays so, because nobody sends any more.                       *)
(***************************************************************************)
Known == {"stored", "sending", "polling", "checking", "decided", "recorded", "emitting", "answering"}
Offered(c) == Occurs(requestCh, c) \/ Occurs(aclFwd, c) \/ c \in shown

OfferStays ==
  \A c \in Conns :
    /\ (pc[c] \in Known => c \in pending)
    /\ (pc[c] \in {"polling", "checking"} /\ decision[c] = "pending" /\ ~expired[c] => Offered(c))
DecidedKnows ==
  \A c \in Conns : pc[c] \in {"decided", "recorded", "emitting", "answering"} => verdict[c] # "pending"
EndsStopped ==
  /\ ("requests" \in exited => stop = "stopped" /\ requestCh = << >>)
  /\ ("buffer" \in exited => stop = "stopped" /\ decisionIn = << >> /\ buf = << >>)
OInv == OfferStays /\ DecidedKnows /\ EndsStopped /\ OutcomeInPipeline

LEMMA InitOutcomes == Init => OInv
<1> SUFFICES ASSUME Init PROVE OInv
  OBVIOUS
<1>1. \A c \in Conns : Places(c) = 0
  <2> SUFFICES ASSUME NEW c \in Conns PROVE Places(c) = 0
    OBVIOUS
  <2>1. Count(<< >>, c) = 0
    BY CopiesEmpty DEF Count, At
  <2>2. decisionIn = << >> /\ buf = << >> /\ decisionFwd = << >> /\ c \notin seen
    BY DEF Init
  <2> QED BY <2>1, <2>2 DEF Places
<1>2. \A c \in Conns : pc[c] = "off" /\ exited = {}
  BY DEF Init
<1> QED BY <1>1, <1>2 DEF OInv, OfferStays, DecidedKnows, EndsStopped, OutcomeInPipeline, Known, Init

LEMMA CountIsCopies ==
  ASSUME NEW q, NEW c
  PROVE  Count(q, c) = Cardinality(At(q, c))
BY DEF Count, At

(* The number of places is a natural number. *)
LEMMA PlacesNat ==
  ASSUME TypeOK, NEW c \in Conns
  PROVE  /\ Count(decisionIn, c) \in Nat /\ Count(buf, c) \in Nat /\ Count(decisionFwd, c) \in Nat
         /\ Places(c) \in Nat
<1>1. Count(decisionIn, c) \in Nat /\ Count(buf, c) \in Nat /\ Count(decisionFwd, c) \in Nat
  <2>1. decisionIn \in Seq(Conns) /\ buf \in Seq(Conns) /\ decisionFwd \in Seq(Conns)
    BY DEF TypeOK
  <2>2. \A q : q \in Seq(Conns) => Count(q, c) \in Nat
    BY CopiesNat DEF Count, At
  <2> QED BY <2>1, <2>2
<1> QED BY <1>1 DEF Places

-----------------------------------------------------------------------------
(* The way to the user. *)
LEMMA OfferStep ==
  ASSUME IInv, OfferStays, Next
  PROVE  OfferStays'
<1>t. TypeOK
  BY DEF IInv
<1> USE DEF OfferStays, Known
<1>1. ASSUME NEW c \in Conns, \/ Dial(c) \/ DialFails(c) \/ HelperReads(c) \/ HelperTimesOut(c)
                               \/ BadRequest(c) \/ StorePending(c) \/ LockToSend(c) \/ DeadlinePasses(c)
                               \/ PollDecision(c) \/ CheckDeadline(c) \/ recordHistory(c) \/ LockToEmit(c)
                               \/ EmitDecision(c) \/ WriteAnswer(c)
      PROVE  OfferStays'
  <2>1. UNCHANGED <<requestCh, aclFwd, shown>>
    BY <1>1 DEF Dial, DialFails, HelperReads, HelperTimesOut, BadRequest, StorePending, LockToSend, DeadlinePasses,
       PollDecision, CheckDeadline, recordHistory, LockToEmit, EmitDecision, WriteAnswer, queues, tui
  <2>2. \A e : Offered(e)' <=> Offered(e)
    BY <2>1 DEF Offered
  <2>3. CASE \/ Dial(c) \/ DialFails(c) \/ HelperReads(c) \/ HelperTimesOut(c) \/ BadRequest(c) \/ StorePending(c)
             \/ LockToSend(c) \/ DeadlinePasses(c)
    BY <1>t, <2>2, <2>3 DEF TypeOK, Dial, DialFails, HelperReads, HelperTimesOut, BadRequest, StorePending, LockToSend,
       DeadlinePasses, Goto, WriteReply
  <2>4. CASE \/ PollDecision(c) \/ CheckDeadline(c) \/ recordHistory(c) \/ LockToEmit(c)
             \/ EmitDecision(c) \/ WriteAnswer(c)
    BY <1>t, <2>2, <2>4 DEF TypeOK, PollDecision, CheckDeadline, recordHistory, LockToEmit, EmitDecision, WriteAnswer,
       Goto, WriteReply
  <2> QED BY <1>1, <2>3, <2>4
<1>2. ASSUME NEW c \in Conns, SendRequest(c) PROVE OfferStays'
  <2>1. \A e : Occurs(requestCh', e) <=> Occurs(requestCh, e) \/ e = c
    BY <1>t, <1>2, AppendFacts DEF SendRequest, TypeOK
  <2>2. \A e : Offered(e)' <=> Offered(e) \/ e = c
    BY <1>2, <2>1 DEF SendRequest, Offered, tui
  <2> QED BY <1>t, <1>2, <2>2 DEF TypeOK, SendRequest, Goto
<1>3. CASE ForwardRequest
  <2>1. /\ Head(requestCh) \in Conns
        /\ \A e : Occurs(requestCh', e) <=> Occurs(requestCh, e) /\ e # Head(requestCh)
    BY <1>3, TailFacts DEF ForwardRequest, IInv, TypeOK, OfferedOnce
  <2>2. \A e : Occurs(aclFwd', e) <=> Occurs(aclFwd, e) \/ e = Head(requestCh)
    BY <1>t, <1>3, <2>1, AppendFacts DEF ForwardRequest, TypeOK
  <2>3. \A e : Offered(e) => Offered(e)'
    BY <1>3, <2>1, <2>2 DEF ForwardRequest, Offered, tui
  <2> QED BY <1>3, <2>3 DEF ForwardRequest, conn
<1>4. CASE ShowRequest
  <2>1. \A e : Occurs(aclFwd', e) <=> Occurs(aclFwd, e) /\ e # Head(aclFwd)
    BY <1>4, TailFacts DEF ShowRequest, IInv, TypeOK, OfferedOnce
  <2>2. \A e : Offered(e) => Offered(e)'
    BY <1>4, <2>1 DEF ShowRequest, Offered
  <2> QED BY <1>4, <2>2 DEF ShowRequest, conn
<1>5. ASSUME NEW chosen \in SUBSET shown, NEW d \in {"allow", "deny"}, Decide(chosen, d)
      PROVE  OfferStays'
  <2>1. \A e \in Conns \ chosen : Offered(e) => Offered(e)'
    BY <1>5 DEF Decide, Offered, queues
  <2>2. \A e \in chosen : pc[e] \in Known => decision'[e] # "pending"
    BY <1>t, <1>5 DEF Decide, TypeOK
  <2>3. \A e \in Conns \ chosen : decision'[e] = decision[e]
    BY <1>5 DEF Decide
  <2> QED BY <1>5, <2>1, <2>2, <2>3 DEF Decide
<1>6. CASE pruneExpired
  <2>1. \A e \in Conns : ~expired[e] /\ Offered(e) => Offered(e)'
    BY <1>6 DEF pruneExpired, Offered, queues
  <2> QED BY <1>6, <2>1 DEF pruneExpired, conn
<1>7. CASE StopListening \/ CloseChannels \/ BufferDecision \/ ForwardDecision \/ ShowDecision
           \/ (\E g \in Goroutines : Ends(g)) \/ ConfirmExit
  <2>1. UNCHANGED <<conn, pending, requestCh, aclFwd, shown>>
    BY <1>7 DEF StopListening, CloseChannels, BufferDecision, ForwardDecision, ShowDecision, Ends, ConfirmExit,
       queues, tui
  <2> QED BY <2>1 DEF conn, Offered
<1>8. CASE ProcessEnds
  BY <1>8 DEF ProcessEnds
<1> QED BY <1>1, <1>2, <1>3, <1>4, <1>5, <1>6, <1>7, <1>8
     DEF Next, HandlerStep, StopStep, QueueStep, ScreenStep, UserStep, ApproveKey, DenyKey, ApproveAllKey

(* The ends of the goroutines, and the verdict of a decided handler. *)
LEMMA EndsStep ==
  ASSUME IInv, EndsStopped, DecidedKnows, Next
  PROVE  EndsStopped' /\ DecidedKnows'
<1>t. TypeOK /\ (stop = "stopped" => Readers = {})
  BY DEF IInv, NoSendOnClosed
<1> USE DEF EndsStopped, DecidedKnows
<1>1. ASSUME NEW c \in Conns, \/ Dial(c) \/ DialFails(c) \/ HelperReads(c) \/ HelperTimesOut(c)
                               \/ BadRequest(c) \/ StorePending(c) \/ LockToSend(c) \/ DeadlinePasses(c)
                               \/ PollDecision(c) \/ CheckDeadline(c) \/ recordHistory(c) \/ LockToEmit(c)
                               \/ WriteAnswer(c)
      PROVE  EndsStopped' /\ DecidedKnows'
  <2>1. UNCHANGED <<requestCh, decisionIn, buf, exited, stop>>
    BY <1>1 DEF Dial, DialFails, HelperReads, HelperTimesOut, BadRequest, StorePending, LockToSend, DeadlinePasses,
       PollDecision, CheckDeadline, recordHistory, LockToEmit, WriteAnswer, queues
  <2>2. CASE \/ Dial(c) \/ DialFails(c) \/ HelperReads(c) \/ HelperTimesOut(c) \/ BadRequest(c) \/ StorePending(c)
             \/ LockToSend(c) \/ DeadlinePasses(c)
    BY <1>t, <2>1, <2>2 DEF TypeOK, Dial, DialFails, HelperReads, HelperTimesOut, BadRequest, StorePending, LockToSend,
       DeadlinePasses, Goto, WriteReply
  <2>3. CASE \/ PollDecision(c) \/ CheckDeadline(c) \/ recordHistory(c) \/ LockToEmit(c) \/ WriteAnswer(c)
    BY <1>t, <2>1, <2>3 DEF TypeOK, PollDecision, CheckDeadline, recordHistory, LockToEmit, WriteAnswer,
       Goto, WriteReply
  <2> QED BY <1>1, <2>2, <2>3
<1>2. ASSUME NEW c \in Conns, SendRequest(c) \/ EmitDecision(c)
      PROVE  EndsStopped' /\ DecidedKnows'
  <2>1. stop # "stopped"
    BY <1>t, <1>2 DEF SendRequest, EmitDecision, Readers
  <2>2. UNCHANGED <<exited, stop, verdict>>
    BY <1>2 DEF SendRequest, EmitDecision
  <2> QED BY <1>t, <1>2, <2>1, <2>2 DEF TypeOK, SendRequest, EmitDecision, Goto
<1>3. CASE ForwardRequest \/ BufferDecision \/ ForwardDecision
  BY <1>3 DEF ForwardRequest, BufferDecision, ForwardDecision, conn
<1>4. ASSUME NEW g \in Goroutines, Ends(g) PROVE EndsStopped' /\ DecidedKnows'
  BY <1>4 DEF Ends, Goroutines, conn, queues
<1>5. CASE \/ StopListening \/ CloseChannels \/ ScreenStep \/ pruneExpired \/ ConfirmExit
           \/ \E chosen \in SUBSET shown, d \in {"allow", "deny"} : Decide(chosen, d)
  <2>1. UNCHANGED <<requestCh, decisionIn, buf, exited, pc, verdict>> /\ (stop = "stopped" => stop' = "stopped")
    BY <1>5 DEF StopListening, CloseChannels, ScreenStep, ShowRequest, ShowDecision, pruneExpired, ConfirmExit,
       Decide, queues, conn
  <2> QED BY <2>1
<1>6. CASE ProcessEnds
  BY <1>6 DEF ProcessEnds
<1> QED BY <1>1, <1>2, <1>3, <1>4, <1>5, <1>6
     DEF Next, HandlerStep, StopStep, QueueStep, UserStep, ApproveKey, DenyKey, ApproveAllKey

-----------------------------------------------------------------------------
(* The pipeline to the history tabs.  Each goroutine takes an outcome out of *)
(* one place and puts it into the next.                                     *)
LEMMA PipelineMoves ==
  ASSUME IInv, OutcomeInPipeline, BufferDecision \/ ForwardDecision \/ ShowDecision, NEW c \in Conns
  PROVE  Places(c)' = Places(c)
<1>t. /\ TypeOK /\ decisionIn \in Seq(Conns) /\ buf \in Seq(Conns) /\ decisionFwd \in Seq(Conns)
      /\ Places(c) <= 1
  BY DEF IInv, TypeOK, OutcomeInPipeline
<1>1. /\ Count(decisionIn, c) \in Nat /\ Count(buf, c) \in Nat /\ Count(decisionFwd, c) \in Nat
  BY <1>t, PlacesNat
<1>p. /\ Places(c) = Count(decisionIn, c) + Count(buf, c) + Count(decisionFwd, c) + (IF c \in seen THEN 1 ELSE 0)
      /\ Places(c)' = Count(decisionIn', c) + Count(buf', c) + Count(decisionFwd', c) + (IF c \in seen' THEN 1 ELSE 0)
  BY DEF Places, Count
<1>2. CASE BufferDecision
  <2>1. Count(Tail(decisionIn), c) + Count(Append(buf, Head(decisionIn)), c) = Count(decisionIn, c) + Count(buf, c)
    BY <1>t, <1>2, CopiesMove, CountIsCopies DEF BufferDecision
  <2>2. Count(Tail(decisionIn), c) \in Nat /\ Count(Append(buf, Head(decisionIn)), c) \in Nat
    <3>1. Tail(decisionIn) \in Seq(Conns) /\ Append(buf, Head(decisionIn)) \in Seq(Conns)
      BY <1>t, <1>2, HeadTailProperties, AppendProperties DEF BufferDecision
    <3>2. \A q : q \in Seq(Conns) => Count(q, c) \in Nat
      BY CopiesNat DEF Count, At
    <3> QED BY <3>1, <3>2
  <2>3. /\ decisionIn' = Tail(decisionIn) /\ buf' = Append(buf, Head(decisionIn))
        /\ decisionFwd' = decisionFwd /\ seen' = seen
    BY <1>2 DEF BufferDecision, tui
  <2> QED BY <1>1, <1>p, <2>1, <2>2, <2>3
<1>3. CASE ForwardDecision
  <2>1. Count(Tail(buf), c) + Count(Append(decisionFwd, Head(buf)), c) = Count(buf, c) + Count(decisionFwd, c)
    BY <1>t, <1>3, CopiesMove, CountIsCopies DEF ForwardDecision
  <2>2. Count(Tail(buf), c) \in Nat /\ Count(Append(decisionFwd, Head(buf)), c) \in Nat
    <3>1. Tail(buf) \in Seq(Conns) /\ Append(decisionFwd, Head(buf)) \in Seq(Conns)
      BY <1>t, <1>3, HeadTailProperties, AppendProperties DEF ForwardDecision
    <3>2. \A q : q \in Seq(Conns) => Count(q, c) \in Nat
      BY CopiesNat DEF Count, At
    <3> QED BY <3>1, <3>2
  <2>3. /\ buf' = Tail(buf) /\ decisionFwd' = Append(decisionFwd, Head(buf))
        /\ decisionIn' = decisionIn /\ seen' = seen
    BY <1>3 DEF ForwardDecision, tui
  <2>4. /\ Count(buf', c) + Count(decisionFwd', c) = Count(buf, c) + Count(decisionFwd, c)
        /\ Count(buf', c) \in Nat /\ Count(decisionFwd', c) \in Nat
        /\ Count(decisionIn', c) = Count(decisionIn, c)
    BY <2>1, <2>2, <2>3
  <2>5. PICK x \in {0, 1} : x = (IF c \in seen THEN 1 ELSE 0) /\ x = (IF c \in seen' THEN 1 ELSE 0)
    BY <2>3
  <2>6. /\ Places(c) = Count(decisionIn, c) + Count(buf, c) + Count(decisionFwd, c) + x
        /\ Places(c)' = Count(decisionIn, c) + Count(buf', c) + Count(decisionFwd', c) + x
    BY <1>p, <2>4, <2>5
  <2> QED BY <1>1, <2>4, <2>6
<1>4. CASE ShowDecision
  <2>1. /\ decisionFwd # << >> /\ decisionFwd' = Tail(decisionFwd) /\ seen' = seen \cup {Head(decisionFwd)}
        /\ decisionIn' = decisionIn /\ buf' = buf
    BY <1>4 DEF ShowDecision
  <2>2. Count(decisionFwd, c) = Count(Tail(decisionFwd), c) + One(Head(decisionFwd) = c)
    BY <1>t, <2>1, CopiesTail, CountIsCopies
  <2>3. Count(Tail(decisionFwd), c) \in Nat
    <3>1. Tail(decisionFwd) \in Seq(Conns)
      BY <1>t, <2>1, HeadTailProperties
    <3> QED BY <3>1, CopiesNat DEF Count, At
  <2>4. CASE Head(decisionFwd) = c
    <3>1. c \notin seen
      BY <1>1, <1>p, <1>t, <2>2, <2>3, <2>4 DEF One
    <3> QED BY <1>1, <1>p, <2>1, <2>2, <2>3, <2>4, <3>1 DEF One
  <2>5. CASE Head(decisionFwd) # c
    BY <1>1, <1>p, <2>1, <2>2, <2>3, <2>5 DEF One
  <2> QED BY <2>4, <2>5
<1> QED BY <1>2, <1>3, <1>4

LEMMA PipelineStep ==
  ASSUME IInv, DecidedKnows, OutcomeInPipeline, Next
  PROVE  OutcomeInPipeline'
<1>t. TypeOK /\ TypeOK' /\ \A c \in Conns : Places(c) \in Nat
  BY NextInv, PlacesNat DEF IInv
<1>v. \A c \in Conns : pc[c] \in Undecided => verdict[c] = "pending"
  BY DEF IInv, VerdictFollows
<1> USE DEF OutcomeInPipeline
<1>1. ASSUME NEW c \in Conns, \/ Dial(c) \/ DialFails(c) \/ HelperReads(c) \/ HelperTimesOut(c)
                               \/ BadRequest(c) \/ StorePending(c) \/ LockToSend(c) \/ SendRequest(c)
                               \/ DeadlinePasses(c) \/ PollDecision(c) \/ CheckDeadline(c) \/ recordHistory(c)
                               \/ LockToEmit(c) \/ WriteAnswer(c)
      PROVE  OutcomeInPipeline'
  <2>1. UNCHANGED <<decisionIn, buf, decisionFwd, seen, stop>>
    BY <1>1 DEF Dial, DialFails, HelperReads, HelperTimesOut, BadRequest, StorePending, LockToSend, SendRequest,
       DeadlinePasses, PollDecision, CheckDeadline, recordHistory, LockToEmit, WriteAnswer, queues, tui
  <2>2. \A e \in Conns : Places(e)' = Places(e)
    BY <2>1 DEF Places, Count
  <2>3. CASE \/ Dial(c) \/ DialFails(c) \/ HelperReads(c) \/ HelperTimesOut(c) \/ BadRequest(c) \/ StorePending(c)
             \/ LockToSend(c) \/ SendRequest(c) \/ DeadlinePasses(c)
    BY <1>t, <1>v, <2>1, <2>2, <2>3 DEF TypeOK, Dial, DialFails, HelperReads, HelperTimesOut, BadRequest, StorePending,
       LockToSend, SendRequest, DeadlinePasses, Goto, WriteReply, Undecided, Unsent
  <2>4. CASE PollDecision(c) \/ CheckDeadline(c) \/ recordHistory(c)
    <3>1. /\ pc[c] \notin {"answering", "closed"} /\ pc'[c] \notin {"answering", "closed"}
          /\ \A e \in Conns \ {c} : pc'[e] = pc[e] /\ verdict'[e] = verdict[e]
      BY <1>t, <2>4 DEF TypeOK, PollDecision, CheckDeadline, recordHistory, Goto
    <3>2. Places(c) = 0
      BY <1>t, <3>1
    <3> QED BY <2>1, <2>2, <3>1, <3>2
  <2>5. CASE LockToEmit(c) \/ WriteAnswer(c)
    <3>1. /\ verdict' = verdict /\ \A e \in Conns \ {c} : pc'[e] = pc[e]
          /\ \/ pc[c] = "answering" /\ pc'[c] = "closed"
             \/ pc[c] = "recorded" /\ pc'[c] = "emitting"
             \/ pc[c] = "recorded" /\ pc'[c] = "answering" /\ stop = "stopped"
      BY <1>t, <2>5 DEF TypeOK, LockToEmit, WriteAnswer, Goto, WriteReply
    <3>2. pc[c] = "recorded" => Places(c) = 0
      BY <1>t
    <3> QED BY <2>1, <2>2, <3>1, <3>2
  <2> QED BY <1>1, <2>3, <2>4, <2>5
<1>2. ASSUME NEW c \in Conns, EmitDecision(c) PROVE OutcomeInPipeline'
  <2>1. \A e \in Conns : Count(decisionIn', e) = Count(decisionIn, e) + One(c = e)
    <3>1. decisionIn \in Seq(Conns) /\ decisionIn' = Append(decisionIn, c)
      BY <1>t, <1>2 DEF EmitDecision, TypeOK
    <3> QED BY <3>1, CopiesAppend, CountIsCopies
  <2>2. \A e \in Conns : Places(e)' = Places(e) + One(c = e)
    <3> SUFFICES ASSUME NEW e \in Conns PROVE Places(e)' = Places(e) + One(c = e)
      OBVIOUS
    <3>1. Count(decisionIn, e) \in Nat /\ Count(buf, e) \in Nat /\ Count(decisionFwd, e) \in Nat
      BY <1>t, PlacesNat
    <3>2. UNCHANGED <<buf, decisionFwd, seen>>
      BY <1>2 DEF EmitDecision, tui
    <3> QED BY <2>1, <3>1, <3>2 DEF Places, One, Count
  <2>3. Places(c) = 0 /\ verdict[c] # "pending"
    BY <1>t, <1>2 DEF EmitDecision, DecidedKnows
  <2>4. UNCHANGED <<verdict, stop>> /\ pc' = [pc EXCEPT ![c] = "answering"]
    BY <1>2 DEF EmitDecision, Goto
  <2>5. ASSUME NEW e \in Conns
        PROVE  /\ Places(e)' <= 1
               /\ (Places(e)' = 1 => pc'[e] \in {"answering", "closed"} /\ verdict'[e] # "pending")
               /\ (pc'[e] \in {"answering", "closed"} /\ verdict'[e] # "pending" /\ Places(e)' = 0
                     => stop' = "stopped")
    <3>1. CASE e = c
      BY <1>t, <2>2, <2>3, <2>4, <3>1 DEF TypeOK, One
    <3>2. CASE e # c
      BY <1>t, <2>2, <2>4, <3>2 DEF TypeOK, One
    <3> QED BY <3>1, <3>2
  <2> QED BY <2>5
<1>3. CASE BufferDecision \/ ForwardDecision \/ ShowDecision
  <2>1. UNCHANGED <<pc, verdict, stop>>
    BY <1>3 DEF BufferDecision, ForwardDecision, ShowDecision, conn
  <2>2. \A e \in Conns : Places(e)' = Places(e)
    BY <1>3, PipelineMoves
  <2> QED BY <2>1, <2>2
<1>4. CASE \/ StopListening \/ CloseChannels \/ ForwardRequest \/ ShowRequest \/ pruneExpired \/ ConfirmExit
           \/ (\E g \in Goroutines : Ends(g))
           \/ \E chosen \in SUBSET shown, d \in {"allow", "deny"} : Decide(chosen, d)
  <2>1. UNCHANGED <<decisionIn, buf, decisionFwd, seen, pc, verdict>> /\ (stop = "stopped" => stop' = "stopped")
    BY <1>4 DEF StopListening, CloseChannels, ForwardRequest, ShowRequest, pruneExpired, ConfirmExit, Ends,
       Decide, queues, conn, tui
  <2>2. \A e \in Conns : Places(e)' = Places(e)
    BY <2>1 DEF Places, Count
  <2> QED BY <2>1, <2>2
<1>5. CASE ProcessEnds
  <2>1. \A e \in Conns : Places(e)' = 0
    <3> SUFFICES ASSUME NEW e \in Conns PROVE Places(e)' = 0
      OBVIOUS
    <3>1. Count(<< >>, e) = 0
      BY CopiesEmpty DEF Count, At
    <3>2. decisionIn' = << >> /\ buf' = << >> /\ decisionFwd' = << >> /\ e \notin seen'
      BY <1>5 DEF ProcessEnds
    <3> QED BY <3>1, <3>2 DEF Places, Count
  <2> QED BY <1>5, <2>1 DEF ProcessEnds
<1> QED BY <1>1, <1>2, <1>3, <1>4, <1>5
     DEF Next, HandlerStep, StopStep, QueueStep, ScreenStep, UserStep, ApproveKey, DenyKey, ApproveAllKey

(* A request that can still be decided is offered once; the outcome of a    *)
(* decided one is in the pipeline once; and the queue goroutines leave      *)
(* nothing behind, for any number of requests and any capacities.           *)
THEOREM OutcomesDoArrive == Spec => []OutcomesArrive
<1>1. ASSUME IInv, OInv PROVE OutcomesArrive
  <2>1. NotSilentlyDenied
    <3> SUFFICES ASSUME NEW c \in Conns, Offered(c)
                 PROVE  Count(requestCh, c) + Count(aclFwd, c) + (IF c \in shown THEN 1 ELSE 0) = 1
      BY <1>1 DEF OInv, OfferStays, NotSilentlyDenied
    <3>1. /\ requestCh \in Seq(Conns) /\ aclFwd \in Seq(Conns) /\ Distinct(requestCh) /\ Distinct(aclFwd)
          /\ (Occurs(requestCh, c) => ~Occurs(aclFwd, c) /\ c \notin shown)
          /\ (Occurs(aclFwd, c) => c \notin shown)
      BY <1>1 DEF IInv, TypeOK, OfferedOnce
    <3>2. Count(requestCh, c) = One(Occurs(requestCh, c)) /\ Count(aclFwd, c) = One(Occurs(aclFwd, c))
      BY <3>1, CopiesDistinct DEF Count, At
    <3> QED BY <3>1, <3>2 DEF Offered, One
  <2>2. OutcomeInPipeline /\ DrainedBeforeExit
    BY <1>1 DEF OInv, EndsStopped, DrainedBeforeExit
  <2> QED BY <2>1, <2>2 DEF OutcomesArrive
<1>2. IInv /\ OInv /\ [Next]_vars => OInv'
  <2> SUFFICES ASSUME IInv, OInv, [Next]_vars PROVE OInv'
    OBVIOUS
  <2>1. CASE Next
    BY <2>1, OfferStep, EndsStep, PipelineStep DEF OInv
  <2>2. CASE UNCHANGED vars
    BY <2>2 DEF vars, OInv, OfferStays, DecidedKnows, EndsStopped, OutcomeInPipeline, Offered, Places, Count
  <2> QED BY <2>1, <2>2
<1>3. IInv /\ OInv => OutcomesArrive
  BY <1>1
<1> QED BY <1>2, <1>3, InitOutcomes, Invariance, PTL DEF Spec

=============================================================================
