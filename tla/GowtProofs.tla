------------------------------ MODULE GowtProofs ------------------------------
(* What gowt keeps whatever the number of reruns and of events, and whatever *)
(* the packages and tests: the run and its streams (GowtRun), the tree and   *)
(* its counters (GowtTree), the screens (GowtScreens), the log on screen     *)
(* (GowtLogView), the rows of the tree (GowtTreeView) and the log buffer     *)
(* with its renderer (GowtLog).  The views come after what FlattenSeq makes  *)
(* of a sequence of sequences.                                               *)
EXTENDS MCGowt, SeqFacts

InFlight == BagToSet(flight)
Starts == Flying("start")
Reruns == Flying("clean") \cup Flying("cleaned")

(* What goes back to a process that was started. *)
OfProcess(c) == \E p \in 1..started : c.from = <<"process", p>> /\ attached[p] = c.gen

(* A command or message knows what it goes back to; a wait reads, and an     *)
(* event was read from, a process attached in its generation.                *)
TokenOK(c) ==
  /\ c.do \in {"start", "started", "wait", "event", "done", "clean", "cleaned"}
  /\ c.do \in {"start", "wait", "event", "done"} => c.gen \in 0..runGen
  /\ c.do = "start" => c.from = <<"generation", c.gen>>
  /\ c.do = "started" => /\ c.stream \in 1..started
                         /\ c.from = <<"process", c.stream>>
                         /\ attached[c.stream] = None - 1
  /\ c.do = "wait" => /\ OfProcess(c)
                      /\ c.stream \in 1..started /\ attached[c.stream] = c.gen
  /\ c.do = "event" => /\ OfProcess(c)
                       /\ c.item[1] \in 1..started /\ attached[c.item[1]] = c.gen
  /\ c.do = "done" => OfProcess(c) \/ c.from = <<"generation", c.gen>>
  /\ c.do \in {"clean", "cleaned"} => \E n \in 1..reruns : c.from = <<"rerun", n>>

(* Everything in flight is there once, and goes back to something else than  *)
(* the rest.                                                                 *)
Single == /\ IsABag(flight)
          /\ \A c \in InFlight : flight[c] = 1
          /\ \A c, d \in InFlight : c.from = d.from => c = d

FlightOK == \A c \in InFlight : TokenOK(c)

(* A process is attached once, and App.stream is the one attached last.      *)
AttachedOK ==
  /\ attached \in [Procs -> Int]
  /\ \A p \in Procs : /\ attached[p] \in (None - 1) .. runGen
                      /\ p > started => attached[p] = None - 1
  /\ AttachedNow # {} => stream # None /\ attached[stream] = runGen

(* While tests run, the stream of each attached process is waited for, or    *)
(* its last message is on its way.                                           *)
ChainsOn ==
  running => \A p \in AttachedNow : \E c \in InFlight :
               c.from = <<"process", p>> /\ c.do \in {"wait", "event", "done"}

(* Reruns become generations, and generations processes, one for one.        *)
Numbered ==
  /\ IsFiniteSet(Starts) /\ IsFiniteSet(Reruns)
  /\ started + Cardinality(Starts) <= runGen + 1
  /\ runGen + Cardinality(Reruns) <= reruns

(* A generation is started once; what is attached, or still on its way, was  *)
(* started for the generation it belongs to unless a rerun overtook it.      *)
Belongs(p) ==
  \/ Overtaken(p)
  \/ begun[p] = IF attached[p] = None - 1 THEN runGen ELSE attached[p]
BegunOK ==
  /\ begun \in [Procs -> Int]
  /\ \A p \in 1..started : begun[p] \in 0..runGen /\ Belongs(p)
  /\ \A p, q \in 1..started : begun[p] = begun[q] => p = q
  /\ \A c \in Starts : /\ c.gen = runGen \/ c.gen \in overtaken
                       /\ \A p \in 1..started : begun[p] # c.gen

OnlyAttached == \A i \in items : attached[i[1]] = runGen

TicksBounded == ticks <= MaxTicks + runGen + 1

RunInv == /\ RunTypeOK /\ Single /\ FlightOK /\ AttachedOK /\ ChainsOn /\ Numbered /\ BegunOK
          /\ TicksBounded /\ OnlyAttached /\ DrainedAtDone /\ ClockRuns
-----------------------------------------------------------------------------
(* A command or message is replaced by one that goes back to the same, or to *)
(* something new.                                                            *)
LEMMA Exchanged ==
  ASSUME Single, NEW c \in InFlight, NEW x, Replace(c, With(x)),
         x.from = c.from \/ \A d \in InFlight : d.from # x.from
  PROVE  /\ InFlight' = (InFlight \ {c}) \cup {x}
         /\ Single'
<1>1. flight \in [DOMAIN flight -> {n \in Nat : n > 0}] /\ flight[c] = 1
  BY DEF Single, IsABag, InFlight, BagToSet
<1> DEFINE less == flight (-) With(c)
<1>2. /\ DOMAIN less = InFlight \ {c}
      /\ \A d \in InFlight \ {c} : less[d] = 1
  <2>1. DOMAIN With(c) = {c} /\ With(c)[c] = 1
    BY DEF With, SetToBag
  <2> QED BY <1>1, <2>1 DEF Single, InFlight, BagToSet, (-)
<1>3. x \notin InFlight \ {c}
  BY DEF Single
<1>4. flight' = less (+) With(x)
  BY DEF Replace
<1> HIDE DEF less
<1>5. /\ DOMAIN flight' = (InFlight \ {c}) \cup {x}
      /\ \A d \in (InFlight \ {c}) \cup {x} : flight'[d] = 1
  <2>1. DOMAIN With(x) = {x} /\ With(x)[x] = 1
    BY DEF With, SetToBag
  <2> QED BY <1>2, <1>3, <1>4, <2>1 DEF (+)
<1>6. \E f : flight' = [d \in (InFlight \ {c}) \cup {x} |-> f[d]]
  BY <1>2, <1>4 DEF (+), With, SetToBag
<1>7. IsABag(flight)'
  BY <1>5, <1>6 DEF IsABag
<1>8. InFlight' = (InFlight \ {c}) \cup {x}
  BY <1>5 DEF InFlight, BagToSet
<1>9. \A d, e \in InFlight' : d.from = e.from => d = e
  BY <1>8 DEF Single
<1> QED BY <1>5, <1>7, <1>8, <1>9 DEF Single

(* A message is taken.                                                       *)
LEMMA Taken ==
  ASSUME Single, NEW c \in InFlight, Replace(c, EmptyBag)
  PROVE  /\ InFlight' = InFlight \ {c}
         /\ Single'
<1>1. flight \in [DOMAIN flight -> {n \in Nat : n > 0}] /\ flight[c] = 1
  BY DEF Single, IsABag, InFlight, BagToSet
<1> DEFINE less == flight (-) With(c)
<1>2. /\ DOMAIN less = InFlight \ {c}
      /\ \A d \in InFlight \ {c} : less[d] = 1
  <2>1. DOMAIN With(c) = {c} /\ With(c)[c] = 1
    BY DEF With, SetToBag
  <2> QED BY <1>1, <2>1 DEF Single, InFlight, BagToSet, (-)
<1>4. flight' = less (+) EmptyBag
  BY DEF Replace
<1> HIDE DEF less
<1>5. /\ DOMAIN flight' = InFlight \ {c}
      /\ \A d \in InFlight \ {c} : flight'[d] = 1
  <2>1. DOMAIN EmptyBag = {}
    BY DEF EmptyBag, SetToBag
  <2> QED BY <1>2, <1>4, <2>1 DEF (+)
<1>6. flight' = [d \in InFlight \ {c} |-> flight'[d]]
  BY <1>2, <1>4, <1>5 DEF (+), EmptyBag, SetToBag
<1>7. IsABag(flight)'
  BY <1>5, <1>6 DEF IsABag
<1>8. InFlight' = InFlight \ {c}
  BY <1>5 DEF InFlight, BagToSet
<1> QED BY <1>5, <1>7, <1>8 DEF Single

(* Something new is added.                                                   *)
LEMMA AddedTo ==
  ASSUME Single, NEW x, flight' = flight (+) With(x),
         \A d \in InFlight : d.from # x.from
  PROVE  /\ InFlight' = InFlight \cup {x}
         /\ Single'
<1>1. flight \in [DOMAIN flight -> {n \in Nat : n > 0}]
  BY DEF Single, IsABag
<1>3. x \notin InFlight
  OBVIOUS
<1>5. /\ DOMAIN flight' = InFlight \cup {x}
      /\ \A d \in InFlight \cup {x} : flight'[d] = 1
  <2>1. DOMAIN With(x) = {x} /\ With(x)[x] = 1
    BY DEF With, SetToBag
  <2> QED BY <1>1, <1>3, <2>1 DEF (+), Single, InFlight, BagToSet
<1>6. flight' = [d \in InFlight \cup {x} |-> flight'[d]]
  BY <1>5 DEF (+), With, SetToBag
<1>7. IsABag(flight)'
  BY <1>5, <1>6 DEF IsABag
<1>8. InFlight' = InFlight \cup {x}
  BY <1>5 DEF InFlight, BagToSet
<1>9. \A d, e \in InFlight' : d.from = e.from => d = e
  BY <1>8 DEF Single
<1> QED BY <1>5, <1>7, <1>8, <1>9 DEF Single
-----------------------------------------------------------------------------
(* The initial states.                                                       *)
LEMMA RunInitInv == RunInit => RunInv
<1> SUFFICES ASSUME RunInit PROVE RunInv
  OBVIOUS
<1> USE RunAssumption
<1> DEFINE s == StartOf(0)
<1>1. /\ flight = With(s) /\ InFlight = {s} /\ flight[s] = 1 /\ IsABag(flight)
  BY DEF RunInit, With, SetToBag, InFlight, BagToSet, IsABag
<1>2. s.do = "start" /\ s.gen = 0 /\ s.from = <<"generation", 0>>
  BY DEF StartOf
<1> HIDE DEF s
<1>3. Starts = {s} /\ Reruns = {}
  BY <1>1, <1>2 DEF Starts, Reruns, Flying, InFlight
<1>4. Numbered
  <2>1. started = 0 /\ runGen = 0 /\ reruns = 0
    BY DEF RunInit
  <2>2. /\ IsFiniteSet(Starts) /\ Cardinality(Starts) = 1
        /\ IsFiniteSet(Reruns) /\ Cardinality(Reruns) = 0
    BY <1>3, FS_Singleton, FS_EmptySet
  <2> QED BY <2>1, <2>2 DEF Numbered
<1>5. Single /\ FlightOK
  BY <1>1, <1>2 DEF Single, FlightOK, TokenOK, RunInit
<1>6. AttachedOK /\ ChainsOn
  BY DEF AttachedOK, ChainsOn, AttachedNow, RunInit, None
<1>7. RunTypeOK
  <2>1. MaxReruns \in Nat /\ MaxOut \in Nat /\ MaxErr \in Nat /\ ChanCap \in Nat
        /\ MaxTicks \in Nat
    OBVIOUS
  <2>2. \A p \in Procs : taken[p] <= sent[p] /\ sent[p] - taken[p] <= ChanCap
    BY <2>1 DEF RunInit
  <2>3. /\ sent \in [Procs -> 0..MaxOut] /\ taken \in [Procs -> 0..MaxOut]
        /\ errSent \in [Procs -> 0..MaxErr] /\ errTaken \in [Procs -> 0..MaxErr]
        /\ done \in [Procs -> {"no", "sent", "taken"}]
    BY <2>1 DEF RunInit
  <2>4. /\ alive \subseteq 1..started /\ started \in 0..MaxReruns + 1
        /\ runGen \in 0..reruns /\ running \in BOOLEAN /\ stream \in 0..started
        /\ \A i \in items : i[1] \in 1..started
        /\ ticks \in 0..MaxTicks + MaxReruns + 1 /\ reruns \in 0..MaxReruns
        /\ quit \in BOOLEAN
    <3>1. /\ alive = {} /\ started = 0 /\ runGen = 0 /\ running = TRUE /\ stream = 0
          /\ items = {} /\ ticks = 1 /\ reruns = 0 /\ quit = FALSE
      BY DEF RunInit, None
    <3>2. running \in BOOLEAN /\ quit \in BOOLEAN
      BY DEF RunInit
    <3>3. \A i \in items : i[1] \in 1..started
      BY <3>1
    <3>4. /\ alive \subseteq 1..started /\ started \in 0..MaxReruns + 1
          /\ runGen \in 0..reruns /\ stream \in 0..started
          /\ ticks \in 0..MaxTicks + MaxReruns + 1 /\ reruns \in 0..MaxReruns
      BY <2>1, <3>1
    <3> QED BY <3>2, <3>3, <3>4
  <2> QED BY <1>1, <2>2, <2>3, <2>4 DEF RunTypeOK
<1>9. BegunOK
  <2>1. /\ begun = [p \in Procs |-> -1] /\ 1..started = {} /\ runGen = 0
    BY DEF RunInit, None
  <2> QED BY <1>2, <1>3, <2>1 DEF BegunOK
<1>8. TicksBounded /\ OnlyAttached /\ DrainedAtDone /\ ClockRuns
  BY DEF RunInit, TicksBounded, OnlyAttached, DrainedAtDone, ClockRuns
<1> QED BY <1>4, <1>5, <1>6, <1>7, <1>8, <1>9 DEF RunInv

(* A started process is one of the processes there can be.                   *)
LEMMA StartedAreProcs == RunTypeOK => 1..started \subseteq Procs
<1> SUFFICES ASSUME RunTypeOK PROVE 1..started \subseteq Procs
  OBVIOUS
<1>1. started \in 0..MaxReruns + 1 /\ MaxReruns \in Nat
  BY RunAssumption DEF RunTypeOK
<1> QED BY <1>1 DEF Procs

(* What is known of a command or message stays true while generations,       *)
(* processes and reruns are only added.                                      *)
LEMMA TokenKept ==
  ASSUME RunTypeOK, NEW c, TokenOK(c), attached' = attached,
         started' \in Int, started <= started', runGen' \in Int, runGen <= runGen',
         reruns' \in Int, reruns <= reruns'
  PROVE  TokenOK(c)'
<1>1. started \in Int /\ runGen \in Int /\ reruns \in Int
  BY DEF RunTypeOK
<1>2. OfProcess(c) => OfProcess(c)'
  BY <1>1 DEF OfProcess
<1>3. \A n \in 1..reruns : n \in 1..reruns'
  BY <1>1
<1>4. c.do \in {"start", "wait", "event", "done"} => c.gen \in 0..runGen'
  BY <1>1 DEF TokenOK
<1>5. \A n \in 1..started : n \in 1..started'
  BY <1>1
<1> QED BY <1>2, <1>3, <1>4, <1>5 DEF TokenOK

LEMMA BegunKept ==
  ASSUME BegunOK, Starts' = Starts, UNCHANGED <<started, runGen, attached, begun, overtaken>>
  PROVE  BegunOK'
BY DEF BegunOK, Belongs, Overtaken

(* Steps of processes and of the user that touch nothing in flight and keep  *)
(* generation and attachments.                                               *)
LEMMA QuietStep ==
  ASSUME RunInv, RunTypeOK',
         UNCHANGED <<started, flight, runGen, reruns, stream, attached, begun, overtaken>>,
         running' => running
  PROVE  /\ Single' /\ FlightOK' /\ AttachedOK' /\ ChainsOn' /\ Numbered' /\ BegunOK'
<1>1. InFlight' = InFlight /\ Starts' = Starts /\ Reruns' = Reruns
  BY DEF InFlight, Starts, Reruns, Flying
<1>2. Single'
  BY <1>1 DEF RunInv, Single
<1>3. FlightOK'
  BY <1>1 DEF RunInv, FlightOK, TokenOK, OfProcess
<1>4. AttachedNow' = AttachedNow
  BY DEF AttachedNow
<1>5. AttachedOK'
  BY <1>4 DEF RunInv, AttachedOK
<1>6. ChainsOn'
  BY <1>1, <1>4 DEF RunInv, ChainsOn
<1>7. Numbered'
  BY <1>1 DEF RunInv, Numbered
<1>8. BegunOK'
  BY <1>1, BegunKept DEF RunInv
<1> QED BY <1>2, <1>3, <1>5, <1>6, <1>7, <1>8

LEMMA ProcessSteps ==
  ASSUME RunInv, NEW p \in Procs, Emit(p) \/ EmitErr(p) \/ Process(p)
  PROVE  RunInv'
<1> USE RunAssumption
<1>1. RunTypeOK'
  <2>1. CASE Emit(p)
    BY <2>1 DEF RunInv, RunTypeOK, Emit
  <2>2. CASE EmitErr(p)
    BY <2>2 DEF RunInv, RunTypeOK, EmitErr
  <2>3. CASE Exit(p)
    BY <2>3 DEF RunInv, RunTypeOK, Exit, chanVars
  <2>4. CASE SendDone(p)
    BY <2>4 DEF RunInv, RunTypeOK, SendDone
  <2> QED BY <2>1, <2>2, <2>3, <2>4 DEF Process
<1>2. UNCHANGED <<started, flight, runGen, running, reruns, stream, attached, begun, overtaken,
                  items, ticks>>
  BY DEF Emit, EmitErr, Process, Exit, SendDone
<1>3. OnlyAttached' /\ ClockRuns' /\ TicksBounded'
  BY <1>2 DEF RunInv, OnlyAttached, ClockRuns, TicksBounded
<1>4. DrainedAtDone'
  <2>1. CASE Emit(p)
    BY <2>1 DEF RunInv, RunTypeOK, Emit, DrainedAtDone
  <2>2. CASE SendDone(p)
    BY <2>2 DEF RunInv, RunTypeOK, SendDone, DrainedAtDone
  <2>3. CASE EmitErr(p) \/ Exit(p)
    BY <2>3 DEF RunInv, EmitErr, Exit, DrainedAtDone, chanVars
  <2> QED BY <2>1, <2>2, <2>3 DEF Process
<1>5. Single' /\ FlightOK' /\ AttachedOK' /\ ChainsOn' /\ Numbered' /\ BegunOK'
  BY <1>1, <1>2, QuietStep
<1> QED BY <1>1, <1>3, <1>4, <1>5 DEF RunInv

LEMMA AnswerSteps ==
  ASSUME RunInv, ConfirmStop \/ ConfirmQuit \/ QuitAtOnce \/ CopyLogs \/ HandleTick
  PROVE  RunInv'
<1> USE RunAssumption
<1>1. RunTypeOK'
  <2>1. CASE ConfirmStop \/ ConfirmQuit \/ QuitAtOnce
    BY <2>1 DEF RunInv, RunTypeOK, ConfirmStop, ConfirmQuit, QuitAtOnce, chanVars
  <2>2. CASE CopyLogs
    BY <2>2 DEF RunInv, RunTypeOK, CopyLogs, chanVars
  <2>3. CASE HandleTick
    BY <2>3 DEF RunInv, RunTypeOK, HandleTick, chanVars
  <2> QED BY <2>1, <2>2, <2>3
<1>2. /\ UNCHANGED <<started, flight, runGen, reruns, stream, attached, begun, overtaken,
                     items, taken, sent, done>>
      /\ running' => running
  BY DEF ConfirmStop, ConfirmQuit, QuitAtOnce, CopyLogs, HandleTick, chanVars
<1>3. OnlyAttached' /\ DrainedAtDone'
  BY <1>2 DEF RunInv, OnlyAttached, DrainedAtDone
<1>4. ClockRuns' /\ TicksBounded'
  BY DEF RunInv, RunTypeOK, ClockRuns, TicksBounded, ConfirmStop, ConfirmQuit, QuitAtOnce,
         CopyLogs, HandleTick
<1>5. Single' /\ FlightOK' /\ AttachedOK' /\ ChainsOn' /\ Numbered' /\ BegunOK'
  BY <1>1, <1>2, QuietStep
<1> QED BY <1>1, <1>3, <1>4, <1>5 DEF RunInv
-----------------------------------------------------------------------------
(* A wait becomes its message, and a message the next wait: the chain of its *)
(* process goes on.                                                          *)
LEMMA ChainGoesOn ==
  ASSUME RunInv, RunTypeOK', NEW c \in InFlight, NEW x, Replace(c, With(x)), x.from = c.from,
         c.do \in {"wait", "event"}, x.do \in {"wait", "event", "done"}, TokenOK(x),
         UNCHANGED <<started, runGen, reruns, stream, attached, begun, overtaken, running>>
  PROVE  /\ Single' /\ FlightOK' /\ AttachedOK' /\ ChainsOn' /\ Numbered' /\ BegunOK'
<1>1. /\ InFlight' = (InFlight \ {c}) \cup {x} /\ Single'
  BY Exchanged DEF RunInv
<1>2. Starts' = Starts /\ Reruns' = Reruns
  BY <1>1 DEF Starts, Reruns, Flying, InFlight
<1>3. FlightOK'
  <2>1. \A d : TokenOK(d)' <=> TokenOK(d)
    BY DEF TokenOK, OfProcess
  <2> QED BY <1>1, <2>1 DEF RunInv, FlightOK
<1>4. AttachedNow' = AttachedNow
  BY DEF AttachedNow
<1>5. AttachedOK'
  BY <1>4 DEF RunInv, AttachedOK
<1>6. ChainsOn'
  <2> SUFFICES ASSUME running, NEW p \in AttachedNow
               PROVE  \E d \in (InFlight \ {c}) \cup {x} :
                        d.from = <<"process", p>> /\ d.do \in {"wait", "event", "done"}
    BY <1>1, <1>4 DEF ChainsOn
  <2>1. PICK d \in InFlight : d.from = <<"process", p>> /\ d.do \in {"wait", "event", "done"}
    BY DEF RunInv, ChainsOn
  <2>2. CASE d = c
    BY <2>1, <2>2
  <2>3. CASE d # c
    BY <2>1, <2>3
  <2> QED BY <2>2, <2>3
<1>7. Numbered'
  BY <1>2 DEF RunInv, Numbered
<1>8. BegunOK'
  BY <1>2, BegunKept DEF RunInv
<1> QED BY <1>1, <1>3, <1>5, <1>6, <1>7, <1>8

LEMMA WaitSteps ==
  ASSUME RunInv, NEW c \in InFlight, ExecWait(c)
  PROVE  RunInv'
<1> USE RunAssumption
<1>1. /\ c.do = "wait" /\ TokenOK(c)
      /\ UNCHANGED <<alive, started, sent, errSent, runGen, running, stream, reruns, ticks,
                     quit, attached, begun, overtaken>>
  BY DEF ExecWait, Flying, RunInv, FlightOK
<1>2. c.stream \in Procs /\ attached[c.stream] = c.gen /\ c.gen \in 0..runGen
  BY <1>1 DEF TokenOK, RunInv, RunTypeOK, Procs
<1>3. ClockRuns' /\ TicksBounded'
  BY <1>1 DEF RunInv, ClockRuns, TicksBounded
<1>4. IsABag(flight)' => RunTypeOK'
  <2>1. CASE TakeEvent(c)
    BY <1>1, <1>2, <2>1 DEF RunInv, RunTypeOK, TakeEvent
  <2>2. CASE TakeErr(c)
    BY <1>1, <1>2, <2>2 DEF RunInv, RunTypeOK, TakeErr
  <2>3. CASE TakeDone(c)
    BY <1>1, <1>2, <2>3 DEF RunInv, RunTypeOK, TakeDone, TokenOK
  <2>4. CASE UNCHANGED <<taken, errTaken, done, items>>
    BY <1>1, <2>4 DEF RunInv, RunTypeOK
  <2> QED BY <2>1, <2>2, <2>3, <2>4 DEF ExecWait
<1>5. \E x : /\ Replace(c, With(x)) /\ x.from = c.from
             /\ x.do \in {"wait", "event", "done"} /\ TokenOK(x)
  <2>0. OfProcess(c) /\ c.stream \in 1..started
    BY <1>1 DEF TokenOK
  <2>1. CASE TakeEvent(c)
    <3> DEFINE x == [do |-> "event", gen |-> c.gen, item |-> <<c.stream, taken[c.stream] + 1>>,
                     from |-> c.from]
    <3>1. Replace(c, With(x))
      BY <2>1 DEF TakeEvent
    <3>2. TokenOK(x)
      BY <1>2, <2>0 DEF TokenOK, OfProcess
    <3> QED BY <3>1, <3>2
  <2>2. CASE TakeErr(c)
    <3> DEFINE x == [do |-> "event", gen |-> c.gen,
                     item |-> <<c.stream, -(errTaken[c.stream] + 1)>>, from |-> c.from]
    <3>1. Replace(c, With(x))
      BY <2>2 DEF TakeErr
    <3>2. TokenOK(x)
      BY <1>2, <2>0 DEF TokenOK, OfProcess
    <3> QED BY <3>1, <3>2
  <2>3. CASE TakeDone(c)
    <3> DEFINE x == [do |-> "done", gen |-> c.gen, from |-> c.from]
    <3>1. Replace(c, With(x))
      BY <2>3 DEF TakeDone
    <3>2. TokenOK(x)
      BY <1>2, <2>0 DEF TokenOK, OfProcess
    <3> QED BY <3>1, <3>2
  <2>4. CASE Replace(c, With([c EXCEPT !.blocked = TRUE]))
    <3> DEFINE x == [c EXCEPT !.blocked = TRUE]
    <3>1. x.from = c.from /\ x.do = "wait" /\ x.gen = c.gen /\ x.stream = c.stream
      BY <1>1
    <3>2. TokenOK(x)
      BY <1>1, <1>2, <2>0, <3>1 DEF TokenOK, OfProcess
    <3> QED BY <2>4, <3>1, <3>2
  <2> QED BY <2>1, <2>2, <2>3, <2>4 DEF ExecWait
<1>6. PICK x : /\ Replace(c, With(x)) /\ x.from = c.from
               /\ x.do \in {"wait", "event", "done"} /\ TokenOK(x)
  BY <1>5
<1>7. RunTypeOK'
  BY <1>4, <1>6, Exchanged DEF RunInv, Single
<1>8. Single' /\ FlightOK' /\ AttachedOK' /\ ChainsOn' /\ Numbered' /\ BegunOK'
  BY <1>1, <1>6, <1>7, ChainGoesOn
<1>9. OnlyAttached'
  <2>1. CASE TakeDone(c)
    <3>1. \A i \in items' : i \in items \/ (c.gen = runGen /\ i[1] = c.stream)
      BY <2>1 DEF TakeDone
    <3> QED BY <1>1, <1>2, <3>1 DEF OnlyAttached, RunInv
  <2>2. CASE items' = items
    BY <1>1, <2>2 DEF OnlyAttached, RunInv
  <2> QED BY <2>1, <2>2 DEF ExecWait, TakeEvent, TakeErr
<1>10. DrainedAtDone'
  <2>1. CASE TakeEvent(c)
    BY <1>1, <1>2, <2>1 DEF RunInv, RunTypeOK, TakeEvent, DrainedAtDone
  <2>3. CASE TakeDone(c)
    BY <1>1, <1>2, <2>3 DEF RunInv, RunTypeOK, TakeDone, DrainedAtDone
  <2>4. CASE UNCHANGED <<taken, done>>
    BY <1>1, <2>4 DEF RunInv, DrainedAtDone
  <2> QED BY <2>1, <2>3, <2>4 DEF ExecWait, TakeErr
<1> QED BY <1>3, <1>7, <1>8, <1>9, <1>10 DEF RunInv
-----------------------------------------------------------------------------
(* A start becomes a process, or the failure of its generation.              *)
LEMMA StartSteps ==
  ASSUME RunInv, NEW c \in InFlight, ExecStart(c)
  PROVE  RunInv'
<1> USE RunAssumption
<1>1. /\ c.do = "start" /\ TokenOK(c) /\ c \in Starts
      /\ UNCHANGED <<sent, taken, errSent, errTaken, done, runGen, running, stream, items,
                     reruns, ticks, quit, attached, overtaken>>
  BY DEF ExecStart, Flying, RunInv, FlightOK, Starts, InFlight, chanVars
<1>2. /\ started \in Nat /\ runGen \in Nat /\ reruns \in Nat /\ runGen <= reruns
      /\ reruns <= MaxReruns /\ MaxReruns \in Nat
      /\ IsFiniteSet(Starts) /\ IsFiniteSet(Reruns)
      /\ Cardinality(Starts) \in Nat /\ Cardinality(Reruns) \in Nat
      /\ started + Cardinality(Starts) <= runGen + 1
      /\ runGen + Cardinality(Reruns) <= reruns
  BY FS_CardinalityType DEF RunInv, RunTypeOK, Numbered
<1>3. PICK x : /\ Replace(c, With(x))
               /\ \/ /\ x = [do |-> "started", stream |-> started + 1,
                             from |-> <<"process", started + 1>>]
                     /\ started' = started + 1 /\ alive' = alive \cup {started + 1}
                     /\ begun' = [begun EXCEPT ![started + 1] = c.gen]
                  \/ /\ x = [do |-> "done", gen |-> c.gen, from |-> c.from]
                     /\ UNCHANGED <<alive, started, begun>>
  BY DEF ExecStart
<1>4. x.from = c.from \/ \A d \in InFlight : d.from # x.from
  <2>1. CASE x.from = <<"process", started + 1>>
    BY <1>2, <2>1 DEF RunInv, FlightOK, TokenOK, OfProcess
  <2>2. CASE x.from = c.from
    BY <2>2
  <2> QED BY <1>3, <2>1, <2>2
<1>5. InFlight' = (InFlight \ {c}) \cup {x} /\ Single'
  BY <1>3, <1>4, Exchanged DEF RunInv
<1>6. x.do \in {"started", "done"} /\ started' \in {started, started + 1}
  BY <1>3
<1>7. Starts' = Starts \ {c} /\ Reruns' = Reruns
  BY <1>1, <1>5, <1>6 DEF Starts, Reruns, Flying, InFlight
<1>8. IsFiniteSet(Starts') /\ Cardinality(Starts') = Cardinality(Starts) - 1
  BY <1>1, <1>2, <1>7, FS_RemoveElement
<1>9. Numbered'
  BY <1>1, <1>2, <1>6, <1>7, <1>8 DEF Numbered
<1>10. started' <= runGen + 1
  <2>1. Cardinality(Starts') \in Nat
    BY <1>8, FS_CardinalityType
  <2> QED BY <1>2, <1>6, <1>8, <2>1
<1>11. RunTypeOK'
  <2>1. IsABag(flight)'
    BY <1>5 DEF Single
  <2>2. alive' \subseteq 1..started' /\ started' \in 0..MaxReruns + 1
    <3>1. alive \subseteq 1..started
      BY DEF RunInv, RunTypeOK
    <3>2. CASE started' = started + 1 /\ alive' = alive \cup {started + 1}
      BY <1>2, <1>10, <3>1, <3>2
    <3>3. CASE UNCHANGED <<alive, started>>
      BY <1>2, <1>10, <3>1, <3>3
    <3> QED BY <1>3, <3>2, <3>3
  <2>3. \A n : n \in 1..started => n \in 1..started'
    BY <1>2, <1>6
  <2>4. stream' \in 0..started'
    BY <1>1, <1>2, <1>6 DEF RunInv, RunTypeOK
  <2> QED BY <1>1, <2>1, <2>2, <2>3, <2>4 DEF RunInv, RunTypeOK
<1>12. AttachedNow' = AttachedNow
  BY <1>1 DEF AttachedNow
<1>13. AttachedOK'
  BY <1>1, <1>2, <1>6, <1>12 DEF RunInv, AttachedOK, Procs
<1>14. FlightOK'
  <2>1. ASSUME NEW d, TokenOK(d) PROVE TokenOK(d)'
    BY <1>1, <1>2, <1>6, <2>1, TokenKept DEF RunInv
  <2>2. TokenOK(x)'
    <3>1. CASE x.do = "started"
      <4>1. attached[started + 1] = None - 1
        <5>1. started' = started + 1
          BY <1>3, <3>1
        <5> QED BY <1>2, <1>10, <5>1 DEF RunInv, AttachedOK, Procs
      <4> QED BY <1>1, <1>2, <1>3, <3>1, <4>1 DEF TokenOK
    <3>2. CASE x.do = "done"
      BY <1>1, <1>3, <3>2 DEF TokenOK
    <3> QED BY <1>6, <3>1, <3>2
  <2> QED BY <1>5, <2>1, <2>2 DEF RunInv, FlightOK
<1>15. ChainsOn'
  <2>1. \A d \in InFlight : d.do \in {"wait", "event", "done"} => d \in InFlight'
    BY <1>1, <1>5
  <2> QED BY <1>1, <1>12, <2>1 DEF RunInv, ChainsOn
<1>16. OnlyAttached' /\ DrainedAtDone' /\ ClockRuns' /\ TicksBounded'
  BY <1>1 DEF RunInv, OnlyAttached, DrainedAtDone, ClockRuns, TicksBounded
<1>17. BegunOK'
  <2>1. /\ c.gen \in 0..runGen /\ BegunOK /\ c \in Starts
        /\ c.gen = runGen \/ c.gen \in overtaken
    BY <1>1 DEF TokenOK, RunInv, BegunOK
  <2>2. \A d \in Starts \ {c} : d.gen # c.gen
    BY <1>1 DEF RunInv, FlightOK, TokenOK, Single, Starts, Flying, InFlight
  <2>3. CASE UNCHANGED <<started, begun>>
    BY <1>1, <1>7, <2>1, <2>3 DEF BegunOK, Belongs, Overtaken
  <2>4. CASE started' = started + 1 /\ begun' = [begun EXCEPT ![started + 1] = c.gen]
    <3>1. /\ started + 1 \in Procs /\ 1..started \subseteq Procs
          /\ attached[started + 1] = None - 1
      BY <1>2, <1>10, <2>4 DEF Procs, RunInv, AttachedOK
    <3>2. /\ begun' \in [Procs -> Int] /\ begun'[started + 1] = c.gen
          /\ \A p \in 1..started : begun'[p] = begun[p]
      BY <1>2, <2>1, <2>4, <3>1 DEF BegunOK
    <3>3. \A p \in 1..started' : p \in 1..started \/ p = started + 1
      BY <1>2, <2>4
    <3>4. \A p \in 1..started : begun[p] # c.gen /\ begun[p] \in 0..runGen /\ Belongs(p)
      BY <2>1 DEF BegunOK
    <3>5. \A p \in 1..started' : begun'[p] \in 0..runGen' /\ Belongs(p)'
      BY <1>1, <2>1, <3>1, <3>2, <3>3, <3>4 DEF Belongs, Overtaken
    <3>6. \A p, q \in 1..started' : begun'[p] = begun'[q] => p = q
      BY <2>1, <3>2, <3>3, <3>4 DEF BegunOK
    <3>7. \A d \in Starts' : /\ d.gen = runGen \/ d.gen \in overtaken
                             /\ \A p \in 1..started' : begun'[p] # d.gen
      BY <1>7, <2>1, <2>2, <3>2, <3>3 DEF BegunOK
    <3> QED BY <1>1, <3>2, <3>5, <3>6, <3>7 DEF BegunOK
  <2> QED BY <1>3, <2>3, <2>4
<1> QED BY <1>5, <1>9, <1>11, <1>13, <1>14, <1>15, <1>16, <1>17 DEF RunInv

(* A rerun is confirmed: a clean of the cache is on its way.                 *)
LEMMA RerunStep ==
  ASSUME RunInv, ConfirmRerun
  PROVE  RunInv'
<1> USE RunAssumption
<1>1. UNCHANGED <<alive, started, sent, taken, errSent, errTaken, done, runGen, running,
                  stream, items, ticks, quit, attached, begun, overtaken>>
  BY DEF ConfirmRerun, chanVars
<1>2. /\ started \in Nat /\ runGen \in Nat /\ reruns \in Nat /\ runGen <= reruns
      /\ reruns < MaxReruns /\ MaxReruns \in Nat /\ reruns' = reruns + 1
      /\ IsFiniteSet(Starts) /\ IsFiniteSet(Reruns)
      /\ Cardinality(Starts) \in Nat /\ Cardinality(Reruns) \in Nat
      /\ started + Cardinality(Starts) <= runGen + 1
      /\ runGen + Cardinality(Reruns) <= reruns
  BY FS_CardinalityType DEF RunInv, RunTypeOK, Numbered, ConfirmRerun
<1>3. PICK x : /\ flight' = flight (+) With(x)
               /\ x.do = "clean" /\ x.from = <<"rerun", reruns + 1>>
  BY DEF ConfirmRerun
<1>4. \A d \in InFlight : d.from # x.from
  BY <1>2, <1>3 DEF RunInv, FlightOK, TokenOK, OfProcess
<1>5. InFlight' = InFlight \cup {x} /\ Single' /\ x \notin InFlight
  BY <1>3, <1>4, AddedTo DEF RunInv
<1>7. Starts' = Starts /\ Reruns' = Reruns \cup {x} /\ x \notin Reruns
  BY <1>3, <1>5 DEF Starts, Reruns, Flying, InFlight
<1>8. IsFiniteSet(Reruns') /\ Cardinality(Reruns') = Cardinality(Reruns) + 1
  BY <1>2, <1>7, FS_AddElement
<1>9. Numbered'
  BY <1>1, <1>2, <1>7, <1>8 DEF Numbered
<1>11. RunTypeOK'
  <2>1. IsABag(flight)'
    BY <1>5 DEF Single
  <2> QED BY <1>1, <1>2, <2>1 DEF RunInv, RunTypeOK
<1>12. AttachedNow' = AttachedNow
  BY <1>1 DEF AttachedNow
<1>13. AttachedOK'
  BY <1>1, <1>12 DEF RunInv, AttachedOK
<1>14. FlightOK'
  <2>1. ASSUME NEW d, TokenOK(d) PROVE TokenOK(d)'
    BY <1>1, <1>2, <2>1, TokenKept DEF RunInv
  <2>2. TokenOK(x)'
    BY <1>2, <1>3 DEF TokenOK
  <2> QED BY <1>5, <2>1, <2>2 DEF RunInv, FlightOK
<1>15. ChainsOn'
  BY <1>1, <1>5, <1>12 DEF RunInv, ChainsOn
<1>16. OnlyAttached' /\ DrainedAtDone' /\ ClockRuns' /\ TicksBounded'
  BY <1>1 DEF RunInv, OnlyAttached, DrainedAtDone, ClockRuns, TicksBounded
<1>17. BegunOK'
  BY <1>1, <1>7, BegunKept DEF RunInv
<1> QED BY <1>5, <1>9, <1>11, <1>13, <1>14, <1>15, <1>16, <1>17 DEF RunInv

LEMMA CleanStep ==
  ASSUME RunInv, NEW c \in InFlight, ExecClean(c)
  PROVE  RunInv'
<1> USE RunAssumption
<1>1. /\ c.do = "clean" /\ TokenOK(c) /\ c \in Reruns
      /\ UNCHANGED <<started, sent, taken, errSent, errTaken, done, runGen, running, stream,
                     items, reruns, ticks, quit, attached, begun, overtaken>>
  BY DEF ExecClean, Flying, RunInv, FlightOK, Reruns, InFlight, chanVars
<1>3. PICK x : Replace(c, With(x)) /\ x.do = "cleaned" /\ x.from = c.from
  BY DEF ExecClean
<1>5. InFlight' = (InFlight \ {c}) \cup {x} /\ Single'
  BY <1>1, <1>3, Exchanged DEF RunInv
<1>6. x \notin Reruns \ {c}
  BY <1>1, <1>3 DEF RunInv, Single, Reruns, Flying, InFlight
<1>7. Starts' = Starts /\ Reruns' = (Reruns \ {c}) \cup {x}
  BY <1>1, <1>3, <1>5 DEF Starts, Reruns, Flying, InFlight
<1>8. IsFiniteSet(Reruns') /\ Cardinality(Reruns') = Cardinality(Reruns)
  <2>1. IsFiniteSet(Reruns) /\ Cardinality(Reruns) \in Nat
    BY FS_CardinalityType DEF RunInv, Numbered
  <2>2. IsFiniteSet(Reruns \ {c}) /\ Cardinality(Reruns \ {c}) = Cardinality(Reruns) - 1
    BY <1>1, <2>1, FS_RemoveElement
  <2>3. Cardinality((Reruns \ {c}) \cup {x}) = Cardinality(Reruns \ {c}) + 1
        /\ IsFiniteSet((Reruns \ {c}) \cup {x})
    BY <1>6, <2>2, FS_AddElement
  <2> QED BY <1>7, <2>1, <2>2, <2>3
<1>9. Numbered'
  BY <1>1, <1>7, <1>8 DEF RunInv, Numbered
<1>11. RunTypeOK'
  <2>1. IsABag(flight)'
    BY <1>5 DEF Single
  <2>2. alive' \subseteq alive
    BY DEF ExecClean
  <2> QED BY <1>1, <2>1, <2>2 DEF RunInv, RunTypeOK
<1>12. AttachedNow' = AttachedNow
  BY <1>1 DEF AttachedNow
<1>13. AttachedOK'
  BY <1>1, <1>12 DEF RunInv, AttachedOK
<1>14. FlightOK'
  <2>1. \A d : TokenOK(d)' <=> TokenOK(d)
    BY <1>1 DEF TokenOK, OfProcess
  <2>2. TokenOK(x)
    BY <1>1, <1>3 DEF TokenOK
  <2> QED BY <1>5, <2>1, <2>2 DEF RunInv, FlightOK
<1>15. ChainsOn'
  <2>1. \A d \in InFlight : d.do \in {"wait", "event", "done"} => d \in InFlight'
    BY <1>1, <1>5
  <2> QED BY <1>1, <1>12, <2>1 DEF RunInv, ChainsOn
<1>16. OnlyAttached' /\ DrainedAtDone' /\ ClockRuns' /\ TicksBounded'
  BY <1>1 DEF RunInv, OnlyAttached, DrainedAtDone, ClockRuns, TicksBounded
<1>17. BegunOK'
  BY <1>1, <1>7, BegunKept DEF RunInv
<1> QED BY <1>5, <1>9, <1>11, <1>13, <1>14, <1>15, <1>16, <1>17 DEF RunInv
-----------------------------------------------------------------------------
(* A started process is attached: its stream is App.stream now.              *)
LEMMA AttachStep ==
  ASSUME RunInv, NEW m \in InFlight, HandleStarted(m)
  PROVE  RunInv'
<1> USE RunAssumption
<1>1. /\ m.do = "started" /\ TokenOK(m)
      /\ stream' = m.stream /\ attached' = [attached EXCEPT ![m.stream] = runGen]
      /\ UNCHANGED <<alive, started, sent, taken, errSent, errTaken, done, runGen, running,
                     items, reruns, ticks, quit, begun, overtaken>>
  BY DEF HandleStarted, Flying, RunInv, FlightOK, chanVars
<1>2. /\ m.stream \in 1..started /\ m.stream \in Procs /\ m.from = <<"process", m.stream>>
      /\ attached[m.stream] = None - 1 /\ runGen \in Nat /\ started \in Nat
      /\ attached \in [Procs -> Int] /\ started \in 0..MaxReruns + 1
  <2>1. m.stream \in 1..started /\ m.from = <<"process", m.stream>>
        /\ attached[m.stream] = None - 1
    BY <1>1 DEF TokenOK
  <2>2. m.stream \in Procs
    BY <2>1, StartedAreProcs DEF RunInv
  <2>3. /\ runGen \in Nat /\ started \in Nat /\ started \in 0..MaxReruns + 1
        /\ attached \in [Procs -> Int]
    BY DEF RunInv, RunTypeOK, AttachedOK
  <2> QED BY <2>1, <2>2, <2>3
<1>3. /\ attached' \in [Procs -> Int] /\ attached'[m.stream] = runGen
      /\ \A p \in Procs : p # m.stream => attached'[p] = attached[p]
  BY <1>1, <1>2
<1>4. PICK x : /\ Replace(m, With(x)) /\ x.from = m.from /\ x.do = "wait"
               /\ x.gen = runGen /\ x.stream = m.stream
  BY DEF HandleStarted, Wait
<1>5. InFlight' = (InFlight \ {m}) \cup {x} /\ Single'
  BY <1>4, Exchanged DEF RunInv
<1>7. Starts' = Starts /\ Reruns' = Reruns
  BY <1>1, <1>4, <1>5 DEF Starts, Reruns, Flying, InFlight
<1>9. Numbered'
  BY <1>1, <1>7 DEF RunInv, Numbered
<1>11. RunTypeOK'
  <2>1. IsABag(flight)'
    BY <1>5 DEF Single
  <2>2. stream' \in 0..started'
    BY <1>1, <1>2
  <2> QED BY <1>1, <2>1, <2>2 DEF RunInv, RunTypeOK
<1>12. \A p \in AttachedNow' : p \in AttachedNow \/ p = m.stream
  BY <1>1, <1>3 DEF AttachedNow
<1>13. AttachedOK'
  <2>1. \A p \in Procs : /\ attached'[p] \in (None - 1) .. runGen'
                         /\ p > started' => attached'[p] = None - 1
    BY <1>1, <1>2, <1>3 DEF RunInv, AttachedOK, None
  <2>2. stream' # None /\ attached'[stream'] = runGen'
    BY <1>1, <1>2, <1>3 DEF None
  <2> QED BY <1>3, <2>1, <2>2 DEF AttachedOK
<1>14. FlightOK'
  <2> SUFFICES ASSUME NEW d \in (InFlight \ {m}) \cup {x}
               PROVE  TokenOK(d)'
    BY <1>5 DEF FlightOK
  <2>1. CASE d = x
    BY <1>1, <1>2, <1>3, <1>4, <2>1 DEF TokenOK, OfProcess
  <2>2. CASE d \in InFlight \ {m}
    <3>1. TokenOK(d) /\ d.from # m.from
      BY <2>2 DEF RunInv, FlightOK, Single
    <3>2. \A p \in 1..started : attached[p] \in Nat => attached'[p] = attached[p]
      BY <1>2, <1>3 DEF Procs, None
    <3>3. d.do \in {"wait", "event", "done"} => d.gen \in Nat
      BY <1>2, <3>1 DEF TokenOK
    <3>4. OfProcess(d) /\ d.gen \in Nat => OfProcess(d)'
      BY <1>1, <3>2 DEF OfProcess
    <3>5. CASE d.do = "started"
      BY <1>1, <1>2, <1>3, <3>1, <3>5 DEF TokenOK, Procs
    <3>6. CASE d.do \in {"wait", "event", "done"}
      BY <1>1, <3>1, <3>2, <3>3, <3>4, <3>6 DEF TokenOK
    <3>7. CASE d.do \in {"start", "clean", "cleaned"}
      BY <1>1, <3>1, <3>7 DEF TokenOK
    <3> QED BY <3>1, <3>5, <3>6, <3>7 DEF TokenOK
  <2> QED BY <2>1, <2>2
<1>15. ChainsOn'
  <2> SUFFICES ASSUME running, NEW p \in AttachedNow'
               PROVE  \E d \in (InFlight \ {m}) \cup {x} :
                        d.from = <<"process", p>> /\ d.do \in {"wait", "event", "done"}
    BY <1>1, <1>5 DEF ChainsOn
  <2>1. CASE p = m.stream
    BY <1>2, <1>4, <2>1
  <2>2. CASE p \in AttachedNow
    BY <1>1, <2>2 DEF RunInv, ChainsOn
  <2> QED BY <1>12, <2>1, <2>2
<1>16. OnlyAttached'
  <2>1. \A i \in items : i[1] \in Procs /\ i[1] # m.stream
    <3>1. \A i \in items : i[1] \in Procs /\ attached[i[1]] = runGen
      BY StartedAreProcs DEF RunInv, RunTypeOK, OnlyAttached
    <3> QED BY <1>2, <3>1 DEF None
  <2> QED BY <1>1, <1>3, <2>1 DEF RunInv, OnlyAttached
<1>17. DrainedAtDone' /\ ClockRuns' /\ TicksBounded'
  BY <1>1 DEF RunInv, DrainedAtDone, ClockRuns, TicksBounded
<1>18. BegunOK'
  <2>1. BegunOK /\ \A p \in 1..started : p \in Procs
    BY <1>2 DEF RunInv, Procs
  <2>2. ASSUME NEW p \in 1..started PROVE Belongs(p)'
    BY <1>1, <1>2, <1>3, <2>1 DEF BegunOK, Belongs, Overtaken, None
  <2> QED BY <1>1, <1>7, <2>1, <2>2 DEF BegunOK
<1> QED BY <1>5, <1>9, <1>11, <1>13, <1>14, <1>15, <1>16, <1>17, <1>18 DEF RunInv

(* A message is dropped: an event after a stop or of an earlier generation,  *)
(* or the end of a run.                                                      *)
LEMMA MessageTaken ==
  ASSUME RunInv, RunTypeOK', NEW m \in InFlight, Replace(m, EmptyBag),
         m.do \in {"event", "done"}, running' => running /\ m.gen # runGen,
         UNCHANGED <<started, runGen, reruns, stream, attached, begun, overtaken>>
  PROVE  /\ Single' /\ FlightOK' /\ AttachedOK' /\ ChainsOn' /\ Numbered' /\ BegunOK'
<1>1. /\ InFlight' = InFlight \ {m} /\ Single'
  BY Taken DEF RunInv
<1>2. Starts' = Starts /\ Reruns' = Reruns
  BY <1>1 DEF Starts, Reruns, Flying, InFlight
<1>3. FlightOK'
  <2>1. \A d : TokenOK(d)' <=> TokenOK(d)
    BY DEF TokenOK, OfProcess
  <2> QED BY <1>1, <2>1 DEF RunInv, FlightOK
<1>4. AttachedNow' = AttachedNow
  BY DEF AttachedNow
<1>5. AttachedOK'
  BY <1>4 DEF RunInv, AttachedOK
<1>6. ChainsOn'
  <2> SUFFICES ASSUME running', NEW p \in AttachedNow
               PROVE  \E d \in InFlight \ {m} :
                        d.from = <<"process", p>> /\ d.do \in {"wait", "event", "done"}
    BY <1>1, <1>4 DEF ChainsOn
  <2>1. PICK d \in InFlight : d.from = <<"process", p>> /\ d.do \in {"wait", "event", "done"}
    BY DEF RunInv, ChainsOn
  <2>2. d.gen = runGen
    BY <2>1 DEF RunInv, FlightOK, TokenOK, OfProcess, AttachedNow
  <2> QED BY <2>1, <2>2
<1>7. Numbered'
  BY <1>2 DEF RunInv, Numbered
<1>8. BegunOK'
  BY <1>2, BegunKept DEF RunInv
<1> QED BY <1>1, <1>3, <1>5, <1>6, <1>7, <1>8

LEMMA EventStep ==
  ASSUME RunInv, NEW m \in InFlight, HandleEvent(m)
  PROVE  RunInv'
<1>1. /\ m.do = "event" /\ TokenOK(m)
      /\ UNCHANGED <<alive, started, sent, taken, errSent, errTaken, done, runGen, running,
                     stream, reruns, ticks, quit, attached, begun, overtaken>>
      /\ items' = IF m.gen = runGen THEN items \cup {m.item} ELSE items
  BY DEF HandleEvent, Flying, RunInv, FlightOK, chanVars
<1>2. /\ OfProcess(m) /\ m.item[1] \in 1..started /\ attached[m.item[1]] = m.gen
      /\ m.gen \in 0..runGen
  BY <1>1 DEF TokenOK
<1>3. IsABag(flight)' => RunTypeOK'
  BY <1>1, <1>2 DEF RunInv, RunTypeOK
<1>4. OnlyAttached' /\ DrainedAtDone' /\ ClockRuns' /\ TicksBounded'
  BY <1>1, <1>2 DEF RunInv, OnlyAttached, DrainedAtDone, ClockRuns, TicksBounded
<1>5. RunTypeOK' /\ Single' /\ FlightOK' /\ AttachedOK' /\ ChainsOn' /\ Numbered' /\ BegunOK'
  <2>1. CASE m.gen = runGen /\ running
    <3>1. PICK x : /\ Replace(m, With(x)) /\ x.from = m.from /\ x.do = "wait"
                   /\ x.gen = runGen /\ x.stream = stream
      BY <2>1 DEF HandleEvent, Wait
    <3>2. AttachedNow # {}
      BY <1>2, <2>1, StartedAreProcs DEF OfProcess, AttachedNow, RunInv
    <3>3. stream \in 1..started /\ attached[stream] = runGen
      BY <3>2 DEF RunInv, AttachedOK, RunTypeOK, None
    <3>4. TokenOK(x)
      BY <1>2, <2>1, <3>1, <3>3 DEF TokenOK, OfProcess
    <3>5. RunTypeOK'
      BY <1>3, <3>1, Exchanged DEF RunInv, Single
    <3> QED BY <1>1, <3>1, <3>4, <3>5, ChainGoesOn, Exchanged DEF RunInv
  <2>2. CASE ~(m.gen = runGen /\ running)
    <3>1. Replace(m, EmptyBag)
      BY <2>2 DEF HandleEvent
    <3>2. RunTypeOK'
      BY <1>3, <3>1, Taken DEF RunInv, Single
    <3> QED BY <1>1, <2>2, <3>1, <3>2, MessageTaken
  <2> QED BY <2>1, <2>2
<1> QED BY <1>4, <1>5 DEF RunInv

LEMMA DoneStep ==
  ASSUME RunInv, NEW m \in InFlight, HandleDone(m)
  PROVE  RunInv'
<1>1. /\ m.do = "done" /\ Replace(m, EmptyBag)
      /\ UNCHANGED <<alive, started, sent, taken, errSent, errTaken, done, runGen,
                     stream, items, reruns, ticks, quit, attached, begun, overtaken>>
      /\ running' = (running /\ m.gen # runGen)
  BY DEF HandleDone, Flying, RunInv, FlightOK, chanVars
<1>2. RunTypeOK'
  <2>1. IsABag(flight)'
    BY <1>1, Taken DEF RunInv, Single
  <2>2. running' \in BOOLEAN
    BY <1>1
  <2> QED BY <1>1, <2>1, <2>2 DEF RunInv, RunTypeOK
<1>3. OnlyAttached' /\ DrainedAtDone' /\ ClockRuns' /\ TicksBounded'
  BY <1>1 DEF RunInv, OnlyAttached, DrainedAtDone, ClockRuns, TicksBounded
<1>4. Single' /\ FlightOK' /\ AttachedOK' /\ ChainsOn' /\ Numbered' /\ BegunOK'
  BY <1>1, <1>2, MessageTaken
<1> QED BY <1>2, <1>3, <1>4 DEF RunInv

(* The next generation begins, with no process attached.                     *)
LEMMA CleanedStep ==
  ASSUME RunInv, NEW m \in InFlight, HandleCleaned(m)
  PROVE  RunInv'
<1> USE RunAssumption
<1>1. /\ m.do = "cleaned" /\ TokenOK(m) /\ m \in Reruns
      /\ runGen' = runGen + 1 /\ items' = {} /\ running' /\ running' \in BOOLEAN
      /\ ticks' = ticks + 1 /\ overtaken' = overtaken \cup Starting
      /\ UNCHANGED <<alive, started, sent, taken, errSent, errTaken, done, stream, reruns,
                     quit, attached, begun>>
  BY DEF HandleCleaned, Flying, RunInv, FlightOK, chanVars, Reruns, InFlight
<1>2. /\ started \in Nat /\ runGen \in Nat /\ reruns \in Nat /\ ticks \in Nat
      /\ IsFiniteSet(Starts) /\ IsFiniteSet(Reruns)
      /\ Cardinality(Starts) \in Nat /\ Cardinality(Reruns) \in Nat
      /\ started + Cardinality(Starts) <= runGen + 1
      /\ runGen + Cardinality(Reruns) <= reruns
  BY FS_CardinalityType DEF RunInv, RunTypeOK, Numbered
<1>3. PICK x : /\ Replace(m, With(x)) /\ x.do = "start" /\ x.gen = runGen + 1
               /\ x.from = <<"generation", runGen + 1>>
  BY DEF HandleCleaned, StartOf
<1>4. \A d \in InFlight : d.from # x.from
  BY <1>2, <1>3 DEF RunInv, FlightOK, TokenOK, OfProcess
<1>5. InFlight' = (InFlight \ {m}) \cup {x} /\ Single' /\ x \notin InFlight
  BY <1>3, <1>4, Exchanged DEF RunInv
<1>7. Starts' = Starts \cup {x} /\ Reruns' = Reruns \ {m} /\ x \notin Starts
  BY <1>1, <1>3, <1>5 DEF Starts, Reruns, Flying, InFlight
<1>8. /\ IsFiniteSet(Reruns') /\ Cardinality(Reruns') = Cardinality(Reruns) - 1
      /\ Cardinality(Reruns') \in Nat
      /\ IsFiniteSet(Starts') /\ Cardinality(Starts') = Cardinality(Starts) + 1
  BY <1>1, <1>2, <1>7, FS_AddElement, FS_RemoveElement, FS_CardinalityType
<1>9. Numbered'
  BY <1>1, <1>2, <1>8 DEF Numbered
<1>10. runGen' \in 0..reruns'
  BY <1>1, <1>2, <1>8
<1>11. ClockRuns' /\ TicksBounded'
  BY <1>1, <1>2 DEF RunInv, ClockRuns, TicksBounded
<1>12. RunTypeOK'
  <2>1. IsABag(flight)'
    BY <1>5 DEF Single
  <2>2. ticks' \in 0..MaxTicks + MaxReruns + 1
    BY <1>1, <1>2, <1>10, <1>11 DEF RunInv, RunTypeOK, TicksBounded
  <2> QED BY <1>1, <1>10, <2>1, <2>2 DEF RunInv, RunTypeOK
<1>13. AttachedNow' = {}
  BY <1>1, <1>2 DEF RunInv, AttachedOK, AttachedNow
<1>14. AttachedOK'
  BY <1>1, <1>2, <1>13 DEF RunInv, AttachedOK, None
<1>15. FlightOK'
  <2>1. ASSUME NEW d, TokenOK(d) PROVE TokenOK(d)'
    BY <1>1, <1>2, <2>1, TokenKept DEF RunInv
  <2>2. TokenOK(x)'
    BY <1>1, <1>2, <1>3 DEF TokenOK
  <2> QED BY <1>5, <2>1, <2>2 DEF RunInv, FlightOK
<1>16. ChainsOn'
  BY <1>13 DEF ChainsOn
<1>17. OnlyAttached' /\ DrainedAtDone'
  BY <1>1 DEF RunInv, OnlyAttached, DrainedAtDone
<1>18. BegunOK'
  <2>1. BegunOK
    BY DEF RunInv
  <2>2. /\ \A c \in Starts : c.gen \in overtaken'
        /\ \A p \in 1..started : attached[p] = None - 1 => begun[p] \in overtaken'
    BY <1>1 DEF Starting, Starts
  <2>3. \A p \in 1..started : begun[p] \in 0..runGen' /\ begun[p] # runGen + 1
    BY <1>1, <1>2, <2>1 DEF BegunOK
  <2>4. ASSUME NEW p \in 1..started PROVE Belongs(p)'
    BY <1>1, <2>1, <2>2 DEF BegunOK, Belongs, Overtaken
  <2>5. \A c \in Starts' : /\ c.gen = runGen' \/ c.gen \in overtaken'
                           /\ \A p \in 1..started : begun[p] # c.gen
    BY <1>1, <1>3, <1>7, <2>1, <2>2, <2>3 DEF BegunOK
  <2> QED BY <1>1, <2>1, <2>3, <2>4, <2>5 DEF BegunOK
<1> QED BY <1>5, <1>9, <1>11, <1>12, <1>14, <1>15, <1>16, <1>17, <1>18 DEF RunInv

-----------------------------------------------------------------------------
(* At any time a stream has one reader: what RunInv says of the chains.      *)
LEMMA ChainsAreReaders == RunInv => OneReader
<1> SUFFICES ASSUME RunInv PROVE OneReader
  OBVIOUS
<1>1. ASSUME NEW c \in Readers
      PROVE  /\ flight[c] = 1
             /\ \E p \in AttachedNow : c.from = <<"process", p>>
             /\ \A d \in Readers : c.from = d.from => c = d
  <2>1. Readers \subseteq InFlight
    BY DEF Readers, Flying, InFlight
  <2>2. OfProcess(c) /\ c.gen = runGen
    BY <2>1 DEF RunInv, FlightOK, TokenOK, Readers, Flying
  <2>3. \A p \in 1..started : p \in Procs
    BY RunAssumption DEF RunInv, RunTypeOK, Procs
  <2>4. \E p \in AttachedNow : c.from = <<"process", p>>
    BY <2>2, <2>3 DEF OfProcess, AttachedNow
  <2> QED BY <2>1, <2>4 DEF RunInv, Single
<1>2. ASSUME running, AttachedNow # {} PROVE Readers # {} \/ Ends # {}
  <2>1. PICK p \in AttachedNow : TRUE
    BY <1>2
  <2>2. PICK c \in InFlight : c.from = <<"process", p>> /\ c.do \in {"wait", "event", "done"}
    BY <1>2 DEF RunInv, ChainsOn
  <2>3. c.gen = runGen
    BY <2>1, <2>2 DEF RunInv, FlightOK, TokenOK, OfProcess, AttachedNow
  <2> QED BY <2>2, <2>3 DEF Readers, Ends, Flying, InFlight
<1>3. ASSUME NEW p \in AttachedNow, NEW q \in AttachedNow, ~Overtaken(p), ~Overtaken(q)
      PROVE  p = q
  <2>1. p \in 1..started /\ q \in 1..started /\ attached[p] = runGen /\ attached[q] = runGen
    BY DEF AttachedNow, RunInv, RunTypeOK, AttachedOK, Procs, None
  <2>2. begun[p] = runGen /\ begun[q] = runGen
    BY <1>3, <2>1 DEF RunInv, RunTypeOK, BegunOK, Belongs, None
  <2> QED BY <2>1, <2>2 DEF RunInv, BegunOK
<1> QED BY <1>1, <1>2, <1>3 DEF OneReader

(* What is shown was started for this generation, or overtaken.              *)
LEMMA ShownBelongs == RunInv => StaleDropped
<1> SUFFICES ASSUME RunInv, NEW i \in items
             PROVE  /\ attached[i[1]] = runGen
                    /\ begun[i[1]] = runGen \/ Overtaken(i[1])
  BY DEF StaleDropped
<1>1. attached[i[1]] = runGen /\ i[1] \in 1..started /\ runGen # None - 1
  BY DEF RunInv, OnlyAttached, RunTypeOK, None
<1> QED BY <1>1 DEF RunInv, BegunOK, Belongs

(* RealApp.Update and the commands it returns: each attached process has one *)
(* reader, what was attached in earlier generations stays out of the tree, a *)
(* run is drained before it is over, and its clock ticks.  A process still   *)
(* being started when a rerun takes over is the exception: it is attached    *)
(* and shown with the process of the new generation.                         *)
THEOREM RunsAreSound == RunSpec => []RunSound
<1>1. RunInit => RunInv
  BY RunInitInv
<1>2. RunInv /\ [RunNext]_runVars => RunInv'
  <2> SUFFICES ASSUME RunInv, [RunNext]_runVars PROVE RunInv'
    OBVIOUS
  <2>1. ASSUME NEW m \in InFlight,
               HandleStarted(m) \/ HandleEvent(m) \/ HandleDone(m) \/ HandleCleaned(m)
        PROVE  RunInv'
    BY <2>1, AttachStep, EventStep, DoneStep, CleanedStep
  <2>2. ASSUME NEW c \in InFlight, ExecStart(c) \/ ExecClean(c) \/ ExecWait(c)
        PROVE  RunInv'
    BY <2>2, StartSteps, CleanStep, WaitSteps
  <2>3. CASE User \/ HandleTick
    BY <2>3, RerunStep, AnswerSteps DEF User
  <2>4. ASSUME NEW p \in Procs, Emit(p) \/ EmitErr(p) \/ Process(p)
        PROVE  RunInv'
    BY <2>4, ProcessSteps
  <2>5. CASE UNCHANGED runVars
    <3>1. InFlight' = InFlight /\ Starts' = Starts /\ Reruns' = Reruns
          /\ AttachedNow' = AttachedNow
      BY <2>5 DEF InFlight, Starts, Reruns, Flying, runVars, AttachedNow
    <3>2. RunTypeOK'
      BY <2>5 DEF RunInv, RunTypeOK, runVars, chanVars
    <3>3. Single' /\ FlightOK' /\ AttachedOK' /\ ChainsOn' /\ Numbered' /\ BegunOK'
      BY <2>5, <3>2, QuietStep DEF runVars, chanVars
    <3>4. TicksBounded' /\ OnlyAttached' /\ DrainedAtDone' /\ ClockRuns'
      BY <2>5 DEF RunInv, TicksBounded, OnlyAttached, DrainedAtDone, ClockRuns, runVars, chanVars
    <3> QED BY <3>2, <3>3, <3>4 DEF RunInv
  <2> QED BY <2>1, <2>2, <2>3, <2>4, <2>5 DEF RunNext, Update, Command, InFlight
<1>3. RunInv => RunSound
  BY ChainsAreReaders, ShownBelongs DEF RunInv, RunSound
<1> QED BY <1>1, <1>2, <1>3, PTL DEF RunSpec

-----------------------------------------------------------------------------
(***************************************************************************)
(* The tree.  Above is fixed by Parent, so that what holds of packages and  *)
(* goes from each node to its children holds of every node.                 *)
(***************************************************************************)
Inner == Tests \cup PrefixNodes

(* A node is a package or lies under its parent, whose own line is above it. *)
LEMMA NodeFacts ==
  ASSUME NEW n \in Nodes
  PROVE  /\ n \in Packages \/ n \in Inner
         /\ Above[n] \subseteq Nodes /\ n \notin Above[n] /\ IsFiniteSet(Above[n])
         /\ n \in Packages => Above[n] = {} /\ n \notin Inner
         /\ n \in Inner => /\ Parent[n] \in Nodes /\ Above[n] = Path(Parent[n]) /\ Parent[n] # n
<1>1. n \in Packages \/ n \in Inner
  BY DEF Nodes, Inner
<1>2. Above[n] \subseteq Nodes
  BY TreeAssumption
<1>3. IsFiniteSet(Above[n])
  BY <1>2, TreeAssumption, FS_Subset
<1>4. n \in Packages => Above[n] = {} /\ n \notin Inner
  BY TreeAssumption DEF Inner
<1>5. n \in Inner => /\ Parent[n] \in Nodes /\ Above[n] = Path(Parent[n]) /\ n \notin Above[n]
                     /\ Parent[n] # n
  BY TreeAssumption DEF Inner, Path
<1> QED BY <1>1, <1>2, <1>3, <1>4, <1>5

(* What packages have and each node has after its parent, all nodes have.    *)
LEMMA ByParent ==
  ASSUME NEW S, Packages \subseteq S, \A n \in Inner : Parent[n] \in S => n \in S
  PROVE  Nodes \subseteq S
<1> SUFFICES ASSUME NEW b \in Nodes, b \notin S PROVE FALSE
  OBVIOUS
<1> DEFINE D == {Cardinality(Above[n]) : n \in Nodes \ S}
<1>1. D \subseteq Nat /\ D # {}
  <2>1. \A n \in Nodes : Cardinality(Above[n]) \in Nat
    BY NodeFacts, FS_CardinalityType
  <2> QED BY <2>1
<1>2. PICK n \in Nodes \ S : \A m \in Nodes \ S : Cardinality(Above[n]) <= Cardinality(Above[m])
  <2>1. PICK x \in D : \A v \in D : x <= v
    BY <1>1, NatSetMin
  <2> QED BY <2>1
<1> DEFINE m == Parent[n]
<1>3. n \in Inner /\ m \in Nodes \ S /\ Above[n] = {m} \cup Above[m] /\ m \notin Above[m]
  BY NodeFacts, <1>2 DEF Path
<1>4. Cardinality(Above[n]) = Cardinality(Above[m]) + 1
  <2>1. IsFiniteSet(Above[m]) /\ Above[n] = Above[m] \cup {m}
    BY <1>3, NodeFacts
  <2> QED BY <1>3, <2>1, FS_AddElement
<1>5. Cardinality(Above[m]) \in Nat
  BY <1>3, NodeFacts, FS_CardinalityType
<1> QED BY <1>2, <1>3, <1>4, <1>5

(* Whatever is above a node above n is above n.                              *)
LEMMA Transitive ==
  ASSUME NEW n \in Nodes, NEW a \in Above[n]
  PROVE  Path(a) \subseteq Above[n] /\ n \notin Path(a) /\ a \in Nodes
<1> DEFINE S == {x \in Nodes : \A v \in Above[x] : Path(v) \subseteq Above[x]}
<1>1. Packages \subseteq S
  BY NodeFacts DEF Nodes
<1>2. ASSUME NEW x \in Inner, Parent[x] \in S PROVE x \in S
  <2>1. x \in Nodes /\ Above[x] = Path(Parent[x])
    BY NodeFacts DEF Nodes, Inner
  <2> QED BY <1>2, <2>1 DEF Path
<1>3. n \in S
  <2> HIDE DEF S
  <2> QED BY <1>1, <1>2, ByParent
<1> QED BY <1>3, NodeFacts

(* Two nodes of one line are above one another.                              *)
LEMMA Linear ==
  ASSUME NEW n \in Nodes, NEW a \in Path(n), NEW b \in Path(n)
  PROVE  a \in Path(b) \/ b \in Path(a)
<1> DEFINE S == {x \in Nodes : \A v, z \in Path(x) : v \in Path(z) \/ z \in Path(v)}
<1>1. Packages \subseteq S
  <2>1. \A x \in Packages : x \in Nodes /\ Path(x) = {x}
    BY NodeFacts DEF Nodes, Path
  <2> QED BY <2>1
<1>2. ASSUME NEW x \in Inner, Parent[x] \in S PROVE x \in S
  <2>1. x \in Nodes /\ Above[x] = Path(Parent[x]) /\ Path(x) = {x} \cup Above[x]
    BY NodeFacts DEF Nodes, Inner, Path
  <2> QED BY <1>2, <2>1
<1>3. n \in S
  <2> HIDE DEF S
  <2> QED BY <1>1, <1>2, ByParent
<1> QED BY <1>3

(* Each node has one package above it, or is one. *)
LEMMA HasPackage ==
  ASSUME NEW n \in Nodes
  PROVE  \E p \in Packages : p \in Path(n) /\ Path(n) \cap Packages = {p}
<1> DEFINE S == {x \in Nodes : \E p \in Packages : p \in Path(x)}
<1>1. Packages \subseteq S
  BY DEF Nodes, Path
<1>2. ASSUME NEW x \in Inner, Parent[x] \in S PROVE x \in S
  <2>1. x \in Nodes /\ Above[x] = Path(Parent[x]) /\ Path(x) = {x} \cup Above[x]
    BY NodeFacts DEF Nodes, Inner, Path
  <2> QED BY <1>2, <2>1
<1>3. n \in S
  <2> HIDE DEF S
  <2> QED BY <1>1, <1>2, ByParent
<1>4. PICK p \in Packages : p \in Path(n)
  BY <1>3
<1>5. ASSUME NEW q \in Path(n) \cap Packages PROVE q = p
  <2>1. Path(p) = {p} /\ Path(q) = {q}
    BY NodeFacts DEF Nodes, Path
  <2> QED BY <1>4, <2>1, Linear
<1> QED BY <1>4, <1>5

(* What goes from each node of a line to its parent holds up to its end.     *)
LEMMA UpThePath ==
  ASSUME NEW n \in Nodes, NEW S, n \in S,
         \A k \in Path(n) \cap Inner : k \in S => Parent[k] \in S
  PROVE  Path(n) \subseteq S
<1> DEFINE Climbs(x, R) == x \in R /\ \A k \in Path(x) \cap Inner : k \in R => Parent[k] \in R
           G == {x \in Nodes : \A R \in SUBSET Nodes : Climbs(x, R) => Path(x) \subseteq R}
<1>1. Packages \subseteq G
  BY NodeFacts DEF Nodes, Path
<1>2. ASSUME NEW x \in Inner, Parent[x] \in G PROVE x \in G
  <2>1. x \in Nodes /\ Above[x] = Path(Parent[x]) /\ Path(x) = {x} \cup Above[x]
    BY NodeFacts DEF Nodes, Inner, Path
  <2>2. ASSUME NEW R \in SUBSET Nodes, Climbs(x, R) PROVE Path(x) \subseteq R
    <3>1. Climbs(Parent[x], R)
      BY <2>1, <2>2
    <3>2. Path(Parent[x]) \subseteq R
      BY <1>2, <3>1
    <3> QED BY <2>1, <2>2, <3>2
  <2> QED BY <2>1, <2>2
<1>3. n \in G
  <2> HIDE DEF G
  <2> QED BY <1>1, <1>2, ByParent
<1>4. Climbs(n, S \cap Nodes) /\ S \cap Nodes \in SUBSET Nodes
  <2>1. \A k \in Path(n) \cap Inner : Parent[k] \in Nodes
    BY NodeFacts DEF Nodes, Inner
  <2> QED BY <2>1
<1> QED BY <1>3, <1>4

(* The nearest test above a test owns it, and all tests above are its own or *)
(* its owner's.                                                              *)
LEMMA OwnerOf ==
  ASSUME NEW u \in Tests, NEW t \in Tests, t \in Above[u]
  PROVE  \E o \in Owner(u) : o \in Above[u] /\ t \in Path(o)
<1> DEFINE S == {x \in Nodes : \A v \in Above[x] \cap Tests :
                   \E o \in Above[x] \cap Tests : v \in Path(o) /\ Above[x] \cap Tests \subseteq Path(o)}
<1>1. Packages \subseteq S
  BY NodeFacts DEF Nodes
<1>2. ASSUME NEW x \in Inner, Parent[x] \in S PROVE x \in S
  <2>1. x \in Nodes /\ Above[x] = Path(Parent[x])
    BY NodeFacts DEF Nodes, Inner
  <2>2. ASSUME NEW v \in Above[x] \cap Tests
        PROVE  \E o \in Above[x] \cap Tests : v \in Path(o) /\ Above[x] \cap Tests \subseteq Path(o)
    <3>1. CASE Parent[x] \in Tests
      BY <2>1, <2>2, <3>1 DEF Path
    <3>2. CASE Parent[x] \notin Tests
      <4>1. v \in Above[Parent[x]] \cap Tests
        BY <2>1, <2>2, <3>2 DEF Path
      <4>2. PICK o \in Above[Parent[x]] \cap Tests :
              v \in Path(o) /\ Above[Parent[x]] \cap Tests \subseteq Path(o)
        BY <1>2, <4>1
      <4>3. o \in Above[x] \cap Tests /\ Above[x] \cap Tests \subseteq Path(o)
        BY <2>1, <3>2, <4>2 DEF Path
      <4> QED BY <4>2, <4>3
    <3> QED BY <3>1, <3>2
  <2> QED BY <2>1, <2>2
<1>3. u \in S
  <2>1. Nodes \subseteq S
    <3> HIDE DEF S
    <3> QED BY <1>1, <1>2, ByParent
  <2> QED BY <2>1 DEF Nodes
<1>4. PICK o \in Above[u] \cap Tests : t \in Path(o) /\ Above[u] \cap Tests \subseteq Path(o)
  BY <1>3
<1>5. o \in Owner(u)
  BY <1>4 DEF Owner, Subtests
<1> QED BY <1>4, <1>5

(* The test that owns a subtest is above it.                                 *)
LEMMA OwnerIsAbove ==
  ASSUME NEW u \in Tests, NEW o \in Owner(u)
  PROVE  o \in Tests /\ o \in Above[u] /\ Above[u] \cap Tests \subseteq Path(o)
BY DEF Owner, Subtests

(* Below a test, its subtest comes first. *)
LEMMA NearestSub ==
  ASSUME NEW t \in Tests, NEW u \in Tests, t \in Above[u]
  PROVE  \E s \in Subtests(t) : s \in Path(u)
<1> DEFINE First(w) == \A v \in Above[w] \cap Tests : \E s \in Subtests(v) : s \in Path(w)
           S == {x \in Nodes : \A w \in Path(x) \cap Tests : First(w)}
<1>1. Packages \subseteq S
  <2>1. \A x \in Packages : x \in Nodes /\ Path(x) \cap Tests = {}
    BY NodeFacts DEF Nodes, Path, Inner
  <2> QED BY <2>1
<1>2. ASSUME NEW x \in Inner, Parent[x] \in S PROVE x \in S
  <2>1. x \in Nodes /\ Above[x] = Path(Parent[x]) /\ Path(x) = {x} \cup Above[x]
    BY NodeFacts DEF Nodes, Inner, Path
  <2>2. \A w \in Above[x] \cap Tests : First(w)
    BY <1>2, <2>1
  <2>3. ASSUME x \in Tests, NEW v \in Above[x] \cap Tests PROVE \E s \in Subtests(v) : s \in Path(x)
    <3>1. PICK o \in Owner(x) : o \in Above[x] /\ v \in Path(o)
      BY <2>3, OwnerOf
    <3>2. CASE v = o
      <4>1. x \in Subtests(v) /\ x \in Path(x)
        BY <2>3, <3>1, <3>2 DEF Owner, Path
      <4> QED BY <4>1
    <3>3. CASE v # o
      <4>1. v \in Above[o] /\ o \in Tests
        BY <3>1, <3>3 DEF Path, Owner
      <4>2. PICK s \in Subtests(v) : s \in Path(o)
        BY <2>2, <3>1, <4>1
      <4>3. Path(o) \subseteq Path(x)
        BY <2>1, <3>1, Transitive
      <4> QED BY <4>2, <4>3
    <3> QED BY <3>2, <3>3
  <2> QED BY <2>1, <2>2, <2>3
<1>3. u \in S
  <2>1. Nodes \subseteq S
    <3> HIDE DEF S
    <3> QED BY <1>1, <1>2, ByParent
  <2> QED BY <2>1 DEF Nodes
<1>4. u \in Path(u)
  BY DEF Path
<1> QED BY <1>3, <1>4

-----------------------------------------------------------------------------
(* propagateStatus computes what its equation says: the recursion has a      *)
(* value, built from n upwards.                                              *)
Spreads(up, n, st) ==
  up = [m \in Nodes |-> IF m \in Above[n] THEN Worst({up[k] : k \in Kids(m) \cap exists}, st[m])
                       ELSE st[m]]

(* Propagated(n, st) is a value of that equation, whatever the statuses.     *)
LEMMA Spread == ASSUME NEW n \in Nodes, NEW st PROVE Spreads(Propagated(n, st), n, st)
<1> DEFINE Upto(up, m) ==
             up = [c \in Nodes |-> IF c \in Above[n] /\ m \in Path(c)
                                    THEN Worst({up[k] : k \in Kids(c) \cap exists}, st[c])
                                    ELSE st[c]]
           S == {m \in Path(n) : \E up : Upto(up, m)}
<1>1. n \in S
  <2>1. \A c \in Above[n] : n \notin Path(c)
    BY Transitive
  <2>2. Upto([c \in Nodes |-> st[c]], n)
    BY <2>1
  <2> QED BY <2>2 DEF Path
<1>2. ASSUME NEW k \in Path(n) \cap Inner, k \in S PROVE Parent[k] \in S
  <2> DEFINE m == Parent[k]
  <2>1. /\ k \in Nodes /\ m \in Nodes /\ m \in Above[n] /\ Above[k] = Path(m) /\ m \in Above[k]
        /\ Path(n) \subseteq Nodes
    <3>1. k \in Nodes /\ Path(n) \subseteq Nodes
      BY NodeFacts DEF Path, Nodes, Inner
    <3>2. m \in Nodes /\ Above[k] = Path(m)
      BY <3>1, NodeFacts
    <3>3. k = n \/ k \in Above[n]
      BY DEF Path
    <3>4. m \in Above[k]
      BY <3>2 DEF Path
    <3>5. m \in Above[n]
      BY <3>3, <3>4, Transitive DEF Path
    <3> QED BY <3>1, <3>2, <3>4, <3>5
  <2>2. PICK up : Upto(up, k)
    BY <1>2
  <2> DEFINE new == Worst({up[j] : j \in Kids(m) \cap exists}, st[m])
             w == [up EXCEPT ![m] = new]
  <2>3. /\ \A c \in Nodes : w[c] = IF c = m THEN new ELSE up[c]
        /\ w = [c \in Nodes |-> IF c = m THEN new ELSE up[c]]
    BY <2>2
  <2> HIDE DEF w
  <2>5. ASSUME NEW c \in Nodes, m \in Path(c) PROVE m \notin Kids(c)
    <3>1. ASSUME m \in Kids(c) PROVE FALSE
      <4>1. m \in Inner /\ Parent[m] = c /\ Above[m] = Path(c)
        BY <2>1, <3>1, NodeFacts DEF Kids, Inner
      <4> QED BY <2>1, <2>5, <4>1, NodeFacts
    <3> QED BY <3>1
  <2>6. \A c \in Nodes : m \in Path(c) => \A j \in Kids(c) : w[j] = up[j]
    BY <2>3, <2>5 DEF Kids, Nodes
  <2>7. ASSUME NEW c \in Nodes
        PROVE  w[c] = IF c \in Above[n] /\ m \in Path(c)
                      THEN Worst({w[j] : j \in Kids(c) \cap exists}, st[c]) ELSE st[c]
    <3>1. CASE c = m
      <4>1. m \in Path(c) /\ c \in Above[n]
        BY <2>1, <3>1 DEF Path
      <4>2. {w[j] : j \in Kids(m) \cap exists} = {up[j] : j \in Kids(m) \cap exists}
        BY <2>6, <3>1, <4>1
      <4> QED BY <2>3, <3>1, <4>1, <4>2
    <3>2. CASE c # m /\ c \in Above[n] /\ m \in Path(c)
      <4>1. m \in Above[c]
        BY <3>2 DEF Path
      <4>2. c \in Path(n)
        BY <3>2 DEF Path
      <4>3. k \in Path(c)
        <5>1. CASE c \in Path(k)
          <6>1. c = k \/ c \in Path(m)
            BY <2>1, <5>1 DEF Path
          <6>2. ~(c \in Above[m])
            BY <2>1, <4>1, Transitive DEF Path
          <6> QED BY <3>2, <6>1, <6>2 DEF Path
        <5> QED BY <4>2, <5>1, Linear
      <4>4. up[c] = Worst({up[j] : j \in Kids(c) \cap exists}, st[c])
        BY <2>2, <3>2, <4>3
      <4>5. {w[j] : j \in Kids(c) \cap exists} = {up[j] : j \in Kids(c) \cap exists}
        BY <2>6, <3>2
      <4> QED BY <2>3, <3>2, <4>4, <4>5
    <3>3. CASE c # m /\ ~(c \in Above[n] /\ m \in Path(c))
      <4>1. ASSUME c \in Above[n], k \in Path(c) PROVE m \in Path(c)
        <5>1. k = c \/ k \in Above[c]
          BY <4>1 DEF Path
        <5>2. CASE k = c
          BY <2>1, <5>2 DEF Path
        <5>3. CASE k \in Above[c]
          BY <2>1, <5>3, Transitive DEF Path
        <5> QED BY <5>1, <5>2, <5>3
      <4>2. up[c] = st[c]
        BY <2>2, <3>3, <4>1
      <4> QED BY <2>3, <3>3, <4>2
    <3> QED BY <3>1, <3>2, <3>3
  <2>8. Upto(w, m)
    <3>1. w = [c \in Nodes |-> w[c]]
      BY <2>3
    <3> QED BY <2>7, <3>1
  <2>9. m \in Path(n)
    BY <2>1 DEF Path
  <2>10. \E x : Upto(x, m)
    BY <2>8
  <2> QED BY <2>9, <2>10
<1>3. Path(n) \subseteq S
  <2> HIDE DEF S
  <2> QED BY <1>1, <1>2, UpThePath
<1>4. PICK p \in Packages : p \in Path(n) /\ Path(n) \cap Packages = {p}
  BY HasPackage
<1>5. \A c \in Above[n] : p \in Path(c)
  <2> SUFFICES ASSUME NEW c \in Above[n] PROVE p \in Path(c)
    OBVIOUS
  <2>1. c \in Nodes /\ Path(c) \subseteq Path(n)
    BY Transitive DEF Path
  <2>2. PICK q \in Packages : q \in Path(c)
    BY <2>1, HasPackage
  <2> QED BY <1>4, <2>1, <2>2
<1>6. PICK up : Upto(up, p)
  BY <1>3, <1>4
<1>7. Spreads(up, n, st)
  BY <1>5, <1>6 DEF Spreads
<1>8. Propagated(n, st) = CHOOSE u : Spreads(u, n, st)
  BY DEF Propagated, Spreads
<1> QED BY <1>7, <1>8

(* Only nodes above n change: a failed child fails them, nothing else does.  *)
LEMMA SpreadFacts ==
  ASSUME NEW n \in Nodes, NEW st \in [Nodes -> Statuses]
  PROVE  LET up == Propagated(n, st) IN
         /\ up \in [Nodes -> Statuses]
         /\ \A m \in Nodes \ Above[n] : up[m] = st[m]
         /\ \A m \in Above[n] :
              /\ up[m] \in {"fail", "running", st[m]}
              /\ (\E k \in Kids(m) \cap exists : up[k] = "fail") => up[m] = "fail"
              /\ up[m] = "fail" => st[m] = "fail" \/ \E k \in Kids(m) \cap exists : up[k] = "fail"
<1> DEFINE up == Propagated(n, st)
<1>1. up = [m \in Nodes |-> IF m \in Above[n] THEN Worst({up[k] : k \in Kids(m) \cap exists}, st[m])
                           ELSE st[m]]
  BY Spread DEF Spreads
<1> HIDE DEF up
<1>2. Above[n] \subseteq Nodes
  BY NodeFacts
<1>3. \A m \in Above[n] :
        /\ up[m] \in {"fail", "running", st[m]}
        /\ (\E k \in Kids(m) \cap exists : up[k] = "fail") => up[m] = "fail"
        /\ up[m] = "fail" => st[m] = "fail" \/ \E k \in Kids(m) \cap exists : up[k] = "fail"
  BY <1>1, <1>2 DEF Worst
<1>4. \A m \in Nodes \ Above[n] : up[m] = st[m]
  BY <1>1
<1>5. up \in [Nodes -> Statuses]
  <2>1. \A m \in Nodes : up[m] \in Statuses
    BY <1>3, <1>4 DEF Statuses
  <2> QED BY <1>1, <2>1
<1> QED BY <1>3, <1>4, <1>5 DEF up

-----------------------------------------------------------------------------
(* What a step does to the state that go test keeps. *)
LEMMA PackageIs ==
  ASSUME NEW t \in Tests
  PROVE  PackageOf(t) \in Packages /\ Above[t] \cap Packages = {PackageOf(t)}
<1>1. t \in Nodes /\ t \notin Packages
  BY TreeAssumption DEF Nodes
<1>2. PICK p \in Packages : p \in Path(t) /\ Path(t) \cap Packages = {p}
  BY <1>1, HasPackage
<1>3. Above[t] \cap Packages = {p}
  BY <1>1, <1>2 DEF Path
<1> QED BY <1>3 DEF PackageOf

(* An event of a test, without what it does to statuses and counters.        *)
LEMMA TestStep ==
  ASSUME TreeTypeOK, NEW t \in Tests, Run(t) \/ Pause(t) \/ Cont(t) \/ \E r \in Results : End(t, r)
  PROVE  /\ \A u \in Tests : u # t => phase'[u] = phase[u] /\ result'[u] = result[u] /\ par'[u] = par[u]
         /\ stage' = stage /\ cached' = cached
         /\ \/ /\ Run(t) /\ phase[t] = "idle" /\ phase'[t] = "running" /\ Open(t)
               /\ exists' = exists \cup Path(t) /\ par' = par /\ result' = result
            \/ /\ Pause(t) /\ phase[t] = "running" /\ phase'[t] = "paused"
               /\ \A u \in Subtests(t) : phase[u] # "running"
               /\ exists' = exists /\ result' = result /\ par[t] = "no"
               /\ par'[t] = IF \A u \in Subtests(t) : phase[u] = "idle" THEN "first" ELSE "late"
            \/ /\ Cont(t) /\ phase[t] = "paused" /\ phase'[t] = "running" /\ Open(t)
               /\ exists' = exists /\ par' = par /\ result' = result
            \/ \E r \in Results :
                 /\ End(t, r) /\ phase[t] = "running" /\ phase'[t] = "ended" /\ result'[t] = r
                 /\ Over(Subtests(t)) /\ (r = "fail" \/ Passing(Subtests(t)))
                 /\ exists' = exists /\ par' = par
<1> USE DEF TreeTypeOK
<1>1. CASE Run(t)
  BY <1>1 DEF Run, SetStatus, MayRun
<1>2. CASE Pause(t)
  BY <1>2 DEF Pause, SetStatus, MayPause
<1>3. CASE Cont(t)
  BY <1>3 DEF Cont, SetStatus, MayResume
<1>4. CASE \E r \in Results : End(t, r)
  BY <1>4 DEF End, MayEnd
<1> QED BY <1>1, <1>2, <1>3, <1>4

(* And one of a package, which leaves all tests as they are.                 *)
LEMMA PackageStep ==
  ASSUME TreeTypeOK, NEW p \in Packages,
         BuildFail(p) \/ Start(p) \/ CachedLine(p) \/ \E s \in Results : PackageEnd(p, s)
  PROVE  /\ phase' = phase /\ result' = result /\ par' = par
         /\ \A q \in Packages : q # p => stage'[q] = stage[q]
         /\ \/ BuildFail(p) /\ stage[p] = "idle" /\ stage'[p] = "broken" /\ exists' = exists \cup {p} /\ cached' = cached
            \/ /\ Start(p) /\ exists' = exists \cup {p} /\ cached' = cached
               /\ \/ stage[p] = "idle" /\ stage'[p] = "started"
                  \/ stage[p] = "broken" /\ stage'[p] = "unbuilt"
            \/ /\ CachedLine(p) /\ exists' = exists /\ stage[p] = "started" /\ stage'[p] = "replayed"
               /\ Over(TestsOf(p)) /\ Passing(TestsOf(p))
               /\ cached' = cached \/ cached' = cached \cup Marked(p)
            \/ /\ \E s \in Results : PackageEnd(p, s)
               /\ exists' = exists /\ cached' = cached
               /\ \/ stage[p] = "unbuilt" /\ stage'[p] = "unbuilt"
                  \/ stage[p] \in {"started", "replayed"} /\ stage'[p] = "done"
<1> USE DEF TreeTypeOK
<1>1. CASE BuildFail(p)
  BY <1>1 DEF BuildFail
<1>2. CASE Start(p)
  BY <1>2 DEF Start
<1>3. CASE CachedLine(p)
  BY <1>3 DEF CachedLine, MarkCached
<1>4. CASE \E s \in Results : PackageEnd(p, s)
  BY <1>4 DEF PackageEnd
<1> QED BY <1>1, <1>2, <1>3, <1>4

-----------------------------------------------------------------------------
(* The order of go test.  A test that has begun is made, and so is all above *)
(* it, in a package that has started; a test runs within running ones; what  *)
(* ends above a failure fails; a test that paused first had no subtests; a   *)
(* package is replayed from the cache when its tests are over.               *)
Begun ==
  \A t \in Tests : phase[t] # "idle" =>
    /\ \A a \in Above[t] \cap Tests : phase[a] # "idle"
    /\ \A p \in Above[t] \cap Packages : stage[p] \notin {"idle", "broken", "unbuilt"}
    /\ Path(t) \subseteq exists
NodesMade ==
  /\ \A t \in Tests \cap exists : phase[t] # "idle"
  /\ \A n \in exists : Above[n] \subseteq exists
RunsWithin ==
  \A t \in Tests : phase[t] = "running" => \A a \in Above[t] \cap Tests : phase[a] = "running"
FailsUpward ==
  \A t \in Having("fail") : \A a \in Above[t] \cap Tests : phase[a] = "ended" => result[a] = "fail"
PausedFirst ==
  \A t \in Tests : phase[t] = "paused" =>
    /\ par[t] # "no"
    /\ par[t] = "first" => \A u \in Tests : t \in Above[u] => phase[u] = "idle"
Replayed ==
  \A p \in Packages : cached \cap Subtree(p) # {} =>
    stage[p] \in {"replayed", "done"} /\ Over(TestsOf(p)) /\ Passing(TestsOf(p))
GoOrder == TreeTypeOK /\ Begun /\ NodesMade /\ RunsWithin /\ FailsUpward /\ PausedFirst /\ Replayed

ATest(t) == Run(t) \/ Pause(t) \/ Cont(t) \/ \E r \in Results : End(t, r)
APackage(p) == BuildFail(p) \/ Start(p) \/ CachedLine(p) \/ \E s \in Results : PackageEnd(p, s)

(* An event of a test comes while all above it is running.                   *)
LEMMA OpenAbove ==
  ASSUME RunsWithin, NEW t \in Tests, Open(t)
  PROVE  /\ \A a \in Above[t] \cap Tests : phase[a] = "running"
         /\ \A p \in Above[t] \cap Packages : stage[p] = "started"
<1>1. ASSUME NEW a \in Above[t] \cap Tests PROVE phase[a] = "running"
  <2>1. PICK o \in Owner(t) : o \in Above[t] /\ a \in Path(o)
    BY OwnerOf
  <2>2. o \in Tests /\ phase[o] = "running"
    BY <2>1 DEF Open, Owner
  <2> QED BY <2>1, <2>2 DEF RunsWithin, Path
<1>2. \A p \in Above[t] \cap Packages : p = PackageOf(t)
  BY PackageIs
<1> QED BY <1>1, <1>2 DEF Open

(* A test that has begun below t has begun within a subtest of t. *)
LEMMA SubBegun ==
  ASSUME Begun, NEW t \in Tests, NEW u \in Tests, t \in Above[u], phase[u] # "idle"
  PROVE  \E s \in Subtests(t) : s \in Tests /\ s \in Path(u) /\ phase[s] # "idle"
<1>1. PICK s \in Subtests(t) : s \in Path(u)
  BY NearestSub
<1>2. s \in Tests
  BY DEF Subtests
<1> QED BY <1>1, <1>2 DEF Begun, Path

(* Each event of a test or a package keeps each part of that order.          *)
LEMMA KeptBegun ==
  ASSUME GoOrder, NEW t \in Tests, ATest(t)
  PROVE  Begun'
<1>1. /\ \A u \in Tests : u # t => phase'[u] = phase[u]
      /\ stage' = stage /\ phase'[t] # "idle" /\ exists \subseteq exists'
      /\ \/ phase[t] # "idle"
         \/ phase[t] = "idle" /\ Open(t) /\ Path(t) \subseteq exists'
  BY TestStep DEF GoOrder, ATest
<1>2. /\ \A a \in Above[t] \cap Tests : phase[a] # "idle"
      /\ \A p \in Above[t] \cap Packages : stage[p] \notin {"idle", "broken", "unbuilt"}
      /\ Path(t) \subseteq exists'
  <2>1. CASE phase[t] # "idle"
    BY <1>1, <2>1 DEF GoOrder, Begun
  <2>2. CASE phase[t] = "idle"
    BY <1>1, <2>2, OpenAbove DEF GoOrder
  <2> QED BY <2>1, <2>2
<1>3. ASSUME NEW u \in Tests, phase'[u] # "idle"
      PROVE  /\ \A a \in Above[u] \cap Tests : phase'[a] # "idle"
             /\ \A p \in Above[u] \cap Packages : stage'[p] \notin {"idle", "broken", "unbuilt"}
             /\ Path(u) \subseteq exists'
  <2>1. CASE u = t
    BY <1>1, <1>2, <2>1
  <2>2. CASE u # t
    BY <1>1, <1>3, <2>2 DEF GoOrder, Begun
  <2> QED BY <2>1, <2>2
<1> QED BY <1>3 DEF Begun

LEMMA KeptBegunByPackage ==
  ASSUME GoOrder, NEW p \in Packages, APackage(p)
  PROVE  Begun'
<1>1. /\ phase' = phase /\ exists \subseteq exists'
      /\ \A q \in Packages : q # p => stage'[q] = stage[q]
      /\ stage[p] \in {"idle", "broken", "unbuilt"} \/ stage'[p] \notin {"idle", "broken", "unbuilt"}
  BY PackageStep DEF GoOrder, APackage
<1>2. ASSUME NEW u \in Tests, phase[u] # "idle", NEW q \in Above[u] \cap Packages
      PROVE  stage'[q] \notin {"idle", "broken", "unbuilt"}
  <2>1. stage[q] \notin {"idle", "broken", "unbuilt"}
    BY <1>2 DEF GoOrder, Begun
  <2> QED BY <1>1, <2>1
<1> QED BY <1>1, <1>2 DEF GoOrder, Begun

LEMMA KeptNodesMade ==
  ASSUME GoOrder, NEW t \in Tests, ATest(t)
  PROVE  NodesMade'
<1>1. /\ \A u \in Tests : u # t => phase'[u] = phase[u]
      /\ phase'[t] # "idle"
      /\ \/ exists' = exists
         \/ exists' = exists \cup Path(t) /\ Open(t)
  BY TestStep DEF GoOrder, ATest
<1>2. CASE exists' = exists
  BY <1>1, <1>2 DEF GoOrder, NodesMade
<1>3. CASE exists' = exists \cup Path(t) /\ Open(t)
  <2>1. \A a \in Above[t] \cap Tests : phase[a] = "running"
    BY <1>3, OpenAbove DEF GoOrder
  <2>2. \A u \in Tests \cap exists' : phase'[u] # "idle"
    BY <1>1, <1>3, <2>1 DEF GoOrder, NodesMade, Path
  <2>3. \A n \in Path(t) : Above[n] \subseteq Path(t)
    <3>1. t \in Nodes
      BY DEF Nodes
    <3> QED BY <3>1, Transitive DEF Path
  <2> QED BY <1>3, <2>2, <2>3 DEF GoOrder, NodesMade
<1> QED BY <1>1, <1>2, <1>3

LEMMA KeptNodesMadeByPackage ==
  ASSUME GoOrder, NEW p \in Packages, APackage(p)
  PROVE  NodesMade'
<1>1. phase' = phase /\ exists' \in {exists, exists \cup {p}}
  BY PackageStep DEF GoOrder, APackage
<1>2. Above[p] = {} /\ p \notin Tests
  BY NodeFacts DEF Nodes, Inner
<1> QED BY <1>1, <1>2 DEF GoOrder, NodesMade

LEMMA KeptRunsWithin ==
  ASSUME GoOrder, NEW t \in Tests, ATest(t)
  PROVE  RunsWithin'
<1>1. /\ \A u \in Tests : u # t => phase'[u] = phase[u]
      /\ \/ phase'[t] = "running" /\ Open(t)
         \/ /\ phase'[t] # "running" /\ phase[t] = "running"
            /\ \A u \in Subtests(t) : phase[u] # "running"
  BY TestStep DEF GoOrder, ATest, Over
<1>2. t \in Nodes /\ t \notin Above[t]
  BY NodeFacts DEF Nodes
<1>3. ASSUME NEW u \in Tests, phase'[u] = "running", NEW a \in Above[u] \cap Tests
      PROVE  phase'[a] = "running"
  <2>1. CASE u = t
    BY <1>1, <1>2, <1>3, <2>1, OpenAbove DEF GoOrder
  <2>2. CASE u # t
    <3>1. phase[u] = "running" /\ phase[a] = "running"
      BY <1>1, <1>3, <2>2 DEF GoOrder, RunsWithin
    <3>2. ASSUME a = t, phase'[t] # "running" PROVE FALSE
      <4>1. PICK s \in Subtests(t) : s \in Path(u)
        BY <3>2, NearestSub
      <4>2. phase[s] = "running"
        BY <3>1, <4>1 DEF GoOrder, RunsWithin, Path, Subtests
      <4> QED BY <1>1, <3>2, <4>2
    <3> QED BY <1>1, <3>1, <3>2
  <2> QED BY <2>1, <2>2
<1> QED BY <1>3 DEF RunsWithin

LEMMA KeptFailsUpward ==
  ASSUME GoOrder, NEW t \in Tests, ATest(t)
  PROVE  FailsUpward'
<1>1. /\ \A u \in Tests : u # t => phase'[u] = phase[u] /\ result'[u] = result[u]
      /\ \/ phase'[t] # "ended"
         \/ /\ phase[t] = "running" /\ Over(Subtests(t))
            /\ result'[t] = "fail" \/ Passing(Subtests(t))
  BY TestStep DEF GoOrder, ATest
<1>2. t \in Nodes /\ t \notin Above[t]
  BY NodeFacts DEF Nodes
<1>3. ASSUME NEW u \in Having("fail")', NEW a \in Above[u] \cap Tests, phase'[a] = "ended"
      PROVE  result'[a] = "fail"
  <2>1. u \in Tests /\ phase'[u] = "ended" /\ result'[u] = "fail"
    BY DEF Having
  <2>2. CASE u = t
    <3>1. phase[a] = "running" /\ a # t
      BY <1>1, <1>2, <2>1, <2>2 DEF GoOrder, RunsWithin
    <3> QED BY <1>1, <1>3, <3>1
  <2>3. CASE u # t
    <3>1. u \in Having("fail") /\ phase[u] = "ended"
      BY <1>1, <2>1, <2>3 DEF Having
    <3>2. CASE a # t
      BY <1>1, <1>3, <3>1, <3>2 DEF GoOrder, FailsUpward
    <3>3. CASE a = t
      <4>1. PICK s \in Subtests(t) : s \in Tests /\ s \in Path(u) /\ phase[s] # "idle"
        BY <3>1, <3>3, <2>1, SubBegun DEF GoOrder
      <4>2. Over(Subtests(t)) /\ (result'[t] = "fail" \/ Passing(Subtests(t)))
        BY <1>1, <1>3, <3>3
      <4>3. phase[s] = "ended"
        BY <4>1, <4>2 DEF Over
      <4>4. result[s] = "fail"
        BY <3>1, <4>1, <4>3 DEF GoOrder, FailsUpward, Path, Having
      <4> QED BY <3>3, <4>1, <4>2, <4>3, <4>4 DEF Passing
    <3> QED BY <3>2, <3>3
  <2> QED BY <2>2, <2>3
<1> QED BY <1>3 DEF FailsUpward

LEMMA KeptPausedFirst ==
  ASSUME GoOrder, NEW t \in Tests, ATest(t)
  PROVE  PausedFirst'
<1>1. /\ \A u \in Tests : u # t => phase'[u] = phase[u] /\ par'[u] = par[u]
      /\ \/ phase[t] # "idle"
         \/ phase[t] = "idle" /\ Open(t)
      /\ \/ phase'[t] # "paused"
         \/ par'[t] = IF \A u \in Subtests(t) : phase[u] = "idle" THEN "first" ELSE "late"
  BY TestStep DEF GoOrder, ATest
<1>2. t \in Nodes /\ t \notin Above[t]
  BY NodeFacts DEF Nodes
<1>3. ASSUME NEW q \in Tests, phase'[q] = "paused"
      PROVE  /\ par'[q] # "no"
             /\ par'[q] = "first" => \A u \in Tests : q \in Above[u] => phase'[u] = "idle"
  <2>1. CASE q = t
    <3>1. ASSUME par'[t] = "first", NEW u \in Tests, t \in Above[u] PROVE phase'[u] = "idle"
      <4>1. \A w \in Subtests(t) : phase[w] = "idle"
        BY <1>1, <1>3, <2>1, <3>1
      <4>2. phase[u] = "idle"
        BY <3>1, <4>1, SubBegun DEF GoOrder
      <4> QED BY <1>1, <1>2, <3>1, <4>2
    <3> QED BY <1>1, <1>3, <2>1, <3>1
  <2>2. CASE q # t
    <3>1. /\ phase[q] = "paused" /\ par'[q] = par[q] /\ par[q] # "no"
          /\ par[q] = "first" => \A u \in Tests : q \in Above[u] => phase[u] = "idle"
      BY <1>1, <1>3, <2>2 DEF GoOrder, PausedFirst
    <3>2. ASSUME par[q] = "first", q \in Above[t] PROVE FALSE
      <4>1. phase[t] = "idle" /\ Open(t)
        BY <1>1, <3>1, <3>2
      <4>2. phase[q] = "running"
        BY <3>2, <4>1, OpenAbove DEF GoOrder
      <4> QED BY <3>1, <4>2
    <3> QED BY <1>1, <3>1, <3>2
  <2> QED BY <2>1, <2>2
<1> QED BY <1>3 DEF PausedFirst

(* No node is below two packages. *)
LEMMA Apart ==
  ASSUME NEW p \in Packages, NEW q \in Packages, p # q
  PROVE  Subtree(p) \cap Subtree(q) = {}
<1>1. ASSUME NEW n \in Subtree(p) \cap Subtree(q) PROVE FALSE
  <2>1. n \in Nodes /\ p \in Path(n) /\ q \in Path(n)
    BY DEF Subtree, Path
  <2> QED BY <2>1, HasPackage
<1> QED BY <1>1

LEMMA KeptReplayed ==
  ASSUME GoOrder, NEW t \in Tests, ATest(t)
  PROVE  Replayed'
<1>1. /\ \A u \in Tests : u # t => phase'[u] = phase[u] /\ result'[u] = result[u]
      /\ stage' = stage /\ cached' = cached
      /\ Open(t) \/ phase[t] = "running"
  BY TestStep DEF GoOrder, ATest
<1>2. ASSUME NEW p \in Packages, cached \cap Subtree(p) # {}
      PROVE  /\ stage[p] \in {"replayed", "done"}
             /\ Over(TestsOf(p))' /\ Passing(TestsOf(p))'
  <2>1. stage[p] \in {"replayed", "done"} /\ Over(TestsOf(p)) /\ Passing(TestsOf(p))
    BY <1>2 DEF GoOrder, Replayed
  <2>2. t \notin TestsOf(p)
    <3>1. ASSUME t \in TestsOf(p) PROVE FALSE
      <4>1. p \in Above[t] /\ phase[t] # "running"
        BY <2>1, <3>1 DEF TestsOf, Over
      <4>2. stage[p] = "started"
        BY <1>1, <4>1, OpenAbove DEF GoOrder
      <4> QED BY <2>1, <4>2
    <3> QED BY <3>1
  <2>3. \A u \in TestsOf(p) : phase'[u] = phase[u] /\ result'[u] = result[u]
    BY <1>1, <2>2 DEF TestsOf
  <2> QED BY <2>1, <2>3 DEF Over, Passing, TestsOf
<1> QED BY <1>1, <1>2 DEF Replayed, Subtree

LEMMA KeptReplayedByPackage ==
  ASSUME GoOrder, NEW q \in Packages, APackage(q)
  PROVE  Replayed'
<1>1. /\ phase' = phase /\ result' = result
      /\ \A p \in Packages : p # q => stage'[p] = stage[p]
      /\ \/ cached' = cached /\ (stage[q] \in {"idle", "broken", "unbuilt", "started"} \/ stage'[q] \in {"replayed", "done"})
         \/ /\ cached' \in {cached, cached \cup Marked(q)} /\ stage'[q] = "replayed"
            /\ Over(TestsOf(q)) /\ Passing(TestsOf(q))
  BY PackageStep DEF GoOrder, APackage
<1>2. ASSUME NEW p \in Packages, cached' \cap Subtree(p) # {}
      PROVE  stage'[p] \in {"replayed", "done"} /\ Over(TestsOf(p)) /\ Passing(TestsOf(p))
  <2>1. cached \cap Subtree(p) # {} => stage[p] \in {"replayed", "done"} /\ Over(TestsOf(p)) /\ Passing(TestsOf(p))
    BY DEF GoOrder, Replayed
  <2>2. CASE p = q
    BY <1>1, <1>2, <2>1, <2>2
  <2>3. CASE p # q
    <3>1. Marked(q) \cap Subtree(p) = {}
      BY <2>3, Apart DEF Marked
    <3> QED BY <1>1, <1>2, <2>1, <2>3, <3>1
  <2> QED BY <2>2, <2>3
<1> QED BY <1>1, <1>2 DEF Replayed, Subtree, Over, Passing, TestsOf

LEMMA KeptOthersByPackage ==
  ASSUME GoOrder, NEW p \in Packages, APackage(p)
  PROVE  RunsWithin' /\ FailsUpward' /\ PausedFirst'
<1>1. phase' = phase /\ result' = result /\ par' = par
  BY PackageStep DEF GoOrder, APackage
<1>2. RunsWithin /\ FailsUpward /\ PausedFirst
  BY DEF GoOrder
<1> QED BY <1>1, <1>2 DEF RunsWithin, FailsUpward, PausedFirst, Having

-----------------------------------------------------------------------------
(* The statuses. *)
ShownFail == \A x \in Inner : status[x] = "fail" => Having("fail") \cap Subtree(x) # {}
IdlePackages == \A p \in Packages : stage[p] = "idle" => status[p] = "pending"
StatusInv == ShownFail /\ IdlePackages /\ StatusFollowsTest /\ FailureShows

Quiet(t) == Run(t) \/ Pause(t) \/ Cont(t)

(* Running, pausing and resuming set the status of that test alone.          *)
LEMMA QuietStatus ==
  ASSUME TreeTypeOK, NEW t \in Tests, Quiet(t)
  PROVE  /\ \A n \in Nodes : n # t => status'[n] = status[n]
         /\ \/ phase'[t] = "running" /\ status'[t] = "running"
            \/ phase'[t] = "paused" /\ status'[t] = "pending"
         /\ status' \in [Nodes -> Statuses]
         /\ Having("fail")' = Having("fail") /\ phase[t] # "ended"
<1> USE DEF TreeTypeOK
<1>1. /\ status' = [status EXCEPT ![t] = IF phase'[t] = "running" THEN "running" ELSE "pending"]
      /\ phase'[t] \in {"running", "paused"} /\ phase[t] # "ended"
      /\ \A u \in Tests : u # t => phase'[u] = phase[u]
      /\ result' = result
  BY DEF Quiet, Run, Pause, Cont, SetStatus, MayRun, MayPause, MayResume
<1>2. t \in Nodes /\ {"running", "pending"} \subseteq Statuses
  BY DEF Nodes, Statuses
<1>3. Having("fail")' = Having("fail")
  BY <1>1 DEF Having
<1> QED BY <1>1, <1>2, <1>3

(* An end sets the status of its test, and may fail what is above it.        *)
LEMMA EndStatus ==
  ASSUME TreeTypeOK, NEW t \in Tests, NEW r \in Results, End(t, r)
  PROVE  /\ status' \in [Nodes -> Statuses] /\ status'[t] = r
         /\ \A n \in Nodes : n # t /\ n \notin Above[t] => status'[n] = status[n]
         /\ \A m \in Above[t] :
              /\ status'[m] \in {"fail", "running", status[m]}
              /\ (\E k \in Kids(m) \cap exists : status'[k] = "fail") => status'[m] = "fail"
              /\ status'[m] = "fail" => status[m] = "fail" \/ \E k \in Kids(m) \cap exists : status'[k] = "fail"
         /\ Having("fail")' = Having("fail") \cup (IF r = "fail" THEN {t} ELSE {})
         /\ phase[t] = "running"
<1> DEFINE st == [status EXCEPT ![t] = r]
<1>1. status' = Propagated(t, st) /\ phase[t] = "running"
      /\ phase' = [phase EXCEPT ![t] = "ended"] /\ result' = [result EXCEPT ![t] = r]
  BY DEF End, MayEnd
<1>2. t \in Nodes /\ t \notin Above[t] /\ Above[t] \subseteq Nodes
  BY NodeFacts DEF Nodes
<1>3. st \in [Nodes -> Statuses] /\ st[t] = r /\ \A n \in Nodes : n # t => st[n] = status[n]
  BY <1>2 DEF TreeTypeOK, Results, Statuses
<1>4. Having("fail")' = Having("fail") \cup (IF r = "fail" THEN {t} ELSE {})
  BY <1>1 DEF Having, TreeTypeOK
<1> HIDE DEF st
<1>5. /\ status' \in [Nodes -> Statuses]
      /\ \A m \in Nodes \ Above[t] : status'[m] = st[m]
      /\ \A m \in Above[t] :
           /\ status'[m] \in {"fail", "running", st[m]}
           /\ (\E k \in Kids(m) \cap exists : status'[k] = "fail") => status'[m] = "fail"
           /\ status'[m] = "fail" => st[m] = "fail" \/ \E k \in Kids(m) \cap exists : status'[k] = "fail"
  BY <1>1, <1>2, <1>3, SpreadFacts
<1>6. \A m \in Above[t] : st[m] = status[m]
  BY <1>2, <1>3
<1> QED BY <1>1, <1>2, <1>3, <1>4, <1>5, <1>6

(* What a package's event does to the statuses: to its own, or "pass" for    *)
(* all that is marked.                                                       *)
LEMMA PackageStatus ==
  ASSUME TreeTypeOK, NEW p \in Packages, APackage(p)
  PROVE  /\ status' \in [Nodes -> Statuses] /\ Having("fail")' = Having("fail")
         /\ \/ /\ \A n \in Nodes : n # p => status'[n] = status[n]
               /\ \/ stage[p] \in {"idle", "broken"} /\ stage'[p] # "idle"
                  \/ CachedLine(p) /\ status'[p] = status[p] /\ stage'[p] # "idle"
                  \/ /\ stage'[p] # "idle"
                     /\ \/ status'[p] = "fail"
                        \/ Passing(TestsOf(p))
                        \/ \A t \in TestsOf(p) : phase[t] = "idle"
            \/ /\ \A n \in Nodes : status'[n] = IF n \in Marked(p) THEN "pass" ELSE status[n]
               /\ cached' = cached \cup Marked(p) /\ stage'[p] # "idle"
               /\ Over(TestsOf(p)) /\ Passing(TestsOf(p))
<1> USE DEF TreeTypeOK
<1>1. p \in Nodes /\ "pass" \in Statuses /\ {"fail", "running"} \subseteq Statuses /\ Results \subseteq Statuses
  BY DEF Nodes, Statuses, Results
<1>2. CASE BuildFail(p)
  BY <1>1, <1>2 DEF BuildFail, Having
<1>3. CASE Start(p)
  BY <1>1, <1>3 DEF Start, Having
<1>4. CASE CachedLine(p)
  <2>1. UNCHANGED <<phase, result>> /\ stage'[p] = "replayed" /\ Over(TestsOf(p)) /\ Passing(TestsOf(p))
    BY <1>4 DEF CachedLine
  <2>2. CASE UNCHANGED <<status, cached, count>>
    BY <1>1, <1>4, <2>1, <2>2 DEF Having
  <2>3. CASE MarkCached(p)
    <3>1. /\ status' = [n \in Nodes |-> IF n \in Marked(p) THEN "pass" ELSE status[n]]
          /\ cached' = cached \cup Marked(p)
      BY <2>3 DEF MarkCached
    <3> QED BY <1>1, <2>1, <3>1 DEF Having
  <2> QED BY <1>4, <2>2, <2>3 DEF CachedLine
<1>5. CASE \E s \in Results : PackageEnd(p, s)
  <2>1. PICK s \in Results : PackageEnd(p, s)
    BY <1>5
  <2>2. /\ status' = [status EXCEPT ![p] = s] /\ UNCHANGED <<phase, result>>
        /\ s = "fail" \/ Passing(TestsOf(p)) \/ \A t \in TestsOf(p) : phase[t] = "idle"
        /\ stage'[p] # "idle"
    BY <2>1 DEF PackageEnd
  <2> QED BY <1>1, <2>2 DEF Having
<1> QED BY <1>2, <1>3, <1>4, <1>5 DEF APackage

(* A line has one child of each of its nodes.                                *)
LEMMA OneChild ==
  ASSUME NEW n \in Nodes, NEW j \in Path(n) \cap Inner, NEW k \in Path(n) \cap Inner, Parent[j] = Parent[k]
  PROVE  j = k
<1>1. j \in Nodes /\ k \in Nodes
  BY DEF Nodes, Inner
<1>2. \A x, v \in Inner : Parent[x] = Parent[v] => x \notin Above[v]
  <2> SUFFICES ASSUME NEW x \in Inner, NEW v \in Inner, Parent[x] = Parent[v], x \in Above[v] PROVE FALSE
    OBVIOUS
  <2>1. x \in Nodes /\ Above[x] = Above[v] /\ x \notin Above[x]
    BY NodeFacts DEF Nodes, Inner
  <2> QED BY <2>1
<1> QED BY <1>1, <1>2, Linear DEF Path

(* What is under a child is under its parent.                                *)
LEMMA SubtreeUp ==
  ASSUME NEW m \in Nodes, NEW k \in Kids(m)
  PROVE  Subtree(k) \subseteq Subtree(m) /\ k \in Inner /\ k \in Nodes /\ Parent[k] = m
<1>1. k \in Inner /\ k \in Nodes /\ Parent[k] = m
  BY DEF Kids, Nodes, Inner
<1>2. m \in Above[k]
  BY <1>1, NodeFacts DEF Path
<1>3. \A x \in Nodes : k \in Above[x] => m \in Above[x]
  BY <1>2, Transitive DEF Path
<1> QED BY <1>1, <1>2, <1>3 DEF Subtree

(* Each event of a test keeps each part of what statuses show.               *)
LEMMA KeptShownFail ==
  ASSUME GoOrder, StatusInv, NEW t \in Tests, ATest(t)
  PROVE  ShownFail'
<1>0. t \in Nodes /\ t \notin Above[t]
  BY NodeFacts DEF Nodes
<1>1. CASE Quiet(t)
  <2>1. /\ \A n \in Nodes : n # t => status'[n] = status[n]
        /\ status'[t] # "fail" /\ Having("fail")' = Having("fail")
    BY <1>1, QuietStatus DEF GoOrder
  <2> QED BY <2>1 DEF StatusInv, ShownFail, Subtree, Inner, Nodes
<1>2. ASSUME NEW r \in Results, End(t, r) PROVE ShownFail'
  <2> DEFINE H == Having("fail")'
  <2>1. /\ status'[t] = r
        /\ \A n \in Nodes : n # t /\ n \notin Above[t] => status'[n] = status[n]
        /\ \A m \in Above[t] :
              status'[m] = "fail" => status[m] = "fail" \/ \E k \in Kids(m) \cap exists : status'[k] = "fail"
        /\ H = Having("fail") \cup (IF r = "fail" THEN {t} ELSE {})
    BY <1>2, EndStatus DEF GoOrder
  <2> HIDE DEF H
  <2>2. \A x \in Inner : status[x] = "fail" => H \cap Subtree(x) # {}
    BY <2>1 DEF StatusInv, ShownFail
  <2> DEFINE S == {m \in Path(t) : m \in Inner /\ status'[m] = "fail" => H \cap Subtree(m) # {}}
  <2>3. t \in S
    BY <1>0, <2>1 DEF Path, Subtree
  <2>4. ASSUME NEW k \in Path(t) \cap Inner, k \in S PROVE Parent[k] \in S
    <3> DEFINE m == Parent[k]
    <3>1. k \in Nodes /\ m \in Nodes /\ k \in Kids(m) /\ m \in Above[k]
      <4>1. k \in Nodes
        BY DEF Nodes, Inner
      <4> QED BY <4>1, NodeFacts DEF Kids, Inner, Path
    <3>2. m \in Above[t]
      BY <1>0, <3>1, Transitive DEF Path
    <3>3. ASSUME m \in Inner, status'[m] = "fail" PROVE H \cap Subtree(m) # {}
      <4>1. CASE status[m] = "fail"
        BY <2>2, <3>3, <4>1
      <4>2. CASE \E j \in Kids(m) \cap exists : status'[j] = "fail"
        <5>1. PICK j \in Kids(m) : status'[j] = "fail"
          BY <4>2
        <5>2. Subtree(j) \subseteq Subtree(m) /\ j \in Inner /\ j \in Nodes /\ Parent[j] = m
          BY <3>1, SubtreeUp
        <5>3. H \cap Subtree(j) # {}
          <6>1. CASE j \in Path(t)
            <7>1. j = k
              BY <1>0, <5>2, <6>1, OneChild
            <7> QED BY <2>4, <5>1, <7>1
          <6>2. CASE j \notin Path(t)
            <7>1. status'[j] = status[j]
              BY <2>1, <5>2, <6>2 DEF Path
            <7> QED BY <2>2, <5>1, <5>2, <7>1
          <6> QED BY <6>1, <6>2
        <5> QED BY <5>2, <5>3
      <4> QED BY <2>1, <3>2, <3>3, <4>1, <4>2
    <3> QED BY <3>2, <3>3 DEF Path
  <2>5. Path(t) \subseteq S
    <3> HIDE DEF S
    <3> QED BY <1>0, <2>3, <2>4, UpThePath
  <2>6. ASSUME NEW x \in Inner, status'[x] = "fail" PROVE H \cap Subtree(x) # {}
    <3>1. CASE x \in Path(t)
      BY <2>5, <2>6, <3>1
    <3>2. CASE x \notin Path(t)
      <4>1. status'[x] = status[x]
        BY <2>1, <3>2 DEF Path, Inner, Nodes
      <4> QED BY <2>2, <2>6, <4>1
    <3> QED BY <3>1, <3>2
  <2> QED BY <2>6 DEF ShownFail, H, Subtree
<1> QED BY <1>1, <1>2 DEF ATest, Quiet

LEMMA KeptIdlePackages ==
  ASSUME GoOrder, StatusInv, NEW t \in Tests, ATest(t)
  PROVE  IdlePackages'
<1>1. stage' = stage /\ (phase[t] # "idle" \/ Open(t))
  BY TestStep DEF GoOrder, ATest
<1>2. \A p \in Above[t] \cap Packages : stage[p] # "idle"
  BY <1>1, OpenAbove DEF GoOrder, Begun
<1>3. \A n \in Nodes : n # t /\ n \notin Above[t] => status'[n] = status[n]
  <2>1. CASE Quiet(t)
    BY <2>1, QuietStatus DEF GoOrder
  <2>2. ASSUME NEW r \in Results, End(t, r) PROVE \A n \in Nodes : n # t /\ n \notin Above[t] => status'[n] = status[n]
    BY <2>2, EndStatus DEF GoOrder
  <2> QED BY <2>1, <2>2 DEF ATest, Quiet
<1>4. t \notin Packages
  BY TreeAssumption
<1> QED BY <1>1, <1>2, <1>3, <1>4 DEF StatusInv, IdlePackages, Nodes

LEMMA KeptStatusFollowsTest ==
  ASSUME GoOrder, StatusInv, NEW t \in Tests, ATest(t)
  PROVE  StatusFollowsTest'
<1>0. t \in Nodes /\ t \notin Above[t] /\ Tests \subseteq Nodes
  BY NodeFacts DEF Nodes
<1>1. /\ \A u \in Tests : u # t => phase'[u] = phase[u] /\ result'[u] = result[u]
      /\ cached' = cached
  BY TestStep DEF GoOrder, ATest
<1>2. ASSUME NEW u \in Tests
      PROVE  CASE phase[u] = "idle" -> status[u] = "pending"
               [] phase[u] = "paused" -> status[u] = "pending"
               [] phase[u] = "running" ->
                    \/ status[u] = "running"
                    \/ status[u] = "fail" /\ Having("fail") \cap Subtree(u) # {}
               [] phase[u] = "ended" ->
                    \/ status[u] = result[u]
                    \/ status[u] = "pass" /\ u \in cached
  BY DEF StatusInv, StatusFollowsTest
<1>3. CASE Quiet(t)
  <2>1. /\ \A n \in Nodes : n # t => status'[n] = status[n]
        /\ \/ phase'[t] = "running" /\ status'[t] = "running"
           \/ phase'[t] = "paused" /\ status'[t] = "pending"
        /\ Having("fail")' = Having("fail")
    BY <1>3, QuietStatus DEF GoOrder
  <2>2. \A u \in Tests : u # t => status'[u] = status[u] /\ Subtree(u)' = Subtree(u)
    BY <1>0, <2>1 DEF Subtree
  <2> SUFFICES ASSUME NEW u \in Tests
               PROVE (CASE phase[u] = "idle" -> status[u] = "pending"
                       [] phase[u] = "paused" -> status[u] = "pending"
                       [] phase[u] = "running" ->
                            \/ status[u] = "running"
                            \/ status[u] = "fail" /\ Having("fail") \cap Subtree(u) # {}
                       [] phase[u] = "ended" ->
                            \/ status[u] = result[u]
                            \/ status[u] = "pass" /\ u \in cached)'
    BY DEF StatusFollowsTest
  <2>3. CASE u = t
    BY <2>1, <2>3
  <2>4. CASE u # t
    BY <1>1, <1>2, <2>1, <2>2, <2>4
  <2> QED BY <2>3, <2>4
<1>4. ASSUME NEW r \in Results, End(t, r) PROVE StatusFollowsTest'
  <2>1. /\ status'[t] = r
        /\ \A n \in Nodes : n # t /\ n \notin Above[t] => status'[n] = status[n]
        /\ \A m \in Above[t] : status'[m] \in {"fail", "running", status[m]}
        /\ Having("fail") \subseteq Having("fail")'
        /\ phase[t] = "running"
    BY <1>4, EndStatus DEF GoOrder
  <2>2. phase'[t] = "ended" /\ result'[t] = r
    BY <1>0, <1>4 DEF End, GoOrder, TreeTypeOK
  <2>3. \A u \in Above[t] \cap Tests : phase[u] = "running"
    BY <2>1 DEF GoOrder, RunsWithin
  <2>4. \A u \in Tests : status'[u] = "fail" => Having("fail")' \cap Subtree(u)' # {}
    BY KeptShownFail DEF ShownFail, Inner
  <2> SUFFICES ASSUME NEW u \in Tests
               PROVE (CASE phase[u] = "idle" -> status[u] = "pending"
                       [] phase[u] = "paused" -> status[u] = "pending"
                       [] phase[u] = "running" ->
                            \/ status[u] = "running"
                            \/ status[u] = "fail" /\ Having("fail") \cap Subtree(u) # {}
                       [] phase[u] = "ended" ->
                            \/ status[u] = result[u]
                            \/ status[u] = "pass" /\ u \in cached)'
    BY DEF StatusFollowsTest
  <2>5. CASE u = t
    BY <2>1, <2>2, <2>5
  <2>6. CASE u # t /\ u \notin Above[t]
    <3>1. status'[u] = status[u] /\ Subtree(u)' = Subtree(u)
      BY <1>0, <2>1, <2>6 DEF Subtree
    <3>2. Having("fail") \cap Subtree(u) # {} => Having("fail")' \cap Subtree(u)' # {}
      BY <2>1, <3>1
    <3>3. phase'[u] = phase[u] /\ result'[u] = result[u] /\ cached' = cached
      BY <1>1, <2>6
    <3>4. CASE phase[u] = "idle"
      BY <1>2, <3>1, <3>3, <3>4
    <3>5. CASE phase[u] = "paused"
      BY <1>2, <3>1, <3>3, <3>5
    <3>6. CASE phase[u] = "running"
      <4>1. \/ status[u] = "running"
            \/ status[u] = "fail" /\ Having("fail") \cap Subtree(u) # {}
        BY <1>2, <3>6
      <4>2. \/ status'[u] = "running"
            \/ status'[u] = "fail" /\ Having("fail")' \cap Subtree(u)' # {}
        BY <3>1, <3>2, <4>1
      <4> QED BY <3>3, <3>6, <4>2
    <3>7. CASE phase[u] = "ended"
      BY <1>2, <3>1, <3>3, <3>7
    <3> QED BY <3>4, <3>5, <3>6, <3>7 DEF GoOrder, TreeTypeOK
  <2>7. CASE u # t /\ u \in Above[t]
    <3>1. phase[u] = "running" /\ phase'[u] = "running"
      BY <1>1, <2>3, <2>7
    <3>2. status[u] \in {"running", "fail"}
      BY <1>2, <3>1
    <3>3. status'[u] \in {"running", "fail"}
      BY <2>1, <2>7, <3>2
    <3> QED BY <2>4, <3>1, <3>3
  <2> QED BY <2>5, <2>6, <2>7
<1> QED BY <1>3, <1>4 DEF ATest, Quiet

LEMMA KeptFailureShows ==
  ASSUME GoOrder, StatusInv, NEW t \in Tests, ATest(t)
  PROVE  FailureShows'
<1>0. t \in Nodes /\ t \notin Above[t] /\ Tests \subseteq Nodes /\ \A u \in Tests : Above[u] \subseteq Nodes
  BY NodeFacts DEF Nodes
<1>1. CASE Quiet(t)
  <2>1. /\ \A n \in Nodes : n # t => status'[n] = status[n]
        /\ phase[t] = "idle" \/ status'[t] \in {"running", "pending"}
        /\ Having("fail")' = Having("fail") /\ phase[t] # "ended"
        /\ phase'[t] \in {"running", "paused"}
    BY <1>1, QuietStatus DEF GoOrder
  <2>2. /\ \A u \in Tests : u # t => par'[u] = par[u]
        /\ par'[t] = par[t] \/ par[t] = "no"
        /\ \/ phase[t] = "idle"
           \/ phase[t] = "paused" /\ par'[t] = par[t]
           \/ par'[t] = IF \A u \in Subtests(t) : phase[u] = "idle" THEN "first" ELSE "late"
    <3>1. ATest(t) /\ phase'[t] # "ended"
      BY <1>1, <2>1 DEF ATest, Quiet
    <3> QED BY <3>1, TestStep DEF GoOrder, ATest
  <2>3. ASSUME NEW u \in Having("fail"), NEW a \in Above[u]
        PROVE  \/ status'[a] = "fail"
               \/ /\ status'[a] \in {"pending", "running"}
                  /\ \E m \in Above[u] \cap Tests : par'[m] = "late"
    <3>1. u \in Tests /\ phase[u] = "ended"
      BY DEF Having
    <3>2. CASE a # t
      <4>1. \/ status[a] = "fail"
            \/ /\ status[a] \in {"pending", "running"}
               /\ \E m \in Above[u] \cap Tests : par[m] = "late"
        BY DEF StatusInv, FailureShows
      <4>2. \A m \in Tests : par[m] = "late" => par'[m] = "late"
        BY <2>2
      <4>3. status'[a] = status[a]
        BY <1>0, <2>1, <3>1, <3>2
      <4> QED BY <4>1, <4>2, <4>3
    <3>3. CASE a = t
      <4>1. phase[t] # "idle"
        BY <3>1, <3>3 DEF GoOrder, Begun
      <4>2. par'[t] = "late"
        <5>1. CASE phase[t] = "paused" /\ par'[t] = par[t]
          BY <3>1, <3>3, <5>1 DEF GoOrder, PausedFirst, TreeTypeOK
        <5>2. CASE par'[t] = IF \A w \in Subtests(t) : phase[w] = "idle" THEN "first" ELSE "late"
          BY <3>1, <3>3, <5>2, SubBegun DEF GoOrder
        <5> QED BY <2>2, <4>1, <5>1, <5>2
      <4> QED BY <2>1, <3>3, <4>1, <4>2
    <3> QED BY <3>2, <3>3
  <2> QED BY <2>1, <2>3 DEF FailureShows
<1>2. ASSUME NEW r \in Results, End(t, r) PROVE FailureShows'
  <2>1. /\ status'[t] = r
        /\ \A n \in Nodes : n # t /\ n \notin Above[t] => status'[n] = status[n]
        /\ \A m \in Above[t] :
             /\ status'[m] \in {"fail", "running", status[m]}
             /\ (\E k \in Kids(m) \cap exists : status'[k] = "fail") => status'[m] = "fail"
        /\ Having("fail")' = Having("fail") \cup (IF r = "fail" THEN {t} ELSE {})
        /\ phase[t] = "running"
    BY <1>2, EndStatus DEF GoOrder
  <2>2. phase'[t] = "ended" /\ result'[t] = r /\ par' = par
    BY <1>0, <1>2 DEF End, GoOrder, TreeTypeOK
  <2>3. ASSUME NEW k \in Inner, k \in exists, status'[k] = "fail", Parent[k] \in Above[t]
        PROVE  status'[Parent[k]] = "fail"
    <3>1. k \in Kids(Parent[k]) \cap exists
      BY <2>3 DEF Kids, Inner
    <3> QED BY <2>1, <2>3, <3>1
  <2>4. ASSUME r = "fail", NEW a \in Path(t) PROVE status'[a] = "fail"
    <3> DEFINE S == {m \in Path(t) : status'[m] = "fail"}
    <3>1. t \in S
      BY <2>1, <2>4 DEF Path
    <3>2. ASSUME NEW k \in Path(t) \cap Inner, k \in S PROVE Parent[k] \in S
      <4>1. k \in exists
        BY <2>1 DEF GoOrder, Begun
      <4>2. Parent[k] \in Above[t]
        <5>1. k \in Nodes /\ Above[k] = Path(Parent[k])
          BY NodeFacts DEF Nodes, Inner
        <5> QED BY <1>0, <5>1, Transitive DEF Path
      <4> QED BY <2>3, <3>2, <4>1, <4>2 DEF Path
    <3>3. Path(t) \subseteq S
      <4> HIDE DEF S
      <4> QED BY <1>0, <3>1, <3>2, UpThePath
    <3> QED BY <3>3
  <2>5. ASSUME NEW u \in Having("fail"), NEW a \in Above[u], r # "fail"
        PROVE  \/ status'[a] = "fail"
               \/ /\ status'[a] \in {"pending", "running"}
                  /\ \E m \in Above[u] \cap Tests : par'[m] = "late"
    <3>1. u \in Tests /\ phase[u] = "ended" /\ result[u] = "fail" /\ u # t /\ u \in Nodes
      BY <1>0, <2>1 DEF Having
    <3>2. t \notin Above[u]
      <4>1. u \in Having("fail")'
        BY <2>1
      <4>2. FailsUpward'
        BY KeptFailsUpward
      <4> QED BY <2>2, <2>5, <4>1, <4>2 DEF FailsUpward
    <3>3. \/ status[a] = "fail"
          \/ /\ status[a] \in {"pending", "running"}
             /\ \E m \in Above[u] \cap Tests : par[m] = "late"
      BY DEF StatusInv, FailureShows
    <3>4. CASE \E m \in Above[u] \cap Tests : par[m] = "late"
      <4>1. status'[a] \in {"fail", "running", status[a]}
        BY <1>0, <2>1, <3>1, <3>2
      <4> QED BY <2>2, <3>3, <3>4, <4>1
    <3>5. CASE ~\E m \in Above[u] \cap Tests : par[m] = "late"
      <4>1. \A x \in Above[u] : status[x] = "fail"
        BY <3>5 DEF StatusInv, FailureShows
      <4>2. status'[u] = "fail"
        <5>1. u \notin Above[t]
          BY <2>1, <3>1 DEF GoOrder, RunsWithin
        <5>2. status'[u] = status[u]
          BY <2>1, <3>1, <5>1
        <5>3. u \notin cached
          <6>1. PICK p \in Packages : p \in Path(u)
            BY <3>1, HasPackage
          <6>2. u \in Subtree(p) /\ u \in TestsOf(p)
            <7>1. u # p
              BY <3>1, TreeAssumption
            <7> QED BY <3>1, <6>1, <7>1 DEF Path, Subtree, TestsOf
          <6>3. ~Passing(TestsOf(p))
            BY <3>1, <6>2 DEF Passing
          <6> QED BY <6>2, <6>3 DEF GoOrder, Replayed
        <5>4. status[u] = result[u]
          BY <3>1, <5>3 DEF StatusInv, StatusFollowsTest
        <5> QED BY <3>1, <5>2, <5>4
      <4> DEFINE S == {m \in Path(u) : status'[m] = "fail"}
      <4>3. u \in S
        BY <4>2 DEF Path
      <4>4. ASSUME NEW k \in Path(u) \cap Inner, k \in S PROVE Parent[k] \in S
        <5>1. k \in exists
          BY <3>1 DEF GoOrder, Begun
        <5>2. Parent[k] \in Above[u]
          <6>1. k \in Nodes /\ Above[k] = Path(Parent[k])
            BY NodeFacts DEF Nodes, Inner
          <6> QED BY <3>1, <6>1, Transitive DEF Path
        <5>3. status'[Parent[k]] = "fail"
          <6>1. CASE Parent[k] \in Above[t]
            BY <2>3, <4>4, <5>1, <6>1
          <6>2. CASE Parent[k] \notin Above[t]
            BY <1>0, <2>1, <3>1, <3>2, <4>1, <5>2, <6>2
          <6> QED BY <6>1, <6>2
        <5> QED BY <5>2, <5>3 DEF Path
      <4>5. Path(u) \subseteq S
        <5> HIDE DEF S
        <5> QED BY <3>1, <4>3, <4>4, UpThePath
      <4> QED BY <4>5 DEF Path
    <3> QED BY <3>4, <3>5
  <2>6. ASSUME NEW u \in Having("fail"), NEW a \in Above[u], r = "fail"
        PROVE  \/ status'[a] = "fail"
               \/ /\ status'[a] \in {"pending", "running"}
                  /\ \E m \in Above[u] \cap Tests : par'[m] = "late"
    <3>1. CASE a \in Path(t)
      BY <2>4, <2>6, <3>1
    <3>2. CASE a \notin Path(t)
      <4>1. status'[a] = status[a]
        BY <1>0, <2>1, <3>2 DEF Path, Having
      <4> QED BY <2>2, <4>1 DEF StatusInv, FailureShows
    <3> QED BY <3>1, <3>2
  <2>7. ASSUME NEW a \in Above[t], r = "fail" PROVE status'[a] = "fail"
    BY <2>4, <2>7 DEF Path
  <2> QED BY <2>1, <2>5, <2>6, <2>7 DEF FailureShows
<1> QED BY <1>1, <1>2 DEF ATest, Quiet

(* The events of a package keep all of it.                                   *)
LEMMA KeptStatusByPackage ==
  ASSUME GoOrder, StatusInv, NEW p \in Packages, APackage(p)
  PROVE  StatusInv'
<1>0. /\ p \in Nodes /\ p \notin Inner /\ Above[p] = {} /\ Tests \subseteq Nodes /\ Packages \subseteq Nodes
      /\ \A t \in Tests : Above[t] \subseteq Nodes /\ t \in Inner
      /\ \A x \in Inner : x # p
  BY NodeFacts DEF Nodes, Inner
<1>1. /\ phase' = phase /\ result' = result /\ par' = par /\ cached \subseteq cached'
      /\ \A q \in Packages : q # p => stage'[q] = stage[q]
  BY PackageStep DEF GoOrder, APackage
<1>2. \A u \in Tests, q \in Packages : q \in Above[u] => u \in TestsOf(q) /\ u \in Subtree(q)
  BY <1>0 DEF TestsOf, Subtree
<1>3. CASE /\ \A n \in Nodes : n # p => status'[n] = status[n]
           /\ Having("fail")' = Having("fail") /\ stage'[p] # "idle"
           /\ \/ stage[p] \in {"idle", "broken"}
              \/ status'[p] = status[p]
              \/ status'[p] = "fail"
              \/ Passing(TestsOf(p))
              \/ \A t \in TestsOf(p) : phase[t] = "idle"
  <2>1. ShownFail'
    BY <1>0, <1>3 DEF StatusInv, ShownFail, Subtree, Inner, Nodes
  <2>2. IdlePackages'
    BY <1>0, <1>1, <1>3 DEF StatusInv, IdlePackages
  <2>3. StatusFollowsTest'
    <3>1. \A u \in Tests : status'[u] = status[u] /\ Subtree(u)' = Subtree(u)
      BY <1>0, <1>3 DEF Subtree
    <3>2. StatusFollowsTest
      BY DEF StatusInv
    <3>3. Having("fail")' = Having("fail")
      BY <1>3
    <3>4. \A u \in Tests : phase'[u] = phase[u] /\ result'[u] = result[u] /\ (u \in cached => u \in cached')
      BY <1>1
    <3> SUFFICES ASSUME NEW u \in Tests
                 PROVE (CASE phase[u] = "idle" -> status[u] = "pending"
                        [] phase[u] = "paused" -> status[u] = "pending"
                        [] phase[u] = "running" ->
                             \/ status[u] = "running"
                             \/ status[u] = "fail" /\ Having("fail") \cap Subtree(u) # {}
                        [] phase[u] = "ended" ->
                             \/ status[u] = result[u]
                             \/ status[u] = "pass" /\ u \in cached)'
      BY DEF StatusFollowsTest
    <3>5. (CASE phase[u] = "idle" -> status[u] = "pending"
            [] phase[u] = "paused" -> status[u] = "pending"
            [] phase[u] = "running" ->
                 \/ status[u] = "running"
                 \/ status[u] = "fail" /\ Having("fail") \cap Subtree(u) # {}
            [] phase[u] = "ended" ->
                 \/ status[u] = result[u]
                 \/ status[u] = "pass" /\ u \in cached)
      BY <3>2 DEF StatusFollowsTest
    <3>6. CASE phase[u] = "idle"
      BY <3>1, <3>4, <3>5, <3>6
    <3>7. CASE phase[u] = "paused"
      BY <3>1, <3>4, <3>5, <3>7
    <3>8. CASE phase[u] = "running"
      BY <3>1, <3>3, <3>4, <3>5, <3>8
    <3>9. CASE phase[u] = "ended"
      BY <3>1, <3>4, <3>5, <3>9
    <3> QED BY <3>6, <3>7, <3>8, <3>9 DEF GoOrder, TreeTypeOK
  <2>4. ASSUME NEW u \in Having("fail"), NEW a \in Above[u]
        PROVE  \/ status'[a] = "fail"
               \/ /\ status'[a] \in {"pending", "running"}
                  /\ \E m \in Above[u] \cap Tests : par'[m] = "late"
    <3>1. u \in Tests /\ phase[u] = "ended" /\ result[u] = "fail"
      BY DEF Having
    <3>2. \/ status[a] = "fail"
          \/ /\ status[a] \in {"pending", "running"}
             /\ \E m \in Above[u] \cap Tests : par[m] = "late"
      BY DEF StatusInv, FailureShows
    <3>3. CASE a # p
      <4>1. status'[a] = status[a]
        BY <1>0, <1>3, <3>1, <3>3
      <4> QED BY <1>1, <3>2, <4>1
    <3>4. CASE a = p
      <4>1. u \in TestsOf(p)
        BY <1>2, <3>1, <3>4
      <4>2. ~Passing(TestsOf(p)) /\ ~\A t \in TestsOf(p) : phase[t] = "idle"
        BY <3>1, <4>1 DEF Passing
      <4>3. stage[p] \notin {"idle", "broken"}
        BY <3>1, <3>4 DEF GoOrder, Begun
      <4>4. status'[p] = status[p] \/ status'[p] = "fail"
        BY <1>3, <4>2, <4>3
      <4> QED BY <1>1, <3>2, <3>4, <4>4
    <3> QED BY <3>3, <3>4
  <2>5. FailureShows'
    BY <1>3, <2>4 DEF FailureShows
  <2> QED BY <2>1, <2>2, <2>3, <2>5 DEF StatusInv
<1>4. CASE /\ \A n \in Nodes : status'[n] = IF n \in Marked(p) THEN "pass" ELSE status[n]
           /\ Having("fail")' = Having("fail") /\ stage'[p] # "idle"
           /\ cached' = cached \cup Marked(p) /\ Over(TestsOf(p)) /\ Passing(TestsOf(p))
  <2>1. ShownFail'
    BY <1>4 DEF StatusInv, ShownFail, Subtree, Inner, Nodes
  <2>2. IdlePackages'
    <3>1. \A q \in Packages : q # p => q \notin Marked(p)
      BY NodeFacts, <1>0 DEF Marked, Subtree
    <3> QED BY <1>0, <1>1, <1>4, <3>1 DEF StatusInv, IdlePackages
  <2>3. StatusFollowsTest'
    <3>1. ASSUME NEW u \in Tests, u \in Marked(p) PROVE phase[u] = "ended" /\ status'[u] = "pass" /\ u \in cached'
      <4>1. u \in TestsOf(p) /\ u \in exists
        BY <1>0, <3>1 DEF Marked, Subtree, TestsOf
      <4>2. phase[u] # "idle"
        BY <4>1 DEF GoOrder, NodesMade
      <4> QED BY <1>0, <1>4, <3>1, <4>1, <4>2 DEF Over
    <3>2. \A u \in Tests : u \notin Marked(p) => status'[u] = status[u]
      BY <1>0, <1>4
    <3>3. \A u \in Tests : Subtree(u)' = Subtree(u)
      BY DEF Subtree
    <3>4. StatusFollowsTest
      BY DEF StatusInv
    <3> QED BY <1>1, <1>4, <3>1, <3>2, <3>3, <3>4 DEF StatusFollowsTest
  <2>4. ASSUME NEW u \in Having("fail"), NEW a \in Above[u] PROVE status'[a] = status[a]
    <3>1. u \in Tests /\ phase[u] = "ended" /\ result[u] = "fail" /\ u \in Nodes
      BY <1>0 DEF Having
    <3>2. u \notin TestsOf(p)
      BY <1>4, <3>1 DEF Passing
    <3>3. a \notin Marked(p)
      <4>1. ASSUME a = p \/ p \in Above[a] PROVE FALSE
        <5>1. p \in Above[u]
          BY <3>1, <4>1, Transitive DEF Path
        <5> QED BY <1>2, <3>1, <3>2, <5>1
      <4> QED BY <4>1 DEF Marked, Subtree
    <3> QED BY <1>0, <1>4, <3>1, <3>3
  <2>5. FailureShows'
    BY <1>1, <1>4, <2>4 DEF StatusInv, FailureShows
  <2> QED BY <2>1, <2>2, <2>3, <2>5 DEF StatusInv
<1> QED BY <1>3, <1>4, PackageStatus DEF GoOrder

-----------------------------------------------------------------------------
(* The counters.  What the properties say of the nodes in the tree holds of  *)
(* every node, since a counter is added to along a whole line.               *)
Places == Nodes \cup {Tree}
Active == {t \in Tests : phase[t] = "running"}
Bit(b) == IF b THEN 1 ELSE 0
CountsOf(n) ==
  /\ count["passed"][n] = Cardinality(Having("pass") \cap In(n))
  /\ count["failed"][n] = Cardinality((Having("fail") \cup Unbuilt) \cap In(n))
  /\ count["skipped"][n] = Cardinality(Having("skip") \cap In(n))
  /\ count["total"][n] = Cardinality((exists \ Packages) \cap In(n))
  /\ count["cached"][n] = Cardinality((cached \ Packages) \cap In(n))
RunningOf(n) ==
  /\ count["running"][n] >= Cardinality(Active \cap In(n))
  /\ (\A t \in Having("fail") \cap In(n) : Owner(t) = {})
       => count["running"][n] = Cardinality(Active \cap In(n))
CountInv == \A n \in Places : CountsOf(n) /\ RunningOf(n)

(* A node is under what is on its line.                                      *)
LEMMA InAndLine ==
  ASSUME NEW n \in Nodes, NEW m \in Places
  PROVE  n \in In(m) <=> m \in Line(n)
<1>1. n # Tree /\ Tree \notin Above[n]
  BY NodeFacts, TreeAssumption
<1> QED BY <1>1 DEF In, Line, Subtree, Places

(* One more node of a kind is one more under what is on its line.            *)
LEMMA CountedAs ==
  ASSUME NEW A, A \subseteq Nodes, NEW m \in Places
  PROVE  /\ IsFiniteSet(A \cap In(m)) /\ Cardinality(A \cap In(m)) \in Nat
         /\ \A x \in Nodes \ A :
              Cardinality((A \cup {x}) \cap In(m)) = Cardinality(A \cap In(m)) + Bit(m \in Line(x))
<1>1. IsFiniteSet(A \cap In(m))
  BY TreeAssumption, FS_Subset
<1>2. Cardinality(A \cap In(m)) \in Nat
  BY <1>1, FS_CardinalityType
<1>3. ASSUME NEW x \in Nodes \ A
      PROVE  Cardinality((A \cup {x}) \cap In(m)) = Cardinality(A \cap In(m)) + Bit(m \in Line(x))
  <2>1. CASE m \in Line(x)
    <3>1. (A \cup {x}) \cap In(m) = (A \cap In(m)) \cup {x} /\ x \notin A \cap In(m)
      BY <2>1, InAndLine
    <3>2. Bit(m \in Line(x)) = 1
      BY <2>1 DEF Bit
    <3> QED BY <1>1, <3>1, <3>2, FS_AddElement
  <2>2. CASE m \notin Line(x)
    <3>1. (A \cup {x}) \cap In(m) = A \cap In(m)
      BY <2>2, InAndLine
    <3>2. Bit(m \in Line(x)) = 0
      BY <2>2 DEF Bit
    <3> QED BY <1>2, <3>1, <3>2
  <2> QED BY <2>1, <2>2
<1> QED BY <1>1, <1>2, <1>3

(* A delta is added along the line of its node.                              *)
LEMMA AddedAt ==
  ASSUME NEW n, NEW d, NEW f \in Fields, NEW m \in Places
  PROVE  Added(n, d)[f][m] = count[f][m] + IF m \in Line(n) THEN d[f] ELSE 0
BY DEF Added, Places

(* The steps of a test keep the types, and so do those of a package.         *)
LEMMA KeptTypes ==
  ASSUME GoOrder, StatusInv, NEW t \in Tests, ATest(t)
  PROVE  TreeTypeOK'
<1> USE DEF TreeTypeOK
<1>1. TreeTypeOK /\ t \in Nodes /\ Path(t) \subseteq Nodes
  BY NodeFacts DEF GoOrder, Nodes, Path
<1>2. phase' \in [Tests -> {"idle", "running", "paused", "ended"}] /\ par' \in [Tests -> {"no", "first", "late"}]
      /\ result' \in [Tests -> Results] /\ stage' = stage /\ cached' = cached
      /\ exists' \in {exists, exists \cup Path(t)}
  BY <1>1 DEF ATest, Run, Pause, Cont, End, SetStatus
<1>3. status' \in [Nodes -> Statuses]
  <2>1. CASE Quiet(t)
    BY <1>1, <2>1, QuietStatus
  <2>2. ASSUME NEW r \in Results, End(t, r) PROVE status' \in [Nodes -> Statuses]
    BY <1>1, <2>2, EndStatus
  <2> QED BY <2>1, <2>2 DEF ATest, Quiet
<1>4. count' \in [Fields -> [Places -> Int]]
  <2>1. \A n, s, f : RunningDelta(n, s) \in [Fields -> Int] /\ Delta(f, 1) \in [Fields -> Int]
    <3>1. \A n, s, f : RunningDelta(n, s) \in [Fields -> Int]
      BY DEF RunningDelta, Delta
    <3> QED BY <3>1 DEF Delta
  <2>2. \A d \in [Fields -> Int] : Added(t, d) \in [Fields -> [Places -> Int]]
    BY <1>1 DEF Added, Places
  <2>3. CASE Run(t)
    <3>1. Created(t)["total"] \in [Places -> Int]
      <4>1. \A m \in Places : Cardinality({c \in Missing(t) : m \in Line(c)}) \in Nat
        <5>1. IsFiniteSet(Missing(t))
          BY <1>1, TreeAssumption, FS_Subset DEF Missing
        <5> QED BY <5>1, FS_Subset, FS_CardinalityType
      <4>2. \A m \in Places : count["total"][m] \in Int
        BY <1>1 DEF Places, Fields
      <4>3. Created(t)["total"] = [m \in Places |->
                  count["total"][m] + Cardinality({c \in Missing(t) : m \in Line(c)})]
        BY <1>1 DEF Created, Places, Fields
      <4> QED BY <4>1, <4>2, <4>3
    <3>2. Added(t, RunningDelta(t, "running")) \in [Fields -> [Places -> Int]]
      BY <2>1, <2>2
    <3> QED BY <2>3, <3>1, <3>2 DEF Run
  <2>4. CASE Pause(t) \/ Cont(t)
    BY <2>1, <2>2, <2>4 DEF Pause, Cont
  <2>5. ASSUME NEW r \in Results, End(t, r) PROVE count' \in [Fields -> [Places -> Int]]
    <3>1. RunningDelta(t, r)["running"] \in Int
      BY <2>1 DEF Fields
    <3>2. [Delta(FieldOf[r], 1) EXCEPT !["running"] = RunningDelta(t, r)["running"]] \in [Fields -> Int]
      BY <2>1, <3>1
    <3> QED BY <2>2, <2>5, <3>2 DEF End, EndCounts
  <2> QED BY <2>3, <2>4, <2>5 DEF ATest
<1> QED BY <1>1, <1>2, <1>3, <1>4 DEF Places

LEMMA KeptTypesByPackage ==
  ASSUME GoOrder, StatusInv, NEW p \in Packages, APackage(p)
  PROVE  TreeTypeOK'
<1> USE DEF TreeTypeOK
<1>1. TreeTypeOK /\ p \in Nodes
  BY DEF GoOrder, Nodes
<1>2. /\ phase' = phase /\ par' = par /\ result' = result
      /\ exists' \in {exists, exists \cup {p}} /\ cached' \in {cached, cached \cup Marked(p)}
  BY <1>1, PackageStep DEF APackage
<1>3. stage' \in [Packages -> {"idle", "broken", "unbuilt", "started", "replayed", "done"}]
  BY <1>1 DEF APackage, BuildFail, Start, CachedLine, PackageEnd
<1>4. status' \in [Nodes -> Statuses]
  BY <1>1, PackageStatus
<1>5. count' \in [Fields -> [Places -> Int]]
  <2>1. CASE BuildFail(p)
    <3>1. [Delta("failed", 1) EXCEPT !["running"] = RunningDelta(p, "fail")["running"]] \in [Fields -> Int]
      <4>1. RunningDelta(p, "fail") \in [Fields -> Int] /\ Delta("failed", 1) \in [Fields -> Int]
        BY DEF RunningDelta, Delta
      <4> QED BY <4>1 DEF Fields
    <3>2. \A d \in [Fields -> Int] : Added(p, d) \in [Fields -> [Places -> Int]]
      BY <1>1 DEF Added, Places
    <3> QED BY <2>1, <3>1, <3>2 DEF BuildFail
  <2>2. CASE Start(p) \/ \E s \in Results : PackageEnd(p, s)
    BY <1>1, <2>2 DEF Start, PackageEnd, Places
  <2>3. CASE CachedLine(p)
    <3>1. CASE MarkCached(p)
      <4>1. \A m \in Places : count["total"][m] \in Int /\ count["cached"][m] \in Int
        BY <1>1 DEF Places, Fields
      <4>2. count["total"][p] \in Int
        BY <1>1, <4>1 DEF Places
      <4>3. [m \in Places |-> IF m \in Marked(p) THEN count["total"][m]
                              ELSE count["cached"][m] + IF m = Tree THEN count["total"][p] ELSE 0]
              \in [Places -> Int]
        BY <4>1, <4>2
      <4> QED BY <1>1, <3>1, <4>3 DEF MarkCached, Places
    <3> QED BY <1>1, <2>3, <3>1 DEF CachedLine, Places
  <2> QED BY <2>1, <2>2, <2>3 DEF APackage
<1>6. Marked(p) \subseteq exists
  BY DEF Marked
<1> QED BY <1>1, <1>2, <1>3, <1>4, <1>5, <1>6 DEF Places

(* What a test's event adds to the counters. *)
LEMMA TestCounts ==
  ASSUME TreeTypeOK, NEW t \in Tests, ATest(t), NEW m \in Places
  PROVE  LET b == Bit(m \in Line(t))
             was == Bit(status[t] = "running")
         IN  \/ /\ Run(t)
                /\ count'["running"][m] = count["running"][m] + b * (1 - was)
                /\ count'["total"][m] = count["total"][m] + Cardinality({c \in Missing(t) : m \in Line(c)})
                /\ \A f \in {"passed", "failed", "skipped", "cached"} : count'[f][m] = count[f][m]
             \/ /\ Pause(t)
                /\ count'["running"][m] = count["running"][m] - b * was
                /\ \A f \in {"passed", "failed", "skipped", "cached", "total"} : count'[f][m] = count[f][m]
             \/ /\ Cont(t)
                /\ count'["running"][m] = count["running"][m] + b * (1 - was)
                /\ \A f \in {"passed", "failed", "skipped", "cached", "total"} : count'[f][m] = count[f][m]
             \/ \E r \in Results :
                  /\ End(t, r)
                  /\ count'["running"][m] = count["running"][m] - b * was
                  /\ count'[FieldOf[r]][m] = count[FieldOf[r]][m] + b
                  /\ \A f \in {"passed", "failed", "skipped", "cached", "total"} :
                        f # FieldOf[r] => count'[f][m] = count[f][m]
<1> DEFINE b == Bit(m \in Line(t))
           was == Bit(status[t] = "running")
<1>1. /\ \A f \in Fields : count[f][m] \in Int
      /\ b \in {0, 1} /\ was \in {0, 1}
      /\ \A x : (IF m \in Line(t) THEN x ELSE 0) = (IF b = 1 THEN x ELSE 0)
  BY DEF TreeTypeOK, Places, Bit
<1>2. \A d : \A f \in Fields : Added(t, d)[f][m] = count[f][m] + IF b = 1 THEN d[f] ELSE 0
  BY <1>1, AddedAt
<1>3. \A f \in Fields : /\ RunningDelta(t, "running")[f] = IF f = "running" THEN 1 - was ELSE 0
                        /\ \A s \in {"pending", "pass", "fail", "skip"} :
                             RunningDelta(t, s)[f] = IF f = "running" THEN 0 - was ELSE 0
  BY DEF RunningDelta, Delta, Bit
<1> HIDE DEF b, was
<1>4. CASE Run(t)
  <2>1. count' = [Added(t, RunningDelta(t, "running")) EXCEPT !["total"] = Created(t)["total"]]
    BY <1>4 DEF Run
  <2>2. \A f \in Fields \ {"total"} : count'[f][m] = Added(t, RunningDelta(t, "running"))[f][m]
    BY <2>1 DEF Added
  <2>3. Created(t)["total"][m] = count["total"][m] + Cardinality({c \in Missing(t) : m \in Line(c)})
    BY DEF Created, TreeTypeOK, Fields, Places
  <2>4. count'["total"][m] = Created(t)["total"][m]
    BY <2>1 DEF Added, Fields
  <2>5. \A f \in {"passed", "failed", "skipped", "cached"} : count'[f][m] = count[f][m]
    BY <1>1, <1>2, <1>3, <2>2 DEF Fields
  <2>6. count'["running"][m] = count["running"][m] + b * (1 - was)
    <3>1. count'["running"][m] = count["running"][m] + IF b = 1 THEN 1 - was ELSE 0
      BY <1>2, <1>3, <2>2 DEF Fields
    <3>2. (IF b = 1 THEN 1 - was ELSE 0) = b * (1 - was)
      BY <1>1
    <3> QED BY <3>1, <3>2
  <2> QED BY <1>4, <2>3, <2>4, <2>5, <2>6 DEF b, was
<1>5. CASE Pause(t)
  <2>1. count' = Added(t, RunningDelta(t, "pending"))
    BY <1>5 DEF Pause
  <2>2. \A f \in {"passed", "failed", "skipped", "cached", "total"} : count'[f][m] = count[f][m]
    BY <1>1, <1>2, <1>3, <2>1 DEF Fields
  <2>3. count'["running"][m] = count["running"][m] - b * was
    <3>1. count'["running"][m] = count["running"][m] + IF b = 1 THEN 0 - was ELSE 0
      BY <1>2, <1>3, <2>1 DEF Fields
    <3>2. (IF b = 1 THEN 0 - was ELSE 0) = 0 - b * was
      BY <1>1
    <3> QED BY <1>1, <3>1, <3>2 DEF Fields
  <2> QED BY <1>5, <2>2, <2>3 DEF b, was
<1>6. CASE Cont(t)
  <2>1. count' = Added(t, RunningDelta(t, "running"))
    BY <1>6 DEF Cont
  <2>2. \A f \in {"passed", "failed", "skipped", "cached", "total"} : count'[f][m] = count[f][m]
    BY <1>1, <1>2, <1>3, <2>1 DEF Fields
  <2>3. count'["running"][m] = count["running"][m] + b * (1 - was)
    <3>1. count'["running"][m] = count["running"][m] + IF b = 1 THEN 1 - was ELSE 0
      BY <1>2, <1>3, <2>1 DEF Fields
    <3>2. (IF b = 1 THEN 1 - was ELSE 0) = b * (1 - was)
      BY <1>1
    <3> QED BY <3>1, <3>2
  <2> QED BY <1>6, <2>2, <2>3 DEF b, was
<1>7. ASSUME NEW r \in Results, End(t, r)
      PROVE  /\ count'["running"][m] = count["running"][m] - b * was
             /\ count'[FieldOf[r]][m] = count[FieldOf[r]][m] + b
             /\ \A f \in {"passed", "failed", "skipped", "cached", "total"} :
                   f # FieldOf[r] => count'[f][m] = count[f][m]
  <2> DEFINE d == [Delta(FieldOf[r], 1) EXCEPT !["running"] = RunningDelta(t, r)["running"]]
  <2>1. count' = Added(t, d)
    BY <1>7 DEF End, EndCounts
  <2>2. FieldOf[r] \in {"passed", "failed", "skipped"} /\ r \in {"pending", "pass", "fail", "skip"}
    BY DEF FieldOf, Results
  <2>3. \A f \in Fields : d[f] = IF f = "running" THEN RunningDelta(t, r)["running"]
                                ELSE IF f = FieldOf[r] THEN 1 ELSE 0
    BY DEF Delta
  <2>4. RunningDelta(t, r)["running"] = 0 - was
    BY <1>3, <2>2 DEF Fields
  <2> HIDE DEF d
  <2>5. \A f \in {"passed", "failed", "skipped", "cached", "total"} :
          f # FieldOf[r] => count'[f][m] = count[f][m]
    BY <1>1, <1>2, <2>1, <2>3 DEF Fields
  <2>6. count'[FieldOf[r]][m] = count[FieldOf[r]][m] + b
    <3>1. count'[FieldOf[r]][m] = count[FieldOf[r]][m] + IF b = 1 THEN 1 ELSE 0
      BY <1>2, <2>1, <2>2, <2>3 DEF Fields
    <3> QED BY <1>1, <3>1
  <2>7. count'["running"][m] = count["running"][m] - b * was
    <3>1. count'["running"][m] = count["running"][m] + IF b = 1 THEN 0 - was ELSE 0
      BY <1>2, <2>1, <2>3, <2>4 DEF Fields
    <3>2. (IF b = 1 THEN 0 - was ELSE 0) = 0 - b * was
      BY <1>1
    <3> QED BY <1>1, <3>1, <3>2 DEF Fields
  <2> QED BY <2>5, <2>6, <2>7
<1> QED BY <1>4, <1>5, <1>6, <1>7 DEF ATest, b, was

(* A step of a test keeps the sums of ends, of nodes and of cached nodes.    *)
LEMMA KeptCounts ==
  ASSUME GoOrder, StatusInv, CountInv, NEW t \in Tests, ATest(t), NEW m \in Places
  PROVE  CountsOf(m)'
<1>0. /\ t \in Nodes /\ t \notin Packages /\ TreeTypeOK
      /\ \A r \in Results : Having(r) \subseteq Nodes
      /\ Unbuilt \subseteq Nodes /\ exists \subseteq Nodes
      /\ Path(t) \subseteq Nodes
      /\ t \notin Unbuilt
  BY TreeAssumption, NodeFacts DEF Nodes, GoOrder, TreeTypeOK, Having, Unbuilt, Path
<1>1. CountsOf(m)
  BY DEF CountInv
<1>2. In(m)' = In(m)
  BY DEF In, Subtree
<1>3. \A f \in Fields : count[f][m] \in Int
  BY <1>0 DEF TreeTypeOK, Places
<1>4. cached' = cached /\ stage' = stage /\ Unbuilt' = Unbuilt
  BY <1>0, TestStep DEF ATest, Unbuilt
<1>5. CASE Quiet(t)
  <2>1. phase[t] # "ended" /\ phase'[t] # "ended" /\ \A u \in Tests : u # t => phase'[u] = phase[u] /\ result'[u] = result[u]
    BY <1>0, <1>5, QuietStatus, TestStep DEF ATest, Quiet
  <2>2. \A r \in Results : Having(r)' = Having(r)
    BY <2>1 DEF Having
  <2>3. \A f \in {"passed", "failed", "skipped", "cached"} : count'[f][m] = count[f][m]
    <3>1. ~\E r \in Results : End(t, r)
      BY <1>0, <2>1 DEF End, TreeTypeOK
    <3> QED BY <1>0, <3>1, TestCounts DEF ATest
  <2>4. count'["total"][m] = Cardinality((exists' \ Packages) \cap In(m))
    <3>1. CASE Run(t)
      <4> DEFINE A == (exists \ Packages) \cap In(m)
                 B == {c \in Missing(t) : m \in Line(c)}
      <4>1. exists' = exists \cup Path(t)
        BY <3>1 DEF Run
      <4>2. B = Missing(t) \cap In(m)
        BY <1>0, InAndLine DEF Missing
      <4>3. (exists' \ Packages) \cap In(m) = A \cup B /\ A \cap B = {}
        BY <4>1, <4>2 DEF Missing
      <4>4. IsFiniteSet(A) /\ IsFiniteSet(B) /\ Cardinality(A) \in Nat /\ Cardinality(B) \in Nat
        <5>1. IsFiniteSet(A) /\ IsFiniteSet(B)
          BY <1>0, <4>2, TreeAssumption, FS_Subset DEF Missing
        <5> QED BY <5>1, FS_CardinalityType
      <4>5. Cardinality(A \cup B) = Cardinality(A) + Cardinality(B)
        <5>1. Cardinality(A \cup B) = Cardinality(A) + Cardinality(B) - Cardinality(A \cap B)
          BY <4>4, FS_Union
        <5>2. Cardinality(A \cap B) = 0
          BY <4>3, FS_EmptySet
        <5> HIDE DEF A, B
        <5> QED BY <4>4, <5>1, <5>2
      <4>6. count'["total"][m] = count["total"][m] + Cardinality(B)
        <5>1. Run(t) /\ ~Pause(t) /\ ~Cont(t) /\ ~\E r \in Results : End(t, r)
          BY <3>1 DEF Run, Pause, Cont, End, MayRun, MayPause, MayResume, MayEnd
        <5> QED BY <1>0, <5>1, TestCounts DEF ATest
      <4>7. count["total"][m] = Cardinality(A)
        BY <1>1 DEF CountsOf
      <4> QED BY <4>3, <4>5, <4>6, <4>7
    <3>2. CASE ~Run(t)
      <4>1. exists' = exists /\ ~\E r \in Results : End(t, r)
        BY <1>0, <1>5, <2>1, <3>2 DEF Quiet, Pause, Cont, End, TreeTypeOK
      <4>2. count'["total"][m] = count["total"][m]
        BY <1>0, <3>2, <4>1, TestCounts DEF ATest
      <4> QED BY <1>1, <4>1, <4>2 DEF CountsOf
    <3> QED BY <3>1, <3>2
  <2> QED BY <1>1, <1>2, <1>4, <2>2, <2>3, <2>4 DEF CountsOf, Results
<1>6. ASSUME NEW r \in Results, End(t, r) PROVE CountsOf(m)'
  <2> DEFINE b == Bit(m \in Line(t))
  <2>1. /\ phase[t] = "running" /\ exists' = exists /\ phase'[t] = "ended" /\ result'[t] = r
        /\ \A u \in Tests : u # t => phase'[u] = phase[u] /\ result'[u] = result[u]
    BY <1>0, <1>6 DEF End, MayEnd, TreeTypeOK
  <2>2. \A q \in Results : Having(q)' = IF q = r THEN Having(q) \cup {t} ELSE Having(q)
    BY <2>1 DEF Having
  <2>3. \A q \in Results : t \notin Having(q)
    BY <2>1 DEF Having
  <2>4. /\ count'[FieldOf[r]][m] = count[FieldOf[r]][m] + b
        /\ \A f \in {"passed", "failed", "skipped", "cached", "total"} :
              f # FieldOf[r] => count'[f][m] = count[f][m]
    <3>2. ~Run(t) /\ ~Pause(t) /\ ~Cont(t)
      <4>1. phase'[t] = "ended"
        BY <2>1
      <4> QED BY <1>0, <4>1 DEF Run, Pause, Cont, SetStatus, TreeTypeOK
    <3>3. \A q \in Results : End(t, q) => q = r
      BY <1>0, <2>1 DEF End, TreeTypeOK
    <3>4. PICK q \in Results :
            /\ End(t, q)
            /\ count'[FieldOf[q]][m] = count[FieldOf[q]][m] + b
            /\ \A f \in {"passed", "failed", "skipped", "cached", "total"} :
                  f # FieldOf[q] => count'[f][m] = count[f][m]
      <4>1. ATest(t)
        BY <1>6 DEF ATest
      <4> QED BY <1>0, <4>1, <3>2, TestCounts
    <3> QED BY <3>3, <3>4
  <2> HIDE DEF b
  <2>5. /\ count["passed"][m] = Cardinality(Having("pass") \cap In(m))
        /\ count["failed"][m] = Cardinality((Having("fail") \cup Unbuilt) \cap In(m))
        /\ count["skipped"][m] = Cardinality(Having("skip") \cap In(m))
        /\ count["total"][m] = Cardinality((exists \ Packages) \cap In(m))
        /\ count["cached"][m] = Cardinality((cached \ Packages) \cap In(m))
    BY <1>1 DEF CountsOf
  <2>6. \A A \in SUBSET Nodes : t \notin A => Cardinality((A \cup {t}) \cap In(m)) = Cardinality(A \cap In(m)) + b
    BY <1>0, CountedAs DEF b
  <2>7. /\ count'["total"][m] = Cardinality((exists' \ Packages) \cap In(m))
        /\ count'["cached"][m] = Cardinality((cached' \ Packages) \cap In(m))
    BY <1>4, <2>1, <2>4, <2>5 DEF FieldOf, Results
  <2>8. CASE r = "pass"
    <3>1. FieldOf[r] = "passed"
      BY <2>8 DEF FieldOf
    <3>2. /\ Having("pass")' = Having("pass") \cup {t} /\ Having("fail")' = Having("fail") /\ Having("skip")' = Having("skip")
      BY <2>2, <2>8 DEF Results
    <3>3. Cardinality(Having("pass")' \cap In(m)) = Cardinality(Having("pass") \cap In(m)) + b
      BY <1>0, <2>3, <2>6, <3>2 DEF Results
    <3> QED BY <1>2, <1>4, <2>4, <2>5, <2>7, <3>1, <3>2, <3>3 DEF CountsOf
  <2>9. CASE r = "fail"
    <3>1. FieldOf[r] = "failed"
      BY <2>9 DEF FieldOf
    <3>2. /\ Having("pass")' = Having("pass") /\ Having("fail")' = Having("fail") \cup {t} /\ Having("skip")' = Having("skip")
      BY <2>2, <2>9 DEF Results
    <3>4. (Having("fail") \cup Unbuilt)' = (Having("fail") \cup Unbuilt) \cup {t}
      BY <1>4, <3>2
    <3>3. Cardinality((Having("fail") \cup Unbuilt)' \cap In(m)) = Cardinality((Having("fail") \cup Unbuilt) \cap In(m)) + b
      BY <1>0, <2>3, <2>6, <3>4 DEF Results
    <3> QED BY <1>2, <1>4, <2>4, <2>5, <2>7, <3>1, <3>2, <3>3 DEF CountsOf
  <2>10. CASE r = "skip"
    <3>1. FieldOf[r] = "skipped"
      BY <2>10 DEF FieldOf
    <3>2. /\ Having("pass")' = Having("pass") /\ Having("fail")' = Having("fail") /\ Having("skip")' = Having("skip") \cup {t}
      BY <2>2, <2>10 DEF Results
    <3>3. Cardinality(Having("skip")' \cap In(m)) = Cardinality(Having("skip") \cap In(m)) + b
      BY <1>0, <2>3, <2>6, <3>2 DEF Results
    <3> QED BY <1>2, <1>4, <2>4, <2>5, <2>7, <3>1, <3>2, <3>3 DEF CountsOf
  <2> QED BY <2>8, <2>9, <2>10 DEF Results
<1> QED BY <1>5, <1>6 DEF ATest, Quiet

(* It keeps the count of what runs.                                          *)
LEMMA KeptRunning ==
  ASSUME GoOrder, StatusInv, CountInv, NEW t \in Tests, ATest(t), NEW m \in Places
  PROVE  RunningOf(m)'
<1>0. /\ t \in Nodes /\ TreeTypeOK /\ Active \subseteq Nodes /\ Active \ {t} \subseteq Nodes
      /\ \A f \in Fields : count[f][m] \in Int
  BY DEF Nodes, GoOrder, TreeTypeOK, Active, Places
<1>1. RunningOf(m)
  BY DEF CountInv
<1>2. In(m)' = In(m) /\ \A u \in Tests : Owner(u)' = Owner(u)
  BY DEF In, Subtree, Owner, Subtests, Path
<1> DEFINE b == Bit(m \in Line(t))
           was == Bit(status[t] = "running")
           Sound == \A u \in Having("fail") \cap In(m) : Owner(u) = {}
           n == Cardinality(Active \cap In(m))
           c == count["running"][m]
           others == Cardinality((Active \ {t}) \cap In(m))
<1>3. b \in {0, 1} /\ was \in {0, 1} /\ c \in Int /\ others \in Nat
  BY <1>0, CountedAs DEF Bit, Fields
<1>4. n \in Nat /\ c >= n /\ (Sound => c = n)
  BY <1>0, <1>1, CountedAs DEF RunningOf
<1>5. n = others + (IF phase[t] = "running" THEN b ELSE 0)
  <2>1. CASE phase[t] = "running"
    <3>1. Active = (Active \ {t}) \cup {t} /\ t \in Nodes \ (Active \ {t})
      BY <1>0, <2>1 DEF Active
    <3>2. Cardinality(((Active \ {t}) \cup {t}) \cap In(m)) = others + b
      BY <1>0, <3>1, CountedAs
    <3> QED BY <2>1, <3>1, <3>2
  <2>2. CASE phase[t] # "running"
    <3>1. Active \ {t} = Active
      BY <2>2 DEF Active
    <3> QED BY <1>3, <2>2, <3>1
  <2> QED BY <2>1, <2>2
<1>6. Cardinality(Active' \cap In(m)) = others + (IF phase'[t] = "running" THEN b ELSE 0)
  <2>0. \A u \in Tests : u # t => phase'[u] = phase[u]
    BY <1>0, TestStep DEF ATest
  <2>1. CASE phase'[t] = "running"
    <3>1. Active' = (Active \ {t}) \cup {t} /\ t \in Nodes \ (Active \ {t})
      BY <1>0, <2>0, <2>1 DEF Active
    <3>2. Cardinality(((Active \ {t}) \cup {t}) \cap In(m)) = others + b
      BY <1>0, <3>1, CountedAs
    <3> QED BY <2>1, <3>1, <3>2
  <2>2. CASE phase'[t] # "running"
    <3>1. Active' = Active \ {t}
      BY <2>0, <2>2 DEF Active
    <3> QED BY <1>3, <2>2, <3>1
  <2> QED BY <2>1, <2>2
<1>7. phase[t] \in {"idle", "paused"} => was = 0
  BY DEF StatusInv, StatusFollowsTest, Bit
<1>8. phase[t] = "running" /\ b = 1 /\ Sound => was = 1
  <2> SUFFICES ASSUME phase[t] = "running", b = 1, Sound, status[t] # "running" PROVE FALSE
    BY DEF Bit
  <2>1. PICK u \in Having("fail") : u \in Subtree(t)
    BY DEF StatusInv, StatusFollowsTest
  <2>2. u \in Tests /\ u # t /\ t \in Above[u] /\ u \in Nodes
    BY <2>1 DEF Having, Subtree, Nodes
  <2>3. m \in Line(t)
    BY DEF Bit
  <2>4. m \in Line(u)
    <3>1. Path(t) \subseteq Above[u]
      BY <2>2, Transitive
    <3> QED BY <2>3, <3>1 DEF Line, Path
  <2>5. u \in In(m)
    BY <2>2, <2>4, InAndLine
  <2>6. Owner(u) # {}
    BY <2>2, OwnerOf
  <2> QED BY <2>1, <2>5, <2>6
<1>9. Sound' => Sound
  <2>1. Having("fail") \subseteq Having("fail")'
    <3>1. CASE Quiet(t)
      BY <1>0, <3>1, QuietStatus
    <3>2. ASSUME NEW r \in Results, End(t, r) PROVE Having("fail") \subseteq Having("fail")'
      BY <1>0, <3>2, EndStatus
    <3> QED BY <3>1, <3>2 DEF ATest, Quiet
  <2>2. Having("fail") \subseteq Tests
    BY DEF Having
  <2> QED BY <1>2, <2>1, <2>2
<1>10. \/ /\ phase[t] \in {"idle", "paused"} /\ phase'[t] = "running"
          /\ count'["running"][m] = c + b * (1 - was)
       \/ /\ phase[t] = "running" /\ phase'[t] # "running"
          /\ count'["running"][m] = c - b * was
  <2>1. /\ Run(t) => phase[t] = "idle" /\ phase'[t] = "running"
        /\ Pause(t) => phase[t] = "running" /\ phase'[t] = "paused"
        /\ Cont(t) => phase[t] = "paused" /\ phase'[t] = "running"
        /\ \A r \in Results : End(t, r) => phase[t] = "running" /\ phase'[t] = "ended"
    BY <1>0 DEF Run, Pause, Cont, End, SetStatus, MayRun, MayPause, MayResume, MayEnd, TreeTypeOK
  <2> QED BY <1>0, <2>1, TestCounts DEF ATest
<1> HIDE DEF b, was, n, c, others
<1>11. count'["running"][m] >= Cardinality(Active' \cap In(m))
  <2>1. CASE /\ phase[t] \in {"idle", "paused"} /\ phase'[t] = "running"
             /\ count'["running"][m] = c + b * (1 - was)
    BY <1>3, <1>4, <1>5, <1>6, <1>7, <2>1
  <2>2. CASE /\ phase[t] = "running" /\ phase'[t] # "running"
             /\ count'["running"][m] = c - b * was
    BY <1>3, <1>4, <1>5, <1>6, <2>2
  <2> QED BY <1>10, <2>1, <2>2
<1>12. Sound => count'["running"][m] = Cardinality(Active' \cap In(m))
  <2>1. CASE /\ phase[t] \in {"idle", "paused"} /\ phase'[t] = "running"
             /\ count'["running"][m] = c + b * (1 - was)
    BY <1>3, <1>4, <1>5, <1>6, <1>7, <2>1
  <2>2. CASE /\ phase[t] = "running" /\ phase'[t] # "running"
             /\ count'["running"][m] = c - b * was
    BY <1>3, <1>4, <1>5, <1>6, <1>8, <2>2
  <2> QED BY <1>10, <2>1, <2>2
<1> QED BY <1>2, <1>9, <1>11, <1>12 DEF RunningOf

(* A package that did not build is counted as failed. *)
LEMMA KeptByBuildFail ==
  ASSUME GoOrder, StatusInv, CountInv, NEW p \in Packages, BuildFail(p), NEW m \in Places
  PROVE  CountsOf(m)' /\ RunningOf(m)'
<1>0. /\ p \in Nodes /\ p \notin Tests /\ TreeTypeOK /\ Having("fail") \cup Unbuilt \subseteq Nodes
      /\ \A f \in Fields : count[f][m] \in Int
  <2>1. p \in Nodes /\ p \notin Tests
    BY TreeAssumption DEF Nodes
  <2>2. TreeTypeOK
    BY DEF GoOrder
  <2>3. Having("fail") \cup Unbuilt \subseteq Nodes
    BY DEF Having, Unbuilt, Nodes
  <2>4. \A f \in Fields : count[f][m] \in Int
    BY <2>2 DEF TreeTypeOK, Places
  <2> QED BY <2>1, <2>2, <2>3, <2>4
<1> DEFINE b == Bit(m \in Line(p))
           d == [Delta("failed", 1) EXCEPT !["running"] = RunningDelta(p, "fail")["running"]]
<1>1. /\ stage[p] = "idle" /\ exists' = exists \cup {p} /\ count' = Added(p, d)
      /\ stage' = [stage EXCEPT ![p] = "broken"] /\ UNCHANGED <<cached, phase, result, par>>
  BY DEF BuildFail
<1>2. status[p] = "pending"
  BY <1>1 DEF StatusInv, IdlePackages
<1>3. \A f \in Fields : d[f] = IF f = "failed" THEN 1 ELSE 0
  BY <1>2 DEF Delta, RunningDelta, Fields
<1> HIDE DEF d
<1>4. /\ count'["failed"][m] = count["failed"][m] + b
      /\ \A f \in {"passed", "skipped", "cached", "total", "running"} : count'[f][m] = count[f][m]
  <2>1. \A f \in Fields : count'[f][m] = count[f][m] + IF m \in Line(p) THEN d[f] ELSE 0
    BY <1>1, AddedAt
  <2> QED BY <1>0, <1>3, <2>1 DEF Fields, Bit
<1>5. /\ \A r : Having(r)' = Having(r)
      /\ In(m)' = In(m) /\ \A u \in Tests : Owner(u)' = Owner(u)
      /\ Active' = Active /\ exists' \ Packages = exists \ Packages /\ cached' = cached
  BY <1>1 DEF Having, In, Subtree, Owner, Subtests, Path, Active
<1>6. /\ (Having("fail") \cup Unbuilt)' = (Having("fail") \cup Unbuilt) \cup {p}
      /\ p \notin Having("fail") \cup Unbuilt
  BY <1>0, <1>1, <1>5 DEF Having, Unbuilt, TreeTypeOK
<1>7. Cardinality((Having("fail") \cup Unbuilt)' \cap In(m))
        = Cardinality((Having("fail") \cup Unbuilt) \cap In(m)) + b
  <2> DEFINE A == Having("fail") \cup Unbuilt
  <2>1. A \subseteq Nodes /\ p \in Nodes \ A
    BY <1>0, <1>6
  <2>2. Cardinality((A \cup {p}) \cap In(m)) = Cardinality(A \cap In(m)) + Bit(m \in Line(p))
    <3> HIDE DEF A
    <3> QED BY <2>1, CountedAs
  <2>3. (Having("fail") \cup Unbuilt)' = A \cup {p}
    BY <1>6
  <2> QED BY <2>2, <2>3
<1>8. CountsOf(m) /\ RunningOf(m)
  BY DEF CountInv
<1> HIDE DEF b
<1>9. CountsOf(m)'
  BY <1>4, <1>5, <1>7, <1>8 DEF CountsOf
<1>10. RunningOf(m)'
  <2>1. Having("fail") \subseteq Tests
    BY DEF Having
  <2> QED BY <1>4, <1>5, <1>8, <2>1 DEF RunningOf
<1> QED BY <1>9, <1>10

(* A replayed package has all its nodes marked, and none of them before. *)
LEMMA KeptByMarkCached ==
  ASSUME GoOrder, CountInv, NEW p \in Packages, count["cached"][p] <= 0, MarkCached(p), NEW m \in Places
  PROVE  count'["cached"][m] = Cardinality((cached' \ Packages) \cap In(m))
<1> DEFINE C == cached \ Packages
           M == Marked(p) \ Packages
<1>0. /\ p \in Nodes /\ p \in Places /\ TreeTypeOK /\ C \subseteq Nodes /\ M \subseteq Nodes /\ exists \subseteq Nodes
      /\ \A n \in Nodes : In(n) = Subtree(n) /\ n # Tree
      /\ In(Tree) = Nodes
  BY TreeAssumption DEF Nodes, GoOrder, TreeTypeOK, Places, Marked, In
<1>1. /\ cached' \ Packages = C \cup M
      /\ count'["cached"][m] = IF m \in Marked(p) THEN count["total"][m]
                               ELSE count["cached"][m] + IF m = Tree THEN count["total"][p] ELSE 0
  BY <1>0 DEF MarkCached, TreeTypeOK, Fields, Places
<1>2. /\ \A n \in Places : count["cached"][n] = Cardinality(C \cap In(n))
      /\ \A n \in Places : count["total"][n] = Cardinality((exists \ Packages) \cap In(n))
  BY DEF CountInv, CountsOf
<1>3. C \cap Subtree(p) = {}
  <2>1. Cardinality(C \cap Subtree(p)) = count["cached"][p]
    BY <1>0, <1>2
  <2>2. IsFiniteSet(C \cap Subtree(p)) /\ Cardinality(C \cap Subtree(p)) \in Nat
    BY <1>0, TreeAssumption, FS_Subset, FS_CardinalityType
  <2>3. Cardinality(C \cap Subtree(p)) = 0
    BY <2>1, <2>2
  <2> QED BY <2>2, <2>3, FS_EmptySet
<1>4. M = (exists \ Packages) \cap Subtree(p)
  BY DEF Marked
<1>5. CASE m \in Marked(p)
  <2>1. m \in Nodes /\ Subtree(m) \subseteq Subtree(p)
    <3>1. m \in Nodes /\ (m = p \/ p \in Above[m])
      BY <1>5 DEF Marked, Subtree
    <3>2. \A x \in Nodes : m \in Above[x] => p \in Above[x]
      BY <3>1, Transitive DEF Path
    <3> QED BY <3>1, <3>2 DEF Subtree
  <2>2. (C \cup M) \cap In(m) = (exists \ Packages) \cap In(m)
    BY <1>0, <1>3, <1>4, <2>1
  <2> QED BY <1>1, <1>2, <1>5, <2>2
<1>6. CASE m = Tree
  <2>1. /\ (C \cup M) \cap In(m) = C \cup M /\ C \cap In(m) = C /\ C \cap M = {}
        /\ m \notin Marked(p)
    BY <1>0, <1>3, <1>4, <1>6, TreeAssumption DEF Marked
  <2>2. IsFiniteSet(C) /\ IsFiniteSet(M) /\ Cardinality(C) \in Nat /\ Cardinality(M) \in Nat
    BY <1>0, TreeAssumption, FS_Subset, FS_CardinalityType
  <2>3. Cardinality(C \cup M) = Cardinality(C) + Cardinality(M)
    <3>1. Cardinality(C \cup M) = Cardinality(C) + Cardinality(M) - Cardinality(C \cap M)
      BY <2>2, FS_Union
    <3>2. Cardinality(C \cap M) = 0
      BY <2>1, FS_EmptySet
    <3> HIDE DEF C, M
    <3> QED BY <2>2, <3>1, <3>2
  <2>4. count["cached"][m] = Cardinality(C) /\ count["total"][p] = Cardinality(M)
    BY <1>0, <1>2, <1>4, <2>1
  <2> QED BY <1>1, <1>6, <2>1, <2>3, <2>4
<1>7. CASE m \in Nodes /\ m \notin Marked(p)
  <2>1. exists \cap Subtree(p) \cap Subtree(m) = {}
    <3> SUFFICES ASSUME NEW x \in exists, x \in Subtree(p), x \in Subtree(m) PROVE FALSE
      OBVIOUS
    <3>1. x \in Nodes /\ p \in Path(x) /\ m \in Path(x) /\ m \in exists
      BY <1>0 DEF Subtree, Path, GoOrder, NodesMade
    <3>2. m \notin Subtree(p)
      BY <1>7, <3>1 DEF Marked
    <3>3. p \notin Path(m)
      BY <1>7, <3>2 DEF Subtree, Path
    <3>4. Path(p) = {p}
      BY <1>0, NodeFacts DEF Path
    <3>5. m = p
      BY <3>1, <3>3, <3>4, Linear
    <3> QED BY <3>3, <3>5 DEF Path
  <2>2. (C \cup M) \cap In(m) = C \cap In(m)
    BY <1>0, <1>4, <1>7, <2>1
  <2>3. count["cached"][m] \in Int /\ m # Tree
    BY <1>0, <1>7 DEF TreeTypeOK, Fields
  <2>4. count'["cached"][m] = count["cached"][m]
    BY <1>1, <1>7, <2>3
  <2> QED BY <1>1, <1>2, <2>2, <2>4
<1> QED BY <1>5, <1>6, <1>7 DEF Places

(* A step of a package keeps all counters.                                   *)
LEMMA KeptCountsByPackage ==
  ASSUME GoOrder, StatusInv, CountInv, NEW p \in Packages, APackage(p), NEW m \in Places
  PROVE  CountsOf(m)' /\ RunningOf(m)'
<1>0. TreeTypeOK /\ p \notin Tests /\ CountsOf(m) /\ RunningOf(m) /\ Having("fail") \subseteq Tests
  BY TreeAssumption DEF GoOrder, CountInv, Having
<1>1. CASE BuildFail(p)
  BY <1>1, KeptByBuildFail
<1>2. CASE ~BuildFail(p)
  <2>1. /\ phase' = phase /\ result' = result
        /\ exists' \ Packages = exists \ Packages
        /\ \A q \in Packages : q # p => stage'[q] = stage[q]
        /\ stage[p] \in {"broken", "unbuilt"} <=> stage'[p] \in {"broken", "unbuilt"}
    BY <1>0, <1>2, PackageStep DEF APackage
  <2>2. /\ \A r : Having(r)' = Having(r)
        /\ In(m)' = In(m) /\ \A u \in Tests : Owner(u)' = Owner(u)
        /\ Active' = Active /\ Unbuilt' = Unbuilt
    BY <2>1 DEF Having, In, Subtree, Owner, Subtests, Path, Active, Unbuilt
  <2>3. \A f \in {"passed", "failed", "skipped", "total", "running"} : count'[f][m] = count[f][m]
    BY <1>0, <1>2 DEF APackage, Start, PackageEnd, CachedLine, MarkCached, TreeTypeOK, Fields
  <2>4. count'["cached"][m] = Cardinality((cached' \ Packages) \cap In(m))
    <3>1. CASE UNCHANGED <<count, cached>>
      BY <1>0, <3>1 DEF CountsOf
    <3>2. CASE CachedLine(p) /\ ~(count["cached"][p] > 0) /\ MarkCached(p)
      <4>1. count["cached"][p] <= 0
        BY <1>0, <3>2 DEF TreeTypeOK, Fields, Nodes
      <4> QED BY <3>2, <4>1, KeptByMarkCached
    <3> QED BY <1>2, <3>1, <3>2 DEF APackage, Start, PackageEnd, CachedLine
  <2>5. CountsOf(m)'
    BY <1>0, <2>1, <2>2, <2>3, <2>4 DEF CountsOf
  <2>6. RunningOf(m)'
    BY <1>0, <2>2, <2>3 DEF RunningOf
  <2> QED BY <2>5, <2>6
<1> QED BY <1>1, <1>2

-----------------------------------------------------------------------------
(* All of it together.                                                       *)
TreeInv == GoOrder /\ StatusInv /\ CountInv

(* The tree before the first event.                                          *)
LEMMA TreeBegins == TreeInit => TreeInv
<1> SUFFICES ASSUME TreeInit PROVE TreeInv
  OBVIOUS
<1> USE DEF TreeInit
<1>0. /\ \A r : Having(r) = {}
      /\ Unbuilt = {} /\ Active = {}
  BY DEF Having, Unbuilt, Active
<1>1. TreeTypeOK
  BY DEF TreeTypeOK, Statuses, Results
<1>2. Begun /\ NodesMade /\ RunsWithin /\ FailsUpward /\ PausedFirst /\ Replayed
  BY <1>0 DEF Begun, NodesMade, RunsWithin, FailsUpward, PausedFirst, Replayed
<1>3. ShownFail /\ IdlePackages /\ FailureShows
  BY <1>0 DEF ShownFail, IdlePackages, FailureShows, Inner, Nodes
<1>4. StatusFollowsTest
  BY DEF StatusFollowsTest, Nodes
<1>5. ASSUME NEW m \in Places PROVE CountsOf(m) /\ RunningOf(m)
  <2>1. \A f \in Fields : count[f][m] = 0
    BY <1>5 DEF Places
  <2>2. Cardinality({}) = 0
    BY FS_EmptySet
  <2>3. /\ \A r : Having(r) \cap In(m) = {}
        /\ (Having("fail") \cup Unbuilt) \cap In(m) = {} /\ Active \cap In(m) = {}
        /\ (exists \ Packages) \cap In(m) = {} /\ (cached \ Packages) \cap In(m) = {}
    BY <1>0
  <2>4. CountsOf(m)
    BY <2>1, <2>2, <2>3 DEF CountsOf, Fields
  <2>5. count["running"][m] = 0 /\ Cardinality(Active \cap In(m)) = 0
    BY <2>1, <2>2, <2>3 DEF Fields
  <2> QED BY <2>4, <2>5 DEF RunningOf
<1> QED BY <1>1, <1>2, <1>3, <1>4, <1>5 DEF TreeInv, GoOrder, StatusInv, CountInv

(* Every event keeps the invariant.                                          *)
LEMMA TreeStep == ASSUME TreeInv, [TreeNext]_goTreeVars PROVE TreeInv'
<1>0. GoOrder /\ StatusInv /\ CountInv
  BY DEF TreeInv
<1>1. ASSUME NEW t \in Tests, ATest(t) PROVE TreeInv'
  <2>1. GoOrder'
    BY <1>0, <1>1, KeptTypes, KeptBegun, KeptNodesMade, KeptRunsWithin, KeptFailsUpward, KeptPausedFirst, KeptReplayed
    DEF GoOrder
  <2>2. StatusInv'
    BY <1>0, <1>1, KeptShownFail, KeptIdlePackages, KeptStatusFollowsTest, KeptFailureShows DEF StatusInv
  <2>3. CountInv'
    BY <1>0, <1>1, KeptCounts, KeptRunning DEF CountInv, Places
  <2> QED BY <2>1, <2>2, <2>3 DEF TreeInv
<1>2. ASSUME NEW p \in Packages, APackage(p) PROVE TreeInv'
  <2>1. GoOrder'
    BY <1>0, <1>2, KeptTypesByPackage, KeptBegunByPackage, KeptNodesMadeByPackage, KeptOthersByPackage, KeptReplayedByPackage
    DEF GoOrder
  <2>2. StatusInv'
    BY <1>0, <1>2, KeptStatusByPackage
  <2>3. CountInv'
    BY <1>0, <1>2, KeptCountsByPackage DEF CountInv, Places
  <2> QED BY <2>1, <2>2, <2>3 DEF TreeInv
<1>3. CASE UNCHANGED goTreeVars
  <2>1. UNCHANGED <<exists, status, count, cached, phase, result, par, stage>>
    BY <1>3 DEF goTreeVars, treeVars, goVars
  <2>2. GoOrder'
    BY <1>0, <2>1 DEF GoOrder, TreeTypeOK, Begun, NodesMade, RunsWithin, FailsUpward, PausedFirst, Replayed, Having,
      Path, Subtree, Over, Passing, TestsOf
  <2>3. ShownFail' /\ IdlePackages' /\ FailureShows'
    BY <1>0, <2>1 DEF StatusInv, ShownFail, IdlePackages, FailureShows, Having, Subtree
  <2>4. StatusFollowsTest'
    <3>1. StatusFollowsTest
      BY <1>0 DEF StatusInv
    <3>2. \A u \in Tests : Subtree(u)' = Subtree(u)
      BY DEF Subtree
    <3>3. Having("fail")' = Having("fail")
      BY <2>1 DEF Having
    <3> QED BY <2>1, <3>1, <3>2, <3>3 DEF StatusFollowsTest
  <2>5. CountInv'
    <3> SUFFICES ASSUME NEW m \in Places PROVE CountsOf(m)' /\ RunningOf(m)'
      BY DEF CountInv, Places
    <3>1. CountsOf(m) /\ RunningOf(m)
      BY <1>0 DEF CountInv
    <3>2. /\ \A r : Having(r)' = Having(r)
          /\ In(m)' = In(m) /\ \A u \in Tests : Owner(u)' = Owner(u)
          /\ Active' = Active /\ Unbuilt' = Unbuilt
      BY <2>1 DEF Having, In, Subtree, Owner, Subtests, Path, Active, Unbuilt
    <3>3. Having("fail") \subseteq Tests
      BY DEF Having
    <3> QED BY <2>1, <3>1, <3>2, <3>3 DEF CountsOf, RunningOf
  <2> QED BY <2>2, <2>3, <2>4, <2>5 DEF TreeInv, StatusInv
<1> QED BY <1>1, <1>2, <1>3 DEF TreeNext, ATest, APackage

(* The invariant is about all nodes, TreeSound about those in the tree.      *)
LEMMA TreeKept == TreeInv => TreeSound
<1> SUFFICES ASSUME TreeInv PROVE TreeSound
  OBVIOUS
<1>1. TreeTypeOK /\ FailureShows /\ StatusFollowsTest /\ CountInv /\ exists \subseteq Nodes
  BY DEF TreeInv, GoOrder, StatusInv, TreeTypeOK
<1>2. \A n \in exists \cup {Tree} : CountsOf(n) /\ RunningOf(n)
  BY <1>1 DEF CountInv, Places
<1>3. CountsExact
  BY <1>2 DEF CountsExact, CountsOf
<1>4. RunningCounted
  BY <1>2 DEF RunningCounted, RunningOf, Active
<1> QED BY <1>1, <1>3, <1>4 DEF TreeSound

(* Statuses and counters agree on every level of the tree, whatever order    *)
(* parallel tests give their events, for every tree of packages, tests,      *)
(* subtests and prefixes: sums are exact, what runs is counted, a failure is *)
(* seen from above, a test shows its own end (ProcessEvent).                 *)
THEOREM TreeIsSound == TreeSpec => []TreeSound
<1>1. TreeSpec => []TreeInv
  BY TreeBegins, TreeStep, PTL DEF TreeSpec
<1> QED BY <1>1, TreeKept, PTL

-----------------------------------------------------------------------------
(* What FlattenSeq of the community modules makes of a sequence of           *)
(* sequences: a loop that puts one after the other.                          *)
Loop(u, n, ss) == u = [i \in 1 .. n |-> IF i = 1 THEN ss[i] ELSE u[i - 1] \o ss[i]]

LEMMA LoopExists ==
  ASSUME NEW n \in Nat, NEW ss
  PROVE  \E u : Loop(u, n, ss)
<1> DEFINE S == {m \in Nat : \E u : Loop(u, m, ss)}
<1>1. 0 \in S
  <2>1. Loop([i \in 1 .. 0 |-> << >>], 0, ss)
    <3>1. 1 .. 0 = {}
      OBVIOUS
    <3> QED BY <3>1 DEF Loop
  <2> QED BY <2>1
<1>2. ASSUME NEW m \in Nat, m \in S PROVE m + 1 \in S
  <2>1. PICK u : Loop(u, m, ss)
    BY <1>2
  <2> DEFINE new == IF m = 0 THEN ss[m + 1] ELSE u[m] \o ss[m + 1]
             w == [i \in 1 .. m + 1 |-> IF i = m + 1 THEN new ELSE u[i]]
  <2>2. \A i \in 1 .. m + 1 : /\ i = m + 1 => w[i] = new /\ i - 1 = m /\ (i # 1 => w[i - 1] = u[i - 1])
                              /\ i # m + 1 => w[i] = u[i] /\ i \in 1 .. m
                              /\ i # m + 1 /\ i # 1 => w[i - 1] = u[i - 1]
    BY <1>2
  <2>3. \A i \in 1 .. m : u[i] = IF i = 1 THEN ss[i] ELSE u[i - 1] \o ss[i]
    BY <2>1 DEF Loop
  <2>4. ASSUME NEW i \in 1 .. m + 1
        PROVE  w[i] = IF i = 1 THEN ss[i] ELSE w[i - 1] \o ss[i]
    <3>1. CASE i = m + 1
      <4>1. w[i] = new /\ i - 1 = m /\ (i = 1 <=> m = 0) /\ (i # 1 => w[i - 1] = u[m])
        BY <2>2, <3>1
      <4> HIDE DEF w
      <4> QED BY <4>1, <3>1
    <3>2. CASE i # m + 1
      <4> HIDE DEF w, new
      <4> QED BY <2>2, <2>3, <3>2
    <3> QED BY <3>1, <3>2
  <2>5. w = [i \in 1 .. m + 1 |-> w[i]]
    OBVIOUS
  <2> HIDE DEF w
  <2>6. Loop(w, m + 1, ss)
    BY <2>4, <2>5 DEF Loop
  <2> QED BY <2>6
<1>3. Nat \subseteq S
  <2> HIDE DEF S
  <2> QED BY <1>1, <1>2, NatInductionSet
<1> QED BY <1>3

LEMMA LoopsAgree ==
  ASSUME NEW m \in Nat, NEW n \in Nat, NEW ss, NEW tt, NEW u, NEW v,
         Loop(u, m, ss), Loop(v, n, tt), m <= n, \A i \in 1 .. m : ss[i] = tt[i]
  PROVE  \A i \in 1 .. m : u[i] = v[i]
<1> DEFINE S == {i \in Nat : 1 <= i /\ i <= m => u[i] = v[i]}
<1>1. /\ \A i \in 1 .. m : u[i] = IF i = 1 THEN ss[i] ELSE u[i - 1] \o ss[i]
      /\ \A i \in 1 .. n : v[i] = IF i = 1 THEN tt[i] ELSE v[i - 1] \o tt[i]
  BY DEF Loop
<1>2. 0 \in S
  OBVIOUS
<1>3. ASSUME NEW i \in Nat, i \in S PROVE i + 1 \in S
  <2> SUFFICES ASSUME i + 1 <= m PROVE u[i + 1] = v[i + 1]
    OBVIOUS
  <2>1. i + 1 \in 1 .. m /\ i + 1 \in 1 .. n /\ (i + 1) - 1 = i /\ i <= m
    OBVIOUS
  <2>2. i + 1 # 1 => u[i] = v[i]
    BY <1>3, <2>1
  <2>3. u[i + 1] = IF i + 1 = 1 THEN ss[i + 1] ELSE u[i] \o ss[i + 1]
    BY <1>1, <2>1
  <2>4. v[i + 1] = IF i + 1 = 1 THEN tt[i + 1] ELSE v[i] \o tt[i + 1]
    BY <1>1, <2>1
  <2> QED BY <2>1, <2>2, <2>3, <2>4
<1>4. Nat \subseteq S
  <2> HIDE DEF S
  <2> QED BY <1>2, <1>3, NatInductionSet
<1> QED BY <1>4

LEMMA FlattenLoop ==
  ASSUME NEW ss, Len(ss) \in Nat, Len(ss) # 0
  PROVE  \E u : Loop(u, Len(ss), ss) /\ FlattenSeq(ss) = u[Len(ss)]
<1> DEFINE w == CHOOSE u : Loop(u, Len(ss), ss)
<1>1. Loop(w, Len(ss), ss)
  BY LoopExists
<1>2. FlattenSeq(ss) = w[Len(ss)]
  BY DEF FlattenSeq, Loop
<1> HIDE DEF w
<1> QED BY <1>1, <1>2

LEMMA FlattenEmpty == FlattenSeq(<< >>) = << >>
<1>1. Len(<< >>) = 0
  BY EmptySeq
<1> QED BY <1>1 DEF FlattenSeq

LEMMA FlattenAppend ==
  ASSUME NEW X, NEW ss \in Seq(Seq(X)), NEW s \in Seq(X)
  PROVE  FlattenSeq(Append(ss, s)) = FlattenSeq(ss) \o s
<1> DEFINE tt == Append(ss, s)
           n == Len(ss)
<1>1. n \in Nat /\ Len(tt) = n + 1 /\ tt[n + 1] = s /\ \A i \in 1 .. n : tt[i] = ss[i]
  BY LenProperties, AppendProperties
<1> HIDE DEF tt
<1>2. PICK v : Loop(v, n + 1, tt) /\ FlattenSeq(tt) = v[n + 1]
  <2>1. Len(tt) \in Nat /\ Len(tt) # 0
    BY <1>1
  <2> QED BY <1>1, <2>1, FlattenLoop
<1>3. v[n + 1] = IF n + 1 = 1 THEN tt[n + 1] ELSE v[n] \o tt[n + 1]
  <2>1. n + 1 \in 1 .. n + 1 /\ (n + 1) - 1 = n
    BY <1>1
  <2> QED BY <1>2, <2>1 DEF Loop
<1>4. CASE n = 0
  <2>1. ss = << >>
    BY <1>4, EmptySeq
  <2>2. FlattenSeq(ss) \o s = s
    BY <2>1, FlattenEmpty, ConcatEmptySeq
  <2> QED BY <1>1, <1>2, <1>3, <1>4, <2>2 DEF tt
<1>5. CASE n # 0
  <2>1. PICK u : Loop(u, n, ss) /\ FlattenSeq(ss) = u[n]
    BY <1>1, <1>5, FlattenLoop
  <2> HIDE DEF n
  <2>2. u[n] = v[n]
    <3>1. n + 1 \in Nat /\ n <= n + 1 /\ n \in 1 .. n
      BY <1>1, <1>5
    <3>2. \A i \in 1 .. n : u[i] = v[i]
      BY <1>1, <1>2, <2>1, <3>1, LoopsAgree
    <3> QED BY <3>1, <3>2
  <2>3. n + 1 # 1
    BY <1>1, <1>5
  <2> QED BY <1>1, <1>2, <1>3, <2>1, <2>2, <2>3 DEF tt
<1> QED BY <1>4, <1>5

LEMMA FlattenType ==
  ASSUME NEW X, NEW ss \in Seq(Seq(X))
  PROVE  FlattenSeq(ss) \in Seq(X)
<1> DEFINE P == {rr \in Seq(Seq(X)) : FlattenSeq(rr) \in Seq(X)}
<1>1. << >> \in P
  BY FlattenEmpty, EmptySeq
<1>2. ASSUME NEW rr \in Seq(Seq(X)), NEW r \in Seq(X), rr \in P PROVE Append(rr, r) \in P
  <2>1. Append(rr, r) \in Seq(Seq(X)) /\ FlattenSeq(rr) \in Seq(X)
    BY <1>2, AppendProperties
  <2>2. FlattenSeq(rr) \o r \in Seq(X)
    BY <2>1, ConcatProperties
  <2> QED BY <2>1, <2>2, FlattenAppend
<1>3. Seq(Seq(X)) \subseteq P
  <2> HIDE DEF P
  <2> QED BY <1>1, <1>2, SeqInductionSet
<1> QED BY <1>3

LEMMA FlattenConcat ==
  ASSUME NEW X, NEW ss \in Seq(Seq(X)), NEW tt \in Seq(Seq(X))
  PROVE  FlattenSeq(ss \o tt) = FlattenSeq(ss) \o FlattenSeq(tt)
<1> DEFINE P == {rr \in Seq(Seq(X)) : FlattenSeq(ss \o rr) = FlattenSeq(ss) \o FlattenSeq(rr)}
<1>0. FlattenSeq(ss) \in Seq(X)
  BY FlattenType
<1>1. << >> \in P
  <2>1. << >> \in Seq(Seq(X)) /\ ss \o << >> = ss /\ FlattenSeq(ss) \o << >> = FlattenSeq(ss)
    BY <1>0, EmptySeq, ConcatEmptySeq
  <2> QED BY <2>1, FlattenEmpty
<1>2. ASSUME NEW rr \in Seq(Seq(X)), NEW r \in Seq(X), rr \in P PROVE Append(rr, r) \in P
  <2> DEFINE q == ss \o rr
             a == FlattenSeq(ss)
             b == FlattenSeq(rr)
  <2>1. /\ Append(rr, r) \in Seq(Seq(X)) /\ q \in Seq(Seq(X)) /\ FlattenSeq(q) = a \o b
        /\ a \in Seq(X) /\ b \in Seq(X)
    BY <1>2, <1>0, AppendProperties, ConcatProperties, FlattenType
  <2>2. ss \o Append(rr, r) = Append(q, r)
    BY AppendConcat
  <2>3. FlattenSeq(Append(rr, r)) = b \o r
    BY FlattenAppend
  <2> HIDE DEF q, a, b
  <2>4. FlattenSeq(Append(q, r)) = (a \o b) \o r
    BY <2>1, FlattenAppend
  <2>5. (a \o b) \o r = a \o (b \o r)
    BY <2>1, ConcatAssociative, SMTT(30)
  <2>6. FlattenSeq(ss \o Append(rr, r)) = a \o FlattenSeq(Append(rr, r))
    BY <2>2, <2>3, <2>4, <2>5
  <2> QED BY <2>1, <2>6 DEF a
<1>3. Seq(Seq(X)) \subseteq P
  <2> HIDE DEF P
  <2> QED BY <1>1, <1>2, SeqInductionSet
<1> QED BY <1>3

(* The same of what a function makes of each element of a sequence.          *)
Mapped(s, f) == [i \in DOMAIN s |-> f[s[i]]]
Into(f, X, Y) == f \in [X -> Y]
(* An equation of sequences is what the provers are shown of these, and not  *)
(* that of their elements.                                                   *)
Value(f, x) == f[x]
Cat(s, t) == s \o t
More(s, x) == Append(s, x)

LEMMA MappedFacts ==
  ASSUME NEW X, NEW Y, NEW s \in Seq(X), NEW x \in X, NEW f, Into(f, X, Y)
  PROVE  /\ Mapped(s, f) \in Seq(Y) /\ Len(Mapped(s, f)) = Len(s)
         /\ Mapped(Append(s, x), f) = More(Mapped(s, f), Value(f, x))
<1> DEFINE t == Append(s, x)
           ms == Mapped(s, f)
           mt == Mapped(t, f)
           n == Len(s)
<1>1. /\ n \in Nat /\ DOMAIN s = 1 .. n /\ DOMAIN t = 1 .. n + 1 /\ t[n + 1] = x
      /\ \A i \in 1 .. n : t[i] = s[i] /\ s[i] \in X
  BY LenProperties, AppendProperties, ElementOfSeq
<1> HIDE DEF t, n
<1>0. f \in [X -> Y]
  BY DEF Into
<1>2. ms \in [1 .. n -> Y] /\ DOMAIN mt = 1 .. n + 1 /\ DOMAIN ms = 1 .. n
  BY <1>0, <1>1 DEF Mapped
<1>3. /\ \A i \in 1 .. n : ms[i] = f[s[i]] /\ mt[i] = f[s[i]]
      /\ mt[n + 1] = f[x]
  BY <1>1 DEF Mapped
<1>4. mt \in [1 .. n + 1 -> Y]
  <2>1. \A i \in 1 .. n + 1 : mt[i] \in Y
    <3>1. ASSUME NEW i \in 1 .. n + 1 PROVE mt[i] \in Y
      <4>1. CASE i \in 1 .. n
        BY <4>1, <1>0, <1>1, <1>3
      <4>2. CASE i = n + 1
        BY <4>2, <1>0, <1>3
      <4> QED BY <4>1, <4>2, <1>1
    <3> QED BY <3>1
  <2>2. mt = [i \in DOMAIN mt |-> mt[i]]
    BY DEF Mapped
  <2> HIDE DEF mt
  <2> QED BY <1>2, <2>1, <2>2
<1> HIDE DEF ms, mt
<1>5. ms \in Seq(Y) /\ Len(ms) = n /\ mt \in Seq(Y) /\ Len(mt) = n + 1
  BY <1>1, <1>2, <1>4, FunctionIsSeq
<1>6. f[x] \in Y
  BY <1>0
<1>7. /\ Append(ms, f[x]) \in Seq(Y) /\ Len(Append(ms, f[x])) = n + 1
      /\ \A i \in 1 .. n : Append(ms, f[x])[i] = ms[i]
      /\ Append(ms, f[x])[n + 1] = f[x]
  BY <1>5, <1>6, AppendProperties
<1>8. mt = Append(ms, f[x])
  <2>1. \A i \in 1 .. n + 1 : mt[i] = Append(ms, f[x])[i]
    BY <1>1, <1>3, <1>7
  <2> QED BY <1>5, <1>7, <2>1, SeqEqual
<1> QED BY <1>5, <1>8 DEF ms, mt, t, n, Value, More

LEMMA MappedConcat ==
  ASSUME NEW X, NEW Y, NEW s \in Seq(X), NEW t \in Seq(X), NEW f, Into(f, X, Y)
  PROVE  Mapped(s \o t, f) = Cat(Mapped(s, f), Mapped(t, f))
<1> DEFINE P == {r \in Seq(X) : Mapped(s \o r, f) = Mapped(s, f) \o Mapped(r, f)}
<1>0. \A r \in Seq(X) : Mapped(r, f) \in Seq(Y)
  <2>1. ASSUME NEW r \in Seq(X) PROVE Mapped(r, f) \in Seq(Y)
    <3>1. CASE r = << >>
      <4>1. Mapped(r, f) = << >>
        BY <3>1 DEF Mapped
      <4> QED BY <4>1, EmptySeq
    <3>2. CASE r # << >>
      <4>1. r[1] \in X
        BY <3>2, EmptySeq, LenProperties, ElementOfSeq
      <4> QED BY <4>1, MappedFacts
    <3> QED BY <3>1, <3>2
  <2> QED BY <2>1
<1>3. ASSUME NEW r \in Seq(X), NEW x \in X PROVE Mapped(Append(r, x), f) = More(Mapped(r, f), Value(f, x))
  BY <1>0, MappedFacts
<1>1. << >> \in P
  <2>1. << >> \in Seq(X) /\ s \o << >> = s /\ Mapped(s, f) \o << >> = Mapped(s, f)
    BY <1>0, EmptySeq, ConcatEmptySeq
  <2>2. Mapped(<< >>, f) = << >>
    BY DEF Mapped
  <2> QED BY <2>1, <2>2
<1>2. ASSUME NEW r \in Seq(X), NEW x \in X, r \in P PROVE Append(r, x) \in P
  <2> DEFINE q == s \o r
             a == Mapped(s, f)
             b == Mapped(r, f)
  <2>1. /\ Append(r, x) \in Seq(X) /\ q \in Seq(X) /\ Mapped(q, f) = a \o b
        /\ a \in Seq(Y) /\ b \in Seq(Y) /\ Value(f, x) \in Y
    BY <1>2, <1>0, AppendProperties, ConcatProperties DEF Into, Value
  <2>2. s \o Append(r, x) = Append(q, x)
    BY AppendConcat
  <2>3. Mapped(Append(r, x), f) = Append(b, Value(f, x))
    BY <1>3 DEF More
  <2> HIDE DEF q, a, b
  <2>4. Mapped(Append(q, x), f) = Append(a \o b, Value(f, x))
    <3>1. Mapped(Append(q, x), f) = More(Mapped(q, f), Value(f, x))
      BY <1>3, <2>1
    <3> QED BY <2>1, <3>1 DEF More
  <2>5. a \o Append(b, Value(f, x)) = Append(a \o b, Value(f, x))
    BY <2>1, AppendConcat
  <2> QED BY <2>1, <2>2, <2>3, <2>4, <2>5 DEF a
<1>4. Seq(X) \subseteq P
  <2> HIDE DEF P
  <2> QED BY <1>1, <1>2, SeqInductionSet
<1> QED BY <1>4 DEF Cat

-----------------------------------------------------------------------------
(* The screens.  A question is asked only when none is, of the view it is    *)
(* about, and a view that is not shown and not told of a new size is told    *)
(* when it is shown again, but for the tree shown again from the log.        *)
ScreensInv ==
  /\ screen \in Screens /\ prevScreen \in {"tree", "log"}
  /\ asked = {} \/ \E q \in Questions : asked = {q}
  /\ size \in [Screens -> Sizes] /\ win \in Sizes
  /\ cleaning \in [{"all", "one"} -> Nat]
  /\ testing \in BOOLEAN /\ stopped \in BOOLEAN /\ left \in BOOLEAN
  /\ SizeFresh /\ StoppedIsOver

LEMMA ScreensBegin == ScreensInit => ScreensInv
<1> SUFFICES ASSUME ScreensInit PROVE ScreensInv
  OBVIOUS
<1>1. size \in [Screens -> Sizes] /\ win \in Sizes /\ cleaning \in [{"all", "one"} -> Nat]
  BY DEF ScreensInit
<1>2. screen = "tree" /\ prevScreen = "tree" /\ \A x \in Screens : size[x] = win
  BY DEF ScreensInit
<1>3. came = "start" /\ asked = {} /\ testing = TRUE /\ stopped = FALSE /\ left = FALSE
  BY DEF ScreensInit
<1> QED BY <1>1, <1>2, <1>3 DEF ScreensInv, Screens, SizeFresh, StoppedIsOver

(* A question shown is answered and gone, or stays alone.                    *)
LEMMA NoKept == ASSUME ScreensInv, NEW q \in Questions, No(q) PROVE ScreensInv'
  BY DEF ScreensInv, No, SizeFresh, StoppedIsOver

LEMMA YesKept == ASSUME ScreensInv, NEW q \in Questions, Yes(q) PROVE ScreensInv'
<1>1. UNCHANGED <<screen, prevScreen, came, choice, win, size>> /\ q \in asked
  BY DEF Yes
<1>2. asked = {q}
  BY <1>1 DEF ScreensInv
<1>3. CASE q = "quit" /\ left' = TRUE /\ UNCHANGED <<asked, testing, stopped, cleaning>>
  BY <1>1, <1>3 DEF ScreensInv, SizeFresh, StoppedIsOver
<1>4. CASE /\ q = "stop"
           /\ asked' = asked \ {q} /\ testing' = FALSE /\ stopped' = TRUE
           /\ UNCHANGED <<cleaning, left>>
  BY <1>1, <1>2, <1>4 DEF ScreensInv, SizeFresh, StoppedIsOver
<1>5. CASE /\ q \in {"rerun", "logrerun"}
           /\ \E k \in {"all", "one"} : cleaning' = [cleaning EXCEPT ![k] = @ + 1]
           /\ asked' = asked \ {q}
           /\ UNCHANGED <<testing, stopped, left>>
  BY <1>1, <1>2, <1>5 DEF ScreensInv, SizeFresh, StoppedIsOver
<1> QED BY <1>3, <1>4, <1>5 DEF Yes

LEMMA ScreensStep == ASSUME ScreensInv, [ScreensNext]_screensVars PROVE ScreensInv'
<1>1. CASE UNCHANGED screensVars
  BY <1>1 DEF ScreensInv, screensVars, SizeFresh, StoppedIsOver
<1>2. ASSUME NEW s \in Sizes, WindowSize(s) PROVE ScreensInv'
  BY <1>2 DEF ScreensInv, WindowSize, SizeFresh, StoppedIsOver
<1>3. CASE TestsDone
  BY <1>3 DEF ScreensInv, TestsDone, SizeFresh, StoppedIsOver
<1>4. ASSUME NEW k \in {"all", "one"}, Cleaned(k) PROVE ScreensInv'
  <2>1. cleaning[k] \in Nat \ {0} /\ cleaning' = [cleaning EXCEPT ![k] = @ - 1]
    BY <1>4 DEF Cleaned, ScreensInv
  <2>2. cleaning' \in [{"all", "one"} -> Nat]
    BY <2>1 DEF ScreensInv
  <2>3. /\ \/ screen' = screen /\ came' = came
           \/ screen' = "tree" /\ came' = "rerun"
        /\ testing' = TRUE /\ stopped' = FALSE
        /\ UNCHANGED <<prevScreen, asked, win, size, left>>
    BY <1>4 DEF Cleaned
  <2> QED BY <2>2, <2>3 DEF ScreensInv, SizeFresh, StoppedIsOver, Screens
<1>5. ASSUME NEW c \in {"yes", "no"}, Choose(c) PROVE ScreensInv'
  BY <1>5 DEF ScreensInv, Choose, SizeFresh, StoppedIsOver
<1>6. ASSUME NEW q \in Questions, No(q) \/ Yes(q) \/ Enter(q) PROVE ScreensInv'
  BY <1>6, NoKept, YesKept DEF Enter
<1>7. ASSUME NEW s, NEW q \in Questions, Offer(s, q) PROVE ScreensInv'
  BY <1>7 DEF ScreensInv, Offer, SizeFresh, StoppedIsOver
<1>8. CASE OfferRerun \/ OfferStop \/ OfferLogRerun \/ Quit
  <2>1. CASE \E s \in Screens, q \in Questions : Offer(s, q)
    BY <1>7, <2>1
  <2>2. CASE ~\E s \in Screens, q \in Questions : Offer(s, q)
    <3>1. Quit /\ ~Offer("tree", "quit")
      BY <1>8, <2>2 DEF OfferRerun, OfferStop, OfferLogRerun, Screens, Questions
    <3>2. left' = TRUE /\ UNCHANGED <<screen, prevScreen, came, asked, choice, testing, stopped, cleaning, win, size>>
      BY <3>1 DEF Quit
    <3> QED BY <3>2 DEF ScreensInv, SizeFresh, StoppedIsOver
  <2> QED BY <2>1, <2>2
<1>9. CASE SelectTest
  BY <1>9 DEF ScreensInv, SelectTest, SizeFresh, StoppedIsOver, Screens
<1>10. CASE LogBack
  BY <1>10 DEF ScreensInv, LogBack, SizeFresh, StoppedIsOver, Screens
<1>11. CASE ShowHelp
  BY <1>11 DEF ScreensInv, ShowHelp, SizeFresh, StoppedIsOver, Screens
<1>12. CASE LeaveHelp
  BY <1>12 DEF ScreensInv, LeaveHelp, SizeFresh, StoppedIsOver, Screens
<1> QED BY <1>1, <1>2, <1>3, <1>4, <1>5, <1>6, <1>8, <1>9, <1>10, <1>11, <1>12 DEF ScreensNext

(* The screens agree with the run and the window, and show one question, for *)
(* all window sizes and any number of commands under way (App.Update); the   *)
(* program is not left while tests run unless that question was shown.       *)
LEMMA ScreensSound == ScreensInv => OneQuestion /\ SizeFresh /\ StoppedIsOver
<1>1. ScreensInv => OneQuestion
  <2>1. Cardinality({}) = 0 /\ \A q \in Questions : Cardinality({q}) = 1
    BY FS_EmptySet, FS_Singleton
  <2> QED BY <2>1 DEF ScreensInv, OneQuestion
<1> QED BY <1>1 DEF ScreensInv

LEMMA LeftAsked ==
  ASSUME ScreensInv, [ScreensNext]_screensVars PROVE left' /\ ~left /\ testing => "quit" \in asked
<1>1. CASE UNCHANGED screensVars
  BY <1>1 DEF screensVars
<1>2. ASSUME NEW q \in Questions, No(q) \/ Yes(q) \/ Enter(q) PROVE left' /\ ~left /\ testing => "quit" \in asked
  BY <1>2 DEF Enter, No, Yes
<1>3. CASE \/ \E s \in Sizes : WindowSize(s)
           \/ TestsDone \/ \E k \in {"all", "one"} : Cleaned(k)
           \/ \E c \in {"yes", "no"} : Choose(c)
           \/ OfferRerun \/ OfferStop \/ OfferLogRerun \/ Quit
           \/ SelectTest \/ LogBack \/ ShowHelp \/ LeaveHelp
  BY <1>3 DEF WindowSize, TestsDone, Cleaned, Choose, OfferRerun, OfferStop, OfferLogRerun, Quit, Offer,
     SelectTest, LogBack, ShowHelp, LeaveHelp
<1> QED BY <1>1, <1>2, <1>3 DEF ScreensNext

(* Whatever messages come while a question is shown, there is one question   *)
(* at most, the log, the help and a tree that was not shown again from the   *)
(* log have the window's size, a run that was stopped is over, and gowt is   *)
(* not left while tests run without asking.                                  *)
THEOREM ScreensAreSound ==
  ScreensSpec => [](OneQuestion /\ SizeFresh /\ StoppedIsOver) /\ NeverLeftRunning
<1>1. ScreensSpec => []ScreensInv
  BY ScreensBegin, ScreensStep, PTL DEF ScreensSpec
<1>2. ScreensInv /\ [ScreensNext]_screensVars => [left' /\ ~left /\ testing => "quit" \in asked]_screensVars
  BY LeftAsked
<1>3. ScreensSpec => NeverLeftRunning
  BY <1>1, <1>2, PTL DEF ScreensSpec, NeverLeftRunning
<1> QED BY <1>1, <1>3, ScreensSound, PTL

-----------------------------------------------------------------------------
(* The log on screen.  The search finds lines, whose numbers are natural.    *)
LEMMA HitsType == ASSUME NEW first \in Nat, NEW len \in Nat PROVE HitsIn(first, len) \in Seq(Nat)
<1> DEFINE f == [i \in 1 .. (len - first) |-> IF first + i \in Hits THEN <<first + i>> ELSE << >>]
           n == IF len < first THEN 0 ELSE len - first
<1>1. n \in Nat /\ 1 .. (len - first) = 1 .. n
  OBVIOUS
<1>2. ASSUME NEW i \in 1 .. n PROVE f[i] \in Seq(Nat)
  <2>1. f[i] = IF first + i \in Hits THEN <<first + i>> ELSE << >>
    BY <1>1
  <2>2. first + i \in Nat /\ <<first + i>> \in Seq(Nat) /\ << >> \in Seq(Nat)
    OBVIOUS
  <2> QED BY <2>1, <2>2
<1>3. DOMAIN f = 1 .. n /\ f = [i \in DOMAIN f |-> f[i]] /\ HitsIn(first, len) = FlattenSeq(f)
  BY <1>1 DEF HitsIn
<1> HIDE DEF f, n
<1>4. f \in [1 .. n -> Seq(Nat)]
  BY <1>2, <1>3
<1>5. f \in Seq(Seq(Nat))
  BY <1>1, <1>4, FunctionIsSeq
<1> QED BY <1>3, <1>5, FlattenType

Views == [of : LogNodes \cup {NoNode}, mode : Modes, len : 0..MaxLines, end : BOOLEAN]
Texts == [of : LogNodes \cup {NoNode}, mode : Modes, len : 0..MaxLines]

(* The offsets stay within a text, the new one too.                          *)
LEMMA Offsets ==
  ASSUME NEW c \in Views, NEW h \in Heights, y \in 0..MaxLines + 2, height \in Heights
  PROVE  /\ LineCount(c) \in Nat \ {0} /\ MaxY(c, h) \in 0..MaxLines + 2 /\ MaxY(c, h) < LineCount(c)
         /\ AfterSet(c) \in 0..MaxLines + 2
         /\ \A v \in Nat \cup {Bottom} : Clamp(v, c, h) \in 0..MaxLines + 2
<1>1. /\ MaxLines \in Nat /\ h \in Nat \ {0} /\ height \in Nat \ {0} /\ c.len \in Nat /\ c.len <= MaxLines
      /\ c.end \in BOOLEAN /\ y \in Nat /\ y <= MaxLines + 2
  BY LogViewAssumption DEF Views
<1>2. LineCount(c) \in Nat \ {0} /\ LineCount(c) <= MaxLines + 3
  BY <1>1 DEF LineCount
<1>3. \A g \in Nat \ {0} : MaxY(c, g) \in Nat /\ MaxY(c, g) < LineCount(c)
  BY <1>2 DEF MaxY, Most
<1>4. AfterSet(c) \in Nat /\ AfterSet(c) <= MaxLines + 2
  BY <1>1, <1>2, <1>3 DEF AfterSet
<1>5. ASSUME NEW v \in Nat \cup {Bottom} PROVE Clamp(v, c, h) \in Nat /\ Clamp(v, c, h) <= MaxLines + 2
  <2>1. MaxY(c, h) \in Nat /\ MaxY(c, h) <= MaxLines + 2
    BY <1>1, <1>2, <1>3
  <2>2. CASE v = Bottom
    BY <2>1, <2>2 DEF Clamp
  <2>3. CASE v \in Nat /\ v # Bottom
    <3>1. Clamp(v, c, h) = IF v < MaxY(c, h) THEN v ELSE MaxY(c, h)
      BY <2>3 DEF Clamp, Least
    <3> HIDE DEF MaxY
    <3> QED BY <1>1, <2>1, <2>3, <3>1
  <2> QED BY <2>2, <2>3
<1> QED BY <1>1, <1>2, <1>3, <1>4, <1>5

(* What is on screen was made of what the view holds now, unless the test of *)
(* the log has ended since.                                                  *)
UpToDate ==
  /\ node # NoNode => seen <= logLen[node]
  /\ node # NoNode /\ node \notin ended => shown = Content(node, mode, seen, active, marked)

LogViewInv ==
  /\ LogViewTypeOK /\ NoOldMarks /\ TextIsNodes /\ UpToDate
  /\ shown \in Views /\ marked \in Texts
  /\ otherY \in Nat \cup {Bottom} /\ searchY \in Nat

LEMMA ContentType ==
  ASSUME NEW n \in LogNodes \cup {NoNode}, NEW m \in Modes, NEW len \in 0..MaxLines, NEW act \in BOOLEAN,
         NEW mk \in Texts
  PROVE  Content(n, m, len, act, mk) \in Views
<1> DEFINE t == IF act /\ mk.len > 0 THEN mk ELSE [of |-> n, mode |-> m, len |-> len]
<1>1. t \in Texts
  BY DEF Texts
<1>2. Content(n, m, len, act, mk) = [of |-> t.of, mode |-> t.mode, len |-> t.len, end |-> n \in ended /\ t.len > 0]
  BY DEF Content
<1> HIDE DEF t
<1> QED BY <1>1, <1>2 DEF Texts, Views

(* A text just made is of what it was made from, its end mark aside.         *)
LEMMA MadeFrom ==
  ASSUME NEW n, NEW m, NEW len, NEW act, NEW mk, NEW c, c = Content(n, m, len, act, mk)
  PROVE  LET t == IF act /\ mk.len > 0 THEN mk ELSE [of |-> n, mode |-> m, len |-> len]
         IN  c.of = t.of /\ c.mode = t.mode /\ c.len = t.len
<1> DEFINE t == IF act /\ mk.len > 0 THEN mk ELSE [of |-> n, mode |-> m, len |-> len]
<1>1. Content(n, m, len, act, mk)
        = [of |-> t.of, mode |-> t.mode, len |-> t.len, end |-> n \in ended /\ t.len > 0]
  BY DEF Content
<1> HIDE DEF t
<1>2. c.of = t.of /\ c.mode = t.mode /\ c.len = t.len
  BY <1>1
<1> QED BY <1>2 DEF t

LEMMA LogViewBegins == LogViewInit => LogViewInv
<1> SUFFICES ASSUME LogViewInit PROVE LogViewInv
  OBVIOUS
<1>1. MaxLines \in Nat /\ 0 \in 0..MaxLines /\ NoText \in Texts /\ shown \in Views /\ shown.len = 0
  BY LogViewAssumption DEF LogViewInit, NoText, Texts, Views, Modes
<1>2. logLen \in [LogNodes -> 0..MaxLines] /\ height \in Heights
  BY <1>1 DEF LogViewInit
<1>3. matches = << >> /\ matches \in Seq(Nat) /\ Len(matches) = 0
  BY EmptySeq DEF LogViewInit
<1>4. LogViewTypeOK
  <2>1. /\ ended = {} /\ onScreen = "tree" /\ node = NoNode /\ seen = 0 /\ mode = "processed" /\ y = 0
        /\ autoScroll = FALSE /\ searching = FALSE /\ query = FALSE /\ current = 0 /\ active = FALSE
    BY DEF LogViewInit
  <2>2. 0 \in 0..MaxLines + 2 /\ 0 \in 0..Len(matches)
    BY <1>1, <1>3
  <2> QED BY <1>1, <1>2, <1>3, <2>1, <2>2 DEF LogViewTypeOK, Modes, OnLog
<1> QED BY <1>1, <1>4 DEF LogViewInit, LogViewInv, NoOldMarks, TextIsNodes, UpToDate, Bottom

(* A new output or the end of the test brings what the log now holds.        *)
LEMMA UpdatedKept ==
  ASSUME LogViewInv, NEW len \in 0..MaxLines, NEW over \in BOOLEAN, Updated(len, over), node \in LogNodes,
         height' = height, active' = active, node' = node, mode' = mode, searching' = searching,
         current' = current, otherY' = otherY, searchY' = searchY, OnLog
  PROVE  /\ seen' = len /\ marked' \in Texts /\ shown' \in Views /\ y' \in 0..MaxLines + 2
         /\ shown' = [Content(node, mode, len, active, marked') EXCEPT !.end = over]
         /\ matches' \in Seq(Nat) /\ current \in 0..Len(matches')
         /\ searching => marked' = NoText
         /\ marked'.len >= marked.len
         /\ TextIsNodes'
<1> DEFINE mk == IF active THEN [marked EXCEPT !.len = Most(@, len)] ELSE marked
           c == [Content(node, mode, len, active, mk) EXCEPT !.end = over]
<1>1. /\ marked \in Texts /\ marked.len \in 0..MaxLines /\ y \in 0..MaxLines + 2 /\ height \in Heights
      /\ MaxLines \in Nat /\ len \in Nat /\ active \in BOOLEAN /\ mode \in Modes
      /\ matches \in Seq(Nat) /\ current \in 0..Len(matches)
  BY LogViewAssumption DEF LogViewInv, LogViewTypeOK, Texts
<1>2. mk \in Texts /\ mk.len >= marked.len
  <2>1. Most(marked.len, len) \in 0..MaxLines /\ Most(marked.len, len) >= marked.len
    BY <1>1 DEF Most
  <2>2. CASE active
    BY <1>1, <2>1, <2>2 DEF Texts
  <2>3. CASE ~active
    <3>1. mk = marked /\ marked.len >= marked.len
      BY <1>1, <2>3
    <3> QED BY <1>1, <3>1
  <2> QED BY <1>1, <2>2, <2>3
<1>3. c \in Views
  <2>1. Content(node, mode, len, active, mk) \in Views
    BY <1>1, <1>2, ContentType
  <2> HIDE DEF mk
  <2> QED BY <2>1 DEF Views
<1>4. /\ seen' = len /\ marked' = mk /\ shown' = c
      /\ y' = IF autoScroll /\ AtBottom THEN MaxY(c, height) ELSE AfterSet(c)
      /\ matches' = IF active THEN matches \o HitsIn(marked.len, len) ELSE matches
  BY DEF Updated
<1> HIDE DEF mk, c
<1>5. y' \in 0..MaxLines + 2
  BY <1>1, <1>3, <1>4, Offsets
<1>6. matches' \in Seq(Nat) /\ current \in 0..Len(matches')
  <2>1. HitsIn(marked.len, len) \in Seq(Nat)
    <3>1. marked.len \in Nat
      BY <1>1
    <3> QED BY <1>1, <3>1, HitsType
  <2>2. /\ matches \o HitsIn(marked.len, len) \in Seq(Nat)
        /\ Len(matches \o HitsIn(marked.len, len)) = Len(matches) + Len(HitsIn(marked.len, len))
        /\ Len(matches) \in Nat /\ Len(HitsIn(marked.len, len)) \in Nat
    BY <1>1, <2>1, ConcatProperties, LenProperties
  <2>3. current \in 0..Len(matches \o HitsIn(marked.len, len))
    BY <1>1, <2>2
  <2> QED BY <1>1, <1>4, <2>2, <2>3
<1>7. searching => mk = NoText
  BY DEF LogViewInv, NoOldMarks, mk
<1>8. shown' = [Content(node, mode, len, active, marked') EXCEPT !.end = over]
  BY <1>4 DEF c
<1>9. TextIsNodes'
  <2> DEFINE o == Content(node, mode, len, active, marked')
  <2>1. o \in Views
    BY <1>1, <1>2, <1>4, ContentType
  <2>2. LET t == IF active /\ marked'.len > 0 THEN marked'
                                          ELSE [of |-> node, mode |-> mode, len |-> len]
        IN  o.of = t.of /\ o.mode = t.mode /\ o.len = t.len
    BY ONLY MadeFrom
  <2>3. shown' = [o EXCEPT !.end = over]
    BY <1>8
  <2> HIDE DEF o
  <2>4. shown'.of = o.of /\ shown'.mode = o.mode /\ shown'.len = o.len
    BY <2>1, <2>3 DEF Views
  <2> QED BY <1>4, <2>2, <2>4 DEF TextIsNodes
<1> QED BY <1>2, <1>3, <1>4, <1>5, <1>6, <1>7, <1>8, <1>9

LEMMA OutputKept == ASSUME LogViewInv, NEW n \in LogNodes, Output(n) PROVE LogViewInv'
<1>1. /\ n \notin ended /\ logLen[n] < MaxLines /\ logLen' = [logLen EXCEPT ![n] = @ + 1]
      /\ UNCHANGED <<ended, onScreen, node, mode, height, otherY, searchY, autoScroll, searching, query,
                     current, active>>
  BY DEF Output
<1>2. /\ logLen \in [LogNodes -> 0..MaxLines] /\ MaxLines \in Nat /\ logLen[n] + 1 \in 0..MaxLines
      /\ logLen' \in [LogNodes -> 0..MaxLines] /\ \A m \in LogNodes : logLen[m] <= logLen'[m]
      /\ \A m \in LogNodes : logLen[m] \in Nat /\ logLen'[m] \in Nat
  BY <1>1, LogViewAssumption DEF LogViewInv, LogViewTypeOK
<1>3. CASE ~(OnLog /\ node = n)
  <2>1. UNCHANGED <<seen, marked, shown, y, matches>>
    BY <1>3 DEF Output
  <2>2. LogViewTypeOK' /\ NoOldMarks' /\ TextIsNodes'
    BY <1>1, <1>2, <2>1 DEF LogViewInv, LogViewTypeOK, NoOldMarks, TextIsNodes, OnLog
  <2>3. UpToDate'
    <3>1. node # NoNode => seen <= logLen[node] /\ logLen[node] <= logLen'[node] /\ seen \in Nat
      BY <1>2 DEF LogViewInv, LogViewTypeOK, UpToDate
    <3>2. Content(node, mode, seen, active, marked)' = Content(node, mode, seen, active, marked)
      BY <1>1, <2>1 DEF Content
    <3>3. node # NoNode => seen' <= logLen'[node]
      BY <1>2, <2>1, <3>1 DEF LogViewInv, LogViewTypeOK
    <3> QED BY <1>1, <2>1, <3>2, <3>3 DEF LogViewInv, UpToDate
  <2> QED BY <1>1, <2>1, <2>2, <2>3 DEF LogViewInv
<1>4. CASE OnLog /\ node = n
  <2>1. Updated(logLen[n] + 1, FALSE)
    BY <1>4 DEF Output
  <2>2. /\ seen' = logLen[n] + 1 /\ marked' \in Texts /\ shown' \in Views /\ y' \in 0..MaxLines + 2
        /\ shown' = [Content(node, mode, logLen[n] + 1, active, marked') EXCEPT !.end = FALSE]
        /\ matches' \in Seq(Nat) /\ current \in 0..Len(matches')
        /\ searching => marked' = NoText
        /\ TextIsNodes'
    BY <1>1, <1>2, <1>4, <2>1, UpdatedKept
  <2>3. LogViewTypeOK'
    BY <1>1, <1>2, <1>4, <2>2 DEF LogViewInv, LogViewTypeOK, OnLog, Views
  <2>4. NoOldMarks'
    BY <1>1, <2>2 DEF LogViewInv, NoOldMarks
  <2>5. shown' = Content(node, mode, seen, active, marked)'
    <3> DEFINE t == IF active /\ marked'.len > 0 THEN marked' ELSE [of |-> n, mode |-> mode, len |-> logLen[n] + 1]
               r == [of |-> t.of, mode |-> t.mode, len |-> t.len, end |-> FALSE]
    <3>1. /\ Content(node, mode, logLen[n] + 1, active, marked')
               = [of |-> t.of, mode |-> t.mode, len |-> t.len, end |-> n \in ended /\ t.len > 0]
          /\ Content(node, mode, seen, active, marked)'
               = [of |-> t.of, mode |-> t.mode, len |-> t.len, end |-> n \in ended /\ t.len > 0]
      BY <1>1, <1>4, <2>2 DEF Content
    <3> HIDE DEF t
    <3>2. (n \in ended /\ t.len > 0) = FALSE
      BY <1>1
    <3>3. Content(node, mode, logLen[n] + 1, active, marked') = r /\ Content(node, mode, seen, active, marked)' = r
      BY <3>1, <3>2, Zenon
    <3>4. [r EXCEPT !.end = FALSE] = r
      <4>1. r \in [of : {t.of}, mode : {t.mode}, len : {t.len}, end : {FALSE}]
        OBVIOUS
      <4> HIDE DEF r
      <4> QED BY <4>1
    <3> HIDE DEF r
    <3> QED BY <2>2, <3>3, <3>4
  <2>6. seen' <= logLen'[node']
    BY <1>1, <1>2, <1>4, <2>2
  <2>7. UpToDate'
    BY <2>5, <2>6 DEF UpToDate
  <2> QED BY <1>1, <2>2, <2>3, <2>4, <2>7 DEF LogViewInv
<1> QED BY <1>3, <1>4

LEMMA RunEndKept == ASSUME LogViewInv, NEW n \in LogNodes, RunEnd(n) PROVE LogViewInv'
<1>1. /\ n \notin ended /\ ended' = ended \cup {n}
      /\ UNCHANGED <<logLen, onScreen, node, mode, height, otherY, searchY, autoScroll, searching, query,
                     current, active>>
  BY DEF RunEnd
<1>2. /\ logLen \in [LogNodes -> 0..MaxLines] /\ MaxLines \in Nat /\ ended' \subseteq LogNodes
      /\ \A m \in LogNodes : logLen[m] \in Nat
  BY <1>1, LogViewAssumption DEF LogViewInv, LogViewTypeOK
<1>3. CASE ~(OnLog /\ node = n /\ seen < logLen[n])
  <2>1. UNCHANGED <<seen, marked, shown, y, matches>>
    BY <1>3 DEF RunEnd
  <2>2. LogViewTypeOK' /\ NoOldMarks' /\ TextIsNodes'
    BY <1>1, <1>2, <2>1 DEF LogViewInv, LogViewTypeOK, NoOldMarks, TextIsNodes, OnLog
  <2>3. node # n => Content(node, mode, seen, active, marked)' = Content(node, mode, seen, active, marked)
    BY <1>1, <2>1 DEF Content
  <2>4. UpToDate'
    BY <1>1, <2>1, <2>3 DEF LogViewInv, UpToDate
  <2> QED BY <1>1, <2>1, <2>2, <2>4 DEF LogViewInv
<1>4. CASE OnLog /\ node = n /\ seen < logLen[n]
  <2>1. Updated(logLen[n], TRUE) /\ logLen[n] \in 0..MaxLines
    BY <1>2, <1>4 DEF RunEnd
  <2>2. /\ seen' = logLen[n] /\ marked' \in Texts /\ shown' \in Views /\ y' \in 0..MaxLines + 2
        /\ matches' \in Seq(Nat) /\ current \in 0..Len(matches')
        /\ searching => marked' = NoText
        /\ TextIsNodes'
    BY <1>1, <1>2, <1>4, <2>1, UpdatedKept
  <2>3. LogViewTypeOK'
    BY <1>1, <1>2, <1>4, <2>1, <2>2 DEF LogViewInv, LogViewTypeOK, OnLog, Views
  <2>4. NoOldMarks'
    BY <1>1, <2>2 DEF LogViewInv, NoOldMarks
  <2>5. UpToDate'
    BY <1>1, <1>2, <1>4, <2>2 DEF UpToDate
  <2> QED BY <1>1, <2>2, <2>3, <2>4, <2>5 DEF LogViewInv
<1> QED BY <1>3, <1>4

LEMMA LogViewTyped ==
  ASSUME LogViewInv
  PROVE  /\ MaxLines \in Nat /\ seen \in 0..MaxLines /\ seen \in Nat /\ mode \in Modes /\ active \in BOOLEAN /\ marked \in Texts
         /\ node \in LogNodes \cup {NoNode} /\ shown \in Views /\ height \in Heights /\ y \in 0..MaxLines + 2
         /\ y \in Nat /\ NoText \in Texts /\ logLen \in [LogNodes -> 0..MaxLines] /\ ended \subseteq LogNodes
         /\ OnLog => node \in LogNodes
<1>1. /\ MaxLines \in Nat /\ seen \in 0..MaxLines /\ mode \in Modes /\ active \in BOOLEAN /\ marked \in Texts
      /\ node \in LogNodes \cup {NoNode} /\ shown \in Views /\ height \in Heights /\ y \in 0..MaxLines + 2
      /\ logLen \in [LogNodes -> 0..MaxLines] /\ ended \subseteq LogNodes 
  BY LogViewAssumption DEF LogViewInv, LogViewTypeOK
<1>2. NoText \in Texts
  BY <1>1 DEF NoText, Texts, Modes
<1>3. OnLog => node \in LogNodes
  BY <1>1 DEF LogViewInv, LogViewTypeOK, OnLog
<1> QED BY <1>1, <1>2, <1>3

LEMMA OpenNodeKept == ASSUME LogViewInv, NEW n \in LogNodes, OpenNode(n) PROVE LogViewInv'
<1>1. /\ onScreen' = "log" /\ node' = n /\ seen' = logLen[n] /\ autoScroll' = (n \notin ended) /\ otherY' = Bottom
      /\ shown' = Content(n, mode, logLen[n], active, marked)
      /\ y' = MaxY(shown', height)
      /\ UNCHANGED <<docVars, mode, height, searchY, findVars>>
  BY DEF OpenNode
<1>2. /\ logLen[n] \in 0..MaxLines /\ MaxLines \in Nat /\ logLen[n] \in Nat
      /\ Content(n, mode, logLen[n], active, marked) \in Views
  BY LogViewTyped, ContentType
<1>3. shown' \in Views /\ y' \in 0..MaxLines + 2 /\ shown'.len \in 0..MaxLines
  BY <1>1, <1>2, LogViewTyped, Offsets DEF Views
<1>4. LogViewTypeOK'
  BY <1>1, <1>2, <1>3, LogViewAssumption DEF LogViewInv, LogViewTypeOK, docVars, findVars, OnLog, NoNode
<1>5. Content(node, mode, seen, active, marked)' = Content(n, mode, logLen[n], active, marked)
  BY <1>1 DEF Content, docVars, findVars
<1>6. NoOldMarks' /\ UpToDate'
  BY <1>1, <1>2, <1>5 DEF LogViewInv, NoOldMarks, UpToDate, docVars, findVars
<1>7. TextIsNodes'
  <2>0. shown' = Content(n, mode, logLen[n], active, marked)
    BY <1>1
  <2>1. LET t == IF active /\ marked.len > 0 THEN marked ELSE [of |-> n, mode |-> mode, len |-> logLen[n]]
        IN  shown'.of = t.of /\ shown'.mode = t.mode /\ shown'.len = t.len
    BY ONLY <2>0, MadeFrom
  <2> QED BY <1>1, <2>1 DEF TextIsNodes, findVars
<1> QED BY <1>1, <1>3, <1>4, <1>6, <1>7 DEF LogViewInv, docVars, findVars

(* The steps that change neither what there is to show nor what is shown.    *)
LEMMA TextKept ==
  ASSUME LogViewInv, UNCHANGED <<docVars, node, seen, mode, shown, active, marked>>,
         onScreen' \in {"tree", "log", "help"}, onScreen' # "tree" => node # NoNode,
         y' \in 0..MaxLines + 2, height' \in Heights, autoScroll' \in BOOLEAN, query' \in BOOLEAN,
         matches' \in Seq(Nat), current' \in 0..Len(matches'), searching' \in BOOLEAN,
         searching' => searching, otherY' \in Nat \cup {Bottom}, searchY' \in Nat
  PROVE  LogViewInv'
<1>1. LogViewTypeOK'
  BY DEF LogViewInv, LogViewTypeOK, OnLog, docVars
<1>2. NoOldMarks' /\ TextIsNodes'
  BY DEF LogViewInv, NoOldMarks, TextIsNodes
<1>3. Content(node, mode, seen, active, marked)' = Content(node, mode, seen, active, marked)
  BY DEF Content, docVars
<1>4. UpToDate'
  BY <1>3 DEF LogViewInv, UpToDate, docVars
<1> QED BY <1>1, <1>2, <1>4 DEF LogViewInv

LEMMA ScrollsKept ==
  ASSUME LogViewInv, \/ BackToTree \/ OpenHelp \/ CloseHelp \/ GoBottom \/ Erase
                     \/ \E h \in Heights : ResizeHeight(h)
                     \/ \E k \in {1, height} : Up(k) \/ Down(k)
  PROVE  LogViewInv'
<1> USE LogViewTyped
<1>1. /\ y \in 0..MaxLines + 2 /\ height \in Heights /\ height \in Nat \ {0} /\ autoScroll \in BOOLEAN /\ query \in BOOLEAN
      /\ matches \in Seq(Nat) /\ current \in 0..Len(matches) /\ searching \in BOOLEAN
      /\ otherY \in Nat \cup {Bottom} /\ searchY \in Nat
      /\ onScreen \in {"tree", "log", "help"} /\ (onScreen # "tree" => node # NoNode)
  BY LogViewAssumption DEF LogViewInv, LogViewTypeOK, OnLog
<1>2. MaxY(shown, height) \in 0..MaxLines + 2 /\ Follow \in BOOLEAN
  BY <1>1, Offsets DEF Follow
<1>3. CASE BackToTree
  BY <1>1, <1>3, TextKept DEF BackToTree, docVars, findVars
<1>4. CASE OpenHelp
  BY <1>1, <1>4, TextKept DEF OpenHelp, OnLog, docVars, findVars
<1>5. CASE CloseHelp
  BY <1>1, <1>5, TextKept DEF CloseHelp, docVars, findVars
<1>6. CASE GoBottom
  BY <1>1, <1>2, <1>6, TextKept DEF GoBottom, docVars, findVars
<1>7. CASE Erase
  <2>1. << >> \in Seq(Nat) /\ 0 \in 0..Len(<< >>)
    BY EmptySeq
  <2> QED BY <1>1, <1>7, <2>1, TextKept DEF Erase, docVars
<1>8. ASSUME NEW h \in Heights, ResizeHeight(h) PROVE LogViewInv'
  BY <1>1, <1>8, TextKept DEF ResizeHeight, docVars, findVars
<1>9. ASSUME NEW k \in {1, height}, Up(k) PROVE LogViewInv'
  <2>1. k \in Nat /\ y \in Nat /\ MaxLines \in Nat
    BY <1>1
  <2>2. y' \in 0..MaxLines + 2
    BY <1>1, <1>9, <2>1 DEF Up, Most
  <2> QED BY <1>1, <1>9, <2>2, TextKept DEF Up, docVars, findVars
<1>10. ASSUME NEW k \in {1, height}, Down(k) PROVE LogViewInv'
  <2>1. k \in Nat /\ y \in Nat /\ MaxLines \in Nat
    BY <1>1
  <2>2. y' \in 0..MaxLines + 2
    <3>1. y' = IF MaxY(shown, height) < y + k THEN MaxY(shown, height) ELSE y + k
      BY <1>10 DEF Down, Least
    <3> QED BY <1>2, <2>1, <3>1
  <2>3. autoScroll' \in BOOLEAN
    BY <1>1, <1>2, <1>10 DEF Down
  <2> QED BY <1>1, <1>10, <2>2, <2>3, TextKept DEF Down, docVars, findVars
<1> QED BY <1>3, <1>4, <1>5, <1>6, <1>7, <1>8, <1>9, <1>10

(* The steps that show a new text.                                           *)
LEMMA NewTextKept ==
  ASSUME LogViewInv, UNCHANGED <<docVars, onScreen, node, height>>, OnLog,
         seen' \in 0..MaxLines, seen' <= logLen[node], mode' \in Modes, active' \in BOOLEAN, marked' \in Texts,
         shown' = Content(node, mode', seen', active', marked'), y' \in 0..MaxLines + 2,
         autoScroll' \in BOOLEAN, query' \in BOOLEAN, matches' \in Seq(Nat), current' \in 0..Len(matches'),
         searching' \in BOOLEAN, searching' => ~active' /\ marked' = NoText,
         otherY' \in Nat \cup {Bottom}, searchY' \in Nat
  PROVE  LogViewInv'
<1>1. shown' \in Views
  BY LogViewTyped, ContentType
<1>2. LogViewTypeOK'
  BY <1>1 DEF LogViewInv, LogViewTypeOK, OnLog, docVars, Views
<1>3. Content(node, mode, seen, active, marked)' = Content(node, mode', seen', active', marked')
  BY DEF Content, docVars
<1>4. UpToDate' /\ NoOldMarks'
  BY <1>3 DEF UpToDate, NoOldMarks, docVars
<1>5. TextIsNodes'
  <2>1. LET t == IF active' /\ marked'.len > 0 THEN marked'
                                           ELSE [of |-> node, mode |-> mode', len |-> seen']
        IN  shown'.of = t.of /\ shown'.mode = t.mode /\ shown'.len = t.len
    BY ONLY shown' = Content(node, mode', seen', active', marked'), MadeFrom
  <2> QED BY <2>1 DEF TextIsNodes
<1> QED BY <1>1, <1>2, <1>4, <1>5 DEF LogViewInv

LEMMA KeysTyped ==
  ASSUME LogViewInv
  PROVE  /\ autoScroll \in BOOLEAN /\ query \in BOOLEAN /\ matches \in Seq(Nat) /\ current \in 0..Len(matches)
         /\ searching \in BOOLEAN /\ otherY \in Nat \cup {Bottom} /\ searchY \in Nat
         /\ onScreen \in {"tree", "log", "help"} /\ (onScreen # "tree" => node # NoNode)
         /\ OnLog => seen <= logLen[node] /\ logLen[node] \in 0..MaxLines /\ logLen[node] <= logLen[node]
         /\ Len(matches) \in Nat /\ current \in Nat /\ y \in Nat \cup {Bottom}
         /\ << >> \in Seq(Nat) /\ 0 \in 0..Len(<< >>)
<1>1. logLen \in [LogNodes -> 0..MaxLines] /\ MaxLines \in Nat /\ (OnLog => node \in LogNodes)
  BY LogViewTyped
<1>2. OnLog => logLen[node] \in 0..MaxLines /\ logLen[node] <= logLen[node]
  BY <1>1
<1>3. matches \in Seq(Nat) /\ current \in 0..Len(matches) /\ Len(matches) \in Nat
  BY LenProperties DEF LogViewInv, LogViewTypeOK
<1>4. << >> \in Seq(Nat) /\ 0 \in 0..Len(<< >>)
  BY EmptySeq
<1> QED BY <1>1, <1>2, <1>3, <1>4 DEF LogViewInv, LogViewTypeOK, UpToDate, OnLog

LEMMA ResizeWidthKept == ASSUME LogViewInv, ResizeWidth PROVE LogViewInv'
<1>1. /\ OnLog /\ shown' = Content(node, mode, seen, active, marked)
      /\ y' = (IF AtBottom THEN MaxY(shown', height) ELSE AfterSet(shown'))
      /\ UNCHANGED <<docVars, onScreen, node, seen, mode, height, otherY, searchY, autoScroll, findVars>>
  BY DEF ResizeWidth
<1>2. shown' \in Views
  BY <1>1, LogViewTyped, ContentType
<1>3. y' \in 0..MaxLines + 2
  BY <1>1, <1>2, LogViewTyped, Offsets
<1>4. searching => ~active /\ marked = NoText
  BY DEF LogViewInv, NoOldMarks
<1> QED BY <1>1, <1>3, <1>4, LogViewTyped, KeysTyped, NewTextKept DEF findVars

LEMMA ToggleKept == ASSUME LogViewInv, ToggleMode PROVE LogViewInv'
<1>1. /\ OnLog /\ ~searching /\ mode' = Other(mode) /\ otherY' = y /\ seen' = logLen[node]
      /\ shown' = Content(node, mode', logLen[node], active, marked)
      /\ y' = Clamp(otherY, shown', height)
      /\ UNCHANGED <<docVars, onScreen, node, height, searchY, autoScroll, findVars>>
  BY DEF ToggleMode, Viewing
<1>2. mode' \in Modes /\ seen' \in 0..MaxLines /\ seen' <= logLen[node]
  BY <1>1, KeysTyped DEF Other, Modes
<1>3. shown' \in Views
  BY <1>1, <1>2, LogViewTyped, ContentType
<1>4. y' \in 0..MaxLines + 2
  BY <1>1, <1>3, LogViewTyped, KeysTyped, Offsets
<1> QED BY <1>1, <1>2, <1>4, LogViewTyped, KeysTyped, NewTextKept DEF findVars

LEMMA SearchKept == ASSUME LogViewInv, Search PROVE LogViewInv'
<1>1. /\ OnLog /\ searching' = TRUE /\ query' = FALSE /\ matches' = << >> /\ current' = 0
      /\ active' = FALSE /\ marked' = NoText /\ searchY' = y
      /\ shown' = Content(node, mode, seen, FALSE, NoText) /\ y' = AfterSet(shown')
      /\ UNCHANGED <<docVars, onScreen, node, seen, mode, height, otherY, autoScroll>>
  BY DEF Search, Viewing
<1>2. shown' \in Views
  BY <1>1, LogViewTyped, ContentType
<1>3. y' \in 0..MaxLines + 2
  BY <1>1, <1>2, LogViewTyped, Offsets
<1> QED BY <1>1, <1>3, LogViewTyped, KeysTyped, NewTextKept

LEMMA LeaveSearchKept == ASSUME LogViewInv, LeaveSearch PROVE LogViewInv'
<1>1. /\ OnLog /\ searching' = FALSE /\ query' = FALSE /\ matches' = << >> /\ current' = 0
      /\ active' = FALSE /\ marked' = NoText /\ searchY' = 0
      /\ shown' = Content(node, mode, seen, FALSE, NoText) /\ y' = Clamp(searchY, shown', height)
      /\ UNCHANGED <<docVars, onScreen, node, seen, mode, height, otherY, autoScroll>>
  BY DEF LeaveSearch
<1>2. shown' \in Views
  BY <1>1, LogViewTyped, ContentType
<1>3. y' \in 0..MaxLines + 2
  BY <1>1, <1>2, LogViewTyped, KeysTyped, Offsets
<1> QED BY <1>1, <1>3, LogViewTyped, KeysTyped, NewTextKept

LEMMA ConfirmKept == ASSUME LogViewInv, ConfirmSearch PROVE LogViewInv'
<1>1. /\ OnLog /\ searching /\ searching' = FALSE /\ searchY' = 0
      /\ UNCHANGED <<docVars, onScreen, node, seen, mode, height, otherY, autoScroll, query, matches, current>>
  BY DEF ConfirmSearch
<1>2. CASE query /\ matches # << >>
  <2>1. /\ active' = TRUE /\ marked' = [of |-> node, mode |-> mode, len |-> seen]
        /\ shown' = Content(node, mode, seen, TRUE, marked') /\ y' = AfterSet(shown')
    BY <1>2 DEF ConfirmSearch
  <2>2. marked' \in Texts
    BY <2>1, LogViewTyped DEF Texts
  <2>3. shown' \in Views
    BY <2>1, <2>2, LogViewTyped, ContentType
  <2>4. y' \in 0..MaxLines + 2
    BY <2>1, <2>3, LogViewTyped, Offsets
  <2> QED BY <1>1, <2>1, <2>2, <2>4, LogViewTyped, KeysTyped, NewTextKept
<1>3. CASE ~(query /\ matches # << >>)
  <2>1. UNCHANGED <<active, marked, shown, y>>
    BY <1>3 DEF ConfirmSearch
  <2> QED BY <1>1, <2>1, LogViewTyped, KeysTyped, TextKept DEF OnLog
<1> QED BY <1>2, <1>3

(* Scrolling to a match.                                                     *)
LEMMA ScrollsTo ==
  ASSUME LogViewInv, NEW line \in Nat, ScrollTo(line)
  PROVE  y' \in 0..MaxLines + 2 /\ autoScroll' \in BOOLEAN
<1>1. height \in Nat
  BY LogViewTyped, LogViewAssumption
<1>2. Most(0, line - 1 - height \div 2) \in Nat
  BY <1>1 DEF Most
<1>3. y' = Clamp(Most(0, line - 1 - height \div 2), shown, height) /\ autoScroll' = FALSE
  BY DEF ScrollTo
<1> QED BY <1>2, <1>3, LogViewTyped, Offsets

LEMMA TypeKept == ASSUME LogViewInv, Type PROVE LogViewInv'
<1>1. /\ OnLog /\ searching /\ query' = TRUE /\ matches' = HitsIn(0, seen)
      /\ IF matches' = << >> THEN current' = 0 /\ UNCHANGED <<y, autoScroll>>
                             ELSE current' = 1 /\ ScrollTo(Head(matches'))
      /\ UNCHANGED <<docVars, onScreen, node, seen, mode, shown, height, otherY, searchY, searching, active, marked>>
  BY DEF Type
<1>2. matches' \in Seq(Nat)
  BY <1>1, LogViewTyped, HitsType
<1>3. /\ current' \in 0..Len(matches') /\ y' \in 0..MaxLines + 2 /\ autoScroll' \in BOOLEAN
  <2>1. CASE matches' = << >>
    BY <1>1, <2>1, LogViewTyped, KeysTyped
  <2>2. CASE matches' # << >>
    <3>1. Head(matches') \in Nat /\ Len(matches') \in Nat \ {0}
      BY <1>2, <2>2, HeadTailProperties, EmptySeq, LenProperties
    <3>2. ScrollTo(Head(matches')) /\ current' = 1
      BY <1>1, <2>2
    <3> QED BY <3>1, <3>2, ScrollsTo
  <2> QED BY <2>1, <2>2
<1> QED BY <1>1, <1>2, <1>3, LogViewTyped, KeysTyped, TextKept DEF OnLog

LEMMA MatchKept == ASSUME LogViewInv, NextMatch \/ PrevMatch PROVE LogViewInv'
<1>1. /\ OnLog /\ matches # << >> /\ ScrollTo(matches[current'])
      /\ \/ current' = (current % Len(matches)) + 1
         \/ current' = IF current <= 1 THEN Len(matches) ELSE current - 1
      /\ UNCHANGED <<docVars, onScreen, node, seen, mode, shown, height, otherY, searchY, searching, query,
                     matches, active, marked>>
  BY DEF NextMatch, PrevMatch, Viewing
<1>2. Len(matches) \in Nat \ {0} /\ current \in Nat /\ current <= Len(matches) /\ matches \in Seq(Nat)
  BY <1>1, KeysTyped, EmptySeq
<1>3. current' \in 1..Len(matches)
  BY <1>1, <1>2
<1>4. matches[current'] \in Nat
  BY <1>2, <1>3, ElementOfSeq
<1>5. y' \in 0..MaxLines + 2 /\ autoScroll' \in BOOLEAN
  BY <1>1, <1>4, ScrollsTo
<1>6. current' \in 0..Len(matches')
  BY <1>1, <1>2, <1>3
<1> QED BY <1>1, <1>5, <1>6, LogViewTyped, KeysTyped, TextKept DEF OnLog

LEMMA LogViewStep == ASSUME LogViewInv, [LogViewNext]_logViewVars PROVE LogViewInv'
<1>1. CASE UNCHANGED logViewVars
  <2>1. UNCHANGED <<docVars, onScreen, node, seen, mode, shown, y, height, otherY, searchY, autoScroll, findVars>>
    BY <1>1 DEF logViewVars
  <2> QED BY <2>1, LogViewTyped, KeysTyped, TextKept DEF findVars
<1>2. CASE LogViewNext
  BY <1>2, OutputKept, RunEndKept, OpenNodeKept, ScrollsKept, ResizeWidthKept, ToggleKept, SearchKept,
     TypeKept, ConfirmKept, LeaveSearchKept, MatchKept, Zenon DEF LogViewNext
<1> QED BY <1>1, <1>2

(* What moves when the log on screen grows.                                  *)
LEMMA GrowsBelow ==
  ASSUME LogViewInv, [LogViewNext]_logViewVars, OnLog, node # NoNode, logLen'[node] # logLen[node]
  PROVE  /\ ~AtBottom => y' = y
         /\ autoScroll /\ AtBottom => y' = MaxY(shown', height)
<1>1. PICK n \in LogNodes : Output(n)
  <2>1. docVars' # docVars => \E n \in LogNodes : Output(n) \/ RunEnd(n)
    BY DEF LogViewNext, logViewVars, OpenNode, BackToTree, OpenHelp, CloseHelp, ResizeWidth, ResizeHeight, Up, Down, GoBottom,
       ToggleMode, Search, Type, Erase, ConfirmSearch, LeaveSearch, NextMatch, PrevMatch
  <2>2. logLen' # logLen
    OBVIOUS
  <2> QED BY <2>1, <2>2 DEF docVars, RunEnd
<1>2. node = n /\ n \notin ended /\ logLen[n] < MaxLines /\ active' = active /\ height' = height
  BY <1>1, LogViewTyped DEF Output
<1>3. Updated(logLen[n] + 1, FALSE)
  BY <1>1, <1>2 DEF Output
<1> DEFINE len == logLen[n] + 1
           mk == IF active THEN [marked EXCEPT !.len = Most(@, len)] ELSE marked
           c == [Content(node, mode, len, active, mk) EXCEPT !.end = FALSE]
<1>4. y' = (IF autoScroll /\ AtBottom THEN MaxY(c, height) ELSE AfterSet(c)) /\ shown' = c
  BY <1>3 DEF Updated
<1>5. shown = Content(node, mode, seen, active, marked) /\ seen <= logLen[n] /\ logLen[n] \in Nat /\ seen \in Nat
  BY <1>2, LogViewTyped DEF LogViewInv, UpToDate
<1>6. c.len \in Nat /\ ~c.end /\ shown.len \in Nat /\ ~shown.end /\ shown.len <= c.len
  <2>1. marked \in Texts /\ marked.len \in Nat
    BY LogViewTyped DEF Texts
  <2>2. IF active THEN mk.len = Most(marked.len, len) ELSE mk.len = marked.len
    BY <2>1 DEF Texts
  <2>3. c.len = (IF active /\ mk.len > 0 THEN mk.len ELSE len) /\ ~c.end
    BY DEF Content
  <2>4. shown.len = (IF active /\ marked.len > 0 THEN marked.len ELSE seen) /\ ~shown.end
    BY <1>2, <1>5 DEF Content
  <2> HIDE DEF mk, c
  <2> QED BY <1>5, <2>1, <2>2, <2>3, <2>4 DEF Most
<1> HIDE DEF c, len, mk
<1>7. LineCount(c) \in Nat /\ LineCount(shown) \in Nat /\ LineCount(shown) <= LineCount(c)
  BY <1>6 DEF LineCount
<1>8. ASSUME ~AtBottom PROVE y' = y
  <2>1. y < MaxY(shown, height) /\ y \in Nat /\ height \in Nat \ {0}
    <3>1. y \in Nat /\ height \in Heights /\ height \in Nat \ {0} /\ MaxLines \in Nat
      BY LogViewTyped, LogViewAssumption
    <3>2. MaxY(shown, height) \in 0..MaxLines + 2
      BY <3>1, LogViewTyped, Offsets
    <3>3. ~(y >= MaxY(shown, height))
      BY <1>8 DEF AtBottom
    <3> QED BY <3>1, <3>2, <3>3
  <2>2. y <= LineCount(shown) - 1
    BY <1>7, <2>1 DEF MaxY, Most
  <2>3. ~(y > LineCount(c) - 1)
    BY <1>7, <2>1, <2>2
  <2> QED BY <1>4, <1>8, <2>3 DEF AfterSet
<1> QED BY <1>4, <1>8

(* The log on screen is the open node's, or the highlighted copy of a search *)
(* that is kept; no highlights of an earlier search are shown while the next *)
(* one is typed, the offsets stay inside the text, and new output neither    *)
(* moves who reads nor leaves behind who follows (UpdateContent), for every  *)
(* number of nodes, lines and matches and every height.                      *)
THEOREM LogViewIsSound == LogViewSpec => [](LogViewTypeOK /\ NoOldMarks /\ TextIsNodes) /\ ScrollHeld /\ TailFollowed
<1>1. LogViewSpec => []LogViewInv
  BY LogViewBegins, LogViewStep, PTL DEF LogViewSpec
<1>2. LogViewInv => LogViewTypeOK /\ NoOldMarks /\ TextIsNodes
  BY DEF LogViewInv
<1>3. LogViewInv /\ [LogViewNext]_logViewVars
        => [OnLog /\ node # NoNode /\ logLen'[node] # logLen[node] /\ ~AtBottom => y' = y]_logViewVars
  BY GrowsBelow
<1>4. LogViewInv /\ [LogViewNext]_logViewVars
        => [OnLog /\ node # NoNode /\ logLen'[node] # logLen[node] /\ autoScroll /\ AtBottom
             => y' = MaxY(shown', height)]_logViewVars
  BY GrowsBelow
<1>5. LogViewSpec => ScrollHeld /\ TailFollowed
  BY <1>1, <1>3, <1>4, PTL DEF LogViewSpec, ScrollHeld, TailFollowed
<1> QED BY <1>1, <1>2, <1>5, PTL

-----------------------------------------------------------------------------
(* The tree under the list.  A depth that grows from a node to its children  *)
(* lets what is defined from the children up be built one level at a time.   *)
Nodes0 == Cardinality(ViewNodes)
Deep(d) == /\ d \in [ViewNodes -> 0..Nodes0]
           /\ \A n \in DOMAIN Under : d[n] > d[Under[n]]
(* The nodes of the h lowest levels.                                         *)
Low(d, h) == {n \in ViewNodes : Nodes0 - d[n] < h}

LEMMA DeepExists == Nodes0 \in Nat /\ \E d : Deep(d)
<1>1. Nodes0 \in Nat
  BY TreeViewAssumption, FS_CardinalityType DEF Nodes0
<1> QED BY <1>1, TreeViewAssumption DEF Deep, Nodes0

LEMMA LowFacts ==
  ASSUME NEW d, Deep(d)
  PROVE  /\ Low(d, 0) = {} /\ Low(d, Nodes0 + 1) = ViewNodes
         /\ \A h \in Nat : Low(d, h) \subseteq Low(d, h + 1)
         /\ \A h \in Nat : \A m \in Low(d, h + 1) : KidsOf(m) \subseteq Low(d, h)
<1>1. Nodes0 \in Nat /\ \A n \in ViewNodes : d[n] \in Nat /\ d[n] <= Nodes0
  BY DeepExists DEF Deep
<1>2. \A n \in DOMAIN Under : n \in ViewNodes /\ Under[n] \in ViewNodes /\ d[n] > d[Under[n]]
  BY TreeViewAssumption DEF Deep
<1> HIDE DEF Nodes0
<1>3. Low(d, 0) = {} /\ Low(d, Nodes0 + 1) = ViewNodes
  BY <1>1 DEF Low
<1>4. \A h \in Nat : Low(d, h) \subseteq Low(d, h + 1)
  BY <1>1 DEF Low
<1>5. ASSUME NEW h \in Nat, NEW m \in Low(d, h + 1), NEW k \in KidsOf(m) PROVE k \in Low(d, h)
  <2>1. k \in DOMAIN Under /\ Under[k] = m /\ k \in ViewNodes /\ m \in ViewNodes /\ d[k] > d[m]
    BY <1>2 DEF KidsOf, Low
  <2>2. Nodes0 - d[m] < h + 1
    BY DEF Low
  <2>3. Nodes0 - d[k] < h
    BY <1>1, <2>1, <2>2
  <2> QED BY <2>1, <2>3 DEF Low
<1> QED BY <1>3, <1>4, <1>5

(* BranchOf as the code's recursion over the children.                       *)
BranchLoop(f, S) == f = [m \in S |-> {m} \cup UNION {f[k] : k \in KidsOf(m)}]

LEMMA BranchExists == \E f : BranchLoop(f, ViewNodes)
<1>1. PICK d : Deep(d)
  BY DeepExists
<1> DEFINE P == {h \in Nat : \E f : BranchLoop(f, Low(d, h))}
<1>2. 0 \in P
  <2>1. Low(d, 0) = {}
    BY <1>1, LowFacts
  <2>2. BranchLoop([m \in {} |-> {}], {})
    BY DEF BranchLoop
  <2> QED BY <2>1, <2>2
<1>3. ASSUME NEW h \in Nat, h \in P PROVE h + 1 \in P
  <2>1. PICK f : BranchLoop(f, Low(d, h))
    BY <1>3
  <2> DEFINE g == [m \in Low(d, h + 1) |-> IF m \in Low(d, h) THEN f[m] ELSE {m} \cup UNION {f[k] : k \in KidsOf(m)}]
  <2>2. /\ \A m \in Low(d, h + 1) : KidsOf(m) \subseteq Low(d, h)
        /\ Low(d, h) \subseteq Low(d, h + 1)
    BY <1>1, LowFacts
  <2>3. \A m \in Low(d, h) : f[m] = {m} \cup UNION {f[k] : k \in KidsOf(m)}
    BY <2>1 DEF BranchLoop
  <2>4. \A m \in Low(d, h + 1) : g[m] = {m} \cup UNION {f[k] : k \in KidsOf(m)}
    BY <2>3
  <2>5. \A m \in Low(d, h) : g[m] = f[m]
    BY <2>2
  <2>6. g = [m \in Low(d, h + 1) |-> g[m]]
    OBVIOUS
  <2> HIDE DEF g
  <2>7. ASSUME NEW m \in Low(d, h + 1) PROVE g[m] = {m} \cup UNION {g[k] : k \in KidsOf(m)}
    <3>1. \A k \in KidsOf(m) : g[k] = f[k]
      BY <2>2, <2>5
    <3>2. {g[k] : k \in KidsOf(m)} = {f[k] : k \in KidsOf(m)}
      BY <3>1
    <3> QED BY <2>4, <3>2
  <2>8. BranchLoop(g, Low(d, h + 1))
    BY <2>6, <2>7 DEF BranchLoop
  <2> QED BY <2>8
<1>4. Nat \subseteq P
  <2> HIDE DEF P
  <2> QED BY <1>2, <1>3, NatInductionSet
<1>5. Nodes0 + 1 \in P
  BY <1>4, DeepExists
<1> QED BY <1>1, <1>5, LowFacts

LEMMA BranchRule ==
  ASSUME NEW n \in ViewNodes
  PROVE  BranchOf(n) = {n} \cup UNION {BranchOf(k) : k \in KidsOf(n)}
<1> DEFINE w == CHOOSE f : BranchLoop(f, ViewNodes)
<1>1. BranchLoop(w, ViewNodes)
  BY BranchExists
<1>2. \A m : BranchOf(m) = w[m]
  BY DEF BranchOf, BranchLoop
<1> HIDE DEF w
<1>3. w[n] = {n} \cup UNION {w[k] : k \in KidsOf(n)}
  BY <1>1 DEF BranchLoop
<1>4. {w[k] : k \in KidsOf(n)} = {BranchOf(k) : k \in KidsOf(n)}
  BY <1>2
<1> QED BY <1>2, <1>3, <1>4

(* What is below a node is of the tree, deeper, and below the node with its  *)
(* parent.                                                                   *)
LEMMA BranchBelow ==
  ASSUME NEW d, Deep(d), NEW n \in ViewNodes
  PROVE  /\ BranchOf(n) \subseteq ViewNodes /\ n \in BranchOf(n)
         /\ \A x \in BranchOf(n) \ {n} : x \in DOMAIN Under /\ Under[x] \in BranchOf(n) /\ d[x] > d[n]
<1> DEFINE Good(m) == /\ BranchOf(m) \subseteq ViewNodes /\ m \in BranchOf(m)
                      /\ \A x \in BranchOf(m) \ {m} : x \in DOMAIN Under /\ Under[x] \in BranchOf(m) /\ d[x] > d[m]
           P == {h \in Nat : \A m \in Low(d, h) : Good(m)}
<1>1. 0 \in P
  BY LowFacts
<1>2. ASSUME NEW h \in Nat, h \in P, NEW m \in Low(d, h + 1) PROVE Good(m)
  <2>1. m \in ViewNodes /\ KidsOf(m) \subseteq Low(d, h)
    BY LowFacts DEF Low
  <2>2. BranchOf(m) = {m} \cup UNION {BranchOf(k) : k \in KidsOf(m)}
    BY <2>1, BranchRule
  <2>3. \A k \in KidsOf(m) : Good(k)
    BY <1>2, <2>1
  <2>4. \A k \in KidsOf(m) : k \in DOMAIN Under /\ Under[k] = m /\ d[k] > d[m] /\ d[k] \in Nat /\ d[m] \in Nat
    <3>1. ASSUME NEW k \in KidsOf(m) PROVE k \in DOMAIN Under /\ Under[k] = m /\ k \in ViewNodes
      BY TreeViewAssumption DEF KidsOf
    <3> QED BY <2>1, <3>1, DeepExists DEF Deep
  <2>5. \A x \in ViewNodes : d[x] \in Nat
    BY DeepExists DEF Deep
  <2>6. ASSUME NEW x \in BranchOf(m) \ {m}
        PROVE  x \in ViewNodes /\ x \in DOMAIN Under /\ Under[x] \in BranchOf(m) /\ d[x] > d[m]
    <3>1. PICK k \in KidsOf(m) : x \in BranchOf(k)
      BY <2>2
    <3>2. BranchOf(k) \subseteq BranchOf(m)
      BY <2>2
    <3>3. BranchOf(k) \subseteq ViewNodes /\ k \in BranchOf(k)
      BY <2>3
    <3>4. CASE x = k
      BY <2>2, <2>4, <3>3, <3>4
    <3>5. CASE x # k
      <4>1. x \in DOMAIN Under /\ Under[x] \in BranchOf(k) /\ d[x] > d[k] /\ x \in ViewNodes
        BY <2>3, <3>1, <3>3, <3>5
      <4>2. d[x] > d[m]
        <5>1. d[x] \in Nat /\ d[k] \in Nat /\ d[m] \in Nat /\ d[k] > d[m]
          BY <2>4, <2>5, <4>1
        <5> QED BY <4>1, <5>1
      <4> QED BY <3>2, <4>1, <4>2
    <3> QED BY <3>4, <3>5
  <2>7. m \in BranchOf(m)
    BY <2>2
  <2> QED BY <2>1, <2>6, <2>7
<1>3. Nat \subseteq P
  <2>1. \A h \in Nat : h \in P => h + 1 \in P
    BY <1>2
  <2> HIDE DEF P
  <2> QED BY <1>1, <2>1, NatInductionSet
<1>4. Nodes0 + 1 \in P
  BY <1>3, DeepExists
<1>5. n \in Low(d, Nodes0 + 1)
  BY LowFacts
<1>6. Good(n)
  BY <1>4, <1>5
<1> QED BY <1>6

(* The children of a node, or the packages.                                  *)
Siblings(S) == S = Roots \/ \E n \in ViewNodes : S = KidsOf(n)

LEMMA BranchesApart ==
  ASSUME NEW S, Siblings(S), NEW a \in S, NEW b \in S, a # b
  PROVE  BranchOf(a) \cap BranchOf(b) = {}
<1>1. PICK d : Deep(d)
  BY DeepExists
<1>2. a \in ViewNodes /\ b \in ViewNodes
  BY TreeViewAssumption DEF Siblings, Roots, KidsOf
<1>3. \A x \in ViewNodes : d[x] \in Nat
  BY <1>1, DeepExists DEF Deep
<1>4. /\ BranchOf(a) \subseteq ViewNodes
      /\ \A x \in BranchOf(a) \ {a} : x \in DOMAIN Under /\ Under[x] \in BranchOf(a) /\ d[x] > d[a]
  BY <1>1, <1>2, BranchBelow
<1>5. /\ BranchOf(b) \subseteq ViewNodes
      /\ \A x \in BranchOf(b) \ {b} : x \in DOMAIN Under /\ Under[x] \in BranchOf(b) /\ d[x] > d[b]
  BY <1>1, <1>2, BranchBelow
<1>6. \A x \in DOMAIN Under : x \in ViewNodes /\ Under[x] \in ViewNodes /\ d[x] > d[Under[x]]
  BY <1>1, TreeViewAssumption DEF Deep
<1>7. a \notin BranchOf(b) /\ b \notin BranchOf(a)
  <2>1. CASE S = Roots
    BY <1>4, <1>5, <2>1 DEF Roots
  <2>2. ASSUME NEW n \in ViewNodes, S = KidsOf(n) PROVE a \notin BranchOf(b) /\ b \notin BranchOf(a)
    <3>1. a \in DOMAIN Under /\ b \in DOMAIN Under /\ Under[a] = n /\ Under[b] = n
      BY <2>2 DEF KidsOf
    <3>2. d[a] > d[n] /\ d[b] > d[n] /\ d[a] \in Nat /\ d[b] \in Nat /\ d[n] \in Nat
      BY <1>2, <1>3, <1>6, <2>2, <3>1
    <3>3. n \notin BranchOf(a) /\ n \notin BranchOf(b)
      <4>1. n \in BranchOf(a) => n = a \/ d[n] > d[a]
        BY <1>4
      <4>2. n \in BranchOf(b) => n = b \/ d[n] > d[b]
        BY <1>5
      <4> QED BY <3>2, <4>1, <4>2
    <3> QED BY <1>4, <1>5, <3>1, <3>3
  <2> QED BY <2>1, <2>2 DEF Siblings
<1> SUFFICES ASSUME BranchOf(a) \cap BranchOf(b) # {} PROVE FALSE
  OBVIOUS
<1> DEFINE B == BranchOf(a) \cap BranchOf(b)
           T == {d[x] : x \in B}
<1>8. B # {} /\ B \subseteq ViewNodes
  BY <1>4
<1>9. T \subseteq Nat /\ T # {}
  BY <1>3, <1>8
<1>10. PICK t \in T : \A u \in T : t <= u
  <2> HIDE DEF T
  <2> QED BY <1>9, NatSetMin
<1>11. PICK x \in B : d[x] = t
  BY <1>10
<1>12. x # a /\ x # b
  BY <1>7, <1>11
<1>13. x \in DOMAIN Under /\ Under[x] \in B /\ d[x] > d[Under[x]]
  BY <1>4, <1>5, <1>6, <1>11, <1>12
<1>14. t <= d[Under[x]]
  BY <1>10, <1>13
<1> QED BY <1>3, <1>8, <1>11, <1>13, <1>14

-----------------------------------------------------------------------------
(* A strict order of a finite set that compares any two gives each place one *)
(* element: how many come before it.                                         *)
LEMMA PlacesTaken ==
  ASSUME NEW T, IsFiniteSet(T), NEW R,
         \A a \in T : <<a, a>> \notin R,
         \A a, b \in T : a # b => <<a, b>> \in R \/ <<b, a>> \in R,
         \A a, b, c \in T : <<a, b>> \in R /\ <<b, c>> \in R => <<a, c>> \in R
  PROVE  \A i \in 1..Cardinality(T) : \E n \in T : Cardinality({m \in T : <<m, n>> \in R}) = i - 1
<1> DEFINE B(n) == {m \in T : <<m, n>> \in R}
           N == Cardinality(T)
           g == [n \in T |-> Cardinality(B(n)) + 1]
<1>1. N \in Nat
  BY FS_CardinalityType
<1>2. ASSUME NEW n \in T PROVE IsFiniteSet(B(n)) /\ Cardinality(B(n)) \in Nat /\ Cardinality(B(n)) < N
  <2>1. B(n) \in SUBSET T /\ n \notin B(n)
    OBVIOUS
  <2> HIDE DEF B
  <2>2. IsFiniteSet(B(n)) /\ Cardinality(B(n)) <= N /\ (N = Cardinality(B(n)) => T = B(n))
    BY <2>1, FS_Subset
  <2>3. Cardinality(B(n)) \in Nat
    BY <2>2, FS_CardinalityType
  <2> QED BY <1>1, <2>1, <2>2, <2>3
<1>3. ASSUME NEW a \in T, NEW b \in T, <<a, b>> \in R PROVE Cardinality(B(a)) < Cardinality(B(b))
  <2>1. B(a) \in SUBSET B(b) /\ a \in B(b) /\ a \notin B(a)
    BY <1>3
  <2> HIDE DEF B
  <2>2. Cardinality(B(a)) <= Cardinality(B(b)) /\ (Cardinality(B(b)) = Cardinality(B(a)) => B(b) = B(a))
    BY <1>2, <2>1, FS_Subset
  <2> QED BY <1>2, <2>1, <2>2
<1>4. g \in Injection(T, 1..N)
  <2>1. ASSUME NEW n \in T PROVE g[n] \in 1..N /\ g[n] = Cardinality(B(n)) + 1 /\ Cardinality(B(n)) \in Nat
    <3>1. g[n] = Cardinality(B(n)) + 1
      OBVIOUS
    <3> HIDE DEF g, N, B
    <3> QED BY <1>1, <1>2, <3>1
  <2>2. ASSUME NEW a \in T, NEW b \in T, a # b PROVE g[a] # g[b]
    <3>1. <<a, b>> \in R \/ <<b, a>> \in R
      BY <2>2
    <3>2. Cardinality(B(a)) # Cardinality(B(b))
      <4>1. Cardinality(B(a)) \in Nat /\ Cardinality(B(b)) \in Nat
        BY <2>1
      <4>2. CASE <<a, b>> \in R
        <5>1. Cardinality(B(a)) < Cardinality(B(b))
          BY <1>3, <4>2
        <5> HIDE DEF B
        <5> QED BY <4>1, <5>1
      <4>3. CASE <<b, a>> \in R
        <5>1. Cardinality(B(b)) < Cardinality(B(a))
          BY <1>3, <4>3
        <5> HIDE DEF B
        <5> QED BY <4>1, <5>1
      <4> QED BY <3>1, <4>2, <4>3
    <3> HIDE DEF g, B
    <3> QED BY <2>1, <3>2
  <2>3. g \in [T -> 1..N]
    <3>1. g = [n \in T |-> g[n]]
      OBVIOUS
    <3> HIDE DEF g
    <3> QED BY <2>1, <3>1
  <2> HIDE DEF g, N
  <2> QED BY <2>2, <2>3 DEF Injection, IsInjective
<1>5. IsFiniteSet(1..N) /\ Cardinality(1..N) = N
  BY <1>1, FS_Interval
<1>6. g \in Surjection(T, 1..N)
  <2> HIDE DEF g
  <2> QED BY <1>4, <1>5, FS_Injection DEF N
<1>7. ASSUME NEW i \in 1..N PROVE \E n \in T : Cardinality(B(n)) = i - 1
  <2>1. PICK n \in T : g[n] = i
    <3> HIDE DEF g
    <3> QED BY <1>6 DEF Surjection
  <2>2. Cardinality(B(n)) + 1 = i /\ Cardinality(B(n)) \in Nat
    BY <1>2, <2>1
  <2> HIDE DEF B
  <2> QED BY <2>2
<1> QED BY <1>7

LEMMA BranchFinite ==
  ASSUME NEW n \in ViewNodes
  PROVE  IsFiniteSet(BranchOf(n)) /\ BranchOf(n) \subseteq ViewNodes /\ n \in BranchOf(n)
<1>1. BranchOf(n) \in SUBSET ViewNodes /\ n \in BranchOf(n)
  BY DeepExists, BranchBelow
<1> QED BY <1>1, TreeViewAssumption, FS_Subset

Orders == {"name", "done", "focus"}

(* Siblings have different names: each of the code's comparisons orders them.*)
LEMMA SiblingsOrdered ==
  ASSUME NEW S, Siblings(S), NEW T \in SUBSET S, NEW order \in Orders, NEW st
  PROVE  /\ \A a \in T : ~Before(order, st, a, a)
         /\ \A a, b \in T : a # b => Before(order, st, a, b) \/ Before(order, st, b, a)
         /\ \A a, b, c \in T : Before(order, st, a, b) /\ Before(order, st, b, c) => Before(order, st, a, c)
<1>1. \A a, b \in T : NameRank[a] = NameRank[b] => a = b
  <2>1. S \in {Roots} \cup {KidsOf(n) : n \in ViewNodes}
    BY DEF Siblings
  <2> QED BY <2>1, TreeViewAssumption
<1>2. \A a \in T : a \in ViewNodes /\ NameRank[a] \in Int
  BY TreeViewAssumption DEF Siblings, Roots, KidsOf
<1>3. ASSUME NEW a \in T PROVE Ended(st, a) \in Nat
  <2>1. IsFiniteSet({m \in BranchOf(a) : st[m] \in {"pass", "fail"}})
    <3>1. IsFiniteSet(BranchOf(a)) /\ {m \in BranchOf(a) : st[m] \in {"pass", "fail"}} \in SUBSET BranchOf(a)
      BY <1>2, BranchFinite
    <3> QED BY <3>1, FS_Subset
  <2> QED BY <2>1, FS_CardinalityType DEF Ended
<1>4. CASE order = "name"
  BY <1>1, <1>2, <1>4 DEF Before, ByName
<1>5. CASE order = "done"
  BY <1>1, <1>2, <1>3, <1>5 DEF Before, ByName, ByDone
<1>6. CASE order = "focus"
  <2>1. \A a, b \in T : Before(order, st, a, b) <=> ByFocus(st, a, b)
    BY <1>6 DEF Before
  <2>2. ASSUME NEW a \in T, NEW b \in T
        PROVE  ByFocus(st, a, b) <=> ((HasFailure(st, a) /\ ~HasFailure(st, b))
                                       \/ ((HasFailure(st, a) <=> HasFailure(st, b)) /\ NameRank[a] < NameRank[b]))
    BY DEF ByFocus, ByName
  <2>3. \A a, b \in T : a # b => NameRank[a] < NameRank[b] \/ NameRank[b] < NameRank[a]
    BY <1>1, <1>2
  <2>4. \A a, b, c \in T : NameRank[a] < NameRank[b] /\ NameRank[b] < NameRank[c] => NameRank[a] < NameRank[c]
    BY <1>2
  <2>5. \A a \in T : ~(NameRank[a] < NameRank[a])
    BY <1>2
  <2>6. \A a \in T : ~Before(order, st, a, a)
    BY <2>1, <2>2, <2>5
  <2>7. \A a, b \in T : a # b => Before(order, st, a, b) \/ Before(order, st, b, a)
    BY <2>1, <2>2, <2>3
  <2>8. ASSUME NEW a \in T, NEW b \in T, NEW c \in T, Before(order, st, a, b), Before(order, st, b, c)
        PROVE  Before(order, st, a, c)
    <3>1. ByFocus(st, a, b) /\ ByFocus(st, b, c)
      BY <2>1, <2>8
    <3>2. ByFocus(st, a, c)
      BY <2>2, <2>4, <3>1
    <3> QED BY <2>1, <3>2
  <2> QED BY <2>6, <2>7, <2>8
<1> QED BY <1>4, <1>5, <1>6 DEF Orders

(* So a list of siblings has each of them once.                              *)
LEMMA SortedFacts ==
  ASSUME NEW S, Siblings(S), NEW st, NEW listed, NEW order \in Orders
  PROVE  /\ Sorted(st, listed, order, S) \in Seq(S)
         /\ \A i, j \in DOMAIN Sorted(st, listed, order, S) :
              Sorted(st, listed, order, S)[i] = Sorted(st, listed, order, S)[j] => i = j
<1> DEFINE T == {k \in S : st[k] # "none" /\ k \in listed}
           N == Cardinality(T)
           R == {e \in T \X T : Before(order, st, e[1], e[2])}
           s == Sorted(st, listed, order, S)
           place(i) == CHOOSE n \in T : Cardinality({m \in T : Before(order, st, m, n)}) = i - 1
<1>1. T \in SUBSET S /\ IsFiniteSet(T) /\ N \in Nat
  <2>1. S \subseteq ViewNodes
    BY TreeViewAssumption DEF Siblings, Roots, KidsOf
  <2>2. T \in SUBSET ViewNodes
    BY <2>1
  <2>3. IsFiniteSet(T)
    BY <2>2, TreeViewAssumption, FS_Subset
  <2> QED BY <2>3, FS_CardinalityType
<1>2. s = [i \in 1..N |-> place(i)]
  BY DEF Sorted
<1> HIDE DEF T, N, s
<1>3. \A a, b \in T : <<a, b>> \in R <=> Before(order, st, a, b)
  OBVIOUS
<1>4. \A i \in 1..N : \E n \in T : Cardinality({m \in T : <<m, n>> \in R}) = i - 1
  <2>1. /\ \A a \in T : ~Before(order, st, a, a)
        /\ \A a, b \in T : a # b => Before(order, st, a, b) \/ Before(order, st, b, a)
        /\ \A a, b, c \in T : Before(order, st, a, b) /\ Before(order, st, b, c) => Before(order, st, a, c)
    BY <1>1, SiblingsOrdered
  <2>2. /\ \A a \in T : <<a, a>> \notin R
        /\ \A a, b \in T : a # b => <<a, b>> \in R \/ <<b, a>> \in R
        /\ \A a, b, c \in T : <<a, b>> \in R /\ <<b, c>> \in R => <<a, c>> \in R
    BY <1>3, <2>1
  <2> HIDE DEF R
  <2> QED BY <1>1, <2>2, PlacesTaken DEF N
<1>5. \A n \in T : {m \in T : <<m, n>> \in R} = {m \in T : Before(order, st, m, n)}
  BY <1>3
<1>6. ASSUME NEW i \in 1..N PROVE s[i] \in T /\ Cardinality({m \in T : Before(order, st, m, s[i])}) = i - 1
  <2>1. \E n \in T : Cardinality({m \in T : Before(order, st, m, n)}) = i - 1
    BY <1>4, <1>5
  <2>2. s[i] = CHOOSE n \in T : Cardinality({m \in T : Before(order, st, m, n)}) = i - 1
    <3> HIDE DEF place
    <3>1. s[i] = place(i)
      BY <1>2
    <3> QED BY <3>1 DEF place
  <2> QED BY <2>1, <2>2
<1>7. DOMAIN s = 1..N /\ s \in [1..N -> S]
  <2> HIDE DEF place
  <2>1. \A i \in 1..N : s[i] \in S
    BY <1>1, <1>6
  <2>2. DOMAIN s = 1..N
    BY <1>2
  <2>3. s = [i \in DOMAIN s |-> s[i]]
    BY <1>2
  <2> QED BY <2>1, <2>2, <2>3
<1>8. s \in Seq(S)
  BY <1>1, <1>7, FunctionIsSeq
<1>9. ASSUME NEW i \in 1..N, NEW j \in 1..N, s[i] = s[j] PROVE i = j
  <2>1. i - 1 = j - 1
    BY <1>6, <1>9
  <2> QED BY <1>1, <2>1
<1> QED BY <1>7, <1>8, <1>9 DEF s

-----------------------------------------------------------------------------
(* The rows of a node and of a row of siblings, from the children up.        *)
RowsOf(f, S, st, listed, order) == FlattenSeq(Mapped(Sorted(st, listed, order, S), f))
Grown(f, n, st, listed, opened, order) ==
  <<n>> \o (IF n \in opened THEN RowsOf(f, KidsOf(n), st, listed, order) ELSE << >>)
FlatLoop(f, S, st, listed, opened, order) == f = [n \in S |-> Grown(f, n, st, listed, opened, order)]

LEMMA GrownAgree ==
  ASSUME NEW n \in ViewNodes, NEW st, NEW listed, NEW opened, NEW order \in Orders, NEW f, NEW g,
         \A k \in KidsOf(n) : f[k] = g[k]
  PROVE  Grown(f, n, st, listed, opened, order) = Grown(g, n, st, listed, opened, order)
<1> DEFINE ks == Sorted(st, listed, order, KidsOf(n))
<1>1. ks \in Seq(KidsOf(n))
  BY SortedFacts DEF Siblings
<1> HIDE DEF ks
<1>2. \A i \in DOMAIN ks : f[ks[i]] = g[ks[i]]
  BY <1>1, ElementOfSeq, LenProperties
<1>3. Mapped(ks, f) = Mapped(ks, g)
  BY <1>2 DEF Mapped
<1> QED BY <1>3 DEF Grown, RowsOf, ks

LEMMA FlatExists ==
  ASSUME NEW st, NEW listed, NEW opened, NEW order \in Orders
  PROVE  \E f : FlatLoop(f, ViewNodes, st, listed, opened, order)
<1>1. PICK d : Deep(d)
  BY DeepExists
<1> DEFINE G(f, m) == Grown(f, m, st, listed, opened, order)
           P == {h \in Nat : \E f : f = [n \in Low(d, h) |-> G(f, n)]}
<1>0. ASSUME NEW n \in ViewNodes, NEW f, NEW g, \A k \in KidsOf(n) : f[k] = g[k] PROVE G(f, n) = G(g, n)
  BY <1>0, GrownAgree
<1> HIDE DEF G
<1>2. 0 \in P
  <2>1. Low(d, 0) = {}
    BY <1>1, LowFacts
  <2> DEFINE e == [n \in {} |-> {}]
  <2>2. e = [n \in {} |-> G(e, n)]
    OBVIOUS
  <2> QED BY <2>1, <2>2
<1>3. ASSUME NEW h \in Nat, h \in P PROVE h + 1 \in P
  <2>1. PICK f : f = [n \in Low(d, h) |-> G(f, n)]
    BY <1>3
  <2> DEFINE g == [m \in Low(d, h + 1) |-> IF m \in Low(d, h) THEN f[m] ELSE G(f, m)]
  <2>2. /\ \A m \in Low(d, h + 1) : KidsOf(m) \subseteq Low(d, h) /\ m \in ViewNodes
        /\ Low(d, h) \subseteq Low(d, h + 1)
    <3>1. \A m \in Low(d, h + 1) : m \in ViewNodes
      BY DEF Low
    <3> QED BY <1>1, <3>1, LowFacts
  <2>3. \A m \in Low(d, h) : f[m] = G(f, m)
    BY <2>1
  <2>4. \A m \in Low(d, h + 1) : g[m] = G(f, m)
    BY <2>3
  <2>5. \A m \in Low(d, h) : g[m] = f[m]
    BY <2>2
  <2>6. g = [m \in Low(d, h + 1) |-> g[m]]
    OBVIOUS
  <2> HIDE DEF g
  <2>7. ASSUME NEW m \in Low(d, h + 1) PROVE g[m] = G(g, m)
    <3>1. \A k \in KidsOf(m) : f[k] = g[k]
      BY <2>2, <2>5
    <3>2. G(f, m) = G(g, m)
      BY <1>0, <2>2, <3>1
    <3> QED BY <2>4, <3>2
  <2>8. g = [m \in Low(d, h + 1) |-> G(g, m)]
    BY <2>6, <2>7
  <2> QED BY <2>8
<1>4. Nat \subseteq P
  <2> HIDE DEF P
  <2> QED BY <1>2, <1>3, NatInductionSet
<1>5. Nodes0 + 1 \in P
  BY <1>4, DeepExists
<1>6. \E f : f = [n \in ViewNodes |-> G(f, n)]
  BY <1>1, <1>5, LowFacts
<1> QED BY <1>6 DEF FlatLoop, G

LEMMA FlattenRule ==
  ASSUME NEW st, NEW listed, NEW opened, NEW order \in Orders
  PROVE  \E f : /\ \A n \in ViewNodes : f[n] = Grown(f, n, st, listed, opened, order)
                /\ Flatten(st, listed, opened, order) = RowsOf(f, Roots, st, listed, order)
<1> DEFINE w == CHOOSE f : FlatLoop(f, ViewNodes, st, listed, opened, order)
<1>1. FlatLoop(w, ViewNodes, st, listed, opened, order)
  BY FlatExists
<1>2. Flatten(st, listed, opened, order) = RowsOf(w, Roots, st, listed, order)
  BY DEF Flatten, FlatLoop, Grown, RowsOf, Mapped
<1> HIDE DEF w
<1>3. \A n \in ViewNodes : w[n] = Grown(w, n, st, listed, opened, order)
  BY <1>1 DEF FlatLoop
<1> QED BY <1>2, <1>3

(* The rows of a node are a tree read from the top.                          *)
RowTree(s, n) ==
  /\ s \in Seq(ViewNodes) /\ Len(s) >= 1 /\ s[1] = n /\ Distinct(s)
  /\ \A i \in 1..Len(s) : s[i] \in BranchOf(n)
  /\ \A i \in 2..Len(s) : s[i] \in DOMAIN Under /\ \E j \in 1..i - 1 : s[j] = Under[s[i]]

(* The rows of siblings, each with what is below it: no row but theirs is    *)
(* without its parent's above it, with no package's between.                 *)
Lined(r, S) ==
  \A i \in 1..Len(r) : \/ r[i] \in S
                       \/ /\ r[i] \in DOMAIN Under
                          /\ \E j \in 1..i - 1 : r[j] = Under[r[i]] /\ \A k \in j + 1..i : r[k] \in DOMAIN Under
ForestOK(r, ks, S) ==
  /\ r \in Seq(ViewNodes) /\ Distinct(r)
  /\ \A i \in 1..Len(r) : \E k \in 1..Len(ks) : r[i] \in BranchOf(ks[k])
  /\ Lined(r, S)

(* One more sibling with its rows below those of the others.                 *)
LEMMA ForestGrows ==
  ASSUME NEW S, Siblings(S), NEW ks \in Seq(S), NEW a \in S, ~Occurs(ks, a), NEW r, ForestOK(r, ks, S),
         NEW s, RowTree(s, a)
  PROVE  ForestOK(r \o s, Append(ks, a), S)
<1> DEFINE t == r \o s
           ls == Append(ks, a)
           n == Len(r)
           m == Len(s)
           q == Len(ks)
<1>1. /\ r \in Seq(ViewNodes) /\ s \in Seq(ViewNodes) /\ n \in Nat /\ m \in Nat /\ m >= 1 /\ q \in Nat
  BY LenProperties DEF ForestOK, RowTree
<1>2. /\ t \in Seq(ViewNodes) /\ Len(t) = n + m
      /\ \A i \in 1..n : t[i] = r[i]
      /\ \A i \in n + 1..n + m : t[i] = s[i - n]
  <2>1. t \in Seq(ViewNodes) /\ Len(t) = n + m /\ \A i \in 1..n + m : t[i] = IF i <= n THEN r[i] ELSE s[i - n]
    BY <1>1, ConcatProperties
  <2> HIDE DEF t, n, m
  <2>2. ASSUME NEW i \in 1..n PROVE t[i] = r[i]
    <3>1. i \in 1..n + m /\ i <= n
      BY <1>1
    <3> QED BY <2>1, <3>1
  <2>3. ASSUME NEW i \in n + 1..n + m PROVE t[i] = s[i - n]
    <3>1. i \in 1..n + m /\ ~(i <= n)
      BY <1>1
    <3> QED BY <2>1, <3>1
  <2> QED BY <2>1, <2>2, <2>3
<1>3. Len(ls) = q + 1 /\ ls[q + 1] = a /\ \A i \in 1..q : ls[i] = ks[i]
  BY AppendProperties, LenProperties
<1>4. /\ \A i \in 1..n : \E k \in 1..q : r[i] \in BranchOf(ks[k])
      /\ \A i, j \in 1..n : r[i] = r[j] => i = j
      /\ \A i \in 1..n : \/ r[i] \in S
                         \/ /\ r[i] \in DOMAIN Under
                            /\ \E j \in 1..i - 1 : r[j] = Under[r[i]] /\ \A k \in j + 1..i : r[k] \in DOMAIN Under
  BY <1>1, LenProperties DEF ForestOK, Lined, Distinct
<1>5. /\ s[1] = a /\ \A i, j \in 1..m : s[i] = s[j] => i = j
      /\ \A i \in 1..m : s[i] \in BranchOf(a)
      /\ \A i \in 2..m : s[i] \in DOMAIN Under /\ \E j \in 1..i - 1 : s[j] = Under[s[i]]
  BY <1>1, LenProperties DEF RowTree, Distinct
<1>6. \A k \in 1..q : ks[k] \in S /\ ks[k] # a
  BY LenProperties, ElementOfSeq DEF Occurs
<1> HIDE DEF t, ls, n, m, q
<1>7. \A k \in 1..q : BranchOf(ks[k]) \cap BranchOf(a) = {}
  BY <1>6, BranchesApart
<1>8. \A i \in 1..n, j \in 1..m : r[i] # s[j]
  BY <1>4, <1>5, <1>7
<1>9. Distinct(t)
  <2>1. DOMAIN t = 1..n + m
    BY <1>2, LenProperties
  <2>2. ASSUME NEW i \in 1..n + m, NEW j \in 1..n + m, t[i] = t[j] PROVE i = j
    <3>1. CASE i <= n /\ j <= n
      BY <1>1, <1>2, <1>4, <2>2, <3>1
    <3>2. CASE i > n /\ j > n
      <4>1. i \in n + 1..n + m /\ j \in n + 1..n + m /\ i - n \in 1..m /\ j - n \in 1..m
        BY <1>1, <3>2
      <4>2. s[i - n] = s[j - n]
        BY <1>2, <2>2, <4>1
      <4>3. i - n = j - n
        BY <1>5, <4>1, <4>2
      <4> QED BY <1>1, <4>1, <4>3
    <3>3. CASE i <= n /\ j > n
      <4>1. i \in 1..n /\ j \in n + 1..n + m /\ j - n \in 1..m
        BY <1>1, <3>3
      <4>2. r[i] = s[j - n]
        BY <1>2, <2>2, <4>1
      <4> QED BY <1>8, <4>1, <4>2
    <3>4. CASE i > n /\ j <= n
      <4>1. j \in 1..n /\ i \in n + 1..n + m /\ i - n \in 1..m
        BY <1>1, <3>4
      <4>2. r[j] = s[i - n]
        BY <1>2, <2>2, <4>1
      <4> QED BY <1>8, <4>1, <4>2
    <3> QED BY <1>1, <3>1, <3>2, <3>3, <3>4
  <2> QED BY <2>1, <2>2 DEF Distinct
<1>10. ASSUME NEW i \in 1..n + m
       PROVE  /\ \E k \in 1..q + 1 : t[i] \in BranchOf(ls[k])
              /\ \/ t[i] \in S
                 \/ /\ t[i] \in DOMAIN Under
                    /\ \E j \in 1..i - 1 : t[j] = Under[t[i]] /\ \A k \in j + 1..i : t[k] \in DOMAIN Under
  <2>1. CASE i \in 1..n
    <3>1. t[i] = r[i]
      BY <1>2, <2>1
    <3>2. PICK k \in 1..q : r[i] \in BranchOf(ks[k])
      BY <1>4, <2>1
    <3>3. k \in 1..q + 1 /\ ls[k] = ks[k]
      BY <1>1, <1>3
    <3>4. CASE r[i] \in S
      BY <3>1, <3>2, <3>3, <3>4
    <3>5. CASE r[i] \notin S
      <4>1. PICK j \in 1..i - 1 : /\ r[i] \in DOMAIN Under /\ r[j] = Under[r[i]]
                                  /\ \A x \in j + 1..i : r[x] \in DOMAIN Under
        BY <1>4, <2>1, <3>5
      <4>2. j \in 1..n /\ \A x \in j + 1..i : x \in 1..n
        BY <1>1, <2>1
      <4>3. t[j] = r[j] /\ \A x \in j + 1..i : t[x] = r[x]
        BY <1>2, <4>2
      <4>4. t[j] = Under[t[i]] /\ \A x \in j + 1..i : t[x] \in DOMAIN Under
        BY <3>1, <4>1, <4>3
      <4> QED BY <3>1, <3>2, <3>3, <4>1, <4>4
    <3> QED BY <3>4, <3>5
  <2>2. CASE i \in n + 1..n + m
    <3>1. t[i] = s[i - n] /\ i - n \in 1..m
      BY <1>1, <1>2, <2>2
    <3>2. q + 1 \in 1..q + 1 /\ t[i] \in BranchOf(ls[q + 1])
      BY <1>1, <1>3, <1>5, <3>1
    <3>3. CASE i - n = 1
      BY <1>5, <3>1, <3>2, <3>3
    <3>4. CASE i - n \in 2..m
      <4>1. PICK j \in 1..(i - n) - 1 : s[i - n] \in DOMAIN Under /\ s[j] = Under[s[i - n]]
        BY <1>5, <3>4
      <4>2. n + j \in 1..i - 1 /\ n + j \in n + 1..n + m /\ (n + j) - n = j
        BY <1>1, <2>2, <3>4
      <4>3. t[n + j] = s[j]
        BY <1>2, <4>2
      <4>4. ASSUME NEW k \in (n + j) + 1..i PROVE t[k] \in DOMAIN Under
        <5>1. k \in n + 1..n + m /\ k - n \in 2..m
          BY <1>1, <2>2
        <5>2. t[k] = s[k - n]
          BY <1>2, <5>1
        <5> QED BY <1>5, <5>1, <5>2
      <4>5. t[i] \in DOMAIN Under /\ t[n + j] = Under[t[i]]
        BY <3>1, <4>1, <4>3
      <4> QED BY <3>2, <4>2, <4>4, <4>5
    <3> QED BY <1>1, <3>1, <3>3, <3>4
  <2> QED BY <1>1, <2>1, <2>2
<1> QED BY <1>2, <1>3, <1>9, <1>10 DEF ForestOK, Lined, t, ls

LEMMA ForestFacts ==
  ASSUME NEW S, Siblings(S), NEW f, \A k \in S : RowTree(f[k], k), NEW ks \in Seq(S), Distinct(ks)
  PROVE  ForestOK(FlattenSeq(Mapped(ks, f)), ks, S)
<1> DEFINE g == [k \in S |-> f[k]]
           P == {ls \in Seq(S) : Distinct(ls) => ForestOK(FlattenSeq(Mapped(ls, g)), ls, S)}
<1>1. g \in [S -> Seq(ViewNodes)] /\ \A k \in S : g[k] = f[k] /\ RowTree(g[k], k)
  BY DEF RowTree
<1> HIDE DEF g
<1>2. ASSUME NEW ls \in Seq(S), NEW a \in S
      PROVE  Mapped(ls, g) \in Seq(Seq(ViewNodes)) /\ Mapped(Append(ls, a), g) = Append(Mapped(ls, g), g[a])
  <2>1. Into(g, S, Seq(ViewNodes))
    BY <1>1 DEF Into
  <2> DEFINE Y == Seq(ViewNodes)
  <2>2. Into(g, S, Y)
    BY <2>1
  <2> HIDE DEF Y
  <2>3. Mapped(ls, g) \in Seq(Y) /\ Mapped(Append(ls, a), g) = More(Mapped(ls, g), Value(g, a))
    BY <2>2, MappedFacts
  <2>4. More(Mapped(ls, g), Value(g, a)) = Append(Mapped(ls, g), g[a])
    BY Zenon DEF More, Value
  <2> QED BY <2>3, <2>4 DEF Y
<1>3. << >> \in P
  <2>1. << >> \in Seq(S) /\ << >> \in Seq(ViewNodes) /\ Len(<< >>) = 0
    BY EmptySeq
  <2>2. Mapped(<< >>, g) = << >>
    BY DEF Mapped
  <2>3. FlattenSeq(Mapped(<< >>, g)) = << >>
    BY <2>2, FlattenEmpty
  <2>4. Distinct(<< >>) /\ \A i \in 1..Len(<< >>) : FALSE
    BY <2>1 DEF Distinct
  <2>5. ForestOK(<< >>, << >>, S)
    BY <2>1, <2>4 DEF ForestOK, Lined
  <2> QED BY <2>1, <2>3, <2>5
<1>4. ASSUME NEW ls \in Seq(S), NEW a \in S, ls \in P PROVE Append(ls, a) \in P
  <2>1. Append(ls, a) \in Seq(S)
    BY AppendProperties
  <2>2. ASSUME Distinct(Append(ls, a)) PROVE ForestOK(FlattenSeq(Mapped(Append(ls, a), g)), Append(ls, a), S)
    <3> DEFINE n == Len(ls)
               ms == Append(ls, a)
    <3>1. /\ n \in Nat /\ DOMAIN ms = 1..n + 1 /\ DOMAIN ls = 1..n /\ ms[n + 1] = a
          /\ \A i \in 1..n : ms[i] = ls[i]
      <4>1. ms \in Seq(S) /\ Len(ms) = n + 1 /\ ms[n + 1] = a /\ \A i \in 1..n : ms[i] = ls[i]
        BY AppendProperties
      <4> HIDE DEF ms
      <4> QED BY <4>1, LenProperties
    <3>2. \A i, j \in DOMAIN ms : ms[i] = ms[j] => i = j
      BY <2>2 DEF Distinct
    <3> HIDE DEF ms, n
    <3>3. Distinct(ls)
      <4>1. ASSUME NEW i \in 1..n, NEW j \in 1..n, ls[i] = ls[j] PROVE i = j
        <5>1. i \in 1..n + 1 /\ j \in 1..n + 1 /\ ms[i] = ms[j]
          BY <3>1, <4>1
        <5> QED BY <3>1, <3>2, <5>1
      <4> QED BY <3>1, <4>1 DEF Distinct
    <3>4. ~Occurs(ls, a)
      <4>1. ASSUME NEW i \in 1..n, ls[i] = a PROVE FALSE
        <5>1. i \in 1..n + 1 /\ n + 1 \in 1..n + 1 /\ ms[i] = ms[n + 1] /\ i # n + 1
          BY <3>1, <4>1
        <5> QED BY <3>1, <3>2, <5>1
      <4> QED BY <3>1, <4>1 DEF Occurs
    <3> DEFINE r == FlattenSeq(Mapped(ls, g))
    <3>5. ForestOK(r, ls, S)
      BY <1>4, <3>3
    <3>6. FlattenSeq(Mapped(Append(ls, a), g)) = r \o g[a]
      <4>1. /\ Mapped(ls, g) \in Seq(Seq(ViewNodes)) /\ g[a] \in Seq(ViewNodes)
            /\ Mapped(Append(ls, a), g) = Append(Mapped(ls, g), g[a])
        <5>1. g[a] \in Seq(ViewNodes)
          BY <1>1
        <5> QED BY <1>2, <5>1
      <4> QED BY <4>1, FlattenAppend
    <3>7. RowTree(g[a], a)
      BY <1>1
    <3> HIDE DEF r
    <3>8. ForestOK(r \o g[a], Append(ls, a), S)
      BY <3>4, <3>5, <3>7, ForestGrows
    <3> QED BY <3>6, <3>8
  <2> QED BY <2>1, <2>2
<1>5. Seq(S) \subseteq P
  <2> HIDE DEF P
  <2> QED BY <1>3, <1>4, SeqInductionSet
<1>6. Mapped(ks, f) = Mapped(ks, g)
  <2>1. \A i \in DOMAIN ks : f[ks[i]] = g[ks[i]]
    BY <1>1, ElementOfSeq, LenProperties
  <2> QED BY <2>1 DEF Mapped
<1> QED BY <1>5, <1>6

LEMMA RowsTree ==
  ASSUME NEW st, NEW listed, NEW opened, NEW order \in Orders, NEW f,
         \A n \in ViewNodes : f[n] = Grown(f, n, st, listed, opened, order),
         NEW n \in ViewNodes, \A k \in KidsOf(n) : RowTree(f[k], k)
  PROVE  RowTree(f[n], n)
<1> DEFINE S == KidsOf(n)
           ks == Sorted(st, listed, order, S)
           r == FlattenSeq(Mapped(ks, f))
           s == <<n>> \o r
           m == Len(r)
<1>0. Siblings(S)
  BY DEF Siblings
<1>1. ks \in Seq(S) /\ Distinct(ks)
  BY <1>0, SortedFacts DEF Distinct
<1>2. ForestOK(r, ks, S)
  <2> HIDE DEF ks, S
  <2> QED BY <1>0, <1>1, ForestFacts DEF S
<1>3. f[n] = IF n \in opened THEN s ELSE <<n>> \o << >>
  BY DEF Grown, RowsOf
<1>4. n \in BranchOf(n)
  BY BranchFinite
<1>5. RowTree(<<n>>, n)
  <2>1. <<n>> \in Seq(ViewNodes) /\ Len(<<n>>) = 1 /\ <<n>>[1] = n /\ DOMAIN <<n>> = {1}
    OBVIOUS
  <2>2. Distinct(<<n>>)
    BY <2>1 DEF Distinct
  <2> QED BY <1>4, <2>1, <2>2 DEF RowTree
<1>6. <<n>> \o << >> = <<n>>
  OBVIOUS
<1>7. /\ \A k \in S : k \in DOMAIN Under /\ Under[k] = n /\ k \in ViewNodes
      /\ \A k \in S : BranchOf(k) \subseteq BranchOf(n) /\ n \notin BranchOf(k)
  <2>1. \A k \in S : k \in DOMAIN Under /\ Under[k] = n /\ k \in ViewNodes
    BY TreeViewAssumption DEF KidsOf
  <2>2. \A k \in S : BranchOf(k) \subseteq BranchOf(n)
    BY BranchRule
  <2>3. ASSUME NEW k \in S PROVE n \notin BranchOf(k)
    <3>1. PICK d : Deep(d)
      BY DeepExists
    <3>2. d[n] \in Nat /\ d[k] \in Nat /\ d[k] > d[n]
      BY <2>1, <3>1, DeepExists DEF Deep
    <3>3. n = k \/ n \notin BranchOf(k) \/ d[n] > d[k]
      BY <2>1, <3>1, BranchBelow
    <3> QED BY <3>2, <3>3
  <2> QED BY <2>1, <2>2, <2>3
<1>8. /\ r \in Seq(ViewNodes) /\ m \in Nat /\ \A i, j \in 1..m : r[i] = r[j] => i = j
      /\ \A i \in 1..m : r[i] \in BranchOf(n) /\ r[i] # n
      /\ \A i \in 1..m : r[i] \in S \/ (r[i] \in DOMAIN Under /\ \E j \in 1..i - 1 : r[j] = Under[r[i]])
  <2> HIDE DEF r, ks
  <2>1. r \in Seq(ViewNodes) /\ Distinct(r) /\ Lined(r, S)
    BY <1>2 DEF ForestOK
  <2>2. m \in Nat /\ DOMAIN r = 1..m
    BY <2>1, LenProperties
  <2>3. ASSUME NEW i \in 1..m PROVE r[i] \in BranchOf(n) /\ r[i] # n
    <3>1. PICK k \in 1..Len(ks) : r[i] \in BranchOf(ks[k])
      BY <1>2 DEF ForestOK
    <3>2. ks[k] \in S
      BY <1>1, ElementOfSeq
    <3> QED BY <1>7, <3>1, <3>2
  <2>4. \A i, j \in 1..m : r[i] = r[j] => i = j
    BY <2>1, <2>2 DEF Distinct
  <2> QED BY <2>1, <2>2, <2>3, <2>4 DEF Lined
<1> HIDE DEF r, ks, S, m
<1>9. /\ s \in Seq(ViewNodes) /\ Len(s) = m + 1 /\ s[1] = n /\ \A i \in 2..m + 1 : s[i] = r[i - 1]
  <2>1. <<n>> \in Seq(ViewNodes) /\ Len(<<n>>) = 1 /\ <<n>>[1] = n
    OBVIOUS
  <2>2. /\ s \in Seq(ViewNodes) /\ Len(s) = 1 + m
        /\ \A i \in 1..1 + m : s[i] = IF i <= 1 THEN <<n>>[i] ELSE r[i - 1]
    BY <1>8, <2>1, ConcatProperties DEF m
  <2> HIDE DEF s
  <2>3. 1 \in 1..1 + m /\ \A i \in 2..m + 1 : i \in 1..1 + m /\ ~(i <= 1)
    BY <1>8
  <2>4. s[1] = n
    BY <2>1, <2>2, <2>3
  <2>5. \A i \in 2..m + 1 : s[i] = r[i - 1]
    BY <2>2, <2>3
  <2> QED BY <1>8, <2>2, <2>4, <2>5
<1> HIDE DEF s
<1>10. \A i \in 2..m + 1 : i - 1 \in 1..m /\ i \in Int
  BY <1>8
<1>11. RowTree(s, n)
  <2>1. \A i \in 1..m + 1 : s[i] \in BranchOf(n)
    <3>1. ASSUME NEW i \in 1..m + 1 PROVE i = 1 \/ i \in 2..m + 1
      BY <1>8
    <3> QED BY <1>4, <1>8, <1>9, <1>10, <3>1
  <2>2. Distinct(s)
    <3>1. DOMAIN s = 1..m + 1
      BY <1>9, LenProperties
    <3>2. ASSUME NEW i \in 1..m + 1, NEW j \in 1..m + 1, s[i] = s[j] PROVE i = j
      <4>1. (i = 1 \/ i \in 2..m + 1) /\ (j = 1 \/ j \in 2..m + 1)
        BY <1>8
      <4>2. CASE i = 1 \/ j = 1
        <5>1. ASSUME NEW x \in 2..m + 1 PROVE s[x] # s[1]
          BY <1>8, <1>9, <1>10
        <5> QED BY <3>2, <4>1, <4>2, <5>1
      <4>3. CASE i \in 2..m + 1 /\ j \in 2..m + 1
        <5>1. r[i - 1] = r[j - 1]
          BY <1>9, <3>2, <4>3
        <5>2. i - 1 = j - 1
          BY <1>8, <1>10, <4>3, <5>1
        <5> QED BY <1>10, <4>3, <5>2
      <4> QED BY <4>1, <4>2, <4>3
    <3> QED BY <3>1, <3>2 DEF Distinct
  <2>3. ASSUME NEW i \in 2..m + 1
        PROVE  s[i] \in DOMAIN Under /\ \E j \in 1..i - 1 : s[j] = Under[s[i]]
    <3>1. s[i] = r[i - 1] /\ i - 1 \in 1..m
      BY <1>9, <1>10
    <3>2. CASE r[i - 1] \in S
      <4>1. 1 \in 1..i - 1
        OBVIOUS
      <4> QED BY <1>7, <1>9, <3>1, <3>2, <4>1
    <3>3. CASE r[i - 1] \notin S
      <4>1. PICK j \in 1..(i - 1) - 1 : r[i - 1] \in DOMAIN Under /\ r[j] = Under[r[i - 1]]
        BY <1>8, <3>1, <3>3
      <4>2. j + 1 \in 2..m + 1 /\ j + 1 \in 1..i - 1 /\ (j + 1) - 1 = j
        BY <1>8
      <4>3. s[j + 1] = r[j]
        BY <1>9, <4>2
      <4> QED BY <3>1, <4>1, <4>2, <4>3
    <3> QED BY <3>2, <3>3
  <2>4. Len(s) >= 1
    BY <1>8, <1>9
  <2> QED BY <1>9, <2>1, <2>2, <2>3, <2>4 DEF RowTree
<1> QED BY <1>3, <1>5, <1>6, <1>11

(* What is listed is a tree read from the top, whatever is listed and open.  *)
TreeShape(r) ==
  /\ \A i, j \in DOMAIN r : r[i] = r[j] => i = j
  /\ \A i \in DOMAIN r : r[i] \in DOMAIN Under =>
       \E j \in 1..i - 1 : /\ r[j] = Under[r[i]]
                           /\ \A k \in j + 1..i : r[k] \notin Roots

LEMMA FlattenShape ==
  ASSUME NEW st, NEW listed, NEW opened, NEW order \in Orders
  PROVE  Flatten(st, listed, opened, order) \in Seq(ViewNodes) /\ TreeShape(Flatten(st, listed, opened, order))
<1>1. PICK f : /\ \A n \in ViewNodes : f[n] = Grown(f, n, st, listed, opened, order)
               /\ Flatten(st, listed, opened, order) = RowsOf(f, Roots, st, listed, order)
  BY FlattenRule
<1>2. PICK d : Deep(d)
  BY DeepExists
<1> DEFINE P == {h \in Nat : \A n \in Low(d, h) : RowTree(f[n], n)}
<1>3. 0 \in P
  BY <1>2, LowFacts
<1>4. ASSUME NEW h \in Nat, h \in P PROVE h + 1 \in P
  <2>1. ASSUME NEW n \in Low(d, h + 1) PROVE RowTree(f[n], n)
    <3>1. n \in ViewNodes
      BY DEF Low
    <3>2. \A k \in KidsOf(n) : RowTree(f[k], k)
      BY <1>2, <1>4, LowFacts
    <3> QED BY <1>1, <3>1, <3>2, RowsTree
  <2> QED BY <2>1
<1>5. Nat \subseteq P
  <2> HIDE DEF P
  <2> QED BY <1>3, <1>4, NatInductionSet
<1>6. \A n \in ViewNodes : RowTree(f[n], n)
  <2>1. Nodes0 + 1 \in P
    BY <1>5, DeepExists
  <2> QED BY <1>2, <2>1, LowFacts
<1> DEFINE ks == Sorted(st, listed, order, Roots)
           r == FlattenSeq(Mapped(ks, f))
<1>7. ks \in Seq(Roots) /\ Distinct(ks) /\ Siblings(Roots)
  BY SortedFacts DEF Distinct, Siblings
<1>8. ForestOK(r, ks, Roots)
  <2>1. \A k \in Roots : RowTree(f[k], k)
    BY <1>6 DEF Roots
  <2> HIDE DEF ks
  <2> QED BY <1>7, <2>1, ForestFacts
<1>9. Flatten(st, listed, opened, order) = r
  BY <1>1 DEF RowsOf
<1> HIDE DEF r
<1>10. r \in Seq(ViewNodes) /\ Distinct(r) /\ DOMAIN r = 1..Len(r) /\ Lined(r, Roots)
  BY <1>8, LenProperties DEF ForestOK
<1>11. ASSUME NEW i \in DOMAIN r, r[i] \in DOMAIN Under
       PROVE  \E j \in 1..i - 1 : r[j] = Under[r[i]] /\ \A k \in j + 1..i : r[k] \notin Roots
  BY <1>10, <1>11 DEF Lined, Roots
<1>12. TreeShape(r)
  BY <1>10, <1>11 DEF TreeShape, Distinct
<1> QED BY <1>9, <1>10, <1>12

LEMMA VisibleShape ==
  ASSUME NEW st, NEW opened, NEW foc, NEW fnd
  PROVE  Visible(st, opened, foc, fnd) \in Seq(ViewNodes) /\ TreeShape(Visible(st, opened, foc, fnd))
<1>1. "name" \in Orders /\ "done" \in Orders /\ "focus" \in Orders
  BY DEF Orders
<1>2. CASE fnd
  <2>1. Visible(st, opened, foc, fnd) = Flatten(st, {n \in ViewNodes : Matching(st, n)}, ViewNodes, "name")
    BY <1>2 DEF Visible
  <2> QED BY <1>1, <2>1, FlattenShape
<1>3. CASE ~fnd
  <2> DEFINE order == IF foc THEN "focus" ELSE "done"
             listed == {n \in ViewNodes : ~foc \/ FocusRelevant(st, n)}
  <2>1. Visible(st, opened, foc, fnd) = Flatten(st, listed, opened, order)
    BY <1>3 DEF Visible
  <2>2. order \in Orders
    BY <1>1
  <2> HIDE DEF order, listed
  <2> QED BY <2>1, <2>2, FlattenShape
<1> QED BY <1>2, <1>3

-----------------------------------------------------------------------------
(* The inductive invariant: the list is a tree also while it is not valid,   *)
(* for keys read it as it was.                                               *)
TreeViewInv == TreeViewTypeOK /\ list \in Seq(ViewNodes) /\ TreeShape(list)

LEMMA TreeViewBegins == TreeViewInit => TreeViewInv
<1> SUFFICES ASSUME TreeViewInit PROVE TreeViewInv
  OBVIOUS
<1>1. list = << >> /\ << >> \in Seq(ViewNodes) /\ DOMAIN << >> = {}
  BY EmptySeq DEF TreeViewInit
<1>2. TreeShape(list)
  BY <1>1 DEF TreeShape
<1>3. rowState \in [ViewNodes -> {"none", "pending", "running", "pass", "fail"}]
  BY DEF TreeViewInit
<1>4. TreeViewTypeOK
  BY <1>1, <1>3 DEF TreeViewInit, TreeViewTypeOK
<1> QED BY <1>1, <1>2, <1>4 DEF TreeViewInv

LEMMA NodesNowShape ==
  ASSUME TreeViewInv
  PROVE  NodesNow \in Seq(ViewNodes) /\ TreeShape(NodesNow)
<1>1. Visible(rowState, open, focus, find) \in Seq(ViewNodes) /\ TreeShape(Visible(rowState, open, focus, find))
  BY VisibleShape
<1> QED BY <1>1 DEF NodesNow, TreeViewInv

LEMMA ScrollTopOnScreen ==
  ASSUME NEW top \in Nat, NEW cur \in Nat, NEW len \in Nat, rows \in Rows
  PROVE  /\ ScrollTop(top, cur, len) \in Nat
         /\ cur < len => ScrollTop(top, cur, len) <= cur /\ cur < ScrollTop(top, cur, len) + rows
<1>1. rows \in Nat /\ rows >= 1
  BY TreeViewAssumption
<1> QED BY <1>1 DEF ScrollTop, Larger

(* A key: the list is anew a tree and the cursor is on screen.               *)
LEMMA KeyKeeps ==
  ASSUME TreeViewInv, NEW opened, opened \subseteq ViewNodes, NEW foc \in BOOLEAN, NEW cur \in Nat, NEW top \in Nat,
         AfterKey(opened, foc, cur, top), allOpen' \in BOOLEAN
  PROVE  /\ TreeViewInv'
         /\ cursor' < Len(list') => scrollTop' <= cursor' /\ cursor' < scrollTop' + rows'
<1>1. list' \in Seq(ViewNodes) /\ TreeShape(list')
  <2>1. list' = NodesNow \/ list' = Visible(rowState, opened, foc, find)
    BY DEF AfterKey
  <2> QED BY <2>1, NodesNowShape, VisibleShape
<1>2. /\ open' = opened /\ focus' = foc /\ cursor' = cur /\ valid' = TRUE /\ rowState' = rowState
      /\ typing' = typing /\ find' = find /\ rows' = rows /\ scrollTop' = ScrollTop(top, cur, Len(list'))
  BY DEF AfterKey
<1>3. Len(list') \in Nat /\ \A i \in DOMAIN list' : list'[i] \in ViewNodes
  BY <1>1, LenProperties, ElementOfSeq
<1>4. rows \in Rows
  BY DEF TreeViewInv, TreeViewTypeOK
<1>5. /\ scrollTop' \in Nat
      /\ cur < Len(list') => scrollTop' <= cur /\ cur < scrollTop' + rows
  BY <1>2, <1>3, <1>4, ScrollTopOnScreen
<1>6. TreeViewTypeOK'
  BY <1>2, <1>3, <1>5 DEF TreeViewInv, TreeViewTypeOK
<1>7. TreeShape(list)'
  BY <1>1 DEF TreeShape
<1> QED BY <1>1, <1>2, <1>5, <1>6, <1>7 DEF TreeViewInv

Seen == cursor' < Len(list') => scrollTop' <= cursor' /\ cursor' < scrollTop' + rows'

LEMMA BrowseKeeps == TreeViewInv /\ BrowseKey => TreeViewInv' /\ Seen
<1> SUFFICES ASSUME TreeViewInv, BrowseKey PROVE TreeViewInv' /\ Seen
  OBVIOUS
<1>1. /\ open \subseteq ViewNodes /\ focus \in BOOLEAN /\ allOpen \in BOOLEAN /\ cursor \in Nat /\ scrollTop \in Nat
      /\ rows \in Nat /\ rows >= 1
  BY TreeViewAssumption DEF TreeViewInv, TreeViewTypeOK
<1>2. NodesNow \in Seq(ViewNodes) /\ Len(NodesNow) \in Nat /\ \A i \in 1..Len(NodesNow) : NodesNow[i] \in ViewNodes
  BY NodesNowShape, LenProperties, ElementOfSeq
<1>3. ASSUME NEW cur \in Nat, Move(cur), UNCHANGED allOpen PROVE TreeViewInv' /\ Seen
  <2>1. AfterKey(open, focus, cur, scrollTop) /\ allOpen' \in BOOLEAN
    BY <1>1, <1>3 DEF Move
  <2> QED BY <1>1, <2>1, KeyKeeps DEF Seen
<1>4. CASE CursorUp
  <2> DEFINE c == IF cursor > 0 THEN cursor - 1 ELSE cursor
  <2>1. c \in Nat /\ Move(c) /\ UNCHANGED allOpen
    BY <1>1, <1>4 DEF CursorUp, Move
  <2> HIDE DEF c
  <2> QED BY <1>3, <2>1
<1>5. CASE CursorDown
  <2> DEFINE c == IF cursor < Len(NodesNow) - 1 THEN cursor + 1 ELSE cursor
  <2>1. c \in Nat /\ Move(c) /\ UNCHANGED allOpen
    BY <1>1, <1>5 DEF CursorDown, Move
  <2> HIDE DEF c
  <2> QED BY <1>3, <2>1
<1>6. CASE PageUp
  <2> DEFINE c == Larger(0, cursor - rows)
  <2>1. Move(c) /\ UNCHANGED allOpen
    BY <1>6 DEF PageUp, Move
  <2>2. c \in Nat
    BY <1>1 DEF Larger
  <2> HIDE DEF c
  <2> QED BY <1>3, <2>1, <2>2
<1>7. CASE PageDown
  <2> DEFINE c == IF cursor + rows >= Len(NodesNow) THEN Larger(0, Len(NodesNow) - 1) ELSE cursor + rows
  <2>1. Move(c) /\ UNCHANGED allOpen
    BY <1>7 DEF PageDown, Move
  <2>2. c \in Nat
    BY <1>1, <1>2 DEF Larger
  <2> HIDE DEF c
  <2> QED BY <1>3, <2>1, <2>2
<1>8. CASE GoEnd
  <2> DEFINE c == IF NodesNow = << >> THEN cursor ELSE Len(NodesNow) - 1
  <2>1. Move(c) /\ UNCHANGED allOpen
    BY <1>8 DEF GoEnd, Move
  <2>2. c \in Nat
    <3>1. NodesNow # << >> => Len(NodesNow) # 0
      BY <1>2, EmptySeq
    <3> QED BY <1>1, <1>2, <3>1
  <2> HIDE DEF c
  <2> QED BY <1>3, <2>1, <2>2
<1>9. CASE Top
  <2>1. AfterKey(open, focus, 0, 0) /\ allOpen' \in BOOLEAN
    BY <1>1, <1>9 DEF Top
  <2> QED BY <1>1, <2>1, KeyKeeps DEF Seen
<1>10. CASE Left
  <2> DEFINE n == NodesNow[cursor + 1]
             at == {i \in DOMAIN NodesNow : NodesNow[i] = Under[n]}
             c == IF at = {} THEN cursor ELSE (CHOOSE i \in at : TRUE) - 1
  <2>1. /\ cursor < Len(NodesNow) /\ UNCHANGED allOpen
        /\ AfterKey(open \ {n}, focus, cursor, scrollTop) \/ Move(c)
    BY <1>10 DEF Left
  <2>2. CASE AfterKey(open \ {n}, focus, cursor, scrollTop)
    <3>1. open \ {n} \subseteq ViewNodes /\ allOpen' \in BOOLEAN
      BY <1>1, <2>1
    <3> HIDE DEF n
    <3> QED BY <1>1, <2>2, <3>1, KeyKeeps DEF Seen
  <2>3. c \in Nat
    <3> HIDE DEF n
    <3>1. CASE at = {}
      BY <1>1, <3>1
    <3>2. CASE at # {}
      <4>1. (CHOOSE i \in at : TRUE) \in at
        BY <3>2
      <4>2. at \subseteq 1..Len(NodesNow)
        BY <1>2, LenProperties
      <4> DEFINE w == CHOOSE i \in at : TRUE
      <4>3. c = w - 1
        BY <3>2
      <4>4. w \in 1..Len(NodesNow)
        BY <4>1, <4>2
      <4> HIDE DEF at, w, c
      <4> QED BY <1>2, <4>3, <4>4
    <3> QED BY <3>1, <3>2
  <2> HIDE DEF c
  <2>4. CASE Move(c)
    BY <1>3, <2>1, <2>3, <2>4
  <2> QED BY <2>1, <2>2, <2>4
<1>11. CASE Right
  <2> DEFINE o == open \cup {NodesNow[cursor + 1]}
  <2>1. cursor < Len(NodesNow) /\ AfterKey(o, focus, cursor, scrollTop) /\ allOpen' \in BOOLEAN
    BY <1>1, <1>11 DEF Right
  <2>2. o \subseteq ViewNodes
    <3>1. cursor + 1 \in 1..Len(NodesNow)
      BY <1>1, <1>2, <2>1
    <3> QED BY <1>1, <1>2, <3>1
  <2> HIDE DEF o
  <2> QED BY <1>1, <2>1, <2>2, KeyKeeps DEF Seen
<1>12. CASE Filter
  <2>1. AfterKey(open, ~focus, 0, 0) /\ allOpen' \in BOOLEAN /\ (~focus) \in BOOLEAN
    BY <1>1, <1>12 DEF Filter
  <2> QED BY <1>1, <2>1, KeyKeeps DEF Seen
<1>13. CASE ToggleExpand
  <2>1. allOpen' \in BOOLEAN /\ {} \subseteq ViewNodes /\ There(ViewNodes) \subseteq ViewNodes
    BY <1>1, <1>13 DEF ToggleExpand, There
  <2>2. AfterKey({}, focus, 0, 0) \/ AfterKey(There(ViewNodes), focus, cursor, scrollTop)
    BY <1>13 DEF ToggleExpand
  <2>3. CASE AfterKey({}, focus, 0, 0)
    BY <1>1, <2>1, <2>3, KeyKeeps DEF Seen
  <2>4. CASE AfterKey(There(ViewNodes), focus, cursor, scrollTop)
    BY <1>1, <2>1, <2>4, KeyKeeps DEF Seen
  <2> QED BY <2>2, <2>3, <2>4
<1> QED BY <1>4, <1>5, <1>6, <1>7, <1>8, <1>9, <1>10, <1>11, <1>12, <1>13 DEF BrowseKey

(* A key of the search line: the list is a tree, to be made anew.            *)
LEMMA SearchLineKeeps == TreeViewInv /\ SearchKey => TreeViewInv' /\ (valid' => typing)
<1> SUFFICES ASSUME TreeViewInv, SearchKey PROVE TreeViewInv' /\ (valid' => typing)
  OBVIOUS
<1>1. CASE AcceptSearch
  <2>1. /\ typing /\ typing' = FALSE
        /\ UNCHANGED <<rowState, open, allOpen, list, valid, cursor, scrollTop, focus, find, rows>>
    BY <1>1 DEF AcceptSearch
  <2> QED BY <2>1 DEF TreeViewInv, TreeViewTypeOK, TreeShape
<1>2. ASSUME NEW cur \in Nat, NEW top \in Nat, NEW typ \in BOOLEAN, NEW fnd \in BOOLEAN,
             Unlisted(cur, top, typ, fnd), list' = NodesNow \/ list' = list
      PROVE  TreeViewInv' /\ (valid' => typing)
  <2>1. list' \in Seq(ViewNodes) /\ TreeShape(list')
    BY <1>2, NodesNowShape DEF TreeViewInv
  <2>2. \A i \in DOMAIN list' : list'[i] \in ViewNodes
    BY <2>1, ElementOfSeq, LenProperties
  <2>3. TreeViewTypeOK'
    BY <1>2, <2>2 DEF TreeViewInv, TreeViewTypeOK, Unlisted
  <2>4. TreeShape(list)'
    BY <2>1 DEF TreeShape
  <2> QED BY <1>2, <2>1, <2>3, <2>4 DEF TreeViewInv, Unlisted
<1>3. cursor \in Nat /\ scrollTop \in Nat /\ 0 \in Nat
  BY DEF TreeViewInv, TreeViewTypeOK
<1>4. CASE BeginSearch
  BY <1>2, <1>3, <1>4 DEF BeginSearch
<1>5. CASE TypeQuery \/ EraseQuery \/ AbandonSearch \/ ClearSearch
  BY <1>2, <1>3, <1>5 DEF TypeQuery, EraseQuery, AbandonSearch, ClearSearch
<1> QED BY <1>1, <1>4, <1>5 DEF SearchKey

(* An event of a test: the list is anew a tree.                              *)
LEMMA DataKeeps ==
  ASSUME TreeViewInv, NEW st \in [ViewNodes -> {"none", "pending", "running", "pass", "fail"}], SetData(st)
  PROVE  TreeViewInv'
<1>1. list' \in Seq(ViewNodes) /\ TreeShape(list')
  BY VisibleShape DEF SetData
<1>2. Len(list') \in Nat /\ \A i \in DOMAIN list' : list'[i] \in ViewNodes
  BY <1>1, ElementOfSeq, LenProperties
<1>3. cursor' \in Nat
  BY <1>2 DEF SetData, Larger, TreeViewInv, TreeViewTypeOK
<1>4. TreeViewTypeOK'
  BY <1>2, <1>3 DEF SetData, TreeViewInv, TreeViewTypeOK
<1>5. TreeShape(list)'
  BY <1>1 DEF TreeShape
<1> QED BY <1>1, <1>4, <1>5 DEF TreeViewInv

LEMMA TreeViewStep ==
  TreeViewInv /\ [TreeViewNext]_treeViewVars =>
    /\ TreeViewInv'
    /\ [/\ ~typing /\ ~typing' /\ valid' /\ rowState' = rowState /\ rows' = rows
        /\ cursor' < Len(list')
        => scrollTop' <= cursor' /\ cursor' < scrollTop' + rows']_treeViewVars
<1> DEFINE OnScreen == /\ ~typing /\ ~typing' /\ valid' /\ rowState' = rowState /\ rows' = rows
                       /\ cursor' < Len(list')
                       => scrollTop' <= cursor' /\ cursor' < scrollTop' + rows'
<1> SUFFICES ASSUME TreeViewInv, [TreeViewNext]_treeViewVars PROVE TreeViewInv' /\ [OnScreen]_treeViewVars
  OBVIOUS
<1>1. rowState \in [ViewNodes -> {"none", "pending", "running", "pass", "fail"}]
  BY DEF TreeViewInv, TreeViewTypeOK
<1>2. ASSUME NEW n \in ViewNodes, StartTest(n) PROVE TreeViewInv' /\ OnScreen
  <2> DEFINE st == [m \in ViewNodes |-> IF m = n THEN "running"
                                        ELSE IF m \in OverOf(n) /\ rowState[m] = "none" THEN "pending"
                                        ELSE rowState[m]]
  <2>1. SetData(st) /\ rowState[n] = "none"
    BY <1>2 DEF StartTest
  <2>2. st \in [ViewNodes -> {"none", "pending", "running", "pass", "fail"}] /\ st[n] = "running"
    BY <1>1
  <2> HIDE DEF st
  <2>3. rowState' # rowState
    BY <2>1, <2>2 DEF SetData
  <2> QED BY <2>1, <2>2, <2>3, DataKeeps
<1>3. ASSUME NEW n \in ViewNodes, NEW s \in {"pass", "fail"}, EndTest(n, s) PROVE TreeViewInv' /\ OnScreen
  <2> DEFINE st == [rowState EXCEPT ![n] = s]
  <2>1. SetData(st) /\ rowState[n] = "running"
    BY <1>3 DEF EndTest
  <2>2. st \in [ViewNodes -> {"none", "pending", "running", "pass", "fail"}] /\ st[n] = s
    BY <1>1
  <2> HIDE DEF st
  <2>3. rowState' # rowState
    BY <2>1, <2>2 DEF SetData
  <2> QED BY <2>1, <2>2, <2>3, DataKeeps
<1>4. ASSUME NEW r \in Rows, ResizeRows(r) PROVE TreeViewInv' /\ OnScreen
  BY <1>4 DEF ResizeRows, TreeViewInv, TreeViewTypeOK, TreeShape
<1>5. CASE BrowseKey
  <2>1. TreeViewInv' /\ Seen
    BY <1>5, BrowseKeeps
  <2> QED BY <2>1 DEF Seen
<1>6. CASE SearchKey
  <2>1. TreeViewInv' /\ (valid' => typing)
    BY <1>6, SearchLineKeeps
  <2> QED BY <2>1
<1>7. CASE UNCHANGED treeViewVars
  BY <1>7 DEF treeViewVars, TreeViewInv, TreeViewTypeOK, TreeShape
<1> HIDE DEF OnScreen
<1> QED BY <1>2, <1>3, <1>4, <1>5, <1>6, <1>7 DEF TreeViewNext

(* The list of the tree view is always a tree read from the top, and a key   *)
(* leaves the row under the cursor on screen, whatever tests started and     *)
(* ended, windows were resized and searches made before.                     *)
THEOREM TreeViewIsSound == TreeViewSpec => [](TreeViewTypeOK /\ ListIsTree) /\ CursorOnScreen
<1>1. TreeViewInv => TreeViewTypeOK /\ ListIsTree
  BY DEF TreeViewInv, ListIsTree, TreeShape
<1> QED BY <1>1, TreeViewBegins, TreeViewStep, PTL DEF TreeViewSpec, CursorOnScreen

-----------------------------------------------------------------------------
(* The loop of Split, byte by byte.                                          *)
Cuts(u, n, s) ==
  u = [i \in 0..n |-> IF i = 0 THEN [lines |-> << >>, rest |-> << >>] ELSE Cut(u[i - 1], s[i])]

LEMMA CutsExist ==
  ASSUME NEW n \in Nat, NEW s
  PROVE  \E u : Cuts(u, n, s)
<1> DEFINE N == {m \in Nat : \E u : Cuts(u, m, s)}
           none == [lines |-> << >>, rest |-> << >>]
<1>0. \A u, m : Cuts(u, m, s) <=> u = [i \in 0..m |-> IF i = 0 THEN none ELSE Cut(u[i - 1], s[i])]
  BY DEF Cuts
<1> HIDE DEF none
<1>1. 0 \in N
  <2> DEFINE w == [i \in 0..0 |-> none]
  <2>1. w = [i \in 0..0 |-> IF i = 0 THEN none ELSE Cut(w[i - 1], s[i])]
    OBVIOUS
  <2> QED BY <1>0, <2>1
<1>2. ASSUME NEW m \in Nat, m \in N PROVE m + 1 \in N
  <2>1. PICK u : Cuts(u, m, s)
    BY <1>2
  <2> DEFINE w == [i \in 0..m + 1 |-> IF i = m + 1 THEN Cut(u[m], s[m + 1]) ELSE u[i]]
  <2>2. \A i \in 0..m + 1 : /\ i = m + 1 => w[i] = Cut(u[m], s[m + 1]) /\ i # 0 /\ i - 1 = m /\ w[i - 1] = u[m]
                            /\ i # m + 1 => w[i] = u[i] /\ i \in 0..m
                            /\ i # m + 1 /\ i # 0 => w[i - 1] = u[i - 1]
    BY <1>2
  <2>3. \A i \in 0..m : u[i] = IF i = 0 THEN none ELSE Cut(u[i - 1], s[i])
    BY <1>0, <2>1
  <2>4. w = [i \in 0..m + 1 |-> w[i]]
    OBVIOUS
  <2> HIDE DEF w
  <2>5. \A i \in 0..m + 1 : w[i] = IF i = 0 THEN none ELSE Cut(w[i - 1], s[i])
    BY <2>2, <2>3
  <2>6. Cuts(w, m + 1, s)
    <3>1. w = [i \in 0..m + 1 |-> IF i = 0 THEN none ELSE Cut(w[i - 1], s[i])]
      BY <2>4, <2>5
    <3> QED BY <1>0, <3>1
  <2> QED BY <2>6
<1>3. Nat \subseteq N
  <2> HIDE DEF N
  <2> QED BY <1>1, <1>2, NatInductionSet
<1> QED BY <1>3

LEMMA CutsAgree ==
  ASSUME NEW m \in Nat, NEW n \in Nat, NEW s, NEW t, NEW u, NEW v,
         Cuts(u, m, s), Cuts(v, n, t), m <= n, \A i \in 1..m : s[i] = t[i]
  PROVE  u[m] = v[m]
<1> DEFINE N == {i \in Nat : i <= m => u[i] = v[i]}
           none == [lines |-> << >>, rest |-> << >>]
<1>1. /\ \A i \in 0..m : u[i] = IF i = 0 THEN none ELSE Cut(u[i - 1], s[i])
      /\ \A i \in 0..n : v[i] = IF i = 0 THEN none ELSE Cut(v[i - 1], t[i])
  BY DEF Cuts
<1> HIDE DEF none
<1>2. 0 \in N
  <2>1. 0 \in 0..m /\ 0 \in 0..n
    OBVIOUS
  <2> QED BY <1>1, <2>1
<1>3. ASSUME NEW i \in Nat, i \in N PROVE i + 1 \in N
  <2> SUFFICES ASSUME i + 1 <= m PROVE u[i + 1] = v[i + 1]
    OBVIOUS
  <2>1. i + 1 \in 0..m /\ i + 1 \in 0..n /\ i + 1 # 0 /\ (i + 1) - 1 = i /\ i + 1 \in 1..m /\ i <= m
    OBVIOUS
  <2>2. u[i] = v[i]
    BY <1>3, <2>1
  <2>3. u[i + 1] = Cut(u[i], s[i + 1])
    BY <1>1, <2>1
  <2>4. v[i + 1] = Cut(v[i], t[i + 1])
    BY <1>1, <2>1
  <2> QED BY <2>1, <2>2, <2>3, <2>4
<1>4. Nat \subseteq N
  <2> HIDE DEF N
  <2> QED BY <1>2, <1>3, NatInductionSet
<1> QED BY <1>4

LEMMA SplitCuts ==
  ASSUME NEW s, Len(s) \in Nat
  PROVE  \E u : Cuts(u, Len(s), s) /\ Split(s) = u[Len(s)]
<1> DEFINE w == CHOOSE u : Cuts(u, Len(s), s)
<1>1. Cuts(w, Len(s), s)
  BY CutsExist
<1>2. Split(s) = w[Len(s)]
  BY DEF Split, Cuts
<1> HIDE DEF w
<1> QED BY <1>1, <1>2

LEMMA SplitEmpty == Lines(<< >>) = << >> /\ Rest(<< >>) = << >>
<1>1. Len(<< >>) = 0
  BY EmptySeq
<1>2. PICK u : Cuts(u, 0, << >>) /\ Split(<< >>) = u[0]
  BY <1>1, SplitCuts
<1> QED BY <1>2 DEF Cuts, Lines, Rest

LEMMA SplitAppend ==
  ASSUME NEW X, NEW s \in Seq(X), NEW x \in X
  PROVE  /\ x # NL => Lines(Append(s, x)) = Lines(s) /\ Rest(Append(s, x)) = Append(Rest(s), x)
         /\ x = NL => /\ Lines(Append(s, x)) = IF Rest(s) = << >> THEN Lines(s) ELSE Append(Lines(s), Append(Rest(s), NL))
                      /\ Rest(Append(s, x)) = << >>
<1> DEFINE t == Append(s, x)
           n == Len(s)
<1>1. n \in Nat /\ Len(t) = n + 1 /\ t[n + 1] = x /\ \A i \in 1..n : t[i] = s[i]
  BY LenProperties, AppendProperties
<1> HIDE DEF t
<1>2. PICK u : Cuts(u, n, s) /\ Split(s) = u[n]
  BY <1>1, SplitCuts
<1>3. PICK v : Cuts(v, n + 1, t) /\ Split(t) = v[n + 1]
  <2>1. Len(t) \in Nat
    BY <1>1
  <2> QED BY <1>1, <2>1, SplitCuts
<1> HIDE DEF n
<1>4. v[n] = u[n]
  <2>1. n + 1 \in Nat /\ n <= n + 1
    BY <1>1
  <2> QED BY <1>1, <1>2, <1>3, <2>1, CutsAgree
<1>5. v[n + 1] = Cut(v[n], t[n + 1])
  <2>1. n + 1 \in 0..n + 1 /\ n + 1 # 0 /\ (n + 1) - 1 = n
    BY <1>1
  <2> QED BY <1>3, <2>1 DEF Cuts
<1>6. Split(t) = Cut(Split(s), x)
  BY <1>1, <1>2, <1>3, <1>4, <1>5
<1>7. CASE x # NL
  BY <1>6, <1>7 DEF Cut, Lines, Rest, t
<1>8. CASE x = NL
  BY <1>6, <1>8 DEF Cut, Lines, Rest, t
<1> QED BY <1>7, <1>8

(* A line: what is between two newlines, and the second of them.             *)
LinesOf(X) == {l \in Seq(X) : \E r \in Seq(X \ {NL}) : r # << >> /\ l = Append(r, NL)}

LEMMA SplitType ==
  ASSUME NEW X, NL \in X, NEW s \in Seq(X)
  PROVE  Lines(s) \in Seq(LinesOf(X)) /\ Rest(s) \in Seq(X \ {NL}) /\ Lines(s) \in Seq(Seq(X)) /\ Rest(s) \in Seq(X)
<1> DEFINE P == {t \in Seq(X) : Lines(t) \in Seq(LinesOf(X)) /\ Rest(t) \in Seq(X \ {NL})}
<1>1. << >> \in P
  BY SplitEmpty, EmptySeq
<1>2. ASSUME NEW t \in Seq(X), NEW x \in X, t \in P PROVE Append(t, x) \in P
  <2>1. Append(t, x) \in Seq(X) /\ Lines(t) \in Seq(LinesOf(X)) /\ Rest(t) \in Seq(X \ {NL})
    BY <1>2, AppendProperties
  <2>2. CASE x # NL
    <3>1. x \in X \ {NL} /\ Append(Rest(t), x) \in Seq(X \ {NL})
      BY <2>1, <2>2, AppendProperties
    <3>2. Lines(Append(t, x)) = Lines(t) /\ Rest(Append(t, x)) = Append(Rest(t), x)
      BY <2>2, SplitAppend
    <3> QED BY <2>1, <3>1, <3>2
  <2>3. CASE x = NL
    <3>1. Rest(t) \in Seq(X)
      <4>1. X \ {NL} \subseteq X
        OBVIOUS
      <4> QED BY <2>1, <4>1, SeqMonotonic
    <3>2. Append(Rest(t), NL) \in Seq(X)
      BY <3>1, AppendProperties
    <3>3. Rest(t) # << >> => Append(Rest(t), NL) \in LinesOf(X)
      BY <2>1, <3>2 DEF LinesOf
    <3>4. Rest(t) # << >> => Append(Lines(t), Append(Rest(t), NL)) \in Seq(LinesOf(X))
      BY <2>1, <3>3, AppendProperties
    <3>5. << >> \in Seq(X \ {NL})
      BY EmptySeq
    <3>6. /\ Lines(Append(t, x)) = IF Rest(t) = << >> THEN Lines(t) ELSE Append(Lines(t), Append(Rest(t), NL))
          /\ Rest(Append(t, x)) = << >>
      BY <2>3, SplitAppend
    <3> QED BY <2>1, <3>4, <3>5, <3>6
  <2> QED BY <2>2, <2>3
<1>3. Seq(X) \subseteq P
  <2> HIDE DEF P
  <2> QED BY <1>1, <1>2, SeqInductionSet
<1>4. X \ {NL} \subseteq X /\ LinesOf(X) \subseteq Seq(X)
  BY DEF LinesOf
<1>5. Lines(s) \in Seq(LinesOf(X)) /\ Rest(s) \in Seq(X \ {NL})
  BY <1>3
<1> QED BY <1>4, <1>5, SeqMonotonic

LEMMA SplitRest ==
  ASSUME NEW X, NEW s \in Seq(X \ {NL})
  PROVE  Lines(s) = << >> /\ Rest(s) = s
<1> DEFINE Y == X \ {NL}
           P == {t \in Seq(Y) : Lines(t) = << >> /\ Rest(t) = t}
<1>1. << >> \in P
  BY SplitEmpty, EmptySeq
<1>2. ASSUME NEW t \in Seq(Y), NEW x \in Y, t \in P PROVE Append(t, x) \in P
  <2>1. Append(t, x) \in Seq(Y) /\ Lines(t) = << >> /\ Rest(t) = t /\ x # NL
    BY <1>2, AppendProperties
  <2> HIDE DEF Y
  <2>2. Lines(Append(t, x)) = Lines(t) /\ Rest(Append(t, x)) = Append(Rest(t), x)
    BY <2>1, SplitAppend
  <2> QED BY <2>1, <2>2
<1>3. Seq(Y) \subseteq P
  <2> HIDE DEF P, Y
  <2> QED BY <1>1, <1>2, SeqInductionSet
<1> QED BY <1>3

(* More output after what is kept of the first: the lines go on.             *)
LEMMA SplitConcat ==
  ASSUME NEW X, NL \in X, NEW s \in Seq(X), NEW c \in Seq(X)
  PROVE  /\ Lines(s \o c) = Lines(s) \o Lines(Rest(s) \o c)
         /\ Rest(s \o c) = Rest(Rest(s) \o c)
<1> DEFINE ls == Lines(s)
           q == Rest(s)
           P == {t \in Seq(X) : Lines(s \o t) = ls \o Lines(q \o t) /\ Rest(s \o t) = Rest(q \o t)}
<1>0. ls \in Seq(Seq(X)) /\ q \in Seq(X \ {NL}) /\ q \in Seq(X)
  BY SplitType
<1>1. << >> \in P
  <2>1. s \o << >> = s /\ q \o << >> = q /\ << >> \in Seq(X)
    BY <1>0, EmptySeq, ConcatEmptySeq
  <2>2. Lines(q) = << >> /\ Rest(q) = q
    BY <1>0, SplitRest
  <2>3. ls \o << >> = ls
    BY <1>0, ConcatEmptySeq
  <2> QED BY <2>1, <2>2, <2>3
<1> HIDE DEF ls, q
<1>2. ASSUME NEW t \in Seq(X), NEW x \in X, t \in P PROVE Append(t, x) \in P
  <2> DEFINE a == s \o t
             b == q \o t
  <2>1. /\ Append(t, x) \in Seq(X) /\ a \in Seq(X) /\ b \in Seq(X)
        /\ Lines(a) = ls \o Lines(b) /\ Rest(a) = Rest(b)
    BY <1>0, <1>2, AppendProperties, ConcatProperties
  <2>2. s \o Append(t, x) = Append(a, x) /\ q \o Append(t, x) = Append(b, x)
    BY <1>0, AppendConcat
  <2> HIDE DEF a, b
  <2>3. CASE x # NL
    <3>1. Lines(Append(a, x)) = Lines(a) /\ Rest(Append(a, x)) = Append(Rest(a), x)
      BY <2>1, <2>3, SplitAppend
    <3>2. Lines(Append(b, x)) = Lines(b) /\ Rest(Append(b, x)) = Append(Rest(b), x)
      BY <2>1, <2>3, SplitAppend
    <3> QED BY <2>1, <2>2, <3>1, <3>2
  <2>4. CASE x = NL
    <3>1. /\ Lines(Append(a, x)) = IF Rest(a) = << >> THEN Lines(a) ELSE Append(Lines(a), Append(Rest(a), NL))
          /\ Rest(Append(a, x)) = << >>
      BY <2>1, <2>4, SplitAppend
    <3>2. /\ Lines(Append(b, x)) = IF Rest(b) = << >> THEN Lines(b) ELSE Append(Lines(b), Append(Rest(b), NL))
          /\ Rest(Append(b, x)) = << >>
      BY <2>1, <2>4, SplitAppend
    <3> DEFINE l == Append(Rest(b), NL)
               Y == Seq(X)
    <3>3. Lines(b) \in Seq(Y) /\ l \in Y /\ ls \in Seq(Y)
      BY <1>0, <2>1, SplitType, AppendProperties
    <3> HIDE DEF l, Y
    <3>4. ls \o Append(Lines(b), l) = Append(ls \o Lines(b), l)
      BY <3>3, AppendConcat
    <3> QED BY <2>1, <2>2, <3>1, <3>2, <3>4 DEF l
  <2> QED BY <2>3, <2>4
<1>3. Seq(X) \subseteq P
  <2> HIDE DEF P
  <2> QED BY <1>1, <1>2, SeqInductionSet
<1>4. c \in P
  BY <1>3
<1> QED BY <1>4 DEF ls, q

-----------------------------------------------------------------------------
(* What a function makes of each element, put one after the other.           *)
Joined(s, f) == FlattenSeq(Mapped(s, f))

LEMMA JoinedFacts ==
  ASSUME NEW X, NEW Y, NEW f, Into(f, X, Seq(Y))
  PROVE  /\ Joined(<< >>, f) = << >>
         /\ \A s \in Seq(X) : Joined(s, f) \in Seq(Y)
         /\ \A s, t \in Seq(X) : Joined(s \o t, f) = Cat(Joined(s, f), Joined(t, f))
         /\ \A s \in Seq(X), x \in X : Joined(Append(s, x), f) = Cat(Joined(s, f), Value(f, x))
<1> DEFINE Z == Seq(Y)
<1>0. Into(f, X, Z)
  OBVIOUS
<1> HIDE DEF Z
<1>1. Mapped(<< >>, f) = << >>
  BY DEF Mapped
<1>2. Joined(<< >>, f) = << >>
  BY <1>1, FlattenEmpty DEF Joined
<1>3. ASSUME NEW s \in Seq(X), NEW x \in X
      PROVE  Mapped(s, f) \in Seq(Z) /\ Mapped(Append(s, x), f) = More(Mapped(s, f), Value(f, x)) /\ Value(f, x) \in Z
  <2>1. Value(f, x) \in Z
    BY <1>0 DEF Into, Value
  <2>2. Mapped(s, f) \in Seq(Z)
    BY <1>0, MappedFacts
  <2> QED BY <1>0, <2>1, <2>2, MappedFacts
<1>4. ASSUME NEW s \in Seq(X) PROVE Mapped(s, f) \in Seq(Z)
  <2>1. CASE s = << >>
    BY <1>1, <2>1, EmptySeq
  <2>2. CASE s # << >>
    <3>1. s[1] \in X
      BY <2>2, EmptySeq, LenProperties, ElementOfSeq
    <3> QED BY <1>3, <3>1
  <2> QED BY <2>1, <2>2
<1>5. ASSUME NEW s \in Seq(X) PROVE Joined(s, f) \in Seq(Y)
  <2> DEFINE ss == Mapped(s, f)
  <2>1. ss \in Seq(Seq(Y))
    BY <1>4 DEF Z
  <2> HIDE DEF ss
  <2>2. FlattenSeq(ss) \in Seq(Y)
    BY <2>1, FlattenType
  <2> QED BY <2>2 DEF Joined, ss
<1>6. ASSUME NEW s \in Seq(X), NEW x \in X PROVE Joined(Append(s, x), f) = Cat(Joined(s, f), Value(f, x))
  <2> DEFINE ss == Mapped(s, f)
  <2>1. ss \in Seq(Seq(Y)) /\ Value(f, x) \in Seq(Y)
    BY <1>3, <1>4 DEF Z
  <2>2. Joined(Append(s, x), f) = FlattenSeq(Append(ss, Value(f, x)))
    BY <1>3 DEF Joined, More
  <2> HIDE DEF ss
  <2>3. FlattenSeq(Append(ss, Value(f, x))) = FlattenSeq(ss) \o Value(f, x)
    BY <2>1, FlattenAppend
  <2> QED BY <2>2, <2>3 DEF Joined, ss, Cat
<1>7. ASSUME NEW s \in Seq(X), NEW t \in Seq(X) PROVE Joined(s \o t, f) = Cat(Joined(s, f), Joined(t, f))
  <2>1. Mapped(s \o t, f) = Cat(Mapped(s, f), Mapped(t, f))
    BY <1>0, MappedConcat
  <2> DEFINE ss == Mapped(s, f)
             tt == Mapped(t, f)
  <2>2. ss \in Seq(Seq(Y)) /\ tt \in Seq(Seq(Y))
    BY <1>4 DEF Z
  <2>3. Joined(s \o t, f) = FlattenSeq(ss \o tt)
    BY <2>1 DEF Joined, Cat
  <2> HIDE DEF ss, tt
  <2>4. FlattenSeq(ss \o tt) = FlattenSeq(ss) \o FlattenSeq(tt)
    BY <2>2, FlattenConcat
  <2> QED BY <2>3, <2>4 DEF Joined, ss, tt, Cat
<1> QED BY <1>2, <1>5, <1>6, <1>7

(* The characters of a sequence of bytes.                                    *)
LEMMA CharsFacts ==
  ASSUME NEW X
  PROVE  /\ Chars(<< >>) = << >>
         /\ \A s \in Seq(X) : Chars(s) \in Seq(X)
         /\ \A s, t \in Seq(X) : Chars(s \o t) = Cat(Chars(s), Chars(t))
         /\ \A s \in Seq(X), x \in X : Chars(Append(s, x)) = IF x = NL THEN Chars(s) ELSE More(Chars(s), x)
<1> DEFINE f == [v \in X |-> IF v = NL THEN << >> ELSE <<v>>]
<1>1. Into(f, X, Seq(X))
  <2>1. ASSUME NEW v \in X PROVE f[v] \in Seq(X)
    <3>1. << >> \in Seq(X) /\ <<v>> \in Seq(X)
      BY EmptySeq
    <3> QED BY <3>1
  <2>2. f = [v \in X |-> f[v]]
    OBVIOUS
  <2> HIDE DEF f
  <2> QED BY <2>1, <2>2 DEF Into
<1>2. ASSUME NEW s \in Seq(X) PROVE Chars(s) = Joined(s, f)
  <2>1. \A i \in DOMAIN s : s[i] \in X
    BY LenProperties, ElementOfSeq
  <2>2. \A i \in DOMAIN s : f[s[i]] = IF s[i] = NL THEN << >> ELSE <<s[i]>>
    BY <2>1
  <2>3. Mapped(s, f) = [i \in DOMAIN s |-> IF s[i] = NL THEN << >> ELSE <<s[i]>>]
    BY <2>2 DEF Mapped
  <2> QED BY <2>3 DEF Chars, Joined
<1>3. \A v \in X : f[v] = IF v = NL THEN << >> ELSE <<v>>
  OBVIOUS
<1> HIDE DEF f
<1>4. /\ Joined(<< >>, f) = << >>
      /\ \A s \in Seq(X) : Joined(s, f) \in Seq(X)
      /\ \A s, t \in Seq(X) : Joined(s \o t, f) = Cat(Joined(s, f), Joined(t, f))
      /\ \A s \in Seq(X), x \in X : Joined(Append(s, x), f) = Cat(Joined(s, f), Value(f, x))
  BY <1>1, JoinedFacts
<1>5. << >> \in Seq(X)
  BY EmptySeq
<1>6. ASSUME NEW s \in Seq(X), NEW x \in X
      PROVE  Chars(Append(s, x)) = IF x = NL THEN Chars(s) ELSE More(Chars(s), x)
  <2>1. Append(s, x) \in Seq(X) /\ Chars(s) \in Seq(X)
    BY <1>2, <1>4, AppendProperties
  <2>2. Chars(Append(s, x)) = Chars(s) \o f[x]
    BY <1>2, <1>4, <2>1 DEF Value, Cat
  <2>3. CASE x = NL
    <3>1. Chars(s) \o << >> = Chars(s)
      BY <2>1, ConcatEmptySeq
    <3> QED BY <1>3, <2>2, <2>3, <3>1
  <2>4. CASE x # NL
    <3>1. Append(Chars(s), x) = Chars(s) \o <<x>>
      BY <2>1, AppendIsConcat
    <3> QED BY <1>3, <2>2, <2>4, <3>1 DEF More
  <2> QED BY <2>3, <2>4
<1>7. ASSUME NEW s \in Seq(X), NEW t \in Seq(X) PROVE Chars(s \o t) = Cat(Chars(s), Chars(t))
  BY <1>2, <1>4, ConcatProperties
<1> QED BY <1>2, <1>4, <1>5, <1>6, <1>7

(* Bytes of an output, and of the buffer.                                    *)
Byte == 0..MaxBytes
Bytes == Writers \X Byte

(* What one wrote of a text.                                                 *)
LEMMA OfFacts ==
  ASSUME NEW m
  PROVE  /\ Of(m, << >>) = << >>
         /\ \A s \in Seq(Bytes) : Of(m, s) \in Seq(Byte)
         /\ \A s, t \in Seq(Bytes) : Of(m, s \o t) = Cat(Of(m, s), Of(m, t))
         /\ \A s \in Seq(Bytes), a \in Writers, v \in Byte :
              Of(m, Append(s, <<a, v>>)) = IF a = m THEN More(Of(m, s), v) ELSE Of(m, s)
<1> DEFINE X == Bytes
           f == [b \in X |-> IF b[1] = m THEN <<b[2]>> ELSE << >>]
<1>0. /\ \A b \in X : b[2] \in Byte
      /\ \A a \in Writers, v \in Byte : <<a, v>> \in X /\ <<a, v>>[1] = a /\ <<a, v>>[2] = v
  BY DEF Bytes
<1> HIDE DEF X
<1>1. Into(f, X, Seq(Byte))
  <2>1. ASSUME NEW b \in X PROVE f[b] \in Seq(Byte)
    <3>1. << >> \in Seq(Byte) /\ <<b[2]>> \in Seq(Byte)
      BY <1>0, EmptySeq
    <3> QED BY <3>1
  <2>2. f = [b \in X |-> f[b]]
    OBVIOUS
  <2> HIDE DEF f
  <2> QED BY <2>1, <2>2 DEF Into
<1>2. ASSUME NEW s \in Seq(X) PROVE Of(m, s) = Joined(s, f)
  <2>1. \A i \in DOMAIN s : s[i] \in X
    BY LenProperties, ElementOfSeq
  <2>2. \A i \in DOMAIN s : f[s[i]] = IF s[i][1] = m THEN <<s[i][2]>> ELSE << >>
    BY <2>1
  <2>3. Mapped(s, f) = [i \in DOMAIN s |-> IF s[i][1] = m THEN <<s[i][2]>> ELSE << >>]
    BY <2>2 DEF Mapped
  <2> QED BY <2>3 DEF Of, Joined
<1>3. \A b \in X : f[b] = IF b[1] = m THEN <<b[2]>> ELSE << >>
  OBVIOUS
<1> HIDE DEF f
<1>4. /\ Joined(<< >>, f) = << >>
      /\ \A s \in Seq(X) : Joined(s, f) \in Seq(Byte)
      /\ \A s, t \in Seq(X) : Joined(s \o t, f) = Cat(Joined(s, f), Joined(t, f))
      /\ \A s \in Seq(X), x \in X : Joined(Append(s, x), f) = Cat(Joined(s, f), Value(f, x))
  BY <1>1, JoinedFacts
<1>5. << >> \in Seq(X)
  BY EmptySeq
<1>6. ASSUME NEW s \in Seq(X), NEW x \in X
      PROVE  Of(m, Append(s, x)) = IF x[1] = m THEN More(Of(m, s), x[2]) ELSE Of(m, s)
  <2>1. Append(s, x) \in Seq(X) /\ Of(m, s) \in Seq(Byte)
    BY <1>2, <1>4, AppendProperties
  <2>2. Of(m, Append(s, x)) = Of(m, s) \o f[x]
    BY <1>2, <1>4, <2>1 DEF Value, Cat
  <2>3. CASE x[1] # m
    <3>1. Of(m, s) \o << >> = Of(m, s)
      BY <2>1, ConcatEmptySeq
    <3> QED BY <1>3, <2>2, <2>3, <3>1
  <2>4. CASE x[1] = m
    <3>1. Append(Of(m, s), x[2]) = Of(m, s) \o <<x[2]>>
      BY <1>0, <2>1, AppendIsConcat
    <3> QED BY <1>3, <2>2, <2>4, <3>1 DEF More
  <2> QED BY <2>3, <2>4
<1>7. ASSUME NEW s \in Seq(X), NEW t \in Seq(X) PROVE Of(m, s \o t) = Cat(Of(m, s), Of(m, t))
  BY <1>2, <1>4, ConcatProperties
<1>8. ASSUME NEW s \in Seq(X), NEW a \in Writers, NEW v \in Byte
      PROVE  Of(m, Append(s, <<a, v>>)) = IF a = m THEN More(Of(m, s), v) ELSE Of(m, s)
  BY <1>0, <1>6
<1> QED BY <1>2, <1>4, <1>5, <1>7, <1>8 DEF X

(* A line with the name of who wrote it on each byte.                        *)
Signed(m, l) == [j \in DOMAIN l |-> <<m, l[j]>>]

LEMMA SignedFacts ==
  ASSUME NEW m \in Writers, NEW l \in Seq(Byte)
  PROVE  /\ Signed(m, l) \in Seq(Bytes) /\ Len(Signed(m, l)) = Len(l)
         /\ \A k : Of(k, Signed(m, l)) = IF k = m THEN l ELSE << >>
<1> DEFINE X == Bytes
<1>0. \A a \in Writers, v \in Byte : <<a, v>> \in X
  BY DEF Bytes
<1>1. ASSUME NEW s \in Seq(Byte) PROVE Signed(m, s) \in Seq(X) /\ Len(Signed(m, s)) = Len(s) /\ DOMAIN Signed(m, s) = 1..Len(s)
  <2> DEFINE n == Len(s)
             t == Signed(m, s)
  <2>1. n \in Nat /\ DOMAIN s = 1..n /\ \A i \in 1..n : s[i] \in Byte
    BY LenProperties, ElementOfSeq
  <2> HIDE DEF n
  <2>2. t \in [1..n -> X]
    BY <1>0, <2>1 DEF Signed
  <2> HIDE DEF t, X
  <2>3. t \in Seq(X) /\ Len(t) = n
    BY <2>1, <2>2, FunctionIsSeq
  <2> QED BY <2>2, <2>3 DEF t, n
<1> DEFINE P == {s \in Seq(Byte) : \A k : Of(k, Signed(m, s)) = IF k = m THEN s ELSE << >>}
<1>2. << >> \in P
  <2>1. << >> \in Seq(Byte) /\ Signed(m, << >>) = << >>
    BY EmptySeq DEF Signed
  <2> QED BY <2>1, OfFacts
<1>3. ASSUME NEW s \in Seq(Byte), NEW v \in Byte, s \in P PROVE Append(s, v) \in P
  <2> DEFINE b == <<m, v>>
             t == Append(s, v)
             r == Signed(m, s)
             n == Len(s)
  <2>1. t \in Seq(Byte) /\ Len(t) = n + 1 /\ n \in Nat /\ t[n + 1] = v /\ \A i \in 1..n : t[i] = s[i]
    BY AppendProperties, LenProperties
  <2>2. r \in Seq(X) /\ Len(r) = n /\ b \in X /\ \A i \in 1..n : r[i] = <<m, s[i]>>
    <3>1. \A i \in 1..n : r[i] = <<m, s[i]>>
      BY LenProperties DEF Signed
    <3> QED BY <1>0, <1>1, <3>1
  <2>3. /\ Append(r, b) \in Seq(X) /\ Len(Append(r, b)) = n + 1
        /\ \A i \in 1..n : Append(r, b)[i] = r[i]
        /\ Append(r, b)[n + 1] = b
    <3> HIDE DEF b, r, X
    <3> QED BY <2>2, AppendProperties
  <2>4. Signed(m, t) \in Seq(X) /\ Len(Signed(m, t)) = n + 1 /\ \A i \in 1..n + 1 : Signed(m, t)[i] = <<m, t[i]>>
    <3> HIDE DEF t, X
    <3>1. DOMAIN t = 1..n + 1
      BY <2>1, LenProperties
    <3> QED BY <1>1, <2>1, <3>1 DEF Signed
  <2>5. Signed(m, t) = Append(r, b)
    <3>1. ASSUME NEW i \in 1..n + 1 PROVE Signed(m, t)[i] = Append(r, b)[i]
      <4>1. i = n + 1 \/ i \in 1..n
        BY <2>1
      <4>2. CASE i = n + 1
        BY <2>1, <2>3, <2>4, <4>2
      <4>3. CASE i \in 1..n
        <5> HIDE DEF t, r, X
        <5> QED BY <2>1, <2>2, <2>3, <2>4, <4>3
      <4> QED BY <4>1, <4>2, <4>3
    <3> HIDE DEF t, r, b, X
    <3> QED BY <2>3, <2>4, <3>1, SeqEqual
  <2>6. ASSUME NEW k PROVE Of(k, Signed(m, t)) = IF k = m THEN t ELSE << >>
    <3>1. Of(k, Append(r, b)) = IF m = k THEN More(Of(k, r), v) ELSE Of(k, r)
      <4>1. r \in Seq(Bytes)
        BY <2>2
      <4> HIDE DEF r
      <4> QED BY <4>1, OfFacts
    <3>3. Of(k, r) = IF k = m THEN s ELSE << >>
      BY <1>3
    <3> HIDE DEF r, b
    <3> QED BY <2>5, <3>1, <3>3 DEF More
  <2> QED BY <2>1, <2>6
<1>4. Seq(Byte) \subseteq P
  <2> HIDE DEF P
  <2> QED BY <1>2, <1>3, SeqInductionSet
<1> QED BY <1>1, <1>4

(* What is whole of an output, as one text.                                  *)
Whole(s) == FlattenSeq(Lines(s))

LEMMA SubSeqKept ==
  ASSUME NEW X, NEW s \in Seq(X), NEW t \in Seq(X), NEW a \in 1..Len(s) + 1, NEW e \in 0..Len(s)
  PROVE  SubSeq(s \o t, a, e) = SubSeq(s, a, e)
<1>1. Len(s) \in Nat
  BY LenProperties
<1>2. CASE a <= e
  <2>1. a \in 1..Len(s) /\ e \in 1..Len(s)
    BY <1>1, <1>2
  <2> QED BY <2>1, SubSeqOfConcat1
<1>3. CASE e < a
  <2>1. SubSeq(s \o t, a, e) = << >> /\ SubSeq(s, a, e) = << >>
    BY <1>3, SubSeqEmpty
  <2> QED BY <2>1
<1> QED BY <1>1, <1>2, <1>3

(* The whole lines of an output have the characters up to its last newline.  *)
LEMMA WholeChars ==
  ASSUME NEW X, NL \in X, NEW s \in Seq(X)
  PROVE  Whole(s) \in Seq(X) /\ Chars(Whole(s)) = Chars(SubSeq(s, 1, EndOfLines(s)))
<1> DEFINE P == {t \in Seq(X) : /\ Chars(t) = Chars(Whole(t)) \o Rest(t)
                                /\ EndOfLines(t) \in 0..Len(t)
                                /\ Chars(Whole(t)) = Chars(SubSeq(t, 1, EndOfLines(t)))}
<1>0. ASSUME NEW t \in Seq(X) PROVE Whole(t) \in Seq(X)
  BY SplitType, FlattenType DEF Whole
<1>1. << >> \in P
  <2>1. << >> \in Seq(X) /\ Lines(<< >>) = << >> /\ Rest(<< >>) = << >> /\ Len(<< >>) = 0 /\ Chars(<< >>) = << >>
    BY EmptySeq, SplitEmpty, CharsFacts
  <2>2. Whole(<< >>) = << >>
    BY <2>1, FlattenEmpty DEF Whole
  <2>3. EndOfLines(<< >>) = 0
    BY DEF EndOfLines
  <2>4. SubSeq(<< >>, 1, 0) = << >>
    BY SubSeqEmpty
  <2>5. << >> \o << >> = << >>
    OBVIOUS
  <2>6. Chars(<< >>) = Chars(Whole(<< >>)) \o Rest(<< >>)
    BY <2>1, <2>2, <2>5
  <2>7. EndOfLines(<< >>) \in 0..Len(<< >>)
    BY <2>1, <2>3
  <2>8. Chars(Whole(<< >>)) = Chars(SubSeq(<< >>, 1, EndOfLines(<< >>)))
    BY <2>2, <2>3, <2>4
  <2> QED BY <2>1, <2>6, <2>7, <2>8
<1>2. ASSUME NEW t \in Seq(X), NEW x \in X, t \in P PROVE Append(t, x) \in P
  <2> DEFINE u == Append(t, x)
             n == Len(t)
             nl(r) == {i \in DOMAIN r : r[i] = NL}
  <2>1. /\ u \in Seq(X) /\ Len(u) = n + 1 /\ n \in Nat /\ u[n + 1] = x /\ \A i \in 1..n : u[i] = t[i]
        /\ DOMAIN u = 1..n + 1 /\ DOMAIN t = 1..n
    <3>1. u \in Seq(X) /\ Len(u) = n + 1 /\ n \in Nat /\ u[n + 1] = x /\ \A i \in 1..n : u[i] = t[i]
      BY AppendProperties, LenProperties
    <3> HIDE DEF u
    <3> QED BY <3>1, LenProperties
  <2>2. /\ Chars(t) = Chars(Whole(t)) \o Rest(t) /\ EndOfLines(t) \in 0..n
        /\ Chars(Whole(t)) = Chars(SubSeq(t, 1, EndOfLines(t)))
    BY <1>2
  <2>3. /\ Whole(t) \in Seq(X) /\ Rest(t) \in Seq(X) /\ Rest(t) \in Seq(X \ {NL}) /\ Lines(t) \in Seq(Seq(X))
        /\ Chars(Whole(t)) \in Seq(X) /\ Chars(t) \in Seq(X)
    BY <1>0, SplitType, CharsFacts
  <2>4. Chars(u) = IF x = NL THEN Chars(t) ELSE More(Chars(t), x)
    BY CharsFacts
  <2> HIDE DEF n
  <2>5. CASE x # NL
    <3>1. Lines(u) = Lines(t) /\ Rest(u) = Append(Rest(t), x)
      BY <2>5, SplitAppend
    <3>2. Whole(u) = Whole(t)
      BY <3>1 DEF Whole
    <3>3. Chars(u) = Chars(Whole(u)) \o Rest(u)
      <4>1. Chars(Whole(t)) \o Append(Rest(t), x) = Append(Chars(Whole(t)) \o Rest(t), x)
        BY <2>3, AppendConcat
      <4> QED BY <2>2, <2>4, <2>5, <3>1, <3>2, <4>1 DEF More
    <3>4. EndOfLines(u) = EndOfLines(t)
      <4> HIDE DEF u
      <4>1. nl(u) = nl(t)
        BY <2>1, <2>5
      <4> QED BY <4>1 DEF EndOfLines
    <3>5. SubSeq(u, 1, EndOfLines(t)) = SubSeq(t, 1, EndOfLines(t))
      <4>1. <<x>> \in Seq(X) /\ u = t \o <<x>> /\ 1 \in 1..Len(t) + 1
        BY <2>1, AppendIsConcat DEF n
      <4> HIDE DEF u
      <4> QED BY <2>2, <4>1, SubSeqKept DEF n
    <3>6. EndOfLines(u) \in 0..Len(u)
      BY <2>1, <2>2, <3>4
    <3>7. Chars(Whole(u)) = Chars(SubSeq(u, 1, EndOfLines(u)))
      BY <2>2, <3>2, <3>4, <3>5
    <3> QED BY <2>1, <3>3, <3>6, <3>7
  <2>6. CASE x = NL
    <3> DEFINE line == Append(Rest(t), NL)
    <3>1. /\ Lines(u) = IF Rest(t) = << >> THEN Lines(t) ELSE Append(Lines(t), line)
          /\ Rest(u) = << >>
      BY <2>6, SplitAppend
    <3>2. line \in Seq(X)
      BY <2>3, AppendProperties
    <3>3. Chars(Rest(t)) = Rest(t)
      <4> DEFINE Y == X \ {NL}
                 R == {r \in Seq(Y) : Chars(r) = r}
      <4>1. << >> \in R
        BY EmptySeq, CharsFacts
      <4>2. ASSUME NEW r \in Seq(Y), NEW v \in Y, r \in R PROVE Append(r, v) \in R
        <5>1. Append(r, v) \in Seq(Y) /\ v # NL
          BY AppendProperties
        <5>2. Chars(Append(r, v)) = More(Chars(r), v)
          <6> HIDE DEF Y
          <6> QED BY <5>1, CharsFacts
        <5> QED BY <4>2, <5>1, <5>2 DEF More
      <4>3. Seq(Y) \subseteq R
        <5> HIDE DEF Y, R
        <5> QED BY <4>1, <4>2, SeqInductionSet
      <4> QED BY <2>3, <4>3
    <3>4. Chars(line) = Rest(t)
      BY <2>3, <3>3, CharsFacts
    <3>5. Chars(Whole(u)) = Chars(t)
      <4>1. CASE Rest(t) = << >>
        <5>1. Whole(u) = Whole(t)
          BY <3>1, <4>1 DEF Whole
        <5>2. Chars(Whole(t)) \o << >> = Chars(Whole(t))
          BY <2>3, ConcatEmptySeq
        <5> QED BY <2>2, <4>1, <5>1, <5>2
      <4>2. CASE Rest(t) # << >>
        <5>1. Whole(u) = Whole(t) \o line
          <6> HIDE DEF line
          <6>1. FlattenSeq(Append(Lines(t), line)) = FlattenSeq(Lines(t)) \o line
            BY <2>3, <3>2, FlattenAppend
          <6> QED BY <3>1, <4>2, <6>1 DEF Whole
        <5>2. Chars(Whole(t) \o line) = Cat(Chars(Whole(t)), Chars(line))
          <6> HIDE DEF line
          <6> QED BY <2>3, <3>2, CharsFacts
        <5> QED BY <2>2, <3>4, <5>1, <5>2 DEF Cat
      <4> QED BY <4>1, <4>2
    <3>6. Chars(u) = Chars(Whole(u)) \o Rest(u)
      <4>1. Chars(t) \o << >> = Chars(t)
        BY <2>3, ConcatEmptySeq
      <4> QED BY <2>4, <2>6, <3>1, <3>5, <4>1
    <3>7. EndOfLines(u) = n + 1
      <4> HIDE DEF u
      <4>1. n + 1 \in nl(u) /\ \A i \in nl(u) : i \in Nat /\ i <= n + 1
        BY <2>1, <2>6
      <4>2. Max(nl(u)) = n + 1
        <5> DEFINE top(i) == i \in nl(u) /\ \A j \in nl(u) : i >= j
        <5>1. Max(nl(u)) = CHOOSE i : top(i)
          BY DEF Max
        <5>2. top(n + 1)
          BY <2>1, <4>1
        <5>3. \A i : top(i) => i = n + 1
          BY <2>1, <4>1
        <5> HIDE DEF top
        <5> QED BY <5>1, <5>2, <5>3
      <4> QED BY <4>1, <4>2 DEF EndOfLines
    <3>8. SubSeq(u, 1, n + 1) = u
      <4> HIDE DEF u
      <4> QED BY <2>1, SubSeqFull
    <3>9. Chars(Whole(u)) = Chars(SubSeq(u, 1, EndOfLines(u)))
      BY <2>4, <2>6, <3>5, <3>7, <3>8
    <3>10. EndOfLines(u) \in 0..Len(u)
      BY <2>1, <3>7
    <3> QED BY <2>1, <3>6, <3>9, <3>10
  <2> QED BY <2>5, <2>6
<1>3. Seq(X) \subseteq P
  <2> HIDE DEF P
  <2> QED BY <1>1, <1>2, SeqInductionSet
<1> QED BY <1>0, <1>3

-----------------------------------------------------------------------------
(* References into the first n bytes of the buffer, and their text.          *)
RefsTo(n) == {r \in Nat \X Nat : r[1] < r[2] /\ r[2] <= n}

LEMMA SliceFacts ==
  ASSUME NEW buf \in Seq(Bytes), NEW r \in RefsTo(Len(buf))
  PROVE  /\ Slice(buf, r) \in Seq(Bytes)
         /\ \A more \in Seq(Bytes) : Slice(buf \o more, r) = Slice(buf, r)
<1>1. /\ r[1] \in Nat /\ r[2] \in Nat /\ r[1] < r[2] /\ r[2] <= Len(buf) /\ Len(buf) \in Nat
  BY LenProperties DEF RefsTo
<1> DEFINE a == r[1] + 1
           e == r[2]
<1>2. a \in 1..Len(buf) + 1 /\ e \in 0..Len(buf) /\ a \in Int /\ e \in Int
  BY <1>1
<1>3. \A i \in a..e : buf[i] \in Bytes
  <2>1. \A i \in a..e : i \in 1..Len(buf)
    BY <1>1
  <2> QED BY <2>1, ElementOfSeq
<1>4. Slice(buf, r) = SubSeq(buf, a, e) /\ \A more : Slice(buf \o more, r) = SubSeq(buf \o more, a, e)
  BY DEF Slice
<1> HIDE DEF a, e
<1>5. SubSeq(buf, a, e) \in Seq(Bytes)
  BY <1>2, <1>3, SubSeqProperties
<1>6. \A more \in Seq(Bytes) : SubSeq(buf \o more, a, e) = SubSeq(buf, a, e)
  BY <1>2, SubSeqKept
<1> QED BY <1>4, <1>5, <1>6

LEMMA TextFacts ==
  ASSUME NEW buf \in Seq(Bytes)
  PROVE  /\ Text(buf, << >>) = << >>
         /\ \A rs \in Seq(RefsTo(Len(buf))) : Text(buf, rs) \in Seq(Bytes)
         /\ \A rs, qs \in Seq(RefsTo(Len(buf))) : Text(buf, rs \o qs) = Cat(Text(buf, rs), Text(buf, qs))
         /\ \A rs \in Seq(RefsTo(Len(buf))), r \in RefsTo(Len(buf)) :
              Text(buf, Append(rs, r)) = Cat(Text(buf, rs), Slice(buf, r))
<1> DEFINE X == RefsTo(Len(buf))
           f == [r \in X |-> Slice(buf, r)]
<1>1. Into(f, X, Seq(Bytes))
  <2>1. \A r \in X : f[r] \in Seq(Bytes)
    BY SliceFacts
  <2>2. f = [r \in X |-> f[r]]
    OBVIOUS
  <2> HIDE DEF f, X
  <2> QED BY <2>1, <2>2 DEF Into
<1>2. \A r \in X : f[r] = Slice(buf, r)
  OBVIOUS
<1> HIDE DEF f, X
<1>3. ASSUME NEW rs \in Seq(X) PROVE Text(buf, rs) = Joined(rs, f)
  <2>1. \A i \in DOMAIN rs : rs[i] \in X
    BY LenProperties, ElementOfSeq
  <2>2. Mapped(rs, f) = [i \in DOMAIN rs |-> Slice(buf, rs[i])]
    BY <1>2, <2>1 DEF Mapped
  <2> QED BY <2>2 DEF Text, Joined
<1>4. /\ Joined(<< >>, f) = << >>
      /\ \A s \in Seq(X) : Joined(s, f) \in Seq(Bytes)
      /\ \A s, t \in Seq(X) : Joined(s \o t, f) = Cat(Joined(s, f), Joined(t, f))
      /\ \A s \in Seq(X), x \in X : Joined(Append(s, x), f) = Cat(Joined(s, f), Value(f, x))
  BY <1>1, JoinedFacts
<1>5. << >> \in Seq(X)
  BY EmptySeq
<1>6. ASSUME NEW rs \in Seq(X), NEW qs \in Seq(X) PROVE Text(buf, rs \o qs) = Cat(Text(buf, rs), Text(buf, qs))
  BY <1>3, <1>4, ConcatProperties
<1>7. ASSUME NEW rs \in Seq(X), NEW r \in X PROVE Text(buf, Append(rs, r)) = Cat(Text(buf, rs), Slice(buf, r))
  <2>1. Append(rs, r) \in Seq(X) /\ Value(f, r) = Slice(buf, r)
    BY <1>2, AppendProperties DEF Value
  <2> QED BY <1>3, <1>4, <2>1
<1> QED BY <1>3, <1>4, <1>5, <1>6, <1>7 DEF X

(* The buffer only grows: what was written keeps its text.                   *)
LEMMA TextGrows ==
  ASSUME NEW buf \in Seq(Bytes), NEW more \in Seq(Bytes), NEW rs \in Seq(RefsTo(Len(buf)))
  PROVE  Text(buf \o more, rs) = Text(buf, rs) /\ rs \in Seq(RefsTo(Len(buf \o more)))
<1>1. \A i \in DOMAIN rs : rs[i] \in RefsTo(Len(buf))
  BY LenProperties, ElementOfSeq
<1>2. \A i \in DOMAIN rs : Slice(buf \o more, rs[i]) = Slice(buf, rs[i])
  BY <1>1, SliceFacts
<1>3. [i \in DOMAIN rs |-> Slice(buf \o more, rs[i])] = [i \in DOMAIN rs |-> Slice(buf, rs[i])]
  BY <1>2
<1>4. Text(buf \o more, rs) = Text(buf, rs)
  BY <1>3 DEF Text
<1>5. RefsTo(Len(buf)) \subseteq RefsTo(Len(buf \o more))
  <2>1. Len(buf) \in Nat /\ Len(buf \o more) \in Nat /\ Len(buf) <= Len(buf \o more)
    BY ConcatProperties, LenProperties
  <2> QED BY <2>1 DEF RefsTo
<1> QED BY <1>4, <1>5, SeqMonotonic

-----------------------------------------------------------------------------
(* The loop of appendOutput, line by line.                                   *)
Stores(u, n, m, ls) ==
  u = [i \in 0..n |-> IF i = 0 THEN [buf |-> rawBuf, new |-> << >>] ELSE Store(u[i - 1], m, ls[i])]

LEMMA StoresExist ==
  ASSUME NEW n \in Nat, NEW m, NEW ls
  PROVE  \E u : Stores(u, n, m, ls)
<1> DEFINE N == {k \in Nat : \E u : Stores(u, k, m, ls)}
           none == [buf |-> rawBuf, new |-> << >>]
<1>0. \A u, k : Stores(u, k, m, ls) <=> u = [i \in 0..k |-> IF i = 0 THEN none ELSE Store(u[i - 1], m, ls[i])]
  BY DEF Stores
<1> HIDE DEF none
<1>1. 0 \in N
  <2> DEFINE w == [i \in 0..0 |-> none]
  <2>1. w = [i \in 0..0 |-> IF i = 0 THEN none ELSE Store(w[i - 1], m, ls[i])]
    OBVIOUS
  <2> QED BY <1>0, <2>1
<1>2. ASSUME NEW k \in Nat, k \in N PROVE k + 1 \in N
  <2>1. PICK u : Stores(u, k, m, ls)
    BY <1>2
  <2> DEFINE w == [i \in 0..k + 1 |-> IF i = k + 1 THEN Store(u[k], m, ls[k + 1]) ELSE u[i]]
  <2>2. \A i \in 0..k + 1 : /\ i = k + 1 => w[i] = Store(u[k], m, ls[k + 1]) /\ i # 0 /\ i - 1 = k /\ w[i - 1] = u[k]
                            /\ i # k + 1 => w[i] = u[i] /\ i \in 0..k
                            /\ i # k + 1 /\ i # 0 => w[i - 1] = u[i - 1]
    BY <1>2
  <2>3. \A i \in 0..k : u[i] = IF i = 0 THEN none ELSE Store(u[i - 1], m, ls[i])
    BY <1>0, <2>1
  <2>4. w = [i \in 0..k + 1 |-> w[i]]
    OBVIOUS
  <2> HIDE DEF w
  <2>5. \A i \in 0..k + 1 : w[i] = IF i = 0 THEN none ELSE Store(w[i - 1], m, ls[i])
    BY <2>2, <2>3
  <2>6. Stores(w, k + 1, m, ls)
    <3>1. w = [i \in 0..k + 1 |-> IF i = 0 THEN none ELSE Store(w[i - 1], m, ls[i])]
      BY <2>4, <2>5
    <3> QED BY <1>0, <3>1
  <2> QED BY <2>6
<1>3. Nat \subseteq N
  <2> HIDE DEF N
  <2> QED BY <1>1, <1>2, NatInductionSet
<1> QED BY <1>3

LEMMA StoresAgree ==
  ASSUME NEW k \in Nat, NEW n \in Nat, NEW m, NEW s, NEW t, NEW u, NEW v,
         Stores(u, k, m, s), Stores(v, n, m, t), k <= n, \A i \in 1..k : s[i] = t[i]
  PROVE  u[k] = v[k]
<1> DEFINE N == {i \in Nat : i <= k => u[i] = v[i]}
           none == [buf |-> rawBuf, new |-> << >>]
<1>1. /\ \A i \in 0..k : u[i] = IF i = 0 THEN none ELSE Store(u[i - 1], m, s[i])
      /\ \A i \in 0..n : v[i] = IF i = 0 THEN none ELSE Store(v[i - 1], m, t[i])
  BY DEF Stores
<1> HIDE DEF none
<1>2. 0 \in N
  <2>1. 0 \in 0..k /\ 0 \in 0..n
    OBVIOUS
  <2> QED BY <1>1, <2>1
<1>3. ASSUME NEW i \in Nat, i \in N PROVE i + 1 \in N
  <2> SUFFICES ASSUME i + 1 <= k PROVE u[i + 1] = v[i + 1]
    OBVIOUS
  <2>1. i + 1 \in 0..k /\ i + 1 \in 0..n /\ i + 1 # 0 /\ (i + 1) - 1 = i /\ i + 1 \in 1..k /\ i <= k
    OBVIOUS
  <2>2. u[i] = v[i]
    BY <1>3, <2>1
  <2>3. u[i + 1] = Store(u[i], m, s[i + 1])
    BY <1>1, <2>1
  <2>4. v[i + 1] = Store(v[i], m, t[i + 1])
    BY <1>1, <2>1
  <2> QED BY <2>1, <2>2, <2>3, <2>4
<1>4. Nat \subseteq N
  <2> HIDE DEF N
  <2> QED BY <1>2, <1>3, NatInductionSet
<1> QED BY <1>4

LEMMA StoredStores ==
  ASSUME NEW m, NEW ls, Len(ls) \in Nat
  PROVE  \E u : Stores(u, Len(ls), m, ls) /\ Stored(m, ls) = u[Len(ls)]
<1> DEFINE w == CHOOSE u : Stores(u, Len(ls), m, ls)
<1>1. Stores(w, Len(ls), m, ls)
  BY StoresExist
<1>2. Stored(m, ls) = w[Len(ls)]
  BY DEF Stored, Stores
<1> HIDE DEF w
<1> QED BY <1>1, <1>2

LEMMA StoredEmpty == ASSUME NEW m PROVE Stored(m, << >>) = [buf |-> rawBuf, new |-> << >>]
<1>1. Len(<< >>) = 0
  BY EmptySeq
<1>2. PICK u : Stores(u, 0, m, << >>) /\ Stored(m, << >>) = u[0]
  BY <1>1, StoredStores
<1>3. u[0] = [buf |-> rawBuf, new |-> << >>]
  <2>1. 0 \in 0..0
    OBVIOUS
  <2> QED BY <1>2, <2>1 DEF Stores
<1> QED BY <1>2, <1>3

LEMMA StoredAppend ==
  ASSUME NEW X, NEW s \in Seq(X), NEW x \in X, NEW m
  PROVE  Stored(m, Append(s, x)) = Store(Stored(m, s), m, x)
<1> DEFINE t == Append(s, x)
           n == Len(s)
<1>1. n \in Nat /\ Len(t) = n + 1 /\ t[n + 1] = x /\ \A i \in 1..n : t[i] = s[i]
  BY LenProperties, AppendProperties
<1> HIDE DEF t
<1>2. PICK u : Stores(u, n, m, s) /\ Stored(m, s) = u[n]
  BY <1>1, StoredStores
<1>3. PICK v : Stores(v, n + 1, m, t) /\ Stored(m, t) = v[n + 1]
  <2>1. Len(t) \in Nat
    BY <1>1
  <2> QED BY <1>1, <2>1, StoredStores
<1> HIDE DEF n
<1>4. v[n] = u[n]
  <2>1. n + 1 \in Nat /\ n <= n + 1
    BY <1>1
  <2> QED BY <1>1, <1>2, <1>3, <2>1, StoresAgree
<1>5. v[n + 1] = Store(v[n], m, t[n + 1])
  <2>1. n + 1 \in 0..n + 1 /\ n + 1 # 0 /\ (n + 1) - 1 = n
    BY <1>1
  <2> QED BY <1>3, <2>1 DEF Stores
<1> QED BY <1>1, <1>2, <1>3, <1>4, <1>5 DEF t

(* Lines of bytes, as they are put into the buffer by one writer.            *)
LogLine == {l \in Seq(Byte) : l # << >>}
Out(m, ls) == FlattenSeq([i \in DOMAIN ls |-> Signed(m, ls[i])])

LEMMA OutFacts ==
  ASSUME NEW m \in Writers
  PROVE  /\ Out(m, << >>) = << >>
         /\ \A ls \in Seq(LogLine) : Out(m, ls) \in Seq(Bytes)
         /\ \A ls \in Seq(LogLine), l \in LogLine : Out(m, Append(ls, l)) = Cat(Out(m, ls), Signed(m, l))
<1> DEFINE f == [l \in LogLine |-> Signed(m, l)]
<1>1. Into(f, LogLine, Seq(Bytes))
  <2>1. \A l \in LogLine : f[l] \in Seq(Bytes)
    <3>1. \A l \in LogLine : l \in Seq(Byte) /\ f[l] = Signed(m, l)
      BY DEF LogLine
    <3> HIDE DEF f
    <3> QED BY <3>1, SignedFacts
  <2>2. f = [l \in LogLine |-> f[l]]
    OBVIOUS
  <2> HIDE DEF f
  <2> QED BY <2>1, <2>2 DEF Into
<1>2. \A l \in LogLine : f[l] = Signed(m, l)
  OBVIOUS
<1> HIDE DEF f
<1>3. ASSUME NEW ls \in Seq(LogLine) PROVE Out(m, ls) = Joined(ls, f)
  <2>1. \A i \in DOMAIN ls : ls[i] \in LogLine
    BY LenProperties, ElementOfSeq
  <2>2. Mapped(ls, f) = [i \in DOMAIN ls |-> Signed(m, ls[i])]
    BY <1>2, <2>1 DEF Mapped
  <2> QED BY <2>2 DEF Out, Joined
<1>4. /\ Joined(<< >>, f) = << >>
      /\ \A s \in Seq(LogLine) : Joined(s, f) \in Seq(Bytes)
      /\ \A s \in Seq(LogLine), x \in LogLine : Joined(Append(s, x), f) = Cat(Joined(s, f), Value(f, x))
  BY <1>1, JoinedFacts
<1>5. << >> \in Seq(LogLine)
  BY EmptySeq
<1>6. ASSUME NEW ls \in Seq(LogLine), NEW l \in LogLine PROVE Out(m, Append(ls, l)) = Cat(Out(m, ls), Signed(m, l))
  <2>1. Append(ls, l) \in Seq(LogLine) /\ Value(f, l) = Signed(m, l)
    BY <1>2, AppendProperties DEF Value
  <2> QED BY <1>3, <1>4, <2>1
<1> QED BY <1>3, <1>4, <1>5, <1>6

(* The reference to what was put last reads it.                              *)
LEMMA SliceLast ==
  ASSUME NEW buf \in Seq(Bytes), NEW s \in Seq(Bytes), s # << >>
  PROVE  /\ <<Len(buf), Len(buf) + Len(s)>> \in RefsTo(Len(Cat(buf, s)))
         /\ Slice(Cat(buf, s), <<Len(buf), Len(buf) + Len(s)>>) = s
<1> DEFINE n == Len(buf)
           k == Len(s)
           t == Cat(buf, s)
<1>1. /\ n \in Nat /\ k \in Nat /\ k > 0 /\ t \in Seq(Bytes) /\ Len(t) = n + k
      /\ \A i \in 1 .. n + k : t[i] = IF i <= n THEN buf[i] ELSE s[i - n]
  BY LenProperties, EmptySeq, ConcatProperties DEF Cat
<1> HIDE DEF n, k, t
<1>2. <<n, n + k>> \in RefsTo(Len(t))
  BY <1>1 DEF RefsTo
<1>3. Slice(t, <<n, n + k>>) = SubSeq(t, n + 1, n + k)
  BY DEF Slice
<1> DEFINE a == n + 1
           e == n + k
           w == SubSeq(t, a, e)
<1>4. a \in Int /\ e \in Int /\ a <= e /\ e - a + 1 = k
  BY <1>1
<1>5. \A i \in a..e : t[i] \in Bytes
  <2>1. \A i \in a..e : i \in 1..Len(t)
    BY <1>1
  <2> QED BY <1>1, <2>1, ElementOfSeq
<1>6. \A i \in 1..k : t[a + i - 1] = s[i]
  <2>1. \A i \in 1..k : /\ a + i - 1 = n + i /\ n + i \in 1..n + k
                        /\ ~(n + i <= n) /\ (n + i) - n = i
    BY <1>1
  <2> QED BY <1>1, <2>1
<1> HIDE DEF a, e
<1>7. w \in Seq(Bytes) /\ Len(w) = k /\ \A i \in 1..k : w[i] = t[a + i - 1]
  BY <1>4, <1>5, SubSeqProperties
<1>8. \A i \in 1..k : w[i] = s[i]
  BY <1>6, <1>7
<1> HIDE DEF w
<1>9. w = s
  BY <1>7, <1>8, SeqEqual DEF k
<1> QED BY <1>2, <1>3, <1>9 DEF w, a, e, n, k, t

(* What the loop has made when it is through: the lines are behind what the  *)
(* buffer had, the references are to them, and read them.                    *)
IsStored(st, m, ls) ==
  /\ st.buf = Cat(rawBuf, Out(m, ls)) /\ st.buf \in Seq(Bytes)
  /\ st.new \in Seq(RefsTo(Len(st.buf)))
  /\ \A i \in DOMAIN st.new : st.new[i][1] >= Len(rawBuf)
  /\ st.new # << >> => Last(st.new)[2] = Len(st.buf)
  /\ st.new = << >> => st.buf = rawBuf
  /\ Text(st.buf, st.new) = Out(m, ls)

LEMMA StoreKeeps ==
  ASSUME rawBuf \in Seq(Bytes), NEW m \in Writers, NEW ls \in Seq(LogLine), NEW l \in LogLine,
         NEW st, IsStored(st, m, ls)
  PROVE  IsStored(Store(st, m, l), m, Append(ls, l))
<1> DEFINE s == Signed(m, l)
           o == Out(m, ls)
           b == st.buf
           r == <<Len(b), Len(b) + Len(s)>>
           rs == st.new
           b2 == Cat(b, s)
           rs2 == Append(rs, r)
           st2 == Store(st, m, l)
           X == RefsTo(Len(b2))
<1>1. /\ b = Cat(rawBuf, o) /\ b \in Seq(Bytes) /\ rs \in Seq(RefsTo(Len(b)))
      /\ \A i \in DOMAIN rs : rs[i][1] >= Len(rawBuf)
      /\ Text(b, rs) = o
  BY DEF IsStored
<1>2. s \in Seq(Bytes) /\ Len(s) = Len(l) /\ Len(l) \in Nat /\ s # << >>
  <2>1. l \in Seq(Byte) /\ l # << >>
    BY DEF LogLine
  <2>2. s \in Seq(Bytes) /\ Len(s) = Len(l)
    BY <2>1, SignedFacts
  <2>3. Len(l) \in Nat \ {0}
    BY <2>1, EmptySeq
  <2> HIDE DEF s
  <2>4. s # << >>
    BY <2>2, <2>3, EmptySeq
  <2> QED BY <2>2, <2>3, <2>4
<1>3. o \in Seq(Bytes) /\ Out(m, Append(ls, l)) = Cat(o, s)
  BY OutFacts
<1>4. st2.buf = b2 /\ st2.new = rs2
  BY <1>2 DEF Store, Signed, Cat
<1> HIDE DEF s, o, b, rs, st2, rs2, b2
<1>5. b2 \in Seq(Bytes) /\ Len(b2) = Len(b) + Len(s) /\ Len(b) \in Nat /\ Len(s) \in Nat /\ Len(b) >= Len(rawBuf)
  <2>1. b2 \in Seq(Bytes) /\ Len(b2) = Len(b) + Len(s) /\ Len(b) \in Nat /\ Len(s) \in Nat
    BY <1>1, <1>2, ConcatProperties, LenProperties DEF b2, Cat
  <2>2. Len(rawBuf \o o) = Len(rawBuf) + Len(o) /\ Len(rawBuf) \in Nat /\ Len(o) \in Nat
    BY <1>3, ConcatProperties, LenProperties
  <2> QED BY <1>1, <2>1, <2>2 DEF Cat
<1>6. b2 = Cat(rawBuf, Cat(o, s))
  <2>1. (rawBuf \o o) \o s = rawBuf \o (o \o s)
    BY <1>2, <1>3, ConcatAssociative, SMTT(30)
  <2> QED BY <1>1, <2>1 DEF b2, Cat
<1>7. r \in X /\ Slice(b2, r) = s
  BY <1>1, <1>2, SliceLast DEF b2
<1>8. Text(b2, rs) = o /\ rs \in Seq(X)
  BY <1>1, <1>2, TextGrows DEF b2, Cat
<1>9. r[1] = Len(b) /\ r[2] = Len(b) + Len(s)
  OBVIOUS
<1> HIDE DEF r, X
<1>10. /\ rs2 \in Seq(X) /\ rs2 # << >> /\ Len(rs2) = Len(rs) + 1 /\ Len(rs) \in Nat
       /\ \A i \in 1..Len(rs) : rs2[i] = rs[i]
       /\ rs2[Len(rs) + 1] = r
  BY <1>7, <1>8, AppendProperties, LenProperties DEF rs2
<1>11. Text(b2, rs2) = Cat(o, s)
  BY <1>5, <1>7, <1>8, TextFacts DEF rs2, X
<1>12. \A i \in DOMAIN rs2 : rs2[i][1] >= Len(rawBuf)
  <2>1. DOMAIN rs2 = 1..Len(rs) + 1 /\ DOMAIN rs = 1..Len(rs)
    BY <1>8, <1>10, LenProperties
  <2>2. ASSUME NEW i \in DOMAIN rs2 PROVE rs2[i][1] >= Len(rawBuf)
    <3>1. i \in 1..Len(rs) \/ i = Len(rs) + 1
      BY <1>10, <2>1
    <3>2. CASE i \in 1..Len(rs)
      BY <1>1, <1>10, <2>1, <3>2
    <3>3. CASE i = Len(rs) + 1
      BY <1>5, <1>9, <1>10, <3>3
    <3> QED BY <3>1, <3>2, <3>3
  <2> QED BY <2>2
<1>13. Last(rs2)[2] = Len(b2)
  BY <1>5, <1>9, <1>10 DEF Last
<1>14. IsStored(st2, m, Append(ls, l))
  BY <1>3, <1>4, <1>5, <1>6, <1>10, <1>11, <1>12, <1>13 DEF IsStored, X
<1> QED BY <1>14 DEF st2

LEMMA StoredFacts ==
  ASSUME rawBuf \in Seq(Bytes), NEW m \in Writers, NEW ls \in Seq(LogLine)
  PROVE  IsStored(Stored(m, ls), m, ls)
<1> DEFINE P == {t \in Seq(LogLine) : IsStored(Stored(m, t), m, t)}
<1>1. << >> \in P
  <2> DEFINE st == Stored(m, << >>)
  <2>1. st.buf = rawBuf /\ st.new = << >>
    BY StoredEmpty
  <2>2. Out(m, << >>) = << >> /\ Cat(rawBuf, << >>) = rawBuf
    BY OutFacts, ConcatEmptySeq DEF Cat
  <2>3. Text(rawBuf, << >>) = << >> /\ << >> \in Seq(RefsTo(Len(rawBuf))) /\ << >> \in Seq(LogLine)
    BY TextFacts, EmptySeq
  <2>4. DOMAIN << >> = {}
    OBVIOUS
  <2> HIDE DEF st
  <2> QED BY <2>1, <2>2, <2>3, <2>4 DEF IsStored, st
<1>2. ASSUME NEW t \in Seq(LogLine), NEW l \in LogLine, t \in P PROVE Append(t, l) \in P
  <2>1. Append(t, l) \in Seq(LogLine) /\ Stored(m, Append(t, l)) = Store(Stored(m, t), m, l)
    BY AppendProperties, StoredAppend
  <2>2. IsStored(Store(Stored(m, t), m, l), m, Append(t, l))
    BY <1>2, StoreKeeps
  <2> QED BY <2>1, <2>2
<1>3. Seq(LogLine) \subseteq P
  <2> HIDE DEF P
  <2> QED BY <1>1, <1>2, SeqInductionSet
<1> QED BY <1>3

(* Whose bytes the lines of one writer are, as many as there are.            *)
LEMMA OfOut ==
  ASSUME NEW m \in Writers, NEW ls \in Seq(LogLine)
  PROVE  FlattenSeq(ls) \in Seq(Byte) /\ \A k : Of(k, Out(m, ls)) = IF k = m THEN FlattenSeq(ls) ELSE << >>
<1>0. ASSUME NEW t \in Seq(LogLine) PROVE t \in Seq(Seq(Byte)) /\ FlattenSeq(t) \in Seq(Byte)
  <2>1. LogLine \subseteq Seq(Byte)
    BY DEF LogLine
  <2>2. t \in Seq(Seq(Byte))
    BY <2>1, SeqMonotonic
  <2> QED BY <2>2, FlattenType
<1> DEFINE P == {t \in Seq(LogLine) : \A k : Of(k, Out(m, t)) = IF k = m THEN FlattenSeq(t) ELSE << >>}
<1>1. << >> \in P
  <2>1. << >> \in Seq(LogLine) /\ Out(m, << >>) = << >>
    BY EmptySeq, OutFacts
  <2> QED BY <2>1, OfFacts, FlattenEmpty
<1>2. ASSUME NEW t \in Seq(LogLine), NEW l \in LogLine, t \in P PROVE Append(t, l) \in P
  <2>1. Append(t, l) \in Seq(LogLine) /\ l \in Seq(Byte)
    BY AppendProperties DEF LogLine
  <2> DEFINE o == Out(m, t)
             s == Signed(m, l)
  <2>2. o \in Seq(Bytes) /\ s \in Seq(Bytes) /\ Out(m, Append(t, l)) = Cat(o, s)
    BY <2>1, OutFacts, SignedFacts
  <2>3. FlattenSeq(Append(t, l)) = FlattenSeq(t) \o l
    BY <1>0, <2>1, FlattenAppend
  <2>4. ASSUME NEW k PROVE Of(k, Out(m, Append(t, l))) = IF k = m THEN FlattenSeq(Append(t, l)) ELSE << >>
    <3>1. Of(k, o) = IF k = m THEN FlattenSeq(t) ELSE << >>
      BY <1>2
    <3>2. Of(k, s) = IF k = m THEN l ELSE << >>
      BY <2>1, SignedFacts
    <3> HIDE DEF o, s
    <3>3. Of(k, o \o s) = Cat(Of(k, o), Of(k, s))
      BY <2>2, OfFacts
    <3>4. << >> \o << >> = << >>
      OBVIOUS
    <3>5. Of(k, Out(m, Append(t, l))) = Of(k, o) \o Of(k, s)
      BY <2>2, <3>3 DEF Cat
    <3>6. CASE k = m
      BY <2>3, <3>1, <3>2, <3>5, <3>6
    <3>7. CASE k # m
      BY <3>1, <3>2, <3>4, <3>5, <3>7
    <3> QED BY <3>6, <3>7
  <2> QED BY <2>1, <2>4
<1>3. Seq(LogLine) \subseteq P
  <2> HIDE DEF P
  <2> QED BY <1>1, <1>2, SeqInductionSet
<1> QED BY <1>0, <1>3

(* A text of whole lines: each character is followed by the next one of its  *)
(* writer or by a newline, which follows one.                                *)
Shaped(t) ==
  \A i \in DOMAIN t :
    /\ t[i][2] # NL => /\ i < Len(t) /\ t[i + 1][1] = t[i][1]
                       /\ t[i + 1][2] \in {NL, t[i][2] + 1}
    /\ t[i][2] = NL => i > 1 /\ t[i - 1][2] # NL

LEMMA ShapedConcat ==
  ASSUME NEW s \in Seq(Bytes), NEW t \in Seq(Bytes), Shaped(s), Shaped(t)
  PROVE  Shaped(s \o t)
<1> DEFINE n == Len(s)
           k == Len(t)
           w == s \o t
<1>1. /\ n \in Nat /\ k \in Nat /\ DOMAIN s = 1..n /\ DOMAIN t = 1..k /\ DOMAIN w = 1..n + k /\ Len(w) = n + k
      /\ \A i \in 1..n + k : w[i] = IF i <= n THEN s[i] ELSE t[i - n]
  BY ConcatProperties, LenProperties
<1> HIDE DEF n, k, w
<1>2. \A i \in 1..n : w[i] = s[i]
  BY <1>1
<1>3. \A i \in 1..k : w[n + i] = t[i]
  <2>1. \A i \in 1..k : n + i \in 1..n + k /\ ~(n + i <= n) /\ (n + i) - n = i
    BY <1>1
  <2> QED BY <1>1, <2>1
<1>4. ASSUME NEW i \in DOMAIN w
      PROVE  /\ w[i][2] # NL => /\ i < Len(w) /\ w[i + 1][1] = w[i][1] /\ w[i + 1][2] \in {NL, w[i][2] + 1}
             /\ w[i][2] = NL => i > 1 /\ w[i - 1][2] # NL
  <2>1. CASE i \in 1..n
    <3>1. /\ s[i][2] # NL => i < n /\ s[i + 1][1] = s[i][1] /\ s[i + 1][2] \in {NL, s[i][2] + 1}
          /\ s[i][2] = NL => i > 1 /\ s[i - 1][2] # NL
      BY <1>1, <2>1 DEF Shaped, n
    <3>2. /\ w[i] = s[i] /\ (i < n => w[i + 1] = s[i + 1] /\ i < Len(w))
          /\ i > 1 => w[i - 1] = s[i - 1]
      <4>1. i < n => i + 1 \in 1..n
        BY <1>1, <2>1
      <4>2. i > 1 => i - 1 \in 1..n
        BY <1>1, <2>1
      <4> QED BY <1>1, <1>2, <2>1, <4>1, <4>2
    <3> QED BY <3>1, <3>2
  <2>2. CASE i \notin 1..n
    <3>1. PICK j \in 1..k : i = n + j
      <4>1. i - n \in 1..k /\ i = n + (i - n)
        BY <1>1, <2>2
      <4> QED BY <4>1
    <3>2. /\ t[j][2] # NL => j < k /\ t[j + 1][1] = t[j][1] /\ t[j + 1][2] \in {NL, t[j][2] + 1}
          /\ t[j][2] = NL => j > 1 /\ t[j - 1][2] # NL
      BY <1>1 DEF Shaped, k
    <3>3. /\ w[i] = t[j] /\ (j < k => w[i + 1] = t[j + 1] /\ i < Len(w))
          /\ j > 1 => w[i - 1] = t[j - 1] /\ i > 1
      <4>1. j < k => j + 1 \in 1..k /\ i + 1 = n + (j + 1) /\ i < n + k
        BY <1>1, <3>1
      <4>2. j > 1 => j - 1 \in 1..k /\ i - 1 = n + (j - 1) /\ i > 1
        BY <1>1, <3>1
      <4> QED BY <1>1, <1>3, <3>1, <4>1, <4>2
    <3> QED BY <3>2, <3>3
  <2> QED BY <2>1, <2>2
<1>5. Shaped(w)
  BY <1>4 DEF Shaped
<1> QED BY <1>5 DEF w

(* The same of a line by itself.                                             *)
Fine == {l \in LogLine : \A i \in 1..Len(l) :
           /\ l[i] # NL => i < Len(l) /\ l[i + 1] \in {NL, l[i] + 1}
           /\ l[i] = NL => i > 1 /\ l[i - 1] # NL}

LEMMA SignedShaped ==
  ASSUME NEW m \in Writers, NEW l \in Fine
  PROVE  Shaped(Signed(m, l))
<1> DEFINE s == Signed(m, l)
           n == Len(l)
<1>1. /\ l \in Seq(Byte) /\ n \in Nat
      /\ \A i \in 1..n : /\ l[i] # NL => i < n /\ l[i + 1] \in {NL, l[i] + 1}
                         /\ l[i] = NL => i > 1 /\ l[i - 1] # NL
  BY LenProperties DEF Fine, LogLine
<1>2. s \in Seq(Bytes) /\ Len(s) = n
  BY <1>1, SignedFacts
<1>3. \A i \in 1..n : s[i] = <<m, l[i]>>
  BY <1>1, LenProperties DEF Signed
<1>4. DOMAIN s = 1..n
  BY <1>2, LenProperties
<1>5. \A i \in 1..n : s[i][1] = m /\ s[i][2] = l[i]
  BY <1>3
<1> HIDE DEF s, n
<1>6. ASSUME NEW i \in 1..n
      PROVE  /\ s[i][2] # NL => /\ i < Len(s) /\ s[i + 1][1] = s[i][1] /\ s[i + 1][2] \in {NL, s[i][2] + 1}
             /\ s[i][2] = NL => i > 1 /\ s[i - 1][2] # NL
  <2>1. i < n => i + 1 \in 1..n
    BY <1>1
  <2>2. i > 1 => i - 1 \in 1..n
    BY <1>1
  <2> QED BY <1>1, <1>2, <1>5, <2>1, <2>2
<1> QED BY <1>4, <1>6 DEF Shaped, s

LEMMA OutShaped ==
  ASSUME NEW m \in Writers, NEW ls \in Seq(Fine)
  PROVE  Shaped(Out(m, ls))
<1> DEFINE P == {t \in Seq(Fine) : Shaped(Out(m, t))}
<1>1. << >> \in P
  <2>1. << >> \in Seq(Fine) /\ Out(m, << >>) = << >>
    BY EmptySeq, OutFacts
  <2>2. Shaped(<< >>)
    BY DEF Shaped
  <2> QED BY <2>1, <2>2
<1>2. ASSUME NEW t \in Seq(Fine), NEW l \in Fine, t \in P PROVE Append(t, l) \in P
  <2>1. Append(t, l) \in Seq(Fine) /\ t \in Seq(LogLine) /\ l \in LogLine /\ l \in Seq(Byte)
    <3>1. Fine \subseteq LogLine /\ l \in LogLine /\ l \in Seq(Byte)
      BY DEF Fine, LogLine
    <3> QED BY <3>1, AppendProperties, SeqMonotonic
  <2>2. /\ Out(m, t) \in Seq(Bytes) /\ Signed(m, l) \in Seq(Bytes)
        /\ Out(m, Append(t, l)) = Cat(Out(m, t), Signed(m, l))
    BY <2>1, OutFacts, SignedFacts
  <2>3. Shaped(Out(m, t)) /\ Shaped(Signed(m, l))
    BY <1>2, SignedShaped
  <2>4. Shaped(Out(m, t) \o Signed(m, l))
    BY <2>2, <2>3, ShapedConcat
  <2> QED BY <2>1, <2>2, <2>4 DEF Cat
<1>3. Seq(Fine) \subseteq P
  <2> HIDE DEF P
  <2> QED BY <1>1, <1>2, SeqInductionSet
<1> QED BY <1>3

(* An output whose characters are numbered by their places is split to such  *)
(* lines.                                                                    *)
Placed(s) == \A i \in 1..Len(s) : s[i] \in {NL, i}

LEMMA LinesFine ==
  ASSUME MaxBytes \in Nat, NEW s \in Seq(Byte), Placed(s)
  PROVE  Lines(s) \in Seq(Fine)
<1> DEFINE Good(t) == /\ Lines(t) \in Seq(Fine)
                      /\ \A j \in 1..Len(Rest(t)) : /\ Len(Rest(t)) <= Len(t)
                                                    /\ Rest(t)[j] = Len(t) - Len(Rest(t)) + j
           P == {t \in Seq(Byte) : Placed(t) => Good(t)}
<1>0. NL \in Byte
  BY DEF NL, Byte
<1>1. << >> \in P
  <2>1. << >> \in Seq(Byte) /\ << >> \in Seq(Fine) /\ Len(<< >>) = 0
    BY EmptySeq
  <2>2. Lines(<< >>) = << >> /\ Rest(<< >>) = << >>
    BY SplitEmpty
  <2>3. \A j \in 1..0 : FALSE
    OBVIOUS
  <2>4. Good(<< >>)
    BY <2>1, <2>2, <2>3, Zenon
  <2> QED BY <2>1, <2>4
<1>2. ASSUME NEW t \in Seq(Byte), NEW x \in Byte, t \in P PROVE Append(t, x) \in P
  <2> DEFINE tx == Append(t, x)
             n == Len(t)
             q == Rest(t)
             k == Len(q)
             qx == Append(q, x)
  <2>1. /\ tx \in Seq(Byte) /\ Len(tx) = n + 1 /\ n \in Nat /\ tx[n + 1] = x
        /\ \A i \in 1..n : tx[i] = t[i]
    BY AppendProperties, LenProperties
  <2> HIDE DEF tx
  <2> SUFFICES ASSUME Placed(tx) PROVE Good(tx)
    BY <2>1 DEF tx
  <2>2. Placed(t) /\ x \in {NL, n + 1}
    <3>1. \A i \in 1..n : i \in 1..n + 1
      BY <2>1
    <3>2. n + 1 \in 1..n + 1
      BY <2>1
    <3> QED BY <2>1, <3>1, <3>2 DEF Placed
  <2>3. Good(t)
    BY <1>2, <2>2
  <2>4. q \in Seq(Byte \ {NL}) /\ q \in Seq(Byte) /\ k \in Nat
    BY <1>0, SplitType, LenProperties
  <2>5. /\ qx \in Seq(Byte) /\ Len(qx) = k + 1 /\ qx # << >>
        /\ \A j \in 1..k : qx[j] = q[j]
        /\ qx[k + 1] = x
    BY <2>4, AppendProperties
  <2>6. \A j \in 1..k : q[j] # NL /\ q[j] = n - k + j /\ k <= n
    BY <2>3, <2>4, ElementOfSeq
  <2>7. CASE x # NL
    <3>1. Lines(tx) = Lines(t) /\ Rest(tx) = qx
      BY <2>7, SplitAppend DEF tx
    <3>2. x = n + 1 /\ k <= n
      <4>1. k # 0 => k <= n
        BY <2>4, <2>6
      <4> QED BY <2>1, <2>2, <2>4, <2>7, <4>1
    <3> HIDE DEF qx, q, k, n
    <3>3. ASSUME NEW j \in 1..k + 1 PROVE k + 1 <= n + 1 /\ qx[j] = (n + 1) - (k + 1) + j
      <4>1. CASE j \in 1..k
        <5>1. n - k + j = (n + 1) - (k + 1) + j
          BY <2>1, <2>4, <4>1
        <5> QED BY <2>1, <2>4, <2>5, <2>6, <3>2, <4>1, <5>1
      <4>2. CASE j = k + 1
        <5>1. n + 1 = (n + 1) - (k + 1) + (k + 1)
          BY <2>1, <2>4
        <5> QED BY <2>1, <2>4, <2>5, <3>2, <4>2, <5>1
      <4> QED BY <2>4, <4>1, <4>2
    <3> QED BY <2>1, <2>3, <2>5, <3>1, <3>3
  <2>8. CASE x = NL
    <3>1. /\ Lines(tx) = IF q = << >> THEN Lines(t) ELSE Append(Lines(t), qx)
          /\ Rest(tx) = << >>
      BY <2>8, SplitAppend DEF tx
    <3>2. Len(<< >>) = 0
      OBVIOUS
    <3>3. q # << >> => k > 0
      BY <2>4, EmptySeq
    <3> HIDE DEF qx, q, k, n
    <3>4. ASSUME q # << >> PROVE qx \in Fine
      <4>1. qx \in LogLine
        BY <2>5 DEF LogLine
      <4>2. ASSUME NEW i \in 1..k + 1
            PROVE  /\ qx[i] # NL => i < k + 1 /\ qx[i + 1] \in {NL, qx[i] + 1}
                   /\ qx[i] = NL => i > 1 /\ qx[i - 1] # NL
        <5>1. CASE i = k + 1
          <6>1. i - 1 = k /\ k \in 1..k /\ i > 1
            BY <2>4, <3>3, <3>4, <5>1
          <6> QED BY <2>5, <2>6, <2>8, <5>1, <6>1
        <5>2. CASE i = k
          <6>1. i \in 1..k /\ i < k + 1
            BY <2>4, <5>2
          <6> QED BY <2>5, <2>6, <2>8, <5>2, <6>1
        <5>3. CASE i < k
          <6>1. i \in 1..k /\ i + 1 \in 1..k /\ i < k + 1
            BY <2>4, <5>3
          <6>2. qx[i] = n - k + i /\ qx[i + 1] = n - k + (i + 1) /\ qx[i] # NL
            BY <2>5, <2>6, <6>1
          <6>3. n - k + (i + 1) = (n - k + i) + 1
            BY <2>1, <2>4
          <6> QED BY <6>1, <6>2, <6>3
        <5> QED BY <2>4, <5>1, <5>2, <5>3
      <4> QED BY <2>5, <4>1, <4>2 DEF Fine
    <3>5. q # << >> => Append(Lines(t), qx) \in Seq(Fine)
      BY <2>3, <3>4, AppendProperties
    <3> QED BY <2>3, <3>1, <3>2, <3>5
  <2> QED BY <2>7, <2>8
<1>3. Seq(Byte) \subseteq P
  <2> HIDE DEF P
  <2> QED BY <1>1, <1>2, SeqInductionSet
<1> QED BY <1>3

(* What is known of the output, the buffer, the references and the renderer. *)
LogTyped ==
  /\ rawBuf \in Seq(Bytes)
  /\ refs \in [Writers -> Seq(RefsTo(Len(rawBuf)))]
  /\ printed \in [Writers -> Seq(Byte)]
PrintedPlaced == \A m \in Writers : Placed(printed[m])
RestKept == lineBuf = [m \in Writers |-> Rest(printed[m])]
EndIsLast(rs) == \A i \in DOMAIN rs : rs[i][2] <= LastEnd(rs)
LastIsEnd == \A n \in Writers : EndIsLast(refs[n])
Goes(m, n) == m = n \/ n \in LogAbove[m]
LogsWhole ==
  \A n \in Writers, m \in Writers :
    Of(m, Text(rawBuf, refs[n])) = IF Goes(m, n) THEN Whole(printed[m]) ELSE << >>
LogsShaped == \A n \in Writers : Shaped(Text(rawBuf, refs[n]))

(* The renderer has the text of the references before its last position, and *)
(* none of those behind it.                                                  *)
Parted(pre, post, rs, end, n) ==
  /\ pre \in Seq(RefsTo(n)) /\ post \in Seq(RefsTo(n))
  /\ rs = Cat(pre, post)
  /\ \A i \in DOMAIN pre : pre[i][2] <= end
  /\ \A i \in DOMAIN post : post[i][1] >= end
RendParted ==
  /\ rend \in [of : Writers \cup {NoLog}, end : 0..Len(rawBuf), out : Seq(Bytes)]
  /\ rend.of # NoLog =>
       \E pre, post : /\ Parted(pre, post, refs[rend.of], rend.end, Len(rawBuf))
                      /\ rend.out = Text(rawBuf, pre)

LogInv == /\ LogTyped /\ PrintedPlaced /\ RestKept /\ LastIsEnd /\ LogsWhole /\ LogsShaped
          /\ RendParted

LEMMA LogBegins == LogInit => LogInv
<1> SUFFICES ASSUME LogInit PROVE LogInv
  OBVIOUS
<1>1. /\ rawBuf = << >> /\ refs = [n \in Writers |-> << >>]
      /\ lineBuf = [n \in Writers |-> << >>]
      /\ printed = [m \in Writers |-> << >>]
      /\ rend = [of |-> NoLog, end |-> 0, out |-> << >>]
  BY DEF LogInit
<1>2. /\ << >> \in Seq(Bytes) /\ << >> \in Seq(Byte) /\ << >> \in Seq(RefsTo(Len(rawBuf)))
      /\ Len(<< >>) = 0 /\ DOMAIN << >> = {}
  BY EmptySeq
<1>3. LogTyped
  BY <1>1, <1>2 DEF LogTyped
<1>4. PrintedPlaced
  BY <1>1, <1>2 DEF PrintedPlaced, Placed
<1>5. RestKept
  BY <1>1, SplitEmpty DEF RestKept
<1>6. LastIsEnd
  BY <1>1, <1>2 DEF LastIsEnd, EndIsLast
<1>7. \A n \in Writers : Text(rawBuf, refs[n]) = << >>
  BY <1>1, <1>2, TextFacts
<1>8. LogsWhole
  <2>1. Whole(<< >>) = << >>
    BY SplitEmpty, FlattenEmpty DEF Whole
  <2>2. \A m : Of(m, << >>) = << >>
    BY OfFacts
  <2> QED BY <1>1, <1>7, <2>1, <2>2 DEF LogsWhole
<1>9. LogsShaped
  BY <1>2, <1>7 DEF LogsShaped, Shaped
<1>10. RendParted
  <2>1. 0 \in 0..Len(rawBuf)
    BY <1>1, <1>2
  <2> QED BY <1>1, <1>2, <2>1 DEF RendParted
<1> QED BY <1>3, <1>4, <1>5, <1>6, <1>8, <1>9, <1>10 DEF LogInv

(* The characters of an event are numbered on.                               *)
LEMMA ChunkFacts ==
  ASSUME LogAssumption, NEW m \in Writers, printed[m] \in Seq(Byte), Placed(printed[m]),
         NEW c \in Chunks(m), Len(printed[m]) + Len(c) <= MaxBytes
  PROVE  c \in Seq(Byte) /\ Cat(printed[m], c) \in Seq(Byte) /\ Placed(Cat(printed[m], c))
<1> DEFINE p == printed[m]
           n == Len(p)
           w == Cat(p, c)
<1>1. PICK d \in UNION {[1..k -> {NL, 1}] : k \in 1..MaxChunk} :
         c = [i \in DOMAIN d |-> IF d[i] = NL THEN NL ELSE n + i]
  BY DEF Chunks
<1>2. PICK k \in 1..MaxChunk : d \in [1..k -> {NL, 1}]
  BY <1>1
<1> HIDE DEF n
<1>3. k \in Nat /\ n \in Nat /\ DOMAIN c = 1..k /\ \A i \in 1..k : c[i] \in {NL, n + i}
  <2>1. k \in Nat /\ DOMAIN d = 1..k
    BY <1>2 DEF LogAssumption
  <2>2. n \in Nat
    BY LenProperties DEF n
  <2> QED BY <1>1, <2>1, <2>2
<1>4. c \in [1..k -> Nat]
  <2>1. ASSUME NEW i \in 1..k PROVE c[i] \in Nat
    <3>1. i \in Nat /\ c[i] \in {0, n + i}
      BY <1>3 DEF NL
    <3>2. n + i \in Nat
      BY <1>3, <3>1
    <3> QED BY <3>1, <3>2
  <2>2. c = [i \in DOMAIN c |-> c[i]]
    BY <1>1
  <2> QED BY <1>3, <2>1, <2>2
<1>5. Len(c) = k
  BY <1>3, <1>4, FunctionIsSeq
<1>6. c \in [1..k -> Byte]
  <2>1. ASSUME NEW i \in 1..k PROVE c[i] \in Byte
    <3>1. i \in Nat /\ i <= k /\ c[i] \in {0, n + i} /\ n + k <= MaxBytes /\ MaxBytes \in Nat
      BY <1>3, <1>5 DEF NL, LogAssumption, n
    <3>2. n + i \in 0..MaxBytes /\ 0 \in 0..MaxBytes
      BY <1>3, <3>1
    <3> QED BY <3>1, <3>2 DEF Byte
  <2>2. c = [i \in DOMAIN c |-> c[i]]
    BY <1>1
  <2> HIDE DEF w
  <2> QED BY <1>3, <2>1, <2>2
<1>7. c \in Seq(Byte)
  BY <1>3, <1>6, FunctionIsSeq
<1>8. /\ w \in Seq(Byte) /\ Len(w) = n + k
      /\ \A i \in 1..n + k : w[i] = IF i <= n THEN p[i] ELSE c[i - n]
  <2>1. p \in Seq(Byte) /\ w = p \o c /\ n = Len(p) /\ k = Len(c)
    BY <1>5 DEF Cat, n
  <2> HIDE DEF p, w
  <2> QED BY <1>7, <2>1, ConcatProperties
<1> HIDE DEF w, p
<1>9. ASSUME NEW i \in 1..n + k PROVE w[i] \in {NL, i}
  <2>1. CASE i <= n
    <3>1. i \in 1..n
      BY <1>3, <2>1
    <3> QED BY <1>8, <2>1, <3>1 DEF Placed, n, p
  <2>2. CASE ~(i <= n)
    <3>1. i - n \in 1..k /\ n + (i - n) = i
      BY <1>3, <2>2
    <3>2. c[i - n] \in {NL, i}
      BY <1>3, <3>1
    <3> QED BY <1>8, <2>2, <3>2
  <2> QED BY <2>1, <2>2
<1> QED BY <1>7, <1>8, <1>9 DEF Placed, w, p

LEMMA SuffixType ==
  ASSUME NEW X, NEW S, NEW s \in Seq(X), NEW t \in Seq(X), s \o t \in Seq(S)
  PROVE  t \in Seq(S)
<1> DEFINE w == s \o t
           n == Len(s)
           k == Len(t)
<1>1. n \in Nat /\ k \in Nat /\ Len(w) = n + k /\ t \in [1..k -> X]
      /\ \A i \in 1..n + k : w[i] = IF i <= n THEN s[i] ELSE t[i - n]
  BY ConcatProperties, LenProperties
<1>2. w \in Seq(S)
  OBVIOUS
<1> HIDE DEF w, n, k
<1>3. \A i \in 1..k : t[i] \in S
  <2>1. ASSUME NEW i \in 1..k PROVE t[i] \in S
    <3>1. n + i \in 1..Len(w) /\ ~(n + i <= n) /\ (n + i) - n = i
      BY <1>1
    <3>2. w[n + i] \in S
      BY <1>2, <3>1, ElementOfSeq
    <3> QED BY <1>1, <3>1, <3>2
  <2> QED BY <2>1
<1>4. t \in [1..k -> S]
  BY <1>1, <1>3
<1> QED BY <1>1, <1>4, FunctionIsSeq

(* What one event does: the lines it finishes are stored, for the logs it    *)
(* goes to.                                                                  *)
Puts(m, ls) ==
  /\ ls \in Seq(Fine) /\ ls \in Seq(LogLine)
  /\ IsStored(Stored(m, ls), m, ls)
  /\ rawBuf' = Stored(m, ls).buf
  /\ refs' = [n \in Writers |-> IF Goes(m, n) THEN Cat(refs[n], Stored(m, ls).new) ELSE refs[n]]
  /\ printed' \in [Writers -> Seq(Byte)] /\ Placed(printed'[m])
  /\ \A n \in Writers : n # m => printed'[n] = printed[n]
  /\ lineBuf' = [n \in Writers |-> Rest(printed'[n])]
  /\ Whole(printed'[m]) = Cat(Whole(printed[m]), FlattenSeq(ls))
  /\ rend' = rend

LEMMA AppendPuts ==
  ASSUME LogAssumption, LogInv, NEW m \in Writers, NEW c \in Chunks(m), AppendOutput(m, c)
  PROVE  \E ls : Puts(m, ls)
<1> DEFINE p == printed[m]
           q == Cat(p, c)
           out == lineBuf[m] \o c
           ls == Lines(out)
           st == Stored(m, ls)
<1>1. /\ Len(p) + Len(c) <= MaxBytes
      /\ printed' = [printed EXCEPT ![m] = q]
      /\ lineBuf' = [lineBuf EXCEPT ![m] = Rest(out)]
      /\ rawBuf' = st.buf
      /\ refs' = [n \in Writers |-> IF n = m \/ n \in LogAbove[m] THEN refs[n] \o st.new ELSE refs[n]]
      /\ rend' = rend
  BY DEF AppendOutput, Cat
<1>2. /\ rawBuf \in Seq(Bytes) /\ p \in Seq(Byte) /\ printed \in [Writers -> Seq(Byte)] /\ Placed(p)
      /\ lineBuf = [n \in Writers |-> Rest(printed[n])]
  BY DEF LogInv, LogTyped, PrintedPlaced, RestKept
<1>3. c \in Seq(Byte) /\ q \in Seq(Byte) /\ Placed(q)
  <2> HIDE DEF q
  <2>1. c \in Seq(Byte) /\ Cat(printed[m], c) \in Seq(Byte) /\ Placed(Cat(printed[m], c))
    BY <1>1, <1>2, ChunkFacts
  <2> QED BY <2>1 DEF q
<1>4. MaxBytes \in Nat /\ NL \in Byte
  BY DEF LogAssumption, NL, Byte
<1>5. lineBuf[m] = Rest(p) /\ Rest(p) \in Seq(Byte) /\ Lines(p) \in Seq(Seq(Byte))
  BY <1>2, <1>4, SplitType
<1>6. out = Rest(p) \o c /\ out \in Seq(Byte)
  BY <1>3, <1>5, ConcatProperties
<1>7. Lines(q) = Lines(p) \o ls /\ Rest(q) = Rest(out)
  <2>1. Lines(p \o c) = Lines(p) \o Lines(Rest(p) \o c) /\ Rest(p \o c) = Rest(Rest(p) \o c)
    BY <1>2, <1>3, <1>4, SplitConcat
  <2> QED BY <1>6, <2>1 DEF Cat
<1> HIDE DEF out
<1>8. ls \in Seq(LinesOf(Byte)) /\ ls \in Seq(Seq(Byte))
  BY <1>4, <1>6, SplitType
<1>9. LinesOf(Byte) \subseteq LogLine
  <2>1. ASSUME NEW l \in LinesOf(Byte) PROVE l \in LogLine
    <3>1. PICK r \in Seq(Byte \ {NL}) : l = Append(r, NL)
      BY DEF LinesOf
    <3>2. Byte \ {NL} \subseteq Byte
      OBVIOUS
    <3>3. r \in Seq(Byte)
      BY <3>2, SeqMonotonic
    <3>4. Append(r, NL) \in Seq(Byte) /\ Append(r, NL) # << >>
      BY <1>4, <3>3, AppendProperties
    <3> QED BY <3>1, <3>4 DEF LogLine
  <2> QED BY <2>1
<1>10. ls \in Seq(LogLine)
  BY <1>8, <1>9, SeqMonotonic
<1>11. Lines(q) \in Seq(Fine)
  <2> HIDE DEF q
  <2> QED BY <1>3, <1>4, LinesFine
<1> HIDE DEF ls
<1>12. ls \in Seq(Fine)
  <2> DEFINE X == Seq(Byte)
  <2>1. Lines(p) \in Seq(X) /\ ls \in Seq(X) /\ Lines(p) \o ls \in Seq(Fine)
    BY <1>5, <1>7, <1>8, <1>11
  <2> HIDE DEF X
  <2> QED BY <2>1, SuffixType
<1>13. IsStored(st, m, ls)
  BY <1>2, <1>10, StoredFacts
<1>14. printed' \in [Writers -> Seq(Byte)] /\ printed'[m] = q /\ \A n \in Writers : n # m => printed'[n] = printed[n]
  BY <1>1, <1>2, <1>3
<1>15. lineBuf' = [n \in Writers |-> Rest(printed'[n])]
  BY <1>1, <1>2, <1>7, <1>14
<1>16. Whole(printed'[m]) = Cat(Whole(printed[m]), FlattenSeq(ls))
  <2>1. FlattenSeq(Lines(p) \o ls) = FlattenSeq(Lines(p)) \o FlattenSeq(ls)
    BY <1>5, <1>8, FlattenConcat
  <2> QED BY <1>7, <1>14, <2>1 DEF Whole, Cat
<1>17. refs' = [n \in Writers |-> IF Goes(m, n) THEN Cat(refs[n], st.new) ELSE refs[n]]
  BY <1>1 DEF Goes, Cat
<1>18. Puts(m, ls)
  BY <1>1, <1>3, <1>10, <1>12, <1>13, <1>14, <1>15, <1>16, <1>17 DEF Puts
<1> QED BY <1>18

(* The logs after an event: those it goes to have its lines behind theirs.   *)
LEMMA PutsFacts ==
  ASSUME LogInv, NEW m \in Writers, NEW ls, Puts(m, ls), NEW n \in Writers
  PROVE  /\ rawBuf' \in Seq(Bytes) /\ Len(rawBuf') \in Nat /\ Len(rawBuf) <= Len(rawBuf')
         /\ refs'[n] \in Seq(RefsTo(Len(rawBuf')))
         /\ Out(m, ls) \in Seq(Bytes)
         /\ Text(rawBuf, refs[n]) \in Seq(Bytes)
         /\ Text(rawBuf', refs'[n]) = IF Goes(m, n) THEN Cat(Text(rawBuf, refs[n]), Out(m, ls))
                                      ELSE Text(rawBuf, refs[n])
         /\ EndIsLast(refs'[n])
         /\ Goes(m, n) => /\ Stored(m, ls).new \in Seq(RefsTo(Len(rawBuf')))
                          /\ refs'[n] = Cat(refs[n], Stored(m, ls).new)
                          /\ \A i \in DOMAIN Stored(m, ls).new : Stored(m, ls).new[i][1] >= Len(rawBuf)
         /\ ~Goes(m, n) => refs'[n] = refs[n]
         /\ \A rs \in Seq(RefsTo(Len(rawBuf))) : Text(rawBuf', rs) = Text(rawBuf, rs) /\ rs \in Seq(RefsTo(Len(rawBuf')))
<1> DEFINE st == Stored(m, ls)
           b == rawBuf'
           o == Out(m, ls)
           new == st.new
           rs == refs[n]
           X == RefsTo(Len(b))
<1>1. /\ rawBuf \in Seq(Bytes) /\ rs \in Seq(RefsTo(Len(rawBuf))) /\ EndIsLast(rs)
  BY DEF LogInv, LogTyped, LastIsEnd
<1>2. /\ ls \in Seq(LogLine) /\ b = st.buf
      /\ refs'[n] = IF Goes(m, n) THEN Cat(rs, new) ELSE rs
  BY DEF Puts
<1>3. o \in Seq(Bytes)
  BY <1>2, OutFacts
<1>4. /\ b = Cat(rawBuf, o) /\ b \in Seq(Bytes) /\ new \in Seq(X)
      /\ \A i \in DOMAIN new : new[i][1] >= Len(rawBuf)
      /\ new # << >> => Last(new)[2] = Len(b)
      /\ new = << >> => b = rawBuf
      /\ Text(b, new) = o
  <2>1. IsStored(st, m, ls)
    BY DEF Puts
  <2> HIDE DEF st
  <2> QED BY <1>2, <2>1 DEF IsStored
<1> HIDE DEF st, b, o, new, rs
<1>5. Len(b) \in Nat /\ Len(rawBuf) \in Nat /\ Len(rawBuf) <= Len(b)
  <2>1. Len(rawBuf \o o) = Len(rawBuf) + Len(o) /\ Len(rawBuf) \in Nat /\ Len(o) \in Nat
    BY <1>1, <1>3, ConcatProperties, LenProperties
  <2> QED BY <1>4, <2>1 DEF Cat
<1>6. ASSUME NEW qs \in Seq(RefsTo(Len(rawBuf))) PROVE Text(b, qs) = Text(rawBuf, qs) /\ qs \in Seq(X)
  <2>1. Text(rawBuf \o o, qs) = Text(rawBuf, qs) /\ qs \in Seq(RefsTo(Len(rawBuf \o o)))
    BY <1>1, <1>3, TextGrows
  <2> QED BY <1>4, <2>1 DEF Cat
<1>7. Text(rawBuf, rs) \in Seq(Bytes) /\ rs \in Seq(X) /\ Text(b, rs) = Text(rawBuf, rs)
  BY <1>1, <1>6, TextFacts
<1>8. CASE Goes(m, n)
  <2>1. refs'[n] = rs \o new
    BY <1>2, <1>8 DEF Cat
  <2>2. rs \o new \in Seq(X)
    BY <1>4, <1>7, ConcatProperties
  <2>3. Text(b, rs \o new) = Cat(Text(b, rs), Text(b, new))
    BY <1>4, <1>7, TextFacts
  <2>4. EndIsLast(rs \o new)
    <3>1. CASE new = << >>
      <4>1. rs \o new = rs
        BY <1>1, <3>1, ConcatEmptySeq
      <4> QED BY <1>1, <4>1
    <3>2. CASE new # << >>
      <4> DEFINE w == rs \o new
                 k == Len(new)
                 r == Len(rs)
      <4>1. /\ k \in Nat /\ k > 0 /\ r \in Nat /\ Len(w) = r + k /\ DOMAIN w = 1..r + k
            /\ \A i \in 1..r + k : w[i] = IF i <= r THEN rs[i] ELSE new[i - r]
        BY <1>4, <1>7, <2>2, <3>2, EmptySeq, LenProperties, ConcatProperties
      <4>2. w \in Seq(X)
        BY <2>2
      <4> HIDE DEF w, k, r
      <4>3. w # << >> /\ LastEnd(w) = Len(b)
        <5>1. r + k \in 1..r + k /\ ~(r + k <= r) /\ (r + k) - r = k
          BY <4>1
        <5>2. w[r + k] = new[k] /\ w # << >>
          BY <4>1, <5>1
        <5> QED BY <1>4, <3>2, <4>1, <5>2 DEF LastEnd, Last, k
      <4>4. ASSUME NEW i \in DOMAIN w PROVE w[i][2] <= LastEnd(w)
        <5>1. w[i] \in X
          BY <4>1, <4>2, ElementOfSeq
        <5> QED BY <4>3, <5>1 DEF X, RefsTo
      <4> QED BY <4>4 DEF EndIsLast, w
    <3> QED BY <3>1, <3>2
  <2> QED BY <1>3, <1>4, <1>5, <1>6, <1>7, <1>8, <2>1, <2>2, <2>3, <2>4 DEF b, o, new, rs, st, Cat
<1>9. CASE ~Goes(m, n)
  BY <1>1, <1>2, <1>3, <1>4, <1>5, <1>6, <1>7, <1>9 DEF b, o, new, rs, st
<1> QED BY <1>8, <1>9

LEMMA PutsLogs ==
  ASSUME LogAssumption, LogInv, NEW m \in Writers, NEW ls, Puts(m, ls)
  PROVE  /\ LogTyped' /\ PrintedPlaced' /\ RestKept' /\ LastIsEnd' /\ LogsWhole' /\ LogsShaped'
<1>1. /\ ls \in Seq(Fine) /\ ls \in Seq(LogLine)
      /\ refs' = [n \in Writers |-> IF Goes(m, n) THEN Cat(refs[n], Stored(m, ls).new) ELSE refs[n]]
      /\ printed' \in [Writers -> Seq(Byte)] /\ Placed(printed'[m])
      /\ \A n \in Writers : n # m => printed'[n] = printed[n]
      /\ lineBuf' = [n \in Writers |-> Rest(printed'[n])]
      /\ Whole(printed'[m]) = Cat(Whole(printed[m]), FlattenSeq(ls))
  BY DEF Puts
<1>2. LogTyped'
  <2>1. rawBuf' \in Seq(Bytes)
    BY PutsFacts
  <2>2. \A n \in Writers : refs'[n] \in Seq(RefsTo(Len(rawBuf')))
    BY PutsFacts
  <2>3. refs' = [n \in Writers |-> refs'[n]]
    BY <1>1
  <2>4. refs' \in [Writers -> Seq(RefsTo(Len(rawBuf')))]
    BY <2>2, <2>3
  <2> QED BY <1>1, <2>1, <2>4 DEF LogTyped
<1>3. PrintedPlaced'
  <2>1. \A n \in Writers : Placed(printed[n])
    BY DEF LogInv, PrintedPlaced
  <2>2. \A n \in Writers : Placed(printed'[n])
    BY <1>1, <2>1
  <2> QED BY <2>2 DEF PrintedPlaced, Placed
<1>4. RestKept'
  BY <1>1 DEF RestKept, Rest, Split, Cut, NL
<1>5. LastIsEnd'
  <2>1. \A n \in Writers : EndIsLast(refs'[n])
    BY PutsFacts
  <2> QED BY <2>1 DEF LastIsEnd, EndIsLast, LastEnd, Last
<1>6. ASSUME NEW n \in Writers, NEW k \in Writers
      PROVE  Of(k, Text(rawBuf', refs'[n])) = IF Goes(k, n) THEN Whole(printed'[k]) ELSE << >>
  <2> DEFINE t == Text(rawBuf, refs[n])
             o == Out(m, ls)
  <2>1. /\ t \in Seq(Bytes) /\ o \in Seq(Bytes)
        /\ Text(rawBuf', refs'[n]) = IF Goes(m, n) THEN Cat(t, o) ELSE t
    BY PutsFacts
  <2>2. Of(k, t) = IF Goes(k, n) THEN Whole(printed[k]) ELSE << >>
    BY DEF LogInv, LogsWhole
  <2>3. Of(k, o) = (IF k = m THEN FlattenSeq(ls) ELSE << >>) /\ FlattenSeq(ls) \in Seq(Byte)
    BY <1>1, OfOut
  <2> HIDE DEF t, o
  <2>4. Of(k, t \o o) = Of(k, t) \o Of(k, o) /\ Of(k, t) \in Seq(Byte)
    BY <2>1, OfFacts DEF Cat
  <2>5. CASE k = m
    <3>1. CASE Goes(m, n)
      BY <1>1, <2>1, <2>2, <2>3, <2>4, <2>5, <3>1 DEF Cat
    <3>2. CASE ~Goes(m, n)
      BY <2>1, <2>2, <2>5, <3>2
    <3> QED BY <3>1, <3>2
  <2>6. CASE k # m
    <3>1. printed'[k] = printed[k]
      BY <1>1, <2>6
    <3>2. Of(k, t) \o Of(k, o) = Of(k, t)
      BY <2>3, <2>4, <2>6, ConcatEmptySeq
    <3> QED BY <2>1, <2>2, <2>4, <3>1, <3>2 DEF Cat
  <2> QED BY <2>5, <2>6
<1>7. LogsWhole'
  BY <1>6 DEF LogsWhole, Of, Text, Goes, Whole, Slice, Lines, Split, Cut, NL
<1>8. ASSUME NEW n \in Writers PROVE Shaped(Text(rawBuf', refs'[n]))
  <2> DEFINE t == Text(rawBuf, refs[n])
             o == Out(m, ls)
  <2>1. /\ t \in Seq(Bytes) /\ o \in Seq(Bytes)
        /\ Text(rawBuf', refs'[n]) = IF Goes(m, n) THEN Cat(t, o) ELSE t
    BY PutsFacts
  <2>2. Shaped(t)
    BY DEF LogInv, LogsShaped
  <2>3. Shaped(o)
    BY <1>1, OutShaped
  <2> HIDE DEF t, o
  <2>4. Shaped(t \o o)
    BY <2>1, <2>2, <2>3, ShapedConcat
  <2> QED BY <2>1, <2>2, <2>4 DEF Cat
<1>9. LogsShaped'
  BY <1>8 DEF LogsShaped, Shaped, Text, Slice, NL
<1> QED BY <1>2, <1>3, <1>4, <1>5, <1>7, <1>9

-----------------------------------------------------------------------------
(* The renderer.                                                             *)
LEMMA LastEndFacts ==
  ASSUME NEW n \in Nat, NEW rs \in Seq(RefsTo(n))
  PROVE  /\ LastEnd(rs) \in 0..n
         /\ rs # << >> => Last(rs) \in RefsTo(n) /\ Last(rs) = rs[Len(rs)] /\ Len(rs) \in DOMAIN rs
<1>1. CASE rs = << >>
  BY <1>1 DEF LastEnd
<1>2. CASE rs # << >>
  <2>1. Len(rs) \in Nat /\ Len(rs) > 0 /\ DOMAIN rs = 1..Len(rs)
    BY <1>2, EmptySeq, LenProperties
  <2>2. Len(rs) \in 1..Len(rs)
    BY <2>1
  <2>3. rs[Len(rs)] \in RefsTo(n)
    BY <2>2, ElementOfSeq
  <2>4. rs[Len(rs)][2] \in 0..n
    BY <2>3 DEF RefsTo
  <2> QED BY <1>2, <2>1, <2>2, <2>3, <2>4 DEF LastEnd, Last
<1> QED BY <1>1, <1>2

LEMMA FlattenEmpties ==
  ASSUME NEW s \in Seq({<< >>})
  PROVE  FlattenSeq(s) = << >>
<1> DEFINE E == {<< >>}
           P == {t \in Seq(E) : FlattenSeq(t) = << >>}
<1>1. << >> \in P
  BY EmptySeq, FlattenEmpty
<1>2. ASSUME NEW t \in Seq(E), NEW x \in E, t \in P PROVE Append(t, x) \in P
  <2>1. Append(t, x) \in Seq(E)
    BY AppendProperties
  <2>2. E \subseteq Seq({}) /\ x = << >> /\ << >> \in Seq({})
    BY EmptySeq
  <2> HIDE DEF E
  <2>3. t \in Seq(Seq({}))
    BY <2>2, SeqMonotonic
  <2>4. FlattenSeq(Append(t, x)) = FlattenSeq(t) \o x
    BY <2>2, <2>3, FlattenAppend
  <2>5. FlattenSeq(t) \o x = << >>
    BY <1>2, <2>2, ConcatEmptySeq
  <2> QED BY <2>1, <2>4, <2>5
<1>3. Seq(E) \subseteq P
  <2> HIDE DEF E, P
  <2> QED BY <1>1, <1>2, SeqInductionSet
<1> QED BY <1>3

(* What comes after the last position is the text of the references behind.  *)
LEMMA FreshFacts ==
  ASSUME rawBuf \in Seq(Bytes), NEW end \in Nat, NEW pre, NEW post, NEW rs,
         Parted(pre, post, rs, end, Len(rawBuf))
  PROVE  Fresh(rs, end) = Text(rawBuf, post)
<1> DEFINE n == Len(rawBuf)
           X == RefsTo(n)
           Piece(r) == IF r[1] >= end THEN Slice(rawBuf, r)
                       ELSE IF r[2] > end THEN Slice(rawBuf, <<end, r[2]>>)
                       ELSE << >>
           f == [r \in X |-> Piece(r)]
<1>0. n \in Nat
  BY LenProperties
<1>1. /\ pre \in Seq(X) /\ post \in Seq(X) /\ rs = pre \o post
      /\ \A i \in DOMAIN pre : pre[i][2] <= end
      /\ \A i \in DOMAIN post : post[i][1] >= end
  BY DEF Parted, Cat
<1>2. \A r \in X : /\ r[1] \in Nat /\ r[2] \in Nat /\ r[1] < r[2] /\ r[2] <= n
  BY DEF RefsTo
<1>3. \A r \in X : Slice(rawBuf, r) \in Seq(Bytes)
  BY SliceFacts
<1>4. \A r \in X : Piece(r) \in Seq(Bytes)
  <2>1. ASSUME NEW r \in X, r[2] > end PROVE Slice(rawBuf, <<end, r[2]>>) \in Seq(Bytes)
    <3>1. <<end, r[2]>> \in X
      BY <1>2, <2>1 DEF RefsTo
    <3> QED BY <1>3, <3>1
  <2>2. << >> \in Seq(Bytes)
    BY EmptySeq
  <2> HIDE DEF X
  <2> QED BY <1>3, <2>1, <2>2
<1>5. \A r \in X : f[r] = Piece(r)
  OBVIOUS
<1>6. Into(f, X, Seq(Bytes))
  <2>1. f = [r \in X |-> f[r]]
    OBVIOUS
  <2> HIDE DEF f, X, Piece
  <2> QED BY <1>4, <1>5, <2>1 DEF Into
<1>7. /\ \A i \in DOMAIN pre : pre[i] \in X
      /\ \A i \in DOMAIN post : post[i] \in X
      /\ \A i \in DOMAIN rs : rs[i] \in X
  <2>1. rs \in Seq(X)
    BY <1>1, ConcatProperties
  <2> HIDE DEF X
  <2> QED BY <1>1, <2>1, LenProperties, ElementOfSeq
<1>8. \A r \in X : /\ r[2] <= end => Piece(r) = << >>
                   /\ r[1] >= end => Piece(r) = Slice(rawBuf, r)
  <2>1. \A r \in X : r[2] <= end => ~(r[1] >= end) /\ ~(r[2] > end)
    BY <1>2
  <2> QED BY <2>1
<1>9. Fresh(rs, end) = FlattenSeq([i \in DOMAIN rs |-> Piece(rs[i])])
  BY DEF Fresh
<1> HIDE DEF f, Piece, X, n
<1>10. Fresh(rs, end) = Joined(rs, f)
  <2>1. Mapped(rs, f) = [i \in DOMAIN rs |-> Piece(rs[i])]
    BY <1>5, <1>7 DEF Mapped
  <2> QED BY <1>9, <2>1 DEF Joined
<1>11. Joined(pre, f) = << >>
  <2>1. Mapped(pre, f) = [i \in DOMAIN pre |-> << >>]
    BY <1>1, <1>5, <1>7, <1>8 DEF Mapped
  <2>2. [i \in DOMAIN pre |-> << >>] \in Seq({<< >>})
    <3>1. DOMAIN pre = 1..Len(pre) /\ Len(pre) \in Nat
      BY <1>1, LenProperties
    <3> DEFINE E == {<< >>}
               w == [i \in DOMAIN pre |-> << >>]
    <3>2. w \in [1..Len(pre) -> E]
      BY <3>1
    <3> HIDE DEF E, w
    <3> QED BY <3>1, <3>2, FunctionIsSeq DEF E, w
  <2> QED BY <2>1, <2>2, FlattenEmpties DEF Joined
<1>12. Joined(post, f) = Text(rawBuf, post)
  <2>1. Mapped(post, f) = [i \in DOMAIN post |-> Slice(rawBuf, post[i])]
    BY <1>1, <1>5, <1>7, <1>8 DEF Mapped
  <2> QED BY <2>1 DEF Joined, Text
<1>13. Joined(pre \o post, f) = Cat(Joined(pre, f), Joined(post, f)) /\ Joined(post, f) \in Seq(Bytes)
  BY <1>1, <1>6, JoinedFacts
<1>14. << >> \o Joined(post, f) = Joined(post, f)
  BY <1>13, ConcatEmptySeq
<1> QED BY <1>1, <1>10, <1>11, <1>12, <1>13, <1>14 DEF Cat

(* All the references are before the last position once they are read.       *)
LEMMA PartedWhole ==
  ASSUME NEW n \in Nat, NEW rs \in Seq(RefsTo(n)), EndIsLast(rs)
  PROVE  Parted(rs, << >>, rs, LastEnd(rs), n)
<1>1. << >> \in Seq(RefsTo(n)) /\ rs \o << >> = rs /\ DOMAIN << >> = {}
  BY EmptySeq, ConcatEmptySeq
<1> QED BY <1>1 DEF Parted, EndIsLast, Cat

LEMMA RendPuts ==
  ASSUME LogInv, NEW m \in Writers, NEW ls, Puts(m, ls)
  PROVE  RendParted'
<1> DEFINE n == Len(rawBuf)
           k == Len(rawBuf')
           new == Stored(m, ls).new
<1>1. rend' = rend
  BY DEF Puts
<1>2. /\ rend \in [of : Writers \cup {NoLog}, end : 0..n, out : Seq(Bytes)]
      /\ rend.of # NoLog => \E pre, post : /\ Parted(pre, post, refs[rend.of], rend.end, n)
                                           /\ rend.out = Text(rawBuf, pre)
      /\ n \in Nat
  BY LenProperties DEF LogInv, RendParted, LogTyped
<1>3. k \in Nat /\ n <= k
  BY PutsFacts
<1>4. rend' \in [of : Writers \cup {NoLog}, end : 0..k, out : Seq(Bytes)]
  <2> HIDE DEF n, k
  <2>1. 0..n \subseteq 0..k
    BY <1>2, <1>3
  <2> QED BY <1>1, <1>2, <2>1
<1>5. ASSUME rend.of # NoLog
      PROVE  \E pre, post : Parted(pre, post, refs'[rend.of], rend.end, k) /\ rend.out = Text(rawBuf', pre)
  <2> DEFINE a == rend.of
             e == rend.end
  <2>1. a \in Writers /\ e \in Nat /\ e <= n
    BY <1>2, <1>5
  <2>2. PICK pre, post : Parted(pre, post, refs[a], e, n) /\ rend.out = Text(rawBuf, pre)
    BY <1>2, <1>5
  <2>3. /\ pre \in Seq(RefsTo(n)) /\ post \in Seq(RefsTo(n)) /\ refs[a] = pre \o post
        /\ \A i \in DOMAIN pre : pre[i][2] <= e
        /\ \A i \in DOMAIN post : post[i][1] >= e
    BY <2>2 DEF Parted, Cat
  <2>4. /\ Text(rawBuf', pre) = Text(rawBuf, pre) /\ pre \in Seq(RefsTo(k)) /\ post \in Seq(RefsTo(k))
    BY <2>1, <2>3, PutsFacts
  <2>5. CASE ~Goes(m, a)
    <3>1. refs'[a] = refs[a]
      BY <2>1, <2>5, PutsFacts
    <3>2. Parted(pre, post, refs'[a], e, k)
      BY <2>3, <2>4, <3>1 DEF Parted, Cat
    <3> QED BY <2>2, <2>4, <3>2
  <2>6. CASE Goes(m, a)
    <3>1. /\ new \in Seq(RefsTo(k)) /\ refs'[a] = Cat(refs[a], new)
          /\ \A i \in DOMAIN new : new[i][1] >= n
      BY <2>1, <2>6, PutsFacts
    <3> DEFINE X == RefsTo(k)
    <3>2. new \in Seq(X) /\ pre \in Seq(X) /\ post \in Seq(X) /\ \A r \in X : r[1] \in Nat
      BY <2>4, <3>1 DEF RefsTo
    <3> HIDE DEF X, n, k, new
    <3>3. refs'[a] = pre \o (post \o new) /\ post \o new \in Seq(X)
      BY <2>3, <3>1, <3>2, ConcatAssociative, ConcatProperties, SMTT(30) DEF Cat
    <3> DEFINE w == post \o new
               l == Len(post)
    <3>4. /\ l \in Nat /\ Len(new) \in Nat /\ DOMAIN post = 1..l /\ DOMAIN new = 1..Len(new)
          /\ DOMAIN w = 1..l + Len(new)
          /\ \A i \in 1..l + Len(new) : w[i] = IF i <= l THEN post[i] ELSE new[i - l]
      BY <3>2, <3>3, LenProperties, ConcatProperties
    <3> HIDE DEF w, l
    <3>5. ASSUME NEW i \in DOMAIN w PROVE w[i][1] >= e
      <4>1. CASE i <= l
        <5>1. i \in DOMAIN post /\ w[i] = post[i]
          BY <3>4, <4>1
        <5> QED BY <2>3, <5>1
      <4>2. CASE ~(i <= l)
        <5>1. i - l \in 1..Len(new)
          BY <3>4, <4>2
        <5>2. i - l \in DOMAIN new /\ w[i] = new[i - l]
          BY <3>4, <4>2, <5>1
        <5>3. w[i][1] >= n /\ w[i] \in X
          BY <3>1, <3>2, <5>1, <5>2, ElementOfSeq
        <5> QED BY <1>2, <2>1, <3>2, <5>3
      <4> QED BY <4>1, <4>2
    <3>6. Parted(pre, w, refs'[a], e, k)
      BY <2>3, <3>2, <3>3, <3>5 DEF Parted, Cat, X, w
    <3> QED BY <2>2, <2>4, <3>6
  <2> QED BY <2>5, <2>6
<1> QED BY <1>1, <1>4, <1>5 DEF RendParted, Text, Slice

LEMMA RendReads ==
  ASSUME LogInv, UNCHANGED <<rawBuf, refs, lineBuf, printed>>,
         NEW a \in Writers, rend' = [of |-> a, end |-> LastEnd(refs[a]), out |-> Text(rawBuf, refs[a])]
  PROVE  RendParted'
<1> DEFINE n == Len(rawBuf)
           rs == refs[a]
           e == LastEnd(rs)
           t == Text(rawBuf, rs)
<1>1. rawBuf \in Seq(Bytes) /\ n \in Nat /\ rs \in Seq(RefsTo(n)) /\ EndIsLast(rs)
  BY LenProperties DEF LogInv, LogTyped, LastIsEnd
<1>2. e \in 0..n /\ t \in Seq(Bytes)
  BY <1>1, LastEndFacts, TextFacts
<1>3. Parted(rs, << >>, rs, e, n)
  BY <1>1, PartedWhole
<1>4. rend'.of = a /\ rend'.end = e /\ rend'.out = t /\ rawBuf' = rawBuf /\ refs' = refs
  OBVIOUS
<1> HIDE DEF e, t, n, rs
<1>5. rend' \in [of : Writers \cup {NoLog}, end : 0..n, out : Seq(Bytes)]
  BY <1>2 DEF e, t, rs
<1>6. \E pre, post : Parted(pre, post, refs'[rend'.of], rend'.end, n) /\ rend'.out = Text(rawBuf', pre)
  BY <1>3, <1>4 DEF rs, t
<1> QED BY <1>4, <1>5, <1>6 DEF RendParted, n, Text, Slice

LEMMA RendAppends ==
  ASSUME LogInv, AppendNew
  PROVE  RendParted'
<1> DEFINE n == Len(rawBuf)
           a == rend.of
           rs == refs[a]
           e == rend.end
<1>1. /\ a # NoLog /\ UNCHANGED <<rawBuf, refs, lineBuf, printed>>
      /\ rend' = [rend EXCEPT !.end = LastEnd(rs), !.out = rend.out \o Fresh(rs, e)]
  BY DEF AppendNew
<1>2. /\ rend \in [of : Writers \cup {NoLog}, end : 0..n, out : Seq(Bytes)]
      /\ rawBuf \in Seq(Bytes) /\ n \in Nat
      /\ \E pre, post : Parted(pre, post, rs, e, n) /\ rend.out = Text(rawBuf, pre)
  BY <1>1, LenProperties DEF LogInv, RendParted, LogTyped
<1>3. a \in Writers /\ e \in Nat
  BY <1>1, <1>2
<1>4. PICK pre, post : Parted(pre, post, rs, e, n) /\ rend.out = Text(rawBuf, pre)
  BY <1>2
<1>5. Fresh(rs, e) = Text(rawBuf, post)
  BY <1>2, <1>3, <1>4, FreshFacts
<1>6. Text(rawBuf, rs) = rend.out \o Fresh(rs, e)
  <2>1. pre \in Seq(RefsTo(n)) /\ post \in Seq(RefsTo(n)) /\ rs = pre \o post
    BY <1>4 DEF Parted, Cat
  <2>2. Text(rawBuf, pre \o post) = Cat(Text(rawBuf, pre), Text(rawBuf, post))
    BY <1>2, <2>1, TextFacts
  <2> QED BY <1>4, <1>5, <2>1, <2>2 DEF Cat
<1>7. rend' = [of |-> a, end |-> LastEnd(rs), out |-> Text(rawBuf, rs)]
  BY <1>1, <1>2, <1>6
<1> QED BY <1>1, <1>3, <1>7, RendReads

LEMMA LogStep ==
  ASSUME LogAssumption, LogInv, [LogNext]_logVars
  PROVE  LogInv'
<1>2. ASSUME UNCHANGED <<rawBuf, refs, lineBuf, printed>>
      PROVE  LogTyped' /\ PrintedPlaced' /\ RestKept' /\ LastIsEnd' /\ LogsWhole' /\ LogsShaped'
  <2>1. LogTyped /\ PrintedPlaced /\ RestKept /\ LastIsEnd /\ LogsWhole /\ LogsShaped
    BY DEF LogInv
  <2>2. LogTyped'
    BY <1>2, <2>1 DEF LogTyped
  <2>3. PrintedPlaced'
    BY <1>2, <2>1 DEF PrintedPlaced, Placed
  <2>4. RestKept'
    <3>1. lineBuf' = [m \in Writers |-> Rest(printed'[m])]
      BY <1>2, <2>1 DEF RestKept
    <3> QED BY <3>1 DEF RestKept, Rest, Split, Cut, NL
  <2>5. LastIsEnd'
    BY <1>2, <2>1 DEF LastIsEnd, EndIsLast, LastEnd, Last
  <2>6. LogsWhole'
    <3>1. \A n \in Writers, m \in Writers :
            Of(m, Text(rawBuf', refs'[n])) = IF Goes(m, n) THEN Whole(printed'[m]) ELSE << >>
      BY <1>2, <2>1 DEF LogsWhole
    <3> QED BY <3>1 DEF LogsWhole, Of, Text, Goes, Whole, Slice, Lines, Split, Cut, NL
  <2>7. LogsShaped'
    BY <1>2, <2>1 DEF LogsShaped, Shaped, Text, Slice, NL
  <2> QED BY <2>2, <2>3, <2>4, <2>5, <2>6, <2>7
<1>1. CASE UNCHANGED logVars
  <2>1. UNCHANGED <<rawBuf, refs, lineBuf, printed>> /\ rend' = rend
    BY <1>1 DEF logVars
  <2>2. RendParted'
    <3>1. RendParted
      BY DEF LogInv
    <3> QED BY <2>1, <3>1 DEF RendParted, Text, Slice
  <2> QED BY <1>2, <2>1, <2>2 DEF LogInv
<1>3. ASSUME NEW m \in Writers, NEW c \in Chunks(m), AppendOutput(m, c) PROVE LogInv'
  <2>1. PICK ls : Puts(m, ls)
    BY <1>3, AppendPuts
  <2>2. LogTyped' /\ PrintedPlaced' /\ RestKept' /\ LastIsEnd' /\ LogsWhole' /\ LogsShaped'
    BY <2>1, PutsLogs
  <2>3. RendParted'
    BY <2>1, RendPuts
  <2> QED BY <2>2, <2>3 DEF LogInv
<1>4. ASSUME NEW n \in Writers, OpenRenderer(n) PROVE LogInv'
  <2>1. /\ UNCHANGED <<rawBuf, refs, lineBuf, printed>>
        /\ rend' = [of |-> n, end |-> LastEnd(refs[n]), out |-> Text(rawBuf, refs[n])]
    BY <1>4 DEF OpenRenderer
  <2>2. RendParted'
    BY <2>1, RendReads
  <2> QED BY <1>2, <2>1, <2>2 DEF LogInv
<1>5. CASE AppendNew
  <2>1. RendParted'
    BY <1>5, RendAppends
  <2> QED BY <1>2, <1>5, <2>1 DEF LogInv, AppendNew
<1> QED BY <1>1, <1>3, <1>4, <1>5 DEF LogNext

(* What the invariant is for.                                                *)
LEMMA LogSound ==
  ASSUME LogAssumption, LogInv
  PROVE  LogTypeOK /\ LogIsLines /\ RenderedIsLog
<1>1. /\ rawBuf \in Seq(Bytes) /\ refs \in [Writers -> Seq(RefsTo(Len(rawBuf)))]
      /\ printed \in [Writers -> Seq(Byte)] /\ Len(rawBuf) \in Nat
  BY LenProperties DEF LogInv, LogTyped
<1>2. /\ rend \in [of : Writers \cup {NoLog}, end : 0..Len(rawBuf), out : Seq(Bytes)]
  BY DEF LogInv, RendParted
<1>3. NL \in Byte
  BY DEF NL, Byte, LogAssumption
<1>4. LogTypeOK
  <2>1. \A i \in DOMAIN rawBuf : rawBuf[i][1] \in Writers /\ rawBuf[i][2] \in 0..MaxBytes
    <3>1. \A i \in DOMAIN rawBuf : rawBuf[i] \in Bytes
      BY <1>1, LenProperties, ElementOfSeq
    <3> QED BY <3>1 DEF Bytes, Byte
  <2>2. ASSUME NEW n \in Writers, NEW i \in DOMAIN refs[n]
        PROVE  0 <= refs[n][i][1] /\ refs[n][i][1] < refs[n][i][2] /\ refs[n][i][2] <= Len(rawBuf)
    <3>1. refs[n] \in Seq(RefsTo(Len(rawBuf)))
      BY <1>1
    <3>2. refs[n][i] \in RefsTo(Len(rawBuf))
      BY <3>1, LenProperties, ElementOfSeq
    <3> QED BY <3>2 DEF RefsTo
  <2>3. ASSUME NEW n \in Writers PROVE NL \notin ToSet(lineBuf[n])
    <3>1. printed[n] \in Seq(Byte) /\ lineBuf[n] = Rest(printed[n])
      BY <1>1 DEF LogInv, RestKept
    <3>2. lineBuf[n] \in Seq(Byte \ {NL})
      BY <1>3, <3>1, SplitType
    <3>3. \A i \in DOMAIN lineBuf[n] : lineBuf[n][i] # NL
      BY <3>2, LenProperties, ElementOfSeq
    <3> QED BY <3>3 DEF ToSet
  <2> QED BY <1>2, <2>1, <2>2, <2>3 DEF LogTypeOK
<1>5. LogIsLines
  <2>1. ASSUME NEW n \in Writers, NEW m \in Writers
        PROVE  Chars(Of(m, Text(rawBuf, refs[n]))) = IF m = n \/ n \in LogAbove[m]
                 THEN Chars(SubSeq(printed[m], 1, EndOfLines(printed[m])))
                 ELSE << >>
    <3>1. Of(m, Text(rawBuf, refs[n])) = IF m = n \/ n \in LogAbove[m] THEN Whole(printed[m]) ELSE << >>
      BY DEF LogInv, LogsWhole, Goes
    <3>2. printed[m] \in Seq(Byte)
      BY <1>1
    <3>3. Chars(Whole(printed[m])) = Chars(SubSeq(printed[m], 1, EndOfLines(printed[m])))
      BY <1>3, <3>2, WholeChars
    <3>4. Chars(<< >>) = << >>
      BY CharsFacts
    <3> QED BY <3>1, <3>3, <3>4
  <2>2. \A n \in Writers : Shaped(Text(rawBuf, refs[n]))
    BY DEF LogInv, LogsShaped
  <2> QED BY <2>1, <2>2 DEF LogIsLines, Shaped
<1>6. RenderedIsLog
  <2> SUFFICES ASSUME rend.of # NoLog
               PROVE  /\ IsPrefix(rend.out, Text(rawBuf, refs[rend.of]))
                      /\ rend.end = LastEnd(refs[rend.of]) => rend.out = Text(rawBuf, refs[rend.of])
    BY DEF RenderedIsLog
  <2> DEFINE a == rend.of
             e == rend.end
             rs == refs[a]
             n == Len(rawBuf)
  <2>1. a \in Writers /\ e \in Nat /\ rs \in Seq(RefsTo(n))
    BY <1>1, <1>2
  <2>2. PICK pre, post : Parted(pre, post, rs, e, n) /\ rend.out = Text(rawBuf, pre)
    BY DEF LogInv, RendParted
  <2>3. /\ pre \in Seq(RefsTo(n)) /\ post \in Seq(RefsTo(n)) /\ rs = pre \o post
        /\ \A i \in DOMAIN post : post[i][1] >= e
    BY <2>2 DEF Parted, Cat
  <2> DEFINE s == Text(rawBuf, pre)
             t == Text(rawBuf, post)
  <2>4. s \in Seq(Bytes) /\ t \in Seq(Bytes) /\ Text(rawBuf, rs) = s \o t
    <3>1. Text(rawBuf, pre \o post) = Cat(s, t)
      BY <1>1, <2>3, TextFacts
    <3> QED BY <1>1, <2>3, <3>1, TextFacts DEF Cat
  <2> HIDE DEF s, t, rs, a, e, n
  <2>5. IsPrefix(s, s \o t)
    <3> DEFINE w == s \o t
    <3>1. w \in Seq(Bytes) /\ Len(s) \in Nat /\ Len(t) \in Nat /\ Len(w) = Len(s) + Len(t)
      BY <2>4, LenProperties, ConcatProperties
    <3>2. SubSeq(w, 1, Len(s)) = SubSeq(s, 1, Len(s))
      <4>1. 1 \in 1..Len(s) + 1 /\ Len(s) \in 0..Len(s)
        BY <3>1
      <4> QED BY <2>4, <4>1, SubSeqKept
    <3> HIDE DEF w
    <3> QED BY <3>1, <3>2 DEF IsPrefix, w
  <2>6. ASSUME e = LastEnd(rs) PROVE s = Text(rawBuf, rs)
    <3>1. CASE post = << >>
      <4>1. rs = pre
        BY <2>3, <3>1, ConcatEmptySeq
      <4> QED BY <4>1 DEF s
    <3>2. CASE post # << >>
      <4> DEFINE l == Len(pre)
                 k == Len(post)
      <4>1. /\ l \in Nat /\ k \in Nat /\ k > 0 /\ Len(rs) = l + k /\ k \in DOMAIN post
            /\ \A i \in 1..l + k : rs[i] = IF i <= l THEN pre[i] ELSE post[i - l]
        BY <2>3, <3>2, EmptySeq, LenProperties, ConcatProperties
      <4>2. rs # << >>
        BY <4>1
      <4> HIDE DEF l, k
      <4>3. Last(rs) = post[k]
        <5>1. l + k \in 1..l + k /\ ~(l + k <= l) /\ (l + k) - l = k
          BY <4>1
        <5>2. rs[l + k] = post[k]
          BY <4>1, <5>1
        <5> QED BY <4>1, <5>2 DEF Last
      <4>4. post[k] \in RefsTo(n)
        BY <2>3, <4>1, LenProperties, ElementOfSeq
      <4>5. post[k][1] >= e /\ post[k][1] < post[k][2] /\ post[k][1] \in Nat /\ post[k][2] \in Nat
        BY <2>3, <4>1, <4>4 DEF RefsTo
      <4>6. LastEnd(rs) = post[k][2]
        BY <4>2, <4>3 DEF LastEnd
      <4> QED BY <2>1, <2>6, <4>5, <4>6
    <3> QED BY <3>1, <3>2
  <2> QED BY <2>2, <2>4, <2>5, <2>6 DEF s, rs, a, e
<1> QED BY <1>4, <1>5, <1>6

(* However the events cut the output of a test and however parallel tests    *)
(* take turns, a node's log is the finished lines of the tests at and below  *)
(* it, and the text the renderer appends to is that log.                     *)
THEOREM LogIsSound == LogSpec => [](LogTypeOK /\ LogIsLines /\ RenderedIsLog)
<1>1. LogInit => LogInv
  BY LogBegins
<1>2. LogInv /\ [LogNext]_logVars => LogInv'
  BY LogAssumption, LogStep
<1>3. LogInv => LogTypeOK /\ LogIsLines /\ RenderedIsLog
  BY LogAssumption, LogSound
<1> QED BY <1>1, <1>2, <1>3, PTL DEF LogSpec

-----------------------------------------------------------------------------
(* A step of gowt is one of a part, and in the others the run and the tree   *)
(* stutter.                                                                  *)
THEOREM GowtIsSound == Spec => [](RunSound /\ TreeSound)
<1>1. Init => RunInit /\ TreeInit
  BY DEF Init
<1>2. ASSUME [Next]_vars PROVE [RunNext]_runVars /\ [TreeNext]_goTreeVars
  <2>1. CASE UNCHANGED vars
    BY <2>1 DEF vars
  <2>2. CASE Next
    BY <2>2 DEF Next, OfRun, Only
  <2> QED BY <1>2, <2>1, <2>2
<1> QED BY <1>1, <1>2, RunsAreSound, TreeIsSound, PTL DEF Spec, RunSpec, TreeSpec

(* The log, the list and the screens show what ViewsSound says, with its two *)
(* exceptions (a kept search, a tree shown again from the log), and who      *)
(* reads keeps the place (the parts of GowtProgress that are not liveness):  *)
(* all parts of gowt together.                                               *)
THEOREM ViewsAreSound ==
  Spec => []ViewsSound /\ ScrollHeld /\ TailFollowed /\ CursorOnScreen /\ NeverLeftRunning
<1>1. Init => LogInit /\ LogViewInit /\ TreeViewInit /\ ScreensInit
  BY DEF Init
<1>2. ASSUME [Next]_vars
      PROVE  /\ [LogNext]_logVars /\ [LogViewNext]_logViewVars
             /\ [TreeViewNext]_treeViewVars /\ [ScreensNext]_screensVars
  <2>1. CASE UNCHANGED vars
    BY <2>1 DEF vars
  <2>2. CASE Next
    BY <2>2 DEF Next, OfRun, Only
  <2> QED BY <1>2, <2>1, <2>2
<1>3. Spec => LogSpec /\ LogViewSpec /\ TreeViewSpec /\ ScreensSpec
  BY <1>1, <1>2, PTL DEF Spec, LogSpec, LogViewSpec, TreeViewSpec, ScreensSpec
<1>4. /\ LogTypeOK /\ LogIsLines /\ RenderedIsLog /\ LogViewTypeOK /\ NoOldMarks /\ TextIsNodes
      /\ TreeViewTypeOK /\ ListIsTree /\ OneQuestion /\ SizeFresh /\ StoppedIsOver
      => ViewsSound
  BY DEF ViewsSound
<1> QED BY <1>3, <1>4, LogIsSound, LogViewIsSound, TreeViewIsSound, ScreensAreSound, PTL
=============================================================================
