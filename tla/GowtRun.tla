-------------------------------- MODULE GowtRun --------------------------------
(***************************************************************************)
(* gowt/app.go and runner.go: the App that starts `go test`, waits for its *)
(* events and starts it again on a rerun.                                  *)
(*                                                                         *)
(* Update handles one message at a time.  The commands it returns run in   *)
(* goroutines of their own, each ends with one message, and the messages   *)
(* arrive in any order.  flight holds both: the commands that have not     *)
(* done their work yet and the messages Update has not handled yet.  from  *)
(* (history) is what one of them goes back to: the start of a generation,  *)
(* a process whose stream is read, or a rerun that was confirmed.          *)
(*                                                                         *)
(* A process is the number of its start.  Its output is a count of events  *)
(* and a count of stderr lines; <<p, k>> is event k and <<p, -k>> line k   *)
(* of process p.                                                           *)
(***************************************************************************)
EXTENDS Integers, FiniteSets, Bags

CONSTANTS
  MaxReruns,  \* reruns the user accepts
  MaxOut,     \* events of a process
  MaxErr,     \* stderr lines of a process
  ChanCap,    \* places of the events and stderr channels (1000)
  MaxTicks    \* tick commands under way

ASSUME RunAssumption == {MaxReruns, MaxOut, MaxErr, ChanCap, MaxTicks} \subseteq Nat

Procs == 1..MaxReruns + 1
None == 0

VARIABLES
  alive,      \* the test processes that run
  started,    \* processes started so far: 1..started
  sent,       \* process -> events sent to its channel
  taken,      \* process -> events received from it
  errSent, errTaken,
  done,       \* process -> its done channel: "no", "sent" or "taken"
  flight,     \* the bag of commands and messages
  runGen, running, stream,  \* App.runGen, App.running, App.stream
  items,      \* what ProcessEvent put into App.tree
  ticks,      \* tick commands under way
  reruns, quit,
  attached,   \* history: process -> generation its TestStartedMsg was handled in
  begun,      \* history: process -> generation it was started for
  overtaken   \* history: generations still being started when a rerun took over

chanVars == <<sent, taken, errSent, errTaken, done>>
runVars == <<alive, started, chanVars, flight, runGen, running, stream, items,
             reruns, ticks, quit, attached, begun, overtaken>>

Wait(g, s, f) == [do |-> "wait", gen |-> g, stream |-> s, blocked |-> FALSE, from |-> f]
StartOf(g) == [do |-> "start", gen |-> g, from |-> <<"generation", g>>]
With(c) == SetToBag({c})
Replace(c, d) == flight' = (flight (-) With(c)) (+) d
Flying(kind) == {c \in BagToSet(flight) : c.do = kind}

RunInit ==
  /\ alive = {} /\ started = 0
  /\ sent = [p \in Procs |-> 0] /\ taken = [p \in Procs |-> 0]
  /\ errSent = [p \in Procs |-> 0] /\ errTaken = [p \in Procs |-> 0]
  /\ done = [p \in Procs |-> "no"]
  /\ flight = With(StartOf(0))
  /\ runGen = 0 /\ running = TRUE /\ stream = None
  /\ items = {}
  /\ ticks = 1 /\ reruns = 0 /\ quit = FALSE
  /\ attached = [p \in Procs |-> None - 1] /\ begun = [p \in Procs |-> None - 1]
  /\ overtaken = {}

-----------------------------------------------------------------------------
(* A test process and the two goroutines that read it.                      *)

Emit(p) ==
  /\ ~quit /\ p <= started /\ done[p] = "no" /\ sent[p] < MaxOut
  /\ sent[p] - taken[p] < ChanCap
  /\ sent' = [sent EXCEPT ![p] = @ + 1]
  /\ UNCHANGED <<alive, started, taken, errSent, errTaken, done, flight, runGen,
                 running, stream, items, reruns, ticks, quit, attached, begun, overtaken>>

(* The stderr reader may be behind readEvents, also after done.             *)
EmitErr(p) ==
  /\ ~quit /\ p <= started /\ errSent[p] < MaxErr /\ errSent[p] - errTaken[p] < ChanCap
  /\ errSent' = [errSent EXCEPT ![p] = @ + 1]
  /\ UNCHANGED <<alive, started, sent, taken, errTaken, done, flight, runGen,
                 running, stream, items, reruns, ticks, quit, attached, begun, overtaken>>

Exit(p) ==
  /\ p \in alive
  /\ alive' = alive \ {p}
  /\ UNCHANGED <<started, chanVars, flight, runGen, running, stream, items, reruns,
                 ticks, quit, attached, begun, overtaken>>

(* readEvents reached the end of stdout and waited for the process.         *)
SendDone(p) ==
  /\ ~quit /\ p <= started /\ p \notin alive /\ done[p] = "no"
  /\ done' = [done EXCEPT ![p] = "sent"]
  /\ UNCHANGED <<alive, started, sent, taken, errSent, errTaken, flight, runGen,
                 running, stream, items, reruns, ticks, quit, attached, begun, overtaken>>

-----------------------------------------------------------------------------
(* The commands.                                                            *)

(* startTests and startSingleTest: the message of a started process has no  *)
(* generation, that of a failed start has one.                              *)
ExecStart(c) ==
  /\ ~quit /\ c \in Flying("start")
  /\ \/ /\ started' = started + 1
        /\ alive' = alive \cup {started'}
        /\ begun' = [begun EXCEPT ![started'] = c.gen]
        /\ Replace(c, With([do |-> "started", stream |-> started',
                          from |-> <<"process", started'>>]))
     \/ /\ Replace(c, With([do |-> "done", gen |-> c.gen, from |-> c.from]))
        /\ UNCHANGED <<alive, started, begun>>
  /\ UNCHANGED <<chanVars, runGen, running, stream, items, reruns, ticks, quit, attached,
                 overtaken>>

(* startRerun and startLogRerun: the stream is the one App had when the     *)
(* rerun was confirmed.                                                     *)
ExecClean(c) ==
  /\ ~quit /\ c \in Flying("clean")
  /\ alive' = alive \ {c.kill}
  /\ Replace(c, With([do |-> "cleaned", from |-> c.from]))
  /\ UNCHANGED <<started, chanVars, runGen, running, stream, items, reruns, ticks,
                 quit, attached, begun, overtaken>>

TakeEvent(c) ==
  LET p == c.stream IN
  /\ taken[p] < sent[p]
  /\ taken' = [taken EXCEPT ![p] = @ + 1]
  /\ Replace(c, With([do |-> "event", gen |-> c.gen, item |-> <<p, taken[p] + 1>>,
                    from |-> c.from]))
  /\ UNCHANGED <<errTaken, done, items>>
TakeErr(c) ==
  LET p == c.stream IN
  /\ errTaken[p] < errSent[p]
  /\ errTaken' = [errTaken EXCEPT ![p] = @ + 1]
  /\ Replace(c, With([do |-> "event", gen |-> c.gen, item |-> <<p, -(errTaken[p] + 1)>>,
                    from |-> c.from]))
  /\ UNCHANGED <<taken, done, items>>

(* Mutant: what is left in the channel after done is not read. *)
TakeDoneOnly(c) ==
  /\ done[c.stream] = "sent"
  /\ done' = [done EXCEPT ![c.stream] = "taken"]
  /\ Replace(c, With([do |-> "done", gen |-> c.gen, from |-> c.from]))
  /\ UNCHANGED <<taken, errTaken, items>>

(* The rest of the events goes straight into the tree the command holds,    *)
(* the rest of stderr is dropped.                                           *)
TakeDone(c) ==
  LET p == c.stream IN
  /\ done[p] = "sent"
  /\ done' = [done EXCEPT ![p] = "taken"]
  /\ taken' = [taken EXCEPT ![p] = sent[p]]
  /\ errTaken' = [errTaken EXCEPT ![p] = errSent[p]]
  /\ items' = IF c.gen = runGen THEN items \cup {<<p, k>> : k \in taken[p] + 1 .. sent[p]}
                                ELSE items
  /\ Replace(c, With([do |-> "done", gen |-> c.gen, from |-> c.from]))

(* waitForEvents: first what is there, then the blocking wait.              *)
ExecWait(c) ==
  /\ ~quit /\ c \in Flying("wait")
  /\ \/ TakeEvent(c)
     \/ TakeErr(c)
     \/ c.blocked /\ TakeDone(c)
     \/ /\ ~c.blocked
        /\ taken[c.stream] = sent[c.stream] /\ errTaken[c.stream] = errSent[c.stream]
        /\ Replace(c, With([c EXCEPT !.blocked = TRUE]))
        /\ UNCHANGED <<taken, errTaken, done, items>>
  /\ UNCHANGED <<alive, started, sent, errSent, runGen, running, stream, reruns, ticks,
                 quit, attached, begun, overtaken>>

-----------------------------------------------------------------------------
(* Update: the messages of the commands.                                    *)

HandleStarted(m) ==
  /\ ~quit /\ m \in Flying("started")
  /\ stream' = m.stream
  /\ attached' = [attached EXCEPT ![m.stream] = runGen]
  /\ Replace(m, With(Wait(runGen, m.stream, m.from)))
  /\ UNCHANGED <<alive, started, chanVars, runGen, running, items, reruns, ticks, quit,
                 begun, overtaken>>

(* Mutants: every message is processed; a stale one is dropped, but a new   *)
(* wait is armed for it all the same.                                       *)
HandleAnyEvent(m) ==
  /\ ~quit /\ m \in Flying("event")
  /\ items' = items \cup {m.item}
  /\ Replace(m, IF running THEN With(Wait(runGen, stream, m.from)) ELSE EmptyBag)
  /\ UNCHANGED <<alive, started, chanVars, runGen, running, stream, reruns, ticks, quit,
                 attached, begun, overtaken>>
HandleEventRearming(m) ==
  /\ ~quit /\ m \in Flying("event")
  /\ items' = IF m.gen = runGen THEN items \cup {m.item} ELSE items
  /\ Replace(m, IF running THEN With(Wait(runGen, stream, m.from)) ELSE EmptyBag)
  /\ UNCHANGED <<alive, started, chanVars, runGen, running, stream, reruns, ticks, quit,
                 attached, begun, overtaken>>

(* TestEventMsg and StderrMsg *)
HandleEvent(m) ==
  /\ ~quit /\ m \in Flying("event")
  /\ items' = IF m.gen = runGen THEN items \cup {m.item} ELSE items
  /\ Replace(m, IF m.gen = runGen /\ running THEN With(Wait(runGen, stream, m.from)) ELSE EmptyBag)
  /\ UNCHANGED <<alive, started, chanVars, runGen, running, stream, reruns, ticks, quit,
                 attached, begun, overtaken>>

(* Mutant: the message at the end of a run is dropped. *)
HandleDoneLost(m) ==
  /\ ~quit /\ m \in Flying("done")
  /\ Replace(m, EmptyBag)
  /\ UNCHANGED <<alive, started, chanVars, runGen, running, stream, items, reruns, ticks,
                 quit, attached, begun, overtaken>>

HandleDone(m) ==
  /\ ~quit /\ m \in Flying("done")
  /\ running' = (running /\ m.gen # runGen)
  /\ Replace(m, EmptyBag)
  /\ UNCHANGED <<alive, started, chanVars, runGen, stream, items, reruns, ticks, quit,
                 attached, begun, overtaken>>

(* Generations whose start command, or whose process' TestStartedMsg, is     *)
(* still on its way.                                                         *)
Starting == {c.gen : c \in Flying("start")}
              \cup {begun[p] : p \in {q \in 1..started : attached[q] = None - 1}}

(* Mutants: no clock for the new run; the new run has no generation of its   *)
(* own.                                                                      *)
HandleCleanedNoTick(m) ==
  /\ ~quit /\ m \in Flying("cleaned")
  /\ runGen' = runGen + 1
  /\ items' = {} /\ running' = TRUE
  /\ overtaken' = overtaken \cup Starting
  /\ Replace(m, With(StartOf(runGen + 1)))
  /\ UNCHANGED <<alive, started, chanVars, stream, reruns, ticks, quit, attached, begun>>
HandleCleanedSameRun(m) ==
  /\ ~quit /\ m \in Flying("cleaned")
  /\ items' = {} /\ running' = TRUE
  /\ overtaken' = overtaken \cup Starting
  /\ Replace(m, With(StartOf(runGen)))
  /\ ticks' = ticks + 1
  /\ UNCHANGED <<alive, started, chanVars, stream, reruns, quit, runGen, attached, begun>>

(* CacheCleanedMsg and, for a single test, LogCacheCleanedMsg. *)
HandleCleaned(m) ==
  /\ ~quit /\ m \in Flying("cleaned")
  /\ runGen' = runGen + 1
  /\ items' = {} /\ running' = TRUE
  /\ overtaken' = overtaken \cup Starting
  /\ Replace(m, With(StartOf(runGen + 1)))
  /\ ticks' = ticks + 1
  /\ UNCHANGED <<alive, started, chanVars, stream, reruns, quit, attached, begun>>

(* TickMsg arms the next tick while tests run or a copy is animated. *)
HandleTick ==
  /\ ~quit /\ ticks > 0 /\ ~running
  /\ ticks' = ticks - 1
  /\ UNCHANGED <<alive, started, chanVars, flight, runGen, running, stream, items,
                 reruns, quit, attached, begun, overtaken>>

-----------------------------------------------------------------------------
(* Update: the answers to the questions, which GowtScreens asks.  A question *)
(* may be open at any time, and stay open while the run ends behind it.      *)

QuitAtOnce ==
  /\ ~quit /\ ~running
  /\ quit' = TRUE
  /\ UNCHANGED <<alive, started, chanVars, flight, runGen, running, stream, items,
                 ticks, reruns, attached, begun, overtaken>>

ConfirmQuit ==
  /\ ~quit
  /\ alive' = alive \ {stream}
  /\ quit' = TRUE
  /\ UNCHANGED <<started, chanVars, flight, runGen, running, stream, items, ticks,
                 reruns, attached, begun, overtaken>>

ConfirmRerun ==
  /\ ~quit /\ reruns < MaxReruns
  /\ flight' = flight (+) With([do |-> "clean", kill |-> stream, from |-> <<"rerun", reruns + 1>>])
  /\ reruns' = reruns + 1
  /\ UNCHANGED <<alive, started, chanVars, runGen, running, stream, items, ticks, quit,
                 attached, begun, overtaken>>

(* Mutant: a stop begins a new generation, as a rerun does. *)
ConfirmStopAnew ==
  /\ ~quit
  /\ alive' = alive \ {stream}
  /\ running' = FALSE /\ runGen' = runGen + 1
  /\ UNCHANGED <<started, chanVars, flight, stream, items, ticks, reruns, quit, attached,
                 begun, overtaken>>

ConfirmStop ==
  /\ ~quit
  /\ alive' = alive \ {stream}
  /\ running' = FALSE
  /\ UNCHANGED <<started, chanVars, flight, runGen, stream, items, ticks, reruns, quit,
                 attached, begun, overtaken>>

CopyLogs ==
  /\ ~quit /\ items # {} /\ ~running /\ ticks < MaxTicks
  /\ ticks' = ticks + 1
  /\ UNCHANGED <<alive, started, chanVars, flight, runGen, running, stream, items,
                 reruns, quit, attached, begun, overtaken>>

-----------------------------------------------------------------------------
Update ==
  \/ \E m \in BagToSet(flight) :
       HandleStarted(m) \/ HandleEvent(m) \/ HandleDone(m) \/ HandleCleaned(m)
  \/ HandleTick
Command == \E c \in BagToSet(flight) : ExecStart(c) \/ ExecClean(c) \/ ExecWait(c)
User == ConfirmRerun \/ ConfirmStop \/ ConfirmQuit \/ QuitAtOnce \/ CopyLogs
Process(p) == Exit(p) \/ SendDone(p)

RunNext ==
  \/ Update \/ Command \/ User
  \/ \E p \in Procs : Emit(p) \/ EmitErr(p) \/ Process(p)

RunSpec == RunInit /\ [][RunNext]_runVars

-----------------------------------------------------------------------------
(* Properties *)

RunTypeOK ==
  /\ alive \subseteq 1..started /\ started \in 0..MaxReruns + 1
  /\ sent \in [Procs -> 0..MaxOut] /\ taken \in [Procs -> 0..MaxOut]
  /\ errSent \in [Procs -> 0..MaxErr] /\ errTaken \in [Procs -> 0..MaxErr]
  /\ \A p \in Procs : taken[p] <= sent[p] /\ sent[p] - taken[p] <= ChanCap
  /\ done \in [Procs -> {"no", "sent", "taken"}]
  /\ IsABag(flight)
  /\ runGen \in 0..reruns /\ running \in BOOLEAN /\ stream \in 0..started
  /\ \A i \in items : i[1] \in 1..started
  /\ ticks \in 0..MaxTicks + MaxReruns + 1 /\ reruns \in 0..MaxReruns /\ quit \in BOOLEAN

(* Waits, and messages of waits, of the current generation. *)
Readers == {c \in Flying("wait") \cup Flying("event") : c.gen = runGen}
Ends == {m \in Flying("done") : m.gen = runGen}
AttachedNow == {p \in Procs : attached[p] = runGen}

(* A process that was still being started when a rerun took over.            *)
Overtaken(p) == begun[p] \in overtaken

(* The chain of waits never breaks and never forks: each process attached in *)
(* this generation has at most one wait or unhandled message, nothing else   *)
(* has one of this generation, and while tests run there is at least one in  *)
(* all, unless the end of the run is itself on its way to Update.  There is  *)
(* one chain, and one more for each process that was overtaken: those are    *)
(* attached to the generation that overtook them, or to a later one.         *)
OneReader ==
  /\ \A c \in Readers : /\ flight[c] = 1
                        /\ \E p \in AttachedNow : c.from = <<"process", p>>
                        /\ \A d \in Readers : c.from = d.from => c = d
  /\ running /\ AttachedNow # {} => Readers # {} \/ Ends # {}
  /\ \A p, q \in AttachedNow : Overtaken(p) \/ Overtaken(q) \/ p = q

(* "Increment run generation to ignore stale messages": what was read from a *)
(* process attached before the last rerun is not in the tree.  What is there *)
(* comes from the process of this generation.  The exception: TestStartedMsg *)
(* has no generation, so a process that was still being started when a rerun *)
(* took over is attached to the new run, and its events mix with those of    *)
(* the new process.                                                          *)
StaleDropped ==
  \A i \in items : /\ attached[i[1]] = runGen
                   /\ begun[i[1]] = runGen \/ Overtaken(i[1])

(* A run is reported as done only after all its events were read. *)
DrainedAtDone == \A p \in Procs : done[p] = "taken" => taken[p] = sent[p]

(* The clock of a running test run goes on, through stops and reruns. *)
ClockRuns == running => ticks >= 1

(* What a rerun finds attached is dropped, the streams are drained before a  *)
(* run is over, the clock ticks while one goes on, and one stream is read,   *)
(* once, with one exception: an earlier process whose start the rerun        *)
(* overtook is read and shown as well (RealApp.Update).                      *)
RunSound == RunTypeOK /\ OneReader /\ StaleDropped /\ DrainedAtDone /\ ClockRuns
=============================================================================
