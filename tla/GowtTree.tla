------------------------------ MODULE GowtTree ------------------------------
(***************************************************************************)
(* gowt/model/model.go: the tree of packages, tests and subtests, and what *)
(* one event of `go test -json` does to the statuses and to the counters,  *)
(* which are kept on every node and, for the whole tree, on Tree.          *)
(*                                                                         *)
(* The events come from go test.  phase, result, par and stage say where   *)
(* each test and package is, and make the order of events one that the Go  *)
(* testing package can produce: a test ends after its subtests, fails when *)
(* one of them does, and pauses at most once, in t.Parallel.               *)
(***************************************************************************)
EXTENDS Integers, FiniteSets

CONSTANTS
  Packages,
  Tests,      \* tests and subtests that send events
  PrefixNodes,   \* nodes made for a "/" inside a subtest's name: no events
  Parent,     \* the parent of a test or prefix
  Above,      \* every ancestor of a node: subtests, test, package
  Tree        \* stands for the counters of TestTree itself

Nodes == Packages \cup Tests \cup PrefixNodes

ASSUME TreeAssumption ==
  /\ Tree \notin Nodes
  /\ IsFiniteSet(Nodes)
  /\ Packages \cap (Tests \cup PrefixNodes) = {}
  /\ Tests \cap PrefixNodes = {}
  /\ Parent \in [Tests \cup PrefixNodes -> Nodes]
  /\ Above \in [Nodes -> SUBSET Nodes]
  /\ \A p \in Packages : Above[p] = {}
  /\ \A n \in Tests \cup PrefixNodes :
       /\ n \notin Above[n]
       /\ Above[n] = {Parent[n]} \cup Above[Parent[n]]

VARIABLES
  exists,     \* the nodes in the tree
  status,     \* TestNode.Status
  count,      \* the counters of each node and of the tree
  cached,     \* the nodes with Cached = true
  phase, result, par, \* go test: each test, and when it called t.Parallel
  stage       \* go test: each package

treeVars == <<exists, status, count, cached>>
goVars == <<phase, result, par, stage>>
goTreeVars == <<treeVars, goVars>>

Fields == {"passed", "failed", "skipped", "running", "cached", "total"}
Statuses == {"pending", "running", "pass", "fail", "skip"}
Results == {"pass", "fail", "skip"}
FieldOf == [pass |-> "passed", fail |-> "failed", skip |-> "skipped"]

Kids(n) == {m \in Tests \cup PrefixNodes : Parent[m] = n}
Subtree(n) == {m \in Nodes : n = m \/ n \in Above[m]}
\* Mutant: the counters of grandparents are forgotten.
LineToParent(n) == {n, Tree} \cup IF n \in Packages THEN {} ELSE {Parent[n]}
\* The nodes whose counters an event of n changes.
Line(n) == {n, Tree} \cup Above[n]
PackageOf(t) == CHOOSE p \in Packages : p \in Above[t]
-----------------------------------------------------------------------------
(* The tree.                                                               *)

\* propagateCountDelta, for several fields at once: d[f] is added to f.
Added(n, d) ==
  [f \in Fields |-> [m \in Nodes \cup {Tree} |->
     count[f][m] + IF m \in Line(n) THEN d[f] ELSE 0]]
Delta(f, i) == [g \in Fields |-> IF g = f THEN i ELSE 0]
RunningDelta(n, s) ==
  Delta("running", (IF s = "running" THEN 1 ELSE 0)
                     - (IF status[n] = "running" THEN 1 ELSE 0))

\* propagateStatus: from the parent of n upwards, a node with a failed or
\* running child takes the worst of its children's statuses.
\* Mutant: the parent also takes "pass" from its children.
WorstOrPass(ss, own) ==
  IF "fail" \in ss THEN "fail" ELSE IF "running" \in ss THEN "running" ELSE "pass"
Worst(ss, own) ==
  IF "fail" \in ss THEN "fail" ELSE IF "running" \in ss THEN "running" ELSE own
\* Mutant: one level only.
PropagatedOnce(n, st) ==
  [m \in Nodes |-> IF m \in Above[n] /\ n \in Kids(m)
                     THEN Worst({st[k] : k \in Kids(m) \cap exists}, st[m]) ELSE st[m]]
Propagated(n, st) ==
  LET up[m \in Nodes] ==
        IF m \in Above[n] THEN Worst({up[k] : k \in Kids(m) \cap exists}, st[m])
                          ELSE st[m]
  IN  up

\* getOrCreateTest: every missing node on the path is made, and counted in
\* itself and in all its ancestors.
Path(t) == {t} \cup Above[t]
Missing(t) == (Path(t) \ Packages) \ exists
Created(t) ==
  [count EXCEPT !["total"] = [m \in Nodes \cup {Tree} |->
     @[m] + Cardinality({c \in Missing(t) : m \in Line(c)})]]

TreeInit ==
  /\ exists = {}
  /\ status = [n \in Nodes |-> "pending"]
  /\ count = [f \in Fields |-> [m \in Nodes \cup {Tree} |-> 0]]
  /\ cached = {}
  /\ phase = [t \in Tests |-> "idle"]
  /\ result = [t \in Tests |-> "pass"]
  /\ par = [t \in Tests |-> "no"]
  /\ stage = [p \in Packages |-> "idle"]
-----------------------------------------------------------------------------
(* What go test may send next.                                             *)

\* Subtests of t (a prefix may stand between), and the tests run beside t.
Subtests(t) == {u \in Tests : t \in Above[u] /\ Above[u] \cap Tests \subseteq Path(t)}
Owner(t) == {u \in Tests : t \in Subtests(u)}
Peers(t) == {u \in Tests \ {t} : Owner(u) = Owner(t) /\ PackageOf(u) = PackageOf(t)}

Released(u) == par[u] # "no" /\ phase[u] \in {"running", "ended"}
Open(t) == stage[PackageOf(t)] = "started" /\ \A o \in Owner(t) : phase[o] = "running"
Over(ts) == \A u \in ts : phase[u] \in {"idle", "ended"}
Passing(ts) == \A u \in ts : ~(phase[u] = "ended" /\ result[u] = "fail")
TestsOf(p) == {t \in Tests : p \in Above[t]}

\* Tests start one at a time, up to the moment the parallel ones are resumed.
MayRun(t) == /\ phase[t] = "idle" /\ Open(t)
             /\ \A u \in Peers(t) : phase[u] # "running" /\ ~Released(u)
MayPause(t) == /\ phase[t] = "running" /\ par[t] = "no"
               /\ \A u \in Subtests(t) : phase[u] # "running" /\ ~Released(u)
MayResume(t) == /\ phase[t] = "paused" /\ Open(t)
                /\ \A u \in Peers(t) : phase[u] = "running" => Released(u)
MayEnd(t, r) == /\ phase[t] = "running" /\ Over(Subtests(t))
                /\ r = "fail" \/ Passing(Subtests(t))
-----------------------------------------------------------------------------
(* One action per event that changes the tree.                             *)

\* handleTestEvent, for run, pause and cont.
SetStatus(t, s) ==
  /\ status' = [status EXCEPT ![t] = s]
  /\ phase' = [phase EXCEPT ![t] = IF s = "running" THEN "running" ELSE "paused"]
  /\ UNCHANGED <<cached, result, stage>>

\* "run" is the first event of a test: its nodes are made here.
Run(t) ==
  /\ MayRun(t)
  /\ exists' = exists \cup Path(t)
  /\ count' = [Added(t, RunningDelta(t, "running")) EXCEPT !["total"] = Created(t)["total"]]
  /\ SetStatus(t, "running")
  /\ UNCHANGED par
\* Mutant: a paused test stays counted.
PauseCounted(t) ==
  /\ MayPause(t)
  /\ par' = [par EXCEPT ![t] = IF \A u \in Subtests(t) : phase[u] = "idle" THEN "first" ELSE "late"]
  /\ SetStatus(t, "pending")
  /\ UNCHANGED <<exists, count>>
Pause(t) ==
  /\ MayPause(t)
  /\ count' = Added(t, RunningDelta(t, "pending"))
  /\ par' = [par EXCEPT ![t] = IF \A u \in Subtests(t) : phase[u] = "idle" THEN "first" ELSE "late"]
  /\ SetStatus(t, "pending")
  /\ UNCHANGED exists
Cont(t) ==
  /\ MayResume(t)
  /\ count' = Added(t, RunningDelta(t, "running"))
  /\ SetStatus(t, "running")
  /\ UNCHANGED <<exists, par>>

\* handleTestEvent, for pass, fail and skip.
EndCounts(t, r) ==
  Added(t, [Delta(FieldOf[r], 1) EXCEPT !["running"] = RunningDelta(t, r)["running"]])
End(t, r) ==
  /\ MayEnd(t, r)
  /\ count' = EndCounts(t, r)
  /\ status' = Propagated(t, [status EXCEPT ![t] = r])
  /\ phase' = [phase EXCEPT ![t] = "ended"]
  /\ result' = [result EXCEPT ![t] = r]
  /\ UNCHANGED <<exists, cached, par, stage>>

\* "build-fail" of a package, before "start".
BuildFail(p) ==
  /\ stage[p] = "idle"
  /\ exists' = exists \cup {p}
  /\ status' = [status EXCEPT ![p] = "fail"]
  /\ count' = Added(p, [Delta("failed", 1) EXCEPT !["running"] = RunningDelta(p, "fail")["running"]])
  /\ stage' = [stage EXCEPT ![p] = "broken"]
  /\ UNCHANGED <<cached, phase, result, par>>

\* handlePackageEvent: the package's own events leave the counters alone.
Start(p) ==
  /\ stage[p] \in {"idle", "broken"}
  /\ exists' = exists \cup {p}
  /\ status' = [status EXCEPT ![p] = "running"]
  /\ stage' = [stage EXCEPT ![p] = IF @ = "idle" THEN "started" ELSE "unbuilt"]
  /\ UNCHANGED <<count, cached, phase, result, par>>
PackageEnd(p, s) ==
  /\ \/ s = "fail" /\ stage[p] \in {"started", "unbuilt"}  \* a panic leaves tests unended
     \/ s = "pass" /\ stage[p] \in {"started", "replayed"} /\ Over(TestsOf(p)) /\ Passing(TestsOf(p))
     \/ s = "skip" /\ stage[p] = "started" /\ \A t \in TestsOf(p) : phase[t] = "idle"
  /\ status' = [status EXCEPT ![p] = s]
  /\ stage' = [stage EXCEPT ![p] = IF @ = "unbuilt" THEN @ ELSE "done"]
  /\ UNCHANGED <<exists, count, cached, phase, result, par>>

\* The output "ok <package> (cached)": markCached, markChildCachedFlag.
\* Mutant: nodes of the last run are marked too.
MarkedAll(p) == Subtree(p)
Marked(p) == Subtree(p) \cap exists
MarkCached(p) ==
  /\ status' = [n \in Nodes |-> IF n \in Marked(p) THEN "pass" ELSE status[n]]
  /\ cached' = cached \cup Marked(p)
  /\ count' = [count EXCEPT !["cached"] = [m \in Nodes \cup {Tree} |->
                 IF m \in Marked(p) THEN count["total"][m]
                 ELSE @[m] + IF m = Tree THEN count["total"][p] ELSE 0]]
CachedLine(p) ==
  /\ stage[p] = "started" /\ Over(TestsOf(p)) /\ Passing(TestsOf(p))
  /\ stage' = [stage EXCEPT ![p] = "replayed"]
  /\ IF count["cached"][p] > 0 THEN UNCHANGED <<status, cached, count>> ELSE MarkCached(p)
  /\ UNCHANGED <<exists, phase, result, par>>

TreeNext ==
  \/ \E t \in Tests : Run(t) \/ Pause(t) \/ Cont(t) \/ \E r \in Results : End(t, r)
  \/ \E p \in Packages : BuildFail(p) \/ Start(p) \/ CachedLine(p)
                           \/ \E s \in Results : PackageEnd(p, s)

TreeSpec == TreeInit /\ [][TreeNext]_goTreeVars
-----------------------------------------------------------------------------
(* Properties.                                                             *)

TreeTypeOK ==
  /\ exists \subseteq Nodes
  /\ status \in [Nodes -> Statuses]
  /\ count \in [Fields -> [Nodes \cup {Tree} -> Int]]
  /\ cached \subseteq exists
  /\ phase \in [Tests -> {"idle", "running", "paused", "ended"}]
  /\ result \in [Tests -> Results]
  /\ par \in [Tests -> {"no", "first", "late"}]
  /\ stage \in [Packages -> {"idle", "broken", "unbuilt", "started", "replayed", "done"}]

In(n) == IF n = Tree THEN Nodes ELSE Subtree(n)
Having(r) == {t \in Tests : phase[t] = "ended" /\ result[t] = r}
Unbuilt == {p \in Packages : stage[p] \in {"broken", "unbuilt"}}

\* The counters, which are only ever added to along one path, equal on every
\* node and on the tree what a count over the subtree would give: tests that
\* passed, failed (with packages that did not build) and were skipped, nodes
\* made, and nodes marked as cached.
CountsExact ==
  \A n \in exists \cup {Tree} :
    /\ count["passed"][n] = Cardinality(Having("pass") \cap In(n))
    /\ count["failed"][n] = Cardinality((Having("fail") \cup Unbuilt) \cap In(n))
    /\ count["skipped"][n] = Cardinality(Having("skip") \cap In(n))
    /\ count["total"][n] = Cardinality((exists \ Packages) \cap In(n))
    /\ count["cached"][n] = Cardinality((cached \ Packages) \cap In(n))

\* The running counter of a node never misses a running test, and is exact as
\* long as no subtest below the node has failed (propagateStatus takes the
\* status "running" from the parent of a failed subtest).
RunningCounted ==
  LET active == {t \in Tests : phase[t] = "running"}
  IN  \A n \in exists \cup {Tree} :
        /\ count["running"][n] >= Cardinality(active \cap In(n))
        /\ (\A t \in Having("fail") \cap In(n) : Owner(t) = {})
             => count["running"][n] = Cardinality(active \cap In(n))

\* From the moment a test has failed every subtest, test and package above it
\* shows the failure, unless a test above it paused after running subtests:
\* then it may show pending or running, but never passed or skipped.
FailureShows ==
  \A t \in Having("fail") : \A a \in Above[t] :
    \/ status[a] = "fail"
    \/ /\ status[a] \in {"pending", "running"}
       /\ \E m \in Above[t] \cap Tests : par[m] = "late"

\* Whatever other tests send, a test shows its own state: its result once it
\* has ended (passed, in a package replayed from the cache), pending while it
\* is paused, and running or an early failure in between.
StatusFollowsTest ==
  \A t \in Tests :
    CASE phase[t] = "idle" -> status[t] = "pending"
      [] phase[t] = "paused" -> status[t] = "pending"
      [] phase[t] = "running" ->
           \/ status[t] = "running"
           \/ status[t] = "fail" /\ Having("fail") \cap Subtree(t) # {}
      [] phase[t] = "ended" ->
           \/ status[t] = result[t]
           \/ status[t] = "pass" /\ t \in cached

\* What the comment on propagateStatus promises ("This preserves parent's
\* Running status so count decrements work correctly"): once every test that
\* ran has ended, none is counted as running.
RunningDrains == Over(Tests) => count["running"][Tree] = 0

(* Statuses and counters agree on every level of the tree, whatever order    *)
(* parallel tests give their events: sums are exact, what runs is counted,   *)
(* a failure is seen from above, a test shows its own end (ProcessEvent).    *)
TreeSound == TreeTypeOK /\ CountsExact /\ RunningCounted /\ FailureShows /\ StatusFollowsTest
=============================================================================
