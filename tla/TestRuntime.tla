----------------------------- MODULE TestRuntime -----------------------------
(* The shared runtime of cooper's Docker tests: one flock, one namespace, one *)
(* set of images with the stamp that tells what they were built from.  Test   *)
(* packages and cooper-test-driver processes come and go and may die at any   *)
(* step; beside them the user runs cooper up and changes the sources.         *)
EXTENDS Naturals

CONSTANTS Runners,    \* the processes
          KindOf,     \* "package", "driver", or "prefixed": a driver with --prefix
          LastImage,  \* the shared images are built in the order 1 .. LastImage
          Sources,    \* versions of the sources
          MaxStarts,  \* bound on processes started
          MaxChanges,   \* bound on changes of the sources
          MaxUps      \* bound on runs of cooper up

ASSUME KindsKnown == KindOf \in [Runners -> {"package", "driver", "prefixed"}]
ASSUME SourcesAreVersions == Sources \subseteq Nat \ {0}
ASSUME SomeImages == LastImage \in Nat \ {0}
ASSUME NobodyRuns == Runners \cap {"nobody", "user"} = {}

Nothing == 0
Namespaces == {"cooper", "cooper-gotest"}

VARIABLES
  runnerAt,  \* where each process is
  refs,      \* lockRefs of each process
  holder,    \* who has the flock
  namespace, \* runtimeNamespace of each process
  compiled,  \* the templates in the binary of each process
  read,      \* the fingerprint each process took
  onDisk,    \* the sources on disk
  built,     \* what each image was built from
  stamp,     \* build.stamp
  stack,     \* whose containers and networks a namespace has
  starts, edits, ups
processVars == <<runnerAt, refs, holder, namespace, compiled, read>>
imagesVars == <<onDisk, built, stamp>>
testVars == <<processVars, imagesVars, stack, starts, edits, ups>>

TestInit ==
  /\ runnerAt = [r \in Runners |-> "off"] /\ refs = [r \in Runners |-> 0] /\ holder = "nobody"
  /\ namespace = [r \in Runners |-> "cooper"] /\ compiled = [r \in Runners |-> Nothing] /\ read = [r \in Runners |-> Nothing]
  /\ onDisk \in Sources /\ built = [i \in 1 .. LastImage |-> Nothing] /\ stamp = Nothing
  /\ stack = [n \in Namespaces |-> "nobody"]
  /\ starts = 0 /\ edits = 0 /\ ups = 0

Moves(r, from, to) == runnerAt[r] = from /\ runnerAt' = [runnerAt EXCEPT ![r] = to]
Bounds == UNCHANGED <<starts, edits, ups>>

-----------------------------------------------------------------------------
(* The lock: a count of each process over one flock *)

Acquire(r) ==
  /\ IF refs[r] = 0 THEN holder = "nobody" /\ holder' = r ELSE UNCHANGED holder
  /\ refs' = [refs EXCEPT ![r] = @ + 1]
(* Mutant: every release unlocks the file. *)
ReleaseWhole(r) ==
  /\ refs' = [refs EXCEPT ![r] = @ - 1]
  /\ holder' = "nobody"
ReleaseLock(r) ==
  /\ refs' = [refs EXCEPT ![r] = @ - 1]
  /\ holder' = IF refs[r] = 1 THEN "nobody" ELSE holder

(* The kernel drops the flock of a process that dies; nothing else is undone.*)
Dies(r) ==
  /\ runnerAt[r] \notin {"off", "done"} /\ runnerAt' = [runnerAt EXCEPT ![r] = "done"]
  /\ refs' = [refs EXCEPT ![r] = 0]
  /\ holder' = IF holder = r THEN "nobody" ELSE holder
  /\ UNCHANGED <<namespace, compiled, read, imagesVars, stack>> /\ Bounds

-----------------------------------------------------------------------------
(* SetupPackageNamed and EnsureTestImages *)

Starts(r) ==
  /\ runnerAt[r] \in {"off", "done"} /\ starts < MaxStarts /\ starts' = starts + 1
  /\ runnerAt' = [runnerAt EXCEPT ![r] = IF KindOf[r] = "prefixed" THEN "new" ELSE "setup"]
  /\ namespace' = [namespace EXCEPT ![r] = "cooper"]
  /\ compiled' = [compiled EXCEPT ![r] = onDisk] /\ read' = [read EXCEPT ![r] = Nothing]
  /\ UNCHANGED <<refs, holder, imagesVars, stack, edits, ups>>

Setup(r) ==
  /\ Moves(r, "setup", "clean") /\ Acquire(r)
  /\ UNCHANGED <<namespace, compiled, read, imagesVars, stack>> /\ Bounds
(* CleanupRuntime; requireDocker or a docker command may fail.               *)
CleanIn(r, n, left) ==
  /\ runnerAt[r] = "clean" /\ namespace' = [namespace EXCEPT ![r] = n]
  /\ \/ runnerAt' = [runnerAt EXCEPT ![r] = "check"] /\ stack' = [stack EXCEPT ![n] = left] /\ UNCHANGED <<refs, holder>>
     \/ runnerAt' = [runnerAt EXCEPT ![r] = "done"] /\ ReleaseLock(r) /\ UNCHANGED stack
  /\ UNCHANGED <<compiled, read, imagesVars>> /\ Bounds
(* Mutant: a package keeps the namespace it has. *)
CleanHere(r) == CleanIn(r, namespace[r], "nobody")
(* Mutant: a package cleans up behind itself only. *)
CleanLater(r) == CleanIn(r, "cooper-gotest", stack["cooper-gotest"])
Clean(r) == CleanIn(r, "cooper-gotest", "nobody")

UpToDate == stamp = onDisk /\ \A i \in 1 .. LastImage : built[i] # Nothing
\* Bootstrap is over: a package keeps the lock, a driver gives it back for now.
Ready(r) ==
  IF KindOf[r] = "package"
  THEN runnerAt' = [runnerAt EXCEPT ![r] = "tests"] /\ UNCHANGED <<refs, holder>>
  ELSE runnerAt' = [runnerAt EXCEPT ![r] = "new"] /\ ReleaseLock(r)
(* ensureTestImagesLocked: the fingerprint is that of the files as they are  *)
(* now, the templates are those of the binary.                               *)
Check(r) ==
  /\ runnerAt[r] = "check" /\ read' = [read EXCEPT ![r] = onDisk]
  /\ IF UpToDate THEN Ready(r) ELSE runnerAt' = [runnerAt EXCEPT ![r] = "reset"] /\ UNCHANGED <<refs, holder>>
  /\ UNCHANGED <<namespace, compiled, imagesVars, stack>> /\ Bounds
ResetIn(r, left) ==
  /\ Moves(r, "reset", "build") /\ stamp' = left
  /\ UNCHANGED <<refs, holder, namespace, compiled, read, onDisk, built, stack>> /\ Bounds
(* Mutant: the build directory is written over, with the stamp in it. *)
ResetKeepsStamp(r) == ResetIn(r, stamp)
ResetBuildDir(r) == ResetIn(r, Nothing)
(* A build may fail.  Docker keeps the tags of the images built so far.      *)
BuildImages(r) ==
  /\ runnerAt[r] = "build"
  /\ \E n \in 0 .. LastImage :
       /\ built' = [i \in 1 .. LastImage |-> IF i <= n THEN compiled[r] ELSE built[i]]
       /\ IF n = LastImage
          THEN runnerAt' = [runnerAt EXCEPT ![r] = "stamp"] /\ UNCHANGED <<refs, holder>>
          ELSE runnerAt' = [runnerAt EXCEPT ![r] = "done"] /\ ReleaseLock(r)
  /\ UNCHANGED <<namespace, compiled, read, onDisk, stamp, stack>> /\ Bounds
WriteStamp(r) ==
  /\ runnerAt[r] = "stamp" /\ stamp' = read[r] /\ Ready(r)
  /\ UNCHANGED <<namespace, compiled, read, onDisk, built, stack>> /\ Bounds

-----------------------------------------------------------------------------
(* The driver, in a test of a package or in a process of its own *)

New(r) ==
  /\ \/ Moves(r, "tests", "driver")
     \/ Moves(r, "new", "driver")
  /\ Acquire(r)
  /\ UNCHANGED <<namespace, compiled, read, imagesVars, stack>> /\ Bounds
(* CooperApp.Start: EnsureNetworks keeps what is there, StartProxy replaces a *)
(* container of that name.  It may fail before or after.                     *)
Start(r) ==
  /\ Moves(r, "driver", "running")
  /\ \/ stack' = [stack EXCEPT ![namespace[r]] = r]
     \/ UNCHANGED stack
  /\ UNCHANGED <<refs, holder, namespace, compiled, read, imagesVars>> /\ Bounds
(* Close: CooperApp.Stop, CleanupRuntime and Release, whatever fails.        *)
Close(r) ==
  /\ runnerAt[r] \in {"driver", "running"}
  /\ runnerAt' = [runnerAt EXCEPT ![r] = IF KindOf[r] = "package" THEN "tests" ELSE "done"]
  /\ \/ stack' = [stack EXCEPT ![namespace[r]] = "nobody"]
     \/ UNCHANGED stack
  /\ ReleaseLock(r)
  /\ UNCHANGED <<namespace, compiled, read, imagesVars>> /\ Bounds
(* TestMain, after m.Run.                                                    *)
PackageEnds(r) ==
  /\ Moves(r, "tests", "done") /\ ReleaseLock(r)
  /\ \/ stack' = [stack EXCEPT ![namespace[r]] = "nobody"]
     \/ UNCHANGED stack
  /\ UNCHANGED <<namespace, compiled, read, imagesVars>> /\ Bounds

-----------------------------------------------------------------------------
Edit ==
  /\ edits < MaxChanges /\ edits' = edits + 1
  /\ onDisk' \in Sources \ {onDisk}
  /\ UNCHANGED <<processVars, built, stamp, stack, starts, ups>>
UserUp ==
  /\ stack["cooper"] = "nobody" /\ ups < MaxUps /\ ups' = ups + 1
  /\ stack' = [stack EXCEPT !["cooper"] = "user"]
  /\ UNCHANGED <<processVars, imagesVars, starts, edits>>
UserDown ==
  /\ stack["cooper"] # "nobody" /\ stack' = [stack EXCEPT !["cooper"] = "nobody"]
  /\ UNCHANGED <<processVars, imagesVars>> /\ Bounds

TestNext ==
  \/ \E r \in Runners :
       \/ Starts(r) \/ Setup(r) \/ Clean(r) \/ Check(r) \/ ResetBuildDir(r) \/ BuildImages(r) \/ WriteStamp(r)
       \/ New(r) \/ Start(r) \/ Close(r) \/ PackageEnds(r) \/ Dies(r)
  \/ Edit \/ UserUp \/ UserDown

TestSpec == TestInit /\ [][TestNext]_testVars

-----------------------------------------------------------------------------
(* Properties *)

TestTypeOK ==
  /\ refs \in [Runners -> 0 .. 2] /\ holder \in Runners \cup {"nobody"}
  /\ namespace \in [Runners -> Namespaces]
  /\ compiled \in [Runners -> Sources \cup {Nothing}] /\ read \in [Runners -> Sources \cup {Nothing}]
  /\ built \in [1 .. LastImage -> Sources \cup {Nothing}] /\ stamp \in Sources \cup {Nothing}
  /\ stack \in [Namespaces -> Runners \cup {"nobody", "user"}]

Disturbs ==
  \/ built' # built \/ stamp' # stamp \/ stack'["cooper-gotest"] # stack["cooper-gotest"]
  \/ runnerAt' # runnerAt /\ stack'["cooper"] # stack["cooper"]
(* From the moment it has the lock until it gives the last reference back, a *)
(* runner is the only runner that builds images or starts and stops          *)
(* containers, in the namespace of the tests and, where drivers with a       *)
(* prefix of their own run, in that of the user, also while its tests open   *)
(* and close drivers of their own (lockRefs in acquireLock and Release).     *)
OneTester == [][\A r \in Runners : refs[r] > 0 /\ Disturbs => runnerAt'[r] # runnerAt[r]]_testVars

(* A stamp speaks of one finished build: the images are all of one version,  *)
(* also after builds that failed or were killed half-way and sources that    *)
(* went back to an earlier version (ensureTestImagesLocked).                 *)
StampTellsOneBuild ==
  stamp # Nothing => \A i \in 1 .. LastImage : built[i] = built[1] /\ built[i] # Nothing

(* The tests of a package begin in an empty namespace, whatever runner died  *)
(* before them (SetupPackageNamed cleans up once it has the lock).           *)
BeginsClean ==
  \A r \in Runners : runnerAt[r] \in {"check", "reset", "build", "stamp"} => stack["cooper-gotest"] = "nobody"

Spares(r) == runnerAt'[r] # runnerAt[r] => stack'["cooper"] = stack["cooper"]
InTheWay(r) == KindOf[r] = "prefixed" /\ runnerAt[r] \in {"driver", "running"} /\ holder = r
(* A package of tests and a driver with the shared prefix leave the user's   *)
(* cooper up alone (RuntimeNamespace).  A driver with a prefix of its own    *)
(* does not: New sets the prefix of its images and no namespace, so from New *)
(* to Close, and only then, it starts and stops the containers named         *)
(* "cooper", the user's if there are any.                                    *)
UserSpared == [][\A r \in Runners : Spares(r) \/ InTheWay(r)]_testVars

(* The Docker tests of one process at a time, with images of one build,      *)
(* whichever of them dies when: packages and drivers with the shared prefix  *)
(* in a clean namespace of their own, drivers with another prefix in the     *)
(* user's.                                                                   *)
TestersApart ==
  [](TestTypeOK /\ StampTellsOneBuild /\ BeginsClean) /\ OneTester /\ UserSpared
=============================================================================
