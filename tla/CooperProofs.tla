---------------------------- MODULE CooperProofs ----------------------------
(***************************************************************************)
(* Theorems about what cooper does around its sessions, for every number of *)
(* test processes, images and configured tools: the runtime the Docker      *)
(* tests share, cooper proof with the teardown it runs, the wizard of       *)
(* cooper configure, and the versions that builds and updates bring into    *)
(* the images.                                                              *)
(***************************************************************************)
EXTENDS MCCooperConfig, SeqFacts

(***************************************************************************)
(* The shared runtime of the tests.  OneTester is about steps: it holds     *)
(* since the count of every process is what its place says (Counted) and    *)
(* the flock is with the one process that counts (LockHeld).  A stamp tells *)
(* one build since it is gone while images are built and comes back over    *)
(* images that are all of the builder's binary (Builds).                    *)
(***************************************************************************)
RunnerPlaces ==
  {"off", "setup", "clean", "check", "reset", "build", "stamp", "tests", "new", "driver", "running", "done"}
Bootstrap == {"clean", "check", "reset", "build", "stamp"}
RunnersPlaced ==
  /\ runnerAt \in [Runners -> RunnerPlaces]
  /\ \A r \in Runners : /\ KindOf[r] = "prefixed" => runnerAt[r] \notin Bootstrap \cup {"setup", "tests"}
                        /\ KindOf[r] = "package" => runnerAt[r] # "new"
                        /\ KindOf[r] = "driver" => runnerAt[r] # "tests"
References(r) ==
  IF runnerAt[r] \in Bootstrap \cup {"tests"} THEN 1
  ELSE IF runnerAt[r] \in {"driver", "running"} THEN IF KindOf[r] = "package" THEN 2 ELSE 1
  ELSE 0
Counted == \A r \in Runners : refs[r] = References(r)
LockHeld == \A r \in Runners : refs[r] > 0 <=> holder = r
OwnNamespace ==
  \A r \in Runners : KindOf[r] # "prefixed" /\ runnerAt[r] \notin {"off", "setup", "clean", "done"}
                       => namespace[r] = "cooper-gotest"
Builds ==
  /\ onDisk \in Sources
  /\ \A r \in Runners : /\ runnerAt[r] # "off" => compiled[r] # Nothing
                        /\ runnerAt[r] = "build" => stamp = Nothing
                        /\ runnerAt[r] = "stamp" => \A i \in 1 .. LastImage : built[i] = compiled[r]

TestInv ==
  /\ TestTypeOK /\ RunnersPlaced /\ Counted /\ LockHeld /\ OwnNamespace /\ Builds
  /\ StampTellsOneBuild /\ BeginsClean
(* Every process is out, no image is built and nobody has the flock. *)
LEMMA TestBegins == TestInit => TestInv
<1> SUFFICES ASSUME TestInit PROVE TestInv
  OBVIOUS
<1>1. TestTypeOK
  BY SourcesAreVersions DEF TestInit, TestTypeOK, Namespaces
<1>2. RunnersPlaced /\ Builds
  BY DEF TestInit, RunnersPlaced, RunnerPlaces, Bootstrap, Builds
<1>3. Counted /\ LockHeld
  BY NobodyRuns DEF TestInit, Counted, References, Bootstrap, LockHeld
<1>4. OwnNamespace /\ StampTellsOneBuild /\ BeginsClean
  BY DEF TestInit, OwnNamespace, StampTellsOneBuild, BeginsClean
<1> QED BY <1>1, <1>2, <1>3, <1>4 DEF TestInv

(* Each step of a process, in the order of SetupPackageNamed and the driver, *)
(* then the user's: the conjuncts one by one.                               *)
LEMMA TestStep == TestInv /\ [TestNext]_testVars => TestInv'
<1> SUFFICES ASSUME TestInv, [TestNext]_testVars PROVE TestInv'
  OBVIOUS
<1> USE DEF TestInv, Moves, Bounds, imagesVars, processVars, Nothing, Namespaces
<1>1. ASSUME NEW r \in Runners, Starts(r) PROVE TestInv'
  <2>1. TestTypeOK'
    BY <1>1, SourcesAreVersions DEF Starts, TestTypeOK, Counted, References, Bootstrap, RunnersPlaced, Builds
  <2>2. RunnersPlaced'
    BY <1>1, KindsKnown DEF Starts, RunnersPlaced, RunnerPlaces, Bootstrap
  <2>3. Counted'
    BY <1>1, KindsKnown DEF Starts, Counted, TestTypeOK, References, RunnersPlaced, Bootstrap
  <2>4. LockHeld'
    BY <1>1, NobodyRuns DEF Starts, LockHeld, TestTypeOK, Counted, References, Bootstrap, RunnersPlaced
  <2>5. OwnNamespace'
    BY <1>1 DEF Starts, OwnNamespace, TestTypeOK, RunnersPlaced, Bootstrap
  <2>6. Builds'
    BY <1>1, SourcesAreVersions DEF Starts, Builds, TestTypeOK, RunnersPlaced, LockHeld, Counted, References, Bootstrap
  <2>7. StampTellsOneBuild'
    BY <1>1, SomeImages DEF Starts, StampTellsOneBuild, TestTypeOK, Builds, RunnersPlaced
  <2>8. BeginsClean'
    BY <1>1 DEF Starts, BeginsClean, TestTypeOK, RunnersPlaced, LockHeld, Counted, References, Bootstrap
  <2> QED BY <2>1, <2>2, <2>3, <2>4, <2>5, <2>6, <2>7, <2>8
<1>2. ASSUME NEW r \in Runners, Setup(r) PROVE TestInv'
  <2>1. TestTypeOK'
    BY <1>2, SourcesAreVersions DEF Setup, Acquire, TestTypeOK, Counted, References, Bootstrap, RunnersPlaced, Builds
  <2>2. RunnersPlaced'
    BY <1>2, KindsKnown DEF Setup, Acquire, RunnersPlaced, RunnerPlaces, Bootstrap
  <2>3. Counted'
    BY <1>2, KindsKnown DEF Setup, Acquire, Counted, TestTypeOK, References, RunnersPlaced, Bootstrap
  <2>4. LockHeld'
    BY <1>2, NobodyRuns DEF Setup, Acquire, LockHeld, TestTypeOK, Counted, References, Bootstrap, RunnersPlaced
  <2>5. OwnNamespace'
    BY <1>2 DEF Setup, Acquire, OwnNamespace, TestTypeOK, RunnersPlaced, Bootstrap
  <2>6. Builds'
    BY <1>2, SourcesAreVersions DEF Setup, Acquire, Builds, TestTypeOK, RunnersPlaced, LockHeld, Counted, References, Bootstrap
  <2>7. StampTellsOneBuild'
    BY <1>2, SomeImages DEF Setup, Acquire, StampTellsOneBuild, TestTypeOK, Builds, RunnersPlaced
  <2>8. BeginsClean'
    BY <1>2 DEF Setup, Acquire, BeginsClean, TestTypeOK, RunnersPlaced, LockHeld, Counted, References, Bootstrap
  <2> QED BY <2>1, <2>2, <2>3, <2>4, <2>5, <2>6, <2>7, <2>8
<1>3. ASSUME NEW r \in Runners, Clean(r) PROVE TestInv'
  <2>1. TestTypeOK'
    BY <1>3, SourcesAreVersions DEF Clean, CleanIn, ReleaseLock, TestTypeOK, Counted, References, Bootstrap, RunnersPlaced, Builds
  <2>2. RunnersPlaced'
    BY <1>3, KindsKnown DEF Clean, CleanIn, ReleaseLock, RunnersPlaced, RunnerPlaces, Bootstrap
  <2>3. Counted'
    BY <1>3, KindsKnown DEF Clean, CleanIn, ReleaseLock, Counted, TestTypeOK, References, RunnersPlaced, Bootstrap
  <2>4. LockHeld'
    BY <1>3, NobodyRuns DEF Clean, CleanIn, ReleaseLock, LockHeld, TestTypeOK, Counted, References, Bootstrap, RunnersPlaced
  <2>5. OwnNamespace'
    BY <1>3 DEF Clean, CleanIn, ReleaseLock, OwnNamespace, TestTypeOK, RunnersPlaced, Bootstrap
  <2>6. Builds'
    BY <1>3, SourcesAreVersions DEF Clean, CleanIn, ReleaseLock, Builds, TestTypeOK, RunnersPlaced, LockHeld, Counted, References, Bootstrap
  <2>7. StampTellsOneBuild'
    BY <1>3, SomeImages DEF Clean, CleanIn, ReleaseLock, StampTellsOneBuild, TestTypeOK, Builds, RunnersPlaced
  <2>8. BeginsClean'
    BY <1>3 DEF Clean, CleanIn, ReleaseLock, BeginsClean, TestTypeOK, RunnersPlaced, LockHeld, Counted, References, Bootstrap
  <2> QED BY <2>1, <2>2, <2>3, <2>4, <2>5, <2>6, <2>7, <2>8
<1>4. ASSUME NEW r \in Runners, Check(r) PROVE TestInv'
  <2>1. TestTypeOK'
    BY <1>4, SourcesAreVersions DEF Check, UpToDate, Ready, ReleaseLock, TestTypeOK, Counted, References, Bootstrap, RunnersPlaced, Builds
  <2>2. RunnersPlaced'
    BY <1>4, KindsKnown DEF Check, UpToDate, Ready, ReleaseLock, RunnersPlaced, RunnerPlaces, Bootstrap
  <2>3. Counted'
    BY <1>4, KindsKnown DEF Check, UpToDate, Ready, ReleaseLock, Counted, TestTypeOK, References, RunnersPlaced, Bootstrap
  <2>4. LockHeld'
    BY <1>4, NobodyRuns DEF Check, UpToDate, Ready, ReleaseLock, LockHeld, TestTypeOK, Counted, References, Bootstrap, RunnersPlaced
  <2>5. OwnNamespace'
    BY <1>4 DEF Check, UpToDate, Ready, ReleaseLock, OwnNamespace, TestTypeOK, RunnersPlaced, Bootstrap
  <2>6. Builds'
    BY <1>4, SourcesAreVersions DEF Check, UpToDate, Ready, ReleaseLock, Builds, TestTypeOK, RunnersPlaced, LockHeld, Counted, References, Bootstrap
  <2>7. StampTellsOneBuild'
    BY <1>4, SomeImages DEF Check, UpToDate, Ready, ReleaseLock, StampTellsOneBuild, TestTypeOK, Builds, RunnersPlaced
  <2>8. BeginsClean'
    BY <1>4 DEF Check, UpToDate, Ready, ReleaseLock, BeginsClean, TestTypeOK, RunnersPlaced, LockHeld, Counted, References, Bootstrap
  <2> QED BY <2>1, <2>2, <2>3, <2>4, <2>5, <2>6, <2>7, <2>8
<1>5. ASSUME NEW r \in Runners, ResetBuildDir(r) PROVE TestInv'
  <2>1. TestTypeOK'
    BY <1>5, SourcesAreVersions DEF ResetBuildDir, ResetIn, TestTypeOK, Counted, References, Bootstrap, RunnersPlaced, Builds
  <2>2. RunnersPlaced'
    BY <1>5, KindsKnown DEF ResetBuildDir, ResetIn, RunnersPlaced, RunnerPlaces, Bootstrap
  <2>3. Counted'
    BY <1>5, KindsKnown DEF ResetBuildDir, ResetIn, Counted, TestTypeOK, References, RunnersPlaced, Bootstrap
  <2>4. LockHeld'
    BY <1>5, NobodyRuns DEF ResetBuildDir, ResetIn, LockHeld, TestTypeOK, Counted, References, Bootstrap, RunnersPlaced
  <2>5. OwnNamespace'
    BY <1>5 DEF ResetBuildDir, ResetIn, OwnNamespace, TestTypeOK, RunnersPlaced, Bootstrap
  <2>6. Builds'
    BY <1>5, SourcesAreVersions DEF ResetBuildDir, ResetIn, Builds, TestTypeOK, RunnersPlaced, LockHeld, Counted, References, Bootstrap
  <2>7. StampTellsOneBuild'
    BY <1>5, SomeImages DEF ResetBuildDir, ResetIn, StampTellsOneBuild, TestTypeOK, Builds, RunnersPlaced
  <2>8. BeginsClean'
    BY <1>5 DEF ResetBuildDir, ResetIn, BeginsClean, TestTypeOK, RunnersPlaced, LockHeld, Counted, References, Bootstrap
  <2> QED BY <2>1, <2>2, <2>3, <2>4, <2>5, <2>6, <2>7, <2>8
<1>6. ASSUME NEW r \in Runners, BuildImages(r) PROVE TestInv'
  <2>1. TestTypeOK'
    BY <1>6, SourcesAreVersions DEF BuildImages, ReleaseLock, TestTypeOK, Counted, References, Bootstrap, RunnersPlaced, Builds
  <2>2. RunnersPlaced'
    BY <1>6, KindsKnown DEF BuildImages, ReleaseLock, RunnersPlaced, RunnerPlaces, Bootstrap
  <2>3. Counted'
    BY <1>6, KindsKnown DEF BuildImages, ReleaseLock, Counted, TestTypeOK, References, RunnersPlaced, Bootstrap
  <2>4. LockHeld'
    BY <1>6, NobodyRuns DEF BuildImages, ReleaseLock, LockHeld, TestTypeOK, Counted, References, Bootstrap, RunnersPlaced
  <2>5. OwnNamespace'
    BY <1>6 DEF BuildImages, ReleaseLock, OwnNamespace, TestTypeOK, RunnersPlaced, Bootstrap
  <2>6. Builds'
    BY <1>6, SourcesAreVersions DEF BuildImages, ReleaseLock, Builds, TestTypeOK, RunnersPlaced, LockHeld, Counted, References, Bootstrap
  <2>7. StampTellsOneBuild'
    BY <1>6, SomeImages DEF BuildImages, ReleaseLock, StampTellsOneBuild, TestTypeOK, Builds, RunnersPlaced
  <2>8. BeginsClean'
    BY <1>6 DEF BuildImages, ReleaseLock, BeginsClean, TestTypeOK, RunnersPlaced, LockHeld, Counted, References, Bootstrap
  <2> QED BY <2>1, <2>2, <2>3, <2>4, <2>5, <2>6, <2>7, <2>8
<1>7. ASSUME NEW r \in Runners, WriteStamp(r) PROVE TestInv'
  <2>1. TestTypeOK'
    BY <1>7, SourcesAreVersions DEF WriteStamp, Ready, ReleaseLock, TestTypeOK, Counted, References, Bootstrap, RunnersPlaced, Builds
  <2>2. RunnersPlaced'
    BY <1>7, KindsKnown DEF WriteStamp, Ready, ReleaseLock, RunnersPlaced, RunnerPlaces, Bootstrap
  <2>3. Counted'
    BY <1>7, KindsKnown DEF WriteStamp, Ready, ReleaseLock, Counted, TestTypeOK, References, RunnersPlaced, Bootstrap
  <2>4. LockHeld'
    BY <1>7, NobodyRuns DEF WriteStamp, Ready, ReleaseLock, LockHeld, TestTypeOK, Counted, References, Bootstrap, RunnersPlaced
  <2>5. OwnNamespace'
    BY <1>7 DEF WriteStamp, Ready, ReleaseLock, OwnNamespace, TestTypeOK, RunnersPlaced, Bootstrap
  <2>6. Builds'
    BY <1>7, SourcesAreVersions DEF WriteStamp, Ready, ReleaseLock, Builds, TestTypeOK, RunnersPlaced, LockHeld, Counted, References, Bootstrap
  <2>7. StampTellsOneBuild'
    BY <1>7, SomeImages DEF WriteStamp, Ready, ReleaseLock, StampTellsOneBuild, TestTypeOK, Builds, RunnersPlaced
  <2>8. BeginsClean'
    BY <1>7 DEF WriteStamp, Ready, ReleaseLock, BeginsClean, TestTypeOK, RunnersPlaced, LockHeld, Counted, References, Bootstrap
  <2> QED BY <2>1, <2>2, <2>3, <2>4, <2>5, <2>6, <2>7, <2>8
<1>8. ASSUME NEW r \in Runners, New(r) PROVE TestInv'
  <2>1. TestTypeOK'
    BY <1>8, SourcesAreVersions DEF New, Acquire, TestTypeOK, Counted, References, Bootstrap, RunnersPlaced, Builds
  <2>2. RunnersPlaced'
    BY <1>8, KindsKnown DEF New, Acquire, RunnersPlaced, RunnerPlaces, Bootstrap
  <2>3. Counted'
    <3>1. /\ runnerAt[r] \in {"tests", "new"} /\ runnerAt' = [runnerAt EXCEPT ![r] = "driver"]
          /\ refs' = [refs EXCEPT ![r] = @ + 1]
      BY <1>8 DEF New, Acquire
    <3>2. KindOf[r] = "package" <=> runnerAt[r] = "tests"
      BY <3>1, KindsKnown DEF RunnersPlaced
    <3>3. refs'[r] = References(r)'
      BY <3>1, <3>2 DEF TestTypeOK, Counted, References, RunnersPlaced, Bootstrap
    <3>4. \A q \in Runners \ {r} : refs'[q] = References(q)'
      BY <3>1 DEF TestTypeOK, Counted, References, RunnersPlaced
    <3> QED BY <3>3, <3>4 DEF Counted
  <2>4. LockHeld'
    BY <1>8, NobodyRuns DEF New, Acquire, LockHeld, TestTypeOK, Counted, References, Bootstrap, RunnersPlaced
  <2>5. OwnNamespace'
    BY <1>8 DEF New, Acquire, OwnNamespace, TestTypeOK, RunnersPlaced, Bootstrap
  <2>6. Builds'
    BY <1>8, SourcesAreVersions DEF New, Acquire, Builds, TestTypeOK, RunnersPlaced, LockHeld, Counted, References, Bootstrap
  <2>7. StampTellsOneBuild'
    BY <1>8, SomeImages DEF New, Acquire, StampTellsOneBuild, TestTypeOK, Builds, RunnersPlaced
  <2>8. BeginsClean'
    BY <1>8 DEF New, Acquire, BeginsClean, TestTypeOK, RunnersPlaced, LockHeld, Counted, References, Bootstrap
  <2> QED BY <2>1, <2>2, <2>3, <2>4, <2>5, <2>6, <2>7, <2>8
<1>9. ASSUME NEW r \in Runners, Start(r) PROVE TestInv'
  <2>1. TestTypeOK'
    BY <1>9, SourcesAreVersions DEF Start, TestTypeOK, Counted, References, Bootstrap, RunnersPlaced, Builds
  <2>2. RunnersPlaced'
    BY <1>9, KindsKnown DEF Start, RunnersPlaced, RunnerPlaces, Bootstrap
  <2>3. Counted'
    BY <1>9, KindsKnown DEF Start, Counted, TestTypeOK, References, RunnersPlaced, Bootstrap
  <2>4. LockHeld'
    BY <1>9, NobodyRuns DEF Start, LockHeld, TestTypeOK, Counted, References, Bootstrap, RunnersPlaced
  <2>5. OwnNamespace'
    BY <1>9 DEF Start, OwnNamespace, TestTypeOK, RunnersPlaced, Bootstrap
  <2>6. Builds'
    BY <1>9, SourcesAreVersions DEF Start, Builds, TestTypeOK, RunnersPlaced, LockHeld, Counted, References, Bootstrap
  <2>7. StampTellsOneBuild'
    BY <1>9, SomeImages DEF Start, StampTellsOneBuild, TestTypeOK, Builds, RunnersPlaced
  <2>8. BeginsClean'
    BY <1>9 DEF Start, BeginsClean, TestTypeOK, RunnersPlaced, LockHeld, Counted, References, Bootstrap
  <2> QED BY <2>1, <2>2, <2>3, <2>4, <2>5, <2>6, <2>7, <2>8
<1>10. ASSUME NEW r \in Runners, Close(r) PROVE TestInv'
  <2>1. TestTypeOK'
    BY <1>10, SourcesAreVersions DEF Close, ReleaseLock, TestTypeOK, Counted, References, Bootstrap, RunnersPlaced, Builds
  <2>2. RunnersPlaced'
    BY <1>10, KindsKnown DEF Close, ReleaseLock, RunnersPlaced, RunnerPlaces, Bootstrap
  <2>3. Counted'
    BY <1>10, KindsKnown DEF Close, ReleaseLock, Counted, TestTypeOK, References, RunnersPlaced, Bootstrap
  <2>4. LockHeld'
    BY <1>10, NobodyRuns DEF Close, ReleaseLock, LockHeld, TestTypeOK, Counted, References, Bootstrap, RunnersPlaced
  <2>5. OwnNamespace'
    BY <1>10 DEF Close, ReleaseLock, OwnNamespace, TestTypeOK, RunnersPlaced, Bootstrap
  <2>6. Builds'
    BY <1>10, SourcesAreVersions DEF Close, ReleaseLock, Builds, TestTypeOK, RunnersPlaced, LockHeld, Counted, References, Bootstrap
  <2>7. StampTellsOneBuild'
    BY <1>10, SomeImages DEF Close, ReleaseLock, StampTellsOneBuild, TestTypeOK, Builds, RunnersPlaced
  <2>8. BeginsClean'
    BY <1>10 DEF Close, ReleaseLock, BeginsClean, TestTypeOK, RunnersPlaced, LockHeld, Counted, References, Bootstrap
  <2> QED BY <2>1, <2>2, <2>3, <2>4, <2>5, <2>6, <2>7, <2>8
<1>11. ASSUME NEW r \in Runners, PackageEnds(r) PROVE TestInv'
  <2>1. TestTypeOK'
    BY <1>11, SourcesAreVersions DEF PackageEnds, ReleaseLock, TestTypeOK, Counted, References, Bootstrap, RunnersPlaced, Builds
  <2>2. RunnersPlaced'
    BY <1>11, KindsKnown DEF PackageEnds, ReleaseLock, RunnersPlaced, RunnerPlaces, Bootstrap
  <2>3. Counted'
    BY <1>11, KindsKnown DEF PackageEnds, ReleaseLock, Counted, TestTypeOK, References, RunnersPlaced, Bootstrap
  <2>4. LockHeld'
    BY <1>11, NobodyRuns DEF PackageEnds, ReleaseLock, LockHeld, TestTypeOK, Counted, References, Bootstrap, RunnersPlaced
  <2>5. OwnNamespace'
    BY <1>11 DEF PackageEnds, ReleaseLock, OwnNamespace, TestTypeOK, RunnersPlaced, Bootstrap
  <2>6. Builds'
    BY <1>11, SourcesAreVersions DEF PackageEnds, ReleaseLock, Builds, TestTypeOK, RunnersPlaced, LockHeld, Counted, References, Bootstrap
  <2>7. StampTellsOneBuild'
    BY <1>11, SomeImages DEF PackageEnds, ReleaseLock, StampTellsOneBuild, TestTypeOK, Builds, RunnersPlaced
  <2>8. BeginsClean'
    BY <1>11 DEF PackageEnds, ReleaseLock, BeginsClean, TestTypeOK, RunnersPlaced, LockHeld, Counted, References, Bootstrap
  <2> QED BY <2>1, <2>2, <2>3, <2>4, <2>5, <2>6, <2>7, <2>8
<1>12. ASSUME NEW r \in Runners, Dies(r) PROVE TestInv'
  <2>1. TestTypeOK'
    BY <1>12, SourcesAreVersions DEF Dies, TestTypeOK, Counted, References, Bootstrap, RunnersPlaced, Builds
  <2>2. RunnersPlaced'
    BY <1>12, KindsKnown DEF Dies, RunnersPlaced, RunnerPlaces, Bootstrap
  <2>3. Counted'
    BY <1>12, KindsKnown DEF Dies, Counted, TestTypeOK, References, RunnersPlaced, Bootstrap
  <2>4. LockHeld'
    BY <1>12, NobodyRuns DEF Dies, LockHeld, TestTypeOK, Counted, References, Bootstrap, RunnersPlaced
  <2>5. OwnNamespace'
    BY <1>12 DEF Dies, OwnNamespace, TestTypeOK, RunnersPlaced, Bootstrap
  <2>6. Builds'
    BY <1>12, SourcesAreVersions DEF Dies, Builds, TestTypeOK, RunnersPlaced, LockHeld, Counted, References, Bootstrap
  <2>7. StampTellsOneBuild'
    BY <1>12, SomeImages DEF Dies, StampTellsOneBuild, TestTypeOK, Builds, RunnersPlaced
  <2>8. BeginsClean'
    BY <1>12 DEF Dies, BeginsClean, TestTypeOK, RunnersPlaced, LockHeld, Counted, References, Bootstrap
  <2> QED BY <2>1, <2>2, <2>3, <2>4, <2>5, <2>6, <2>7, <2>8
<1>13. ASSUME Edit PROVE TestInv'
  BY <1>13, SourcesAreVersions DEF Edit, TestTypeOK, RunnersPlaced, Counted, References, LockHeld, OwnNamespace, Builds, StampTellsOneBuild, BeginsClean
<1>14. ASSUME UserUp PROVE TestInv'
  BY <1>14, SourcesAreVersions DEF UserUp, TestTypeOK, RunnersPlaced, Counted, References, LockHeld, OwnNamespace, Builds, StampTellsOneBuild, BeginsClean
<1>15. ASSUME UserDown PROVE TestInv'
  BY <1>15, SourcesAreVersions DEF UserDown, TestTypeOK, RunnersPlaced, Counted, References, LockHeld, OwnNamespace, Builds, StampTellsOneBuild, BeginsClean
<1>16. ASSUME UNCHANGED testVars PROVE TestInv'
  BY <1>16, SourcesAreVersions DEF testVars, TestTypeOK, RunnersPlaced, Counted, References, LockHeld, OwnNamespace, Builds, StampTellsOneBuild, BeginsClean
<1> QED BY <1>1, <1>2, <1>3, <1>4, <1>5, <1>6, <1>7, <1>8, <1>9, <1>10, <1>11, <1>12, <1>13, <1>14, <1>15, <1>16 DEF TestNext

(* Who builds, or touches containers, counts references, so that nobody      *)
(* else does; and it goes on to its next place.                              *)
LEMMA BuildersHold ==
  ASSUME TestInv, [TestNext]_testVars, NEW r \in Runners, refs[r] > 0, Disturbs
  PROVE  runnerAt'[r] # runnerAt[r]
<1> USE DEF TestInv, Moves, Bounds, imagesVars, processVars, testVars
<1>1. PICK q \in Runners : \/ Clean(q) \/ ResetBuildDir(q) \/ BuildImages(q) \/ WriteStamp(q)
                           \/ Start(q) \/ Close(q) \/ PackageEnds(q)
  BY DEF Disturbs, TestNext, Starts, Setup, Check, New, Dies, Edit, UserUp, UserDown, TestTypeOK, Namespaces
<1>2. runnerAt[q] \in Bootstrap \cup {"tests", "driver", "running"}
  BY <1>1 DEF Clean, CleanIn, ResetBuildDir, ResetIn, BuildImages, WriteStamp, Start, Close, PackageEnds, Bootstrap
<1>3. refs[q] > 0
  BY <1>2 DEF Counted, References
<1>4. q = r
  BY <1>3 DEF LockHeld
<1>5. runnerAt'[q] # runnerAt[q]
  BY <1>1 DEF Clean, CleanIn, ResetBuildDir, ResetIn, BuildImages, WriteStamp, Ready, Start, Close, PackageEnds, RunnersPlaced
<1> QED BY <1>4, <1>5

(* A process with a prefix of its own is in the user's way from New to Close *)
(* and then has the lock.                                                    *)
LEMMA PrefixedInTheWay ==
  ASSUME TestInv, [TestNext]_testVars, NEW r \in Runners, KindOf[r] = "prefixed"
  PROVE  Spares(r) \/ InTheWay(r)
<1> USE DEF TestInv, Moves, Bounds, imagesVars, processVars, testVars
<1> SUFFICES ASSUME runnerAt'[r] # runnerAt[r], stack'["cooper"] # stack["cooper"] PROVE InTheWay(r)
  BY DEF Spares
<1>1. Clean(r) \/ Start(r) \/ Close(r) \/ PackageEnds(r)
  BY DEF TestNext, Starts, Setup, Clean, CleanIn, Check, Ready, ResetBuildDir, ResetIn, BuildImages, WriteStamp,
    New, Start, Close, PackageEnds, Dies, Edit, UserUp, UserDown, RunnersPlaced
<1>2. ~Clean(r)
  BY DEF Clean, CleanIn, TestTypeOK, Namespaces
<1>3. runnerAt[r] \in {"driver", "running"}
  BY <1>1, <1>2 DEF Start, Close, PackageEnds, RunnersPlaced
<1>4. refs[r] > 0
  BY <1>3 DEF Counted, References
<1> QED BY <1>3, <1>4 DEF InTheWay, LockHeld

(* Without a prefix of its own a process never names the user's namespace.  *)
LEMMA OthersSpare ==
  ASSUME TestInv, [TestNext]_testVars, NEW r \in Runners, KindOf[r] # "prefixed"
  PROVE  Spares(r)
<1> USE DEF TestInv, Moves, Bounds, imagesVars, processVars, testVars
<1> SUFFICES ASSUME runnerAt'[r] # runnerAt[r] PROVE stack'["cooper"] = stack["cooper"]
  BY DEF Spares
<1>1. \/ Starts(r) \/ Setup(r) \/ Clean(r) \/ Check(r) \/ ResetBuildDir(r) \/ BuildImages(r) \/ WriteStamp(r)
      \/ New(r) \/ Start(r) \/ Close(r) \/ PackageEnds(r) \/ Dies(r)
  BY DEF TestNext, Starts, Setup, Clean, CleanIn, Check, Ready, ResetBuildDir, ResetIn, BuildImages, WriteStamp,
    New, Start, Close, PackageEnds, Dies, Edit, UserUp, UserDown, RunnersPlaced
<1>2. CASE Start(r) \/ Close(r) \/ PackageEnds(r)
  <2>1. namespace[r] = "cooper-gotest"
    BY <1>2 DEF Start, Close, PackageEnds, OwnNamespace
  <2> QED BY <1>2, <2>1 DEF Start, Close, PackageEnds, TestTypeOK, Namespaces
<1>3. CASE Clean(r)
  BY <1>3 DEF Clean, CleanIn, TestTypeOK, Namespaces
<1>4. CASE Starts(r) \/ Setup(r) \/ Check(r) \/ ResetBuildDir(r) \/ BuildImages(r) \/ WriteStamp(r) \/ New(r) \/ Dies(r)
  BY <1>4 DEF Starts, Setup, Check, ResetBuildDir, ResetIn, BuildImages, WriteStamp, New, Dies
<1> QED BY <1>1, <1>2, <1>3, <1>4

(* The Docker tests of one process at a time: whoever has the lock is alone  *)
(* with the images and the containers, a stamp tells one build, packages and *)
(* drivers with the shared prefix begin in a clean namespace and leave the   *)
(* user's alone, whatever their number and whichever of them dies; a driver  *)
(* with another prefix acts in the user's namespace between New and Close    *)
(* (acquireLock, Release, ensureTestImagesLocked and SetupPackageNamed of    *)
(* testdocker, New of testdriver).                                           *)
THEOREM TestersAreApart == TestSpec => TestersApart
<1>1. TestSpec => []TestInv
  BY TestBegins, TestStep, PTL DEF TestSpec
<1>2. TestInv => TestTypeOK /\ StampTellsOneBuild /\ BeginsClean
  BY DEF TestInv
<1>3. TestInv /\ [TestNext]_testVars
        => [\A r \in Runners : refs[r] > 0 /\ Disturbs => runnerAt'[r] # runnerAt[r]]_testVars
  BY BuildersHold
<1>4. TestInv /\ [TestNext]_testVars => [\A r \in Runners : Spares(r) \/ InTheWay(r)]_testVars
  BY OthersSpare, PrefixedInTheWay
<1>5. TestSpec => OneTester
  BY <1>1, <1>3, PTL DEF TestSpec, OneTester
<1>6. TestSpec => UserSpared
  BY <1>1, <1>4, PTL DEF TestSpec, UserSpared
<1>7. TestSpec => [](TestTypeOK /\ StampTellsOneBuild /\ BeginsClean)
  BY <1>1, <1>2, PTL
<1> QED BY <1>5, <1>6, <1>7 DEF TestersApart

(***************************************************************************)
(* cooper proof and cooper cleanup.  The end of a run is told by what leads *)
(* to it: a container of the run that is up is in the records its teardown  *)
(* goes by (Recorded), the rule of the loopback check is in force between   *)
(* the check and its restore alone (RuleRestored), a run that has not       *)
(* failed after the network phase has seen what "ok" promises (Seen), and   *)
(* cleanup has behind it what its earlier steps took away (Cleared).        *)
(***************************************************************************)
RunPhases ==
  {"preflight", "networks", "proxy", "bridge", "acl", "barrels", "security", "tools", "env", "envcheck",
   "ports", "restore", "summary", "teardown", "barrelsdown", "netsdown"}
BeyondProxy ==
  {"bridge", "acl", "barrels", "security", "tools", "env", "envcheck", "ports", "restore", "summary",
   "teardown", "barrelsdown"}
BeyondSecurity == {"tools", "env", "envcheck", "ports", "restore", "summary"}
CleanSteps == {"barrels", "proxy", "images", "networks"}

ProofTypes ==
  /\ ProofTypeOK
  /\ proofAt \in RunPhases \cup {"idle", "ended", "killed"} /\ cleanAt \in CleanSteps \cup {"idle", "done"}
  /\ hiccups \in Nat /\ kills \in Nat
Recorded ==
  /\ "proof" \notin missed =>
       \A b \in Boxes : boxes[b].owner = "proof" /\ Up(b) => b \in ctxBarrels \/ (b = "proxy" /\ proofAt \in BeyondProxy)
  /\ proofAt \in {"netsdown", "ended"} => ctxBarrels = {}
  /\ proofAt \in {"barrelsdown", "netsdown", "ended"} => ctxParts = {}
  /\ "proof" \in envFiles => proofAt = "envcheck"
NetworksGo == proofAt = "ended" /\ cleanAt = "idle" /\ "proof" \notin missed /\ nets => AnyUp
RuleRestored ==
  kills = 0 /\ proofAt # "restore" =>
    /\ "file" \in probing => warned
    /\ \A b \in Boxes : Up(b) /\ b \in probing => warned \/ b \in passedOver
Seen == proofAt \in BeyondSecurity /\ ~failed => enabled # {} /\ (isolated \/ hiccups > 0)
Cleared ==
  /\ cleanAt \in CleanSteps => Resting
  /\ "clean" \notin missed =>
       /\ cleanAt \in {"proxy", "images", "networks", "done"} => \A t \in ProofTools : ~Up(t)
       /\ cleanAt \in {"images", "networks", "done"} => ~Up("proxy")
       /\ cleanAt \in {"networks", "done"} => ~images
       /\ cleanAt = "done" => ~nets /\ (Resting \/ proofAt \in {"preflight", "teardown", "barrelsdown", "netsdown"})

ProofInv ==
  ProofTypes /\ Recorded /\ NetworksGo /\ RuleRestored /\ Seen /\ OkMeansIsolated /\ Cleared

(* What a reload of the rules may leave, written and signalled or not.       *)
LEMMA Reloaded ==
  ASSUME ProofTypes, NEW add \in BOOLEAN, ReloadSocat(add, failed) \/ ReloadSocat(add, warned)
  PROVE  /\ probing' \subseteq Boxes \cup {"file", "relay"} /\ passedOver' \subseteq {"proxy"}
         /\ hiccups' \in Nat /\ hiccups' >= hiccups
<1> DEFINE rules == IF add THEN probing \cup {"relay"} ELSE probing \ {"relay"}
<1>1. rules \subseteq Boxes \cup {"file", "relay"}
  BY DEF ProofTypes, ProofTypeOK
<1>2. CASE NotWritten(rules) /\ UNCHANGED passedOver
  BY <1>1, <1>2 DEF NotWritten, Hiccup, ProofTypes, ProofTypeOK
<1>3. CASE \E deaf \in SUBSET {b \in Boxes : Up(b)} :
             /\ IF deaf = {} THEN Answers ELSE Hiccup
             /\ passedOver' \in SUBSET (deaf \cap {"proxy"})
             /\ probing' = IF add THEN rules \cup {"file"} \cup {b \in Boxes : Up(b) /\ b \notin deaf}
                                  ELSE rules \cap deaf
  <2>1. hiccups' \in Nat /\ hiccups' >= hiccups
    BY <1>3 DEF Answers, Hiccup, ProofTypes
  <2>2. passedOver' \subseteq {"proxy"}
    BY <1>3
  <2>3. probing' \subseteq Boxes \cup {"file", "relay"}
    BY <1>1, <1>3
  <2> QED BY <2>1, <2>2, <2>3
<1> QED BY <1>2, <1>3 DEF ReloadSocat

(* The phases and steps, one by one: types. *)
LEMMA KeptProofTypes == ASSUME ProofInv, ProofNext PROVE ProofTypes'
<1> USE DEF ProofInv, ctxVars, dockerVars, countVars
<1>1. ASSUME RunStarts PROVE ProofTypes'
  BY <1>1, ToolNames DEF RunStarts, Resting, Left, Goes, ProofTypes, ProofTypeOK, RunPhases, CleanSteps, Boxes
<1>2. ASSUME Preflight PROVE ProofTypes'
  BY <1>2, ToolNames DEF Preflight, Aborts, ProofFails, Goes, Answers, Hiccup, Outside, ProofTypes, ProofTypeOK, RunPhases, CleanSteps, Boxes
<1>3. ASSUME CreateNetworks PROVE ProofTypes'
  BY <1>3, ToolNames DEF CreateNetworks, Aborts, ProofFails, Goes, Answers, Hiccup, Outside, ProofTypes, ProofTypeOK, RunPhases, CleanSteps, Boxes
<1>4. ASSUME ProofStartsProxy PROVE ProofTypes'
  BY <1>4, ToolNames DEF ProofStartsProxy, NotWritten, Aborts, ProofFails, Goes, Answers, Hiccup, Outside, RunningFor, NoBox, ProofTypes, ProofTypeOK, RunPhases, CleanSteps, Boxes
<1>5. ASSUME StartBridge PROVE ProofTypes'
  <2>1. boxes' \in [Boxes -> [state : {"none", "created", "running"}, owner : {"nobody", "proof", "earlier", "user"}]]
    BY <1>5, ToolNames DEF StartBridge, Aborts, ProofFails, Goes, Answers, Hiccup, Outside, ProofTypes, ProofTypeOK, Boxes
  <2>2. hiccups' \in Nat /\ kills' \in Nat
    BY <1>5 DEF StartBridge, Aborts, ProofFails, Goes, Answers, Hiccup, Outside, ProofTypes
  <2>3. /\ proofAt' \in RunPhases \cup {"idle", "ended", "killed"} /\ cleanAt' \in CleanSteps \cup {"idle", "done"}
        /\ missed' \subseteq {"proof", "clean"} /\ ctxParts' \subseteq {"bridge", "relay", "acl"} /\ verdict' \in {"none", "ok", "failed"}
    BY <1>5 DEF StartBridge, Aborts, ProofFails, Goes, Answers, Hiccup, Outside, ProofTypes, ProofTypeOK, RunPhases, CleanSteps
  <2>4. /\ untried' \subseteq enabled' /\ ctxBarrels' \subseteq enabled' /\ enabled' \subseteq ProofTools
        /\ probing' \subseteq Boxes \cup {"file", "relay"} /\ envFiles' \subseteq {"proof", "earlier"}
        /\ passedOver' \subseteq {"proxy"}
    BY <1>5 DEF StartBridge, Aborts, ProofFails, Goes, Answers, Hiccup, Outside, ProofTypes, ProofTypeOK
  <2> QED BY <2>1, <2>2, <2>3, <2>4 DEF ProofTypes, ProofTypeOK
<1>6. ASSUME StartACL PROVE ProofTypes'
  BY <1>6, ToolNames DEF StartACL, Aborts, ProofFails, Goes, Outside, ProofTypes, ProofTypeOK, RunPhases, CleanSteps, Boxes
<1>7. ASSUME NEW t \in ProofTools, StartBarrel(t) PROVE ProofTypes'
  BY <1>7, ToolNames DEF StartBarrel, Barrel, Answers, Hiccup, Outside, ProofTypes, ProofTypeOK, RunPhases, CleanSteps, Boxes
<1>8. ASSUME BarrelsDone PROVE ProofTypes'
  BY <1>8, ToolNames DEF BarrelsDone, Aborts, ProofFails, Goes, Outside, ProofTypes, ProofTypeOK, RunPhases, CleanSteps, Boxes
<1>9. ASSUME NetworkSecurity PROVE ProofTypes'
  BY <1>9, ToolNames DEF NetworkSecurity, Goes, Answers, Hiccup, Outside, Reached, EgressBlocked, ProofTypes, ProofTypeOK, RunPhases, CleanSteps, Boxes
<1>10. ASSUME ToolsPhase PROVE ProofTypes'
  BY <1>10, ToolNames DEF ToolsPhase, Goes, Outside, ProofTypes, ProofTypeOK, RunPhases, CleanSteps, Boxes
<1>11. ASSUME BarrelEnv PROVE ProofTypes'
  BY <1>11, ToolNames DEF BarrelEnv, ProofFails, Goes, Outside, ProofTypes, ProofTypeOK, RunPhases, CleanSteps, Boxes
<1>12. ASSUME BarrelEnvChecked PROVE ProofTypes'
  BY <1>12, ToolNames DEF BarrelEnvChecked, Goes, Outside, Reached, ProofTypes, ProofTypeOK, RunPhases, CleanSteps, Boxes
<1>13. ASSUME LoopbackCheck PROVE ProofTypes'
  <2>1. UNCHANGED <<probing, passedOver, hiccups>> \/ ReloadSocat(TRUE, failed)
    BY <1>13 DEF LoopbackCheck, PortForwarding, Answers
  <2>2. /\ probing' \subseteq Boxes \cup {"file", "relay"} /\ passedOver' \subseteq {"proxy"}
        /\ hiccups' \in Nat
    BY <2>1, Reloaded DEF ProofTypes, ProofTypeOK
  <2>3. proofAt' \in RunPhases
    BY <1>13 DEF LoopbackCheck, PortForwarding, ProofFails, Goes, RunPhases
  <2>4. UNCHANGED <<enabled, untried, ctxBarrels, ctxParts, verdict, boxes, envFiles, cleanAt, missed, kills>>
    BY <1>13 DEF LoopbackCheck, PortForwarding, Outside
  <2> QED BY <2>2, <2>3, <2>4 DEF ProofTypes, ProofTypeOK
<1>14. ASSUME Restore PROVE ProofTypes'
  <2>1. ReloadSocat(FALSE, warned)
    BY <1>14 DEF Restore
  <2>2. /\ probing' \subseteq Boxes \cup {"file", "relay"} /\ passedOver' \subseteq {"proxy"}
        /\ hiccups' \in Nat
    BY <2>1, Reloaded
  <2>3. proofAt' \in RunPhases
    BY <1>14 DEF Restore, Goes, RunPhases
  <2>4. UNCHANGED <<enabled, untried, ctxBarrels, ctxParts, verdict, boxes, envFiles, cleanAt, missed, kills>>
    BY <1>14 DEF Restore, Outside
  <2> QED BY <2>2, <2>3, <2>4 DEF ProofTypes, ProofTypeOK
<1>15. ASSUME Summary PROVE ProofTypes'
  BY <1>15, ToolNames DEF Summary, Goes, Outside, ProofTypes, ProofTypeOK, RunPhases, CleanSteps, Boxes
<1>16. ASSUME TeardownParts PROVE ProofTypes'
  BY <1>16, ToolNames DEF TeardownParts, Goes, Keeps, ProofTypes, ProofTypeOK, RunPhases, CleanSteps, Boxes
<1>17. ASSUME NEW t \in ProofTools, TeardownBarrel(t) PROVE ProofTypes'
  <2>1. boxes' \in [Boxes -> [state : {"none", "created", "running"}, owner : {"nobody", "proof", "earlier", "user"}]]
    BY <1>17, ToolNames DEF TeardownBarrel, Goes, Answers, Hiccup, Keeps, Stopped, NotStopped, NoBox, ProofTypes, ProofTypeOK, Boxes
  <2>2. hiccups' \in Nat /\ kills' \in Nat
    BY <1>17 DEF TeardownBarrel, Goes, Answers, Hiccup, Keeps, Stopped, NotStopped, NoBox, ProofTypes
  <2>3. /\ proofAt' \in RunPhases \cup {"idle", "ended", "killed"} /\ cleanAt' \in CleanSteps \cup {"idle", "done"}
        /\ missed' \subseteq {"proof", "clean"} /\ ctxParts' \subseteq {"bridge", "relay", "acl"} /\ verdict' \in {"none", "ok", "failed"}
    BY <1>17 DEF TeardownBarrel, Goes, Answers, Hiccup, Keeps, Stopped, NotStopped, NoBox, ProofTypes, ProofTypeOK, RunPhases, CleanSteps
  <2>4. /\ untried' \subseteq enabled' /\ ctxBarrels' \subseteq enabled' /\ enabled' \subseteq ProofTools
        /\ probing' \subseteq Boxes \cup {"file", "relay"} /\ envFiles' \subseteq {"proof", "earlier"}
        /\ passedOver' \subseteq {"proxy"}
    BY <1>17 DEF TeardownBarrel, Goes, Answers, Hiccup, Keeps, Stopped, NotStopped, NoBox, ProofTypes, ProofTypeOK
  <2> QED BY <2>1, <2>2, <2>3, <2>4 DEF ProofTypes, ProofTypeOK
<1>18. ASSUME TeardownProxy PROVE ProofTypes'
  <2>1. boxes' \in [Boxes -> [state : {"none", "created", "running"}, owner : {"nobody", "proof", "earlier", "user"}]]
    BY <1>18, ToolNames DEF TeardownProxy, Goes, Answers, Hiccup, Keeps, Stopped, NotStopped, NoBox, ProofTypes, ProofTypeOK, Boxes
  <2>2. hiccups' \in Nat /\ kills' \in Nat
    BY <1>18 DEF TeardownProxy, Goes, Answers, Hiccup, Keeps, Stopped, NotStopped, NoBox, ProofTypes
  <2>3. /\ proofAt' \in RunPhases \cup {"idle", "ended", "killed"} /\ cleanAt' \in CleanSteps \cup {"idle", "done"}
        /\ missed' \subseteq {"proof", "clean"} /\ ctxParts' \subseteq {"bridge", "relay", "acl"} /\ verdict' \in {"none", "ok", "failed"}
    BY <1>18 DEF TeardownProxy, Goes, Answers, Hiccup, Keeps, Stopped, NotStopped, NoBox, ProofTypes, ProofTypeOK, RunPhases, CleanSteps
  <2>4. /\ untried' \subseteq enabled' /\ ctxBarrels' \subseteq enabled' /\ enabled' \subseteq ProofTools
        /\ probing' \subseteq Boxes \cup {"file", "relay"} /\ envFiles' \subseteq {"proof", "earlier"}
        /\ passedOver' \subseteq {"proxy"}
    BY <1>18 DEF TeardownProxy, Goes, Answers, Hiccup, Keeps, Stopped, NotStopped, NoBox, ProofTypes, ProofTypeOK
  <2> QED BY <2>1, <2>2, <2>3, <2>4 DEF ProofTypes, ProofTypeOK
<1>19. ASSUME TeardownNetworks PROVE ProofTypes'
  <2>1. boxes' \in [Boxes -> [state : {"none", "created", "running"}, owner : {"nobody", "proof", "earlier", "user"}]]
    BY <1>19, ToolNames DEF TeardownNetworks, Goes, Answers, Hiccup, Keeps, RemoveNetworks, ProofTypes, ProofTypeOK, Boxes
  <2>2. hiccups' \in Nat /\ kills' \in Nat
    BY <1>19 DEF TeardownNetworks, Goes, Answers, Hiccup, Keeps, RemoveNetworks, ProofTypes
  <2>3. /\ proofAt' \in RunPhases \cup {"idle", "ended", "killed"} /\ cleanAt' \in CleanSteps \cup {"idle", "done"}
        /\ missed' \subseteq {"proof", "clean"} /\ ctxParts' \subseteq {"bridge", "relay", "acl"} /\ verdict' \in {"none", "ok", "failed"}
    BY <1>19 DEF TeardownNetworks, Goes, Answers, Hiccup, Keeps, RemoveNetworks, ProofTypes, ProofTypeOK, RunPhases, CleanSteps
  <2>4. /\ untried' \subseteq enabled' /\ ctxBarrels' \subseteq enabled' /\ enabled' \subseteq ProofTools
        /\ probing' \subseteq Boxes \cup {"file", "relay"} /\ envFiles' \subseteq {"proof", "earlier"}
        /\ passedOver' \subseteq {"proxy"}
    BY <1>19 DEF TeardownNetworks, Goes, Answers, Hiccup, Keeps, RemoveNetworks, ProofTypes, ProofTypeOK
  <2> QED BY <2>1, <2>2, <2>3, <2>4 DEF ProofTypes, ProofTypeOK
<1>20. ASSUME Killed PROVE ProofTypes'
  BY <1>20, ToolNames DEF Killed, Resting, Left, Goes, ProofTypes, ProofTypeOK, RunPhases, CleanSteps, Boxes
<1>21. ASSUME CleanStarts PROVE ProofTypes'
  BY <1>21, ToolNames DEF CleanStarts, Resting, CleanKeeps, ProofTypes, ProofTypeOK, RunPhases, CleanSteps, Boxes
<1>22. ASSUME CleanBarrels PROVE ProofTypes'
  <2>1. boxes' \in [Boxes -> [state : {"none", "created", "running"}, owner : {"nobody", "proof", "earlier", "user"}]]
    BY <1>22, ToolNames DEF CleanBarrels, Answers, Hiccup, CleanKeeps, Stopped, NotStopped, NoBox, ProofTypes, ProofTypeOK, Boxes
  <2>2. hiccups' \in Nat /\ kills' \in Nat
    BY <1>22 DEF CleanBarrels, Answers, Hiccup, CleanKeeps, Stopped, NotStopped, NoBox, ProofTypes
  <2>3. /\ proofAt' \in RunPhases \cup {"idle", "ended", "killed"} /\ cleanAt' \in CleanSteps \cup {"idle", "done"}
        /\ missed' \subseteq {"proof", "clean"} /\ ctxParts' \subseteq {"bridge", "relay", "acl"} /\ verdict' \in {"none", "ok", "failed"}
    BY <1>22 DEF CleanBarrels, Answers, Hiccup, CleanKeeps, Stopped, NotStopped, NoBox, ProofTypes, ProofTypeOK, RunPhases, CleanSteps
  <2>4. /\ untried' \subseteq enabled' /\ ctxBarrels' \subseteq enabled' /\ enabled' \subseteq ProofTools
        /\ probing' \subseteq Boxes \cup {"file", "relay"} /\ envFiles' \subseteq {"proof", "earlier"}
        /\ passedOver' \subseteq {"proxy"}
    BY <1>22 DEF CleanBarrels, Answers, Hiccup, CleanKeeps, Stopped, NotStopped, NoBox, ProofTypes, ProofTypeOK
  <2> QED BY <2>1, <2>2, <2>3, <2>4 DEF ProofTypes, ProofTypeOK
<1>23. ASSUME CleanProxy PROVE ProofTypes'
  <2>1. boxes' \in [Boxes -> [state : {"none", "created", "running"}, owner : {"nobody", "proof", "earlier", "user"}]]
    BY <1>23, ToolNames DEF CleanProxy, Answers, Hiccup, CleanKeeps, Stopped, NotStopped, NoBox, ProofTypes, ProofTypeOK, Boxes
  <2>2. hiccups' \in Nat /\ kills' \in Nat
    BY <1>23 DEF CleanProxy, Answers, Hiccup, CleanKeeps, Stopped, NotStopped, NoBox, ProofTypes
  <2>3. /\ proofAt' \in RunPhases \cup {"idle", "ended", "killed"} /\ cleanAt' \in CleanSteps \cup {"idle", "done"}
        /\ missed' \subseteq {"proof", "clean"} /\ ctxParts' \subseteq {"bridge", "relay", "acl"} /\ verdict' \in {"none", "ok", "failed"}
    BY <1>23 DEF CleanProxy, Answers, Hiccup, CleanKeeps, Stopped, NotStopped, NoBox, ProofTypes, ProofTypeOK, RunPhases, CleanSteps
  <2>4. /\ untried' \subseteq enabled' /\ ctxBarrels' \subseteq enabled' /\ enabled' \subseteq ProofTools
        /\ probing' \subseteq Boxes \cup {"file", "relay"} /\ envFiles' \subseteq {"proof", "earlier"}
        /\ passedOver' \subseteq {"proxy"}
    BY <1>23 DEF CleanProxy, Answers, Hiccup, CleanKeeps, Stopped, NotStopped, NoBox, ProofTypes, ProofTypeOK
  <2> QED BY <2>1, <2>2, <2>3, <2>4 DEF ProofTypes, ProofTypeOK
<1>24. ASSUME CleanImages PROVE ProofTypes'
  <2>1. boxes' \in [Boxes -> [state : {"none", "created", "running"}, owner : {"nobody", "proof", "earlier", "user"}]]
    BY <1>24, ToolNames DEF CleanImages, Answers, Hiccup, CleanKeeps, Stopped, NotStopped, NoBox, ProofTypes, ProofTypeOK, Boxes
  <2>2. hiccups' \in Nat /\ kills' \in Nat
    BY <1>24 DEF CleanImages, Answers, Hiccup, CleanKeeps, Stopped, NotStopped, NoBox, ProofTypes
  <2>3. /\ proofAt' \in RunPhases \cup {"idle", "ended", "killed"} /\ cleanAt' \in CleanSteps \cup {"idle", "done"}
        /\ missed' \subseteq {"proof", "clean"} /\ ctxParts' \subseteq {"bridge", "relay", "acl"} /\ verdict' \in {"none", "ok", "failed"}
    BY <1>24 DEF CleanImages, Answers, Hiccup, CleanKeeps, Stopped, NotStopped, NoBox, ProofTypes, ProofTypeOK, RunPhases, CleanSteps
  <2>4. /\ untried' \subseteq enabled' /\ ctxBarrels' \subseteq enabled' /\ enabled' \subseteq ProofTools
        /\ probing' \subseteq Boxes \cup {"file", "relay"} /\ envFiles' \subseteq {"proof", "earlier"}
        /\ passedOver' \subseteq {"proxy"}
    BY <1>24 DEF CleanImages, Answers, Hiccup, CleanKeeps, Stopped, NotStopped, NoBox, ProofTypes, ProofTypeOK
  <2> QED BY <2>1, <2>2, <2>3, <2>4 DEF ProofTypes, ProofTypeOK
<1>25. ASSUME CleanNetworks PROVE ProofTypes'
  <2>1. boxes' \in [Boxes -> [state : {"none", "created", "running"}, owner : {"nobody", "proof", "earlier", "user"}]]
    BY <1>25, ToolNames DEF CleanNetworks, Answers, Hiccup, CleanKeeps, RemoveNetworks, ProofTypes, ProofTypeOK, Boxes
  <2>2. hiccups' \in Nat /\ kills' \in Nat
    BY <1>25 DEF CleanNetworks, Answers, Hiccup, CleanKeeps, RemoveNetworks, ProofTypes
  <2>3. /\ proofAt' \in RunPhases \cup {"idle", "ended", "killed"} /\ cleanAt' \in CleanSteps \cup {"idle", "done"}
        /\ missed' \subseteq {"proof", "clean"} /\ ctxParts' \subseteq {"bridge", "relay", "acl"} /\ verdict' \in {"none", "ok", "failed"}
    BY <1>25 DEF CleanNetworks, Answers, Hiccup, CleanKeeps, RemoveNetworks, ProofTypes, ProofTypeOK, RunPhases, CleanSteps
  <2>4. /\ untried' \subseteq enabled' /\ ctxBarrels' \subseteq enabled' /\ enabled' \subseteq ProofTools
        /\ probing' \subseteq Boxes \cup {"file", "relay"} /\ envFiles' \subseteq {"proof", "earlier"}
        /\ passedOver' \subseteq {"proxy"}
    BY <1>25 DEF CleanNetworks, Answers, Hiccup, CleanKeeps, RemoveNetworks, ProofTypes, ProofTypeOK
  <2> QED BY <2>1, <2>2, <2>3, <2>4 DEF ProofTypes, ProofTypeOK
<1>26. ASSUME UserStarts PROVE ProofTypes'
  BY <1>26, ToolNames DEF UserStarts, RunningFor, ProofTypes, ProofTypeOK, RunPhases, CleanSteps, Boxes
<1> QED BY <1>1, <1>2, <1>3, <1>4, <1>5, <1>6, <1>7, <1>8, <1>9, <1>10, <1>11, <1>12, <1>13, <1>14, <1>15, <1>16, <1>17, <1>18, <1>19, <1>20, <1>21, <1>22, <1>23, <1>24, <1>25, <1>26 DEF ProofNext

(* StartBarrel records a barrel whatever becomes of it, and the teardown takes *)
(* from the record only what it has stopped or failed to stop.               *)
LEMMA KeptRecorded == ASSUME ProofInv, ProofNext PROVE Recorded'
<1> USE DEF ProofInv, ctxVars, dockerVars, countVars
<1>1. ASSUME RunStarts PROVE Recorded'
  BY <1>1, ToolNames DEF RunStarts, Resting, Left, Goes, Recorded, ProofTypes, ProofTypeOK, BeyondProxy, Boxes, Up
<1>2. ASSUME Preflight PROVE Recorded'
  BY <1>2, ToolNames DEF Preflight, Aborts, ProofFails, Goes, Answers, Hiccup, Outside, Recorded, ProofTypes, ProofTypeOK, BeyondProxy, Boxes, Up
<1>3. ASSUME CreateNetworks PROVE Recorded'
  BY <1>3, ToolNames DEF CreateNetworks, Aborts, ProofFails, Goes, Answers, Hiccup, Outside, Recorded, ProofTypes, ProofTypeOK, BeyondProxy, Boxes, Up
<1>4. ASSUME ProofStartsProxy PROVE Recorded'
  BY <1>4, ToolNames DEF ProofStartsProxy, NotWritten, Aborts, ProofFails, Goes, Answers, Hiccup, Outside, RunningFor, NoBox, Recorded, ProofTypes, ProofTypeOK, BeyondProxy, Boxes, Up
<1>5. ASSUME StartBridge PROVE Recorded'
  BY <1>5, ToolNames DEF StartBridge, Aborts, ProofFails, Goes, Answers, Hiccup, Outside, Recorded, ProofTypes, ProofTypeOK, BeyondProxy, Boxes, Up
<1>6. ASSUME StartACL PROVE Recorded'
  BY <1>6, ToolNames DEF StartACL, Aborts, ProofFails, Goes, Outside, Recorded, ProofTypes, ProofTypeOK, BeyondProxy, Boxes, Up
<1>7. ASSUME NEW t \in ProofTools, StartBarrel(t) PROVE Recorded'
  BY <1>7, ToolNames DEF StartBarrel, Barrel, Answers, Hiccup, Outside, Recorded, ProofTypes, ProofTypeOK, BeyondProxy, Boxes, Up
<1>8. ASSUME BarrelsDone PROVE Recorded'
  BY <1>8, ToolNames DEF BarrelsDone, Aborts, ProofFails, Goes, Outside, Recorded, ProofTypes, ProofTypeOK, BeyondProxy, Boxes, Up
<1>9. ASSUME NetworkSecurity PROVE Recorded'
  BY <1>9, ToolNames DEF NetworkSecurity, Goes, Answers, Hiccup, Outside, Reached, EgressBlocked, Recorded, ProofTypes, ProofTypeOK, BeyondProxy, Boxes, Up
<1>10. ASSUME ToolsPhase PROVE Recorded'
  BY <1>10, ToolNames DEF ToolsPhase, Goes, Outside, Recorded, ProofTypes, ProofTypeOK, BeyondProxy, Boxes, Up
<1>11. ASSUME BarrelEnv PROVE Recorded'
  BY <1>11, ToolNames DEF BarrelEnv, ProofFails, Goes, Outside, Recorded, ProofTypes, ProofTypeOK, BeyondProxy, Boxes, Up
<1>12. ASSUME BarrelEnvChecked PROVE Recorded'
  BY <1>12, ToolNames DEF BarrelEnvChecked, Goes, Outside, Reached, Recorded, ProofTypes, ProofTypeOK, BeyondProxy, Boxes, Up
<1>13. ASSUME LoopbackCheck PROVE Recorded'
  BY <1>13, ToolNames DEF LoopbackCheck, ProofFails, Goes, Answers, Hiccup, Outside, PortForwarding, ReloadSocat, NotWritten, Recorded, ProofTypes, ProofTypeOK, BeyondProxy, Boxes, Up
<1>14. ASSUME Restore PROVE Recorded'
  BY <1>14, ToolNames DEF Restore, Goes, Answers, Hiccup, Outside, ReloadSocat, NotWritten, Recorded, ProofTypes, ProofTypeOK, BeyondProxy, Boxes, Up
<1>15. ASSUME Summary PROVE Recorded'
  BY <1>15, ToolNames DEF Summary, Goes, Outside, Recorded, ProofTypes, ProofTypeOK, BeyondProxy, Boxes, Up
<1>16. ASSUME TeardownParts PROVE Recorded'
  BY <1>16, ToolNames DEF TeardownParts, Goes, Keeps, Recorded, ProofTypes, ProofTypeOK, BeyondProxy, Boxes, Up
<1>17. ASSUME NEW t \in ProofTools, TeardownBarrel(t) PROVE Recorded'
  BY <1>17, ToolNames DEF TeardownBarrel, Answers, Hiccup, Keeps, Stopped, NotStopped, NoBox, Recorded, ProofTypes, ProofTypeOK, BeyondProxy, Boxes, Up
<1>18. ASSUME TeardownProxy PROVE Recorded'
  BY <1>18, ToolNames DEF TeardownProxy, Goes, Answers, Hiccup, Keeps, Stopped, NotStopped, NoBox, Recorded, ProofTypes, ProofTypeOK, BeyondProxy, Boxes, Up
<1>19. ASSUME TeardownNetworks PROVE Recorded'
  BY <1>19, ToolNames DEF TeardownNetworks, Goes, Answers, Hiccup, Keeps, RemoveNetworks, Recorded, ProofTypes, ProofTypeOK, BeyondProxy, Boxes, Up
<1>20. ASSUME Killed PROVE Recorded'
  BY <1>20, ToolNames DEF Killed, Resting, Left, Goes, Recorded, ProofTypes, ProofTypeOK, BeyondProxy, Boxes, Up
<1>21. ASSUME CleanStarts PROVE Recorded'
  BY <1>21, ToolNames DEF CleanStarts, Resting, CleanKeeps, Recorded, ProofTypes, ProofTypeOK, BeyondProxy, Boxes, Up
<1>22. ASSUME CleanBarrels PROVE Recorded'
  BY <1>22, ToolNames DEF CleanBarrels, Answers, Hiccup, CleanKeeps, NotStopped, NoBox, Recorded, ProofTypes, ProofTypeOK, BeyondProxy, Boxes, Up
<1>23. ASSUME CleanProxy PROVE Recorded'
  BY <1>23, ToolNames DEF CleanProxy, Answers, Hiccup, CleanKeeps, Stopped, NotStopped, NoBox, Recorded, ProofTypes, ProofTypeOK, BeyondProxy, Boxes, Up
<1>24. ASSUME CleanImages PROVE Recorded'
  BY <1>24, ToolNames DEF CleanImages, Answers, Hiccup, CleanKeeps, Recorded, ProofTypes, ProofTypeOK, BeyondProxy, Boxes, Up
<1>25. ASSUME CleanNetworks PROVE Recorded'
  BY <1>25, ToolNames DEF CleanNetworks, Answers, Hiccup, CleanKeeps, RemoveNetworks, Recorded, ProofTypes, ProofTypeOK, BeyondProxy, Boxes, Up
<1>26. ASSUME UserStarts PROVE Recorded'
  BY <1>26, ToolNames DEF UserStarts, RunningFor, Recorded, ProofTypes, ProofTypeOK, BeyondProxy, Boxes, Up
<1> QED BY <1>1, <1>2, <1>3, <1>4, <1>5, <1>6, <1>7, <1>8, <1>9, <1>10, <1>11, <1>12, <1>13, <1>14, <1>15, <1>16, <1>17, <1>18, <1>19, <1>20, <1>21, <1>22, <1>23, <1>24, <1>25, <1>26 DEF ProofNext

(* Only the removal of the networks ends a run in order. *)
LEMMA KeptNetworksGo == ASSUME ProofInv, ProofNext PROVE NetworksGo'
<1> USE DEF ProofInv, ctxVars, dockerVars, countVars
<1>1. ASSUME RunStarts PROVE NetworksGo'
  BY <1>1 DEF RunStarts, Resting, Left, Goes, NetworksGo, ProofTypes, ProofTypeOK, AnyUp, Up
<1>2. ASSUME Preflight PROVE NetworksGo'
  BY <1>2 DEF Preflight, Aborts, ProofFails, Goes, Answers, Hiccup, Outside, NetworksGo, ProofTypes, ProofTypeOK, AnyUp, Up
<1>3. ASSUME CreateNetworks PROVE NetworksGo'
  BY <1>3 DEF CreateNetworks, Aborts, ProofFails, Goes, Answers, Hiccup, Outside, NetworksGo, ProofTypes, ProofTypeOK, AnyUp, Up
<1>4. ASSUME ProofStartsProxy PROVE NetworksGo'
  BY <1>4 DEF ProofStartsProxy, NotWritten, Aborts, ProofFails, Goes, Answers, Hiccup, Outside, RunningFor, NoBox, NetworksGo, ProofTypes, ProofTypeOK, AnyUp, Up
<1>5. ASSUME StartBridge PROVE NetworksGo'
  BY <1>5 DEF StartBridge, Aborts, ProofFails, Goes, Answers, Hiccup, Outside, NetworksGo, ProofTypes, ProofTypeOK, AnyUp, Up
<1>6. ASSUME StartACL PROVE NetworksGo'
  BY <1>6 DEF StartACL, Aborts, ProofFails, Goes, Outside, NetworksGo, ProofTypes, ProofTypeOK, AnyUp, Up
<1>7. ASSUME NEW t \in ProofTools, StartBarrel(t) PROVE NetworksGo'
  BY <1>7 DEF StartBarrel, Barrel, Answers, Hiccup, Outside, NetworksGo, ProofTypes, ProofTypeOK, AnyUp, Up
<1>8. ASSUME BarrelsDone PROVE NetworksGo'
  BY <1>8 DEF BarrelsDone, Aborts, ProofFails, Goes, Outside, NetworksGo, ProofTypes, ProofTypeOK, AnyUp, Up
<1>9. ASSUME NetworkSecurity PROVE NetworksGo'
  BY <1>9 DEF NetworkSecurity, Goes, Answers, Hiccup, Outside, Reached, EgressBlocked, NetworksGo, ProofTypes, ProofTypeOK, AnyUp, Up
<1>10. ASSUME ToolsPhase PROVE NetworksGo'
  BY <1>10 DEF ToolsPhase, Goes, Outside, NetworksGo, ProofTypes, ProofTypeOK, AnyUp, Up
<1>11. ASSUME BarrelEnv PROVE NetworksGo'
  BY <1>11 DEF BarrelEnv, ProofFails, Goes, Outside, NetworksGo, ProofTypes, ProofTypeOK, AnyUp, Up
<1>12. ASSUME BarrelEnvChecked PROVE NetworksGo'
  BY <1>12 DEF BarrelEnvChecked, Goes, Outside, Reached, NetworksGo, ProofTypes, ProofTypeOK, AnyUp, Up
<1>13. ASSUME LoopbackCheck PROVE NetworksGo'
  BY <1>13 DEF LoopbackCheck, ProofFails, Goes, Answers, Hiccup, Outside, PortForwarding, ReloadSocat, NotWritten, NetworksGo, ProofTypes, ProofTypeOK, AnyUp, Up
<1>14. ASSUME Restore PROVE NetworksGo'
  BY <1>14 DEF Restore, Goes, Answers, Hiccup, Outside, ReloadSocat, NotWritten, NetworksGo, ProofTypes, ProofTypeOK, AnyUp, Up
<1>15. ASSUME Summary PROVE NetworksGo'
  BY <1>15 DEF Summary, Goes, Outside, NetworksGo, ProofTypes, ProofTypeOK, AnyUp, Up
<1>16. ASSUME TeardownParts PROVE NetworksGo'
  BY <1>16 DEF TeardownParts, Goes, Keeps, NetworksGo, ProofTypes, ProofTypeOK, AnyUp, Up
<1>17. ASSUME NEW t \in ProofTools, TeardownBarrel(t) PROVE NetworksGo'
  BY <1>17 DEF TeardownBarrel, Answers, Hiccup, Keeps, Stopped, NotStopped, NoBox, NetworksGo, ProofTypes, ProofTypeOK, AnyUp, Up
<1>18. ASSUME TeardownProxy PROVE NetworksGo'
  BY <1>18 DEF TeardownProxy, Goes, Answers, Hiccup, Keeps, Stopped, NotStopped, NoBox, NetworksGo, ProofTypes, ProofTypeOK, AnyUp, Up
<1>19. ASSUME TeardownNetworks PROVE NetworksGo'
  BY <1>19 DEF TeardownNetworks, Goes, Answers, Hiccup, Keeps, RemoveNetworks, NetworksGo, ProofTypes, ProofTypeOK, AnyUp, Up
<1>20. ASSUME Killed PROVE NetworksGo'
  BY <1>20 DEF Killed, Resting, Left, Goes, NetworksGo, ProofTypes, ProofTypeOK, AnyUp, Up
<1>21. ASSUME CleanStarts PROVE NetworksGo'
  BY <1>21 DEF CleanStarts, Resting, CleanKeeps, NetworksGo, ProofTypes, ProofTypeOK, AnyUp, Up
<1>22. ASSUME CleanBarrels PROVE NetworksGo'
  BY <1>22 DEF CleanBarrels, Answers, Hiccup, CleanKeeps, NotStopped, NoBox, NetworksGo, ProofTypes, ProofTypeOK, AnyUp, Up
<1>23. ASSUME CleanProxy PROVE NetworksGo'
  BY <1>23 DEF CleanProxy, Answers, Hiccup, CleanKeeps, Stopped, NotStopped, NoBox, NetworksGo, ProofTypes, ProofTypeOK, AnyUp, Up
<1>24. ASSUME CleanImages PROVE NetworksGo'
  BY <1>24 DEF CleanImages, Answers, Hiccup, CleanKeeps, NetworksGo, ProofTypes, ProofTypeOK, AnyUp, Up
<1>25. ASSUME CleanNetworks PROVE NetworksGo'
  BY <1>25 DEF CleanNetworks, Answers, Hiccup, CleanKeeps, RemoveNetworks, NetworksGo, ProofTypes, ProofTypeOK, AnyUp, Up
<1>26. ASSUME UserStarts PROVE NetworksGo'
  BY <1>26 DEF UserStarts, RunningFor, NetworksGo, ProofTypes, ProofTypeOK, AnyUp, Up
<1> QED BY <1>1, <1>2, <1>3, <1>4, <1>5, <1>6, <1>7, <1>8, <1>9, <1>10, <1>11, <1>12, <1>13, <1>14, <1>15, <1>16, <1>17, <1>18, <1>19, <1>20, <1>21, <1>22, <1>23, <1>24, <1>25, <1>26 DEF ProofNext

(* The rule is written in the check alone, which goes on to its restore even *)
(* when the reload failed; a restore that misses a container warns.         *)
LEMMA KeptRuleRestored == ASSUME ProofInv, ProofNext PROVE RuleRestored'
<1> USE DEF ProofInv, ctxVars, dockerVars, countVars
<1>1. ASSUME RunStarts PROVE RuleRestored'
  BY <1>1, ToolNames DEF RunStarts, Resting, Left, Goes, RuleRestored, ProofTypes, ProofTypeOK, Up, Boxes
<1>2. ASSUME Preflight PROVE RuleRestored'
  BY <1>2, ToolNames DEF Preflight, Aborts, ProofFails, Goes, Answers, Hiccup, Outside, RuleRestored, ProofTypes, ProofTypeOK, Up, Boxes
<1>3. ASSUME CreateNetworks PROVE RuleRestored'
  BY <1>3, ToolNames DEF CreateNetworks, Aborts, ProofFails, Goes, Answers, Hiccup, Outside, RuleRestored, ProofTypes, ProofTypeOK, Up, Boxes
<1>4. ASSUME ProofStartsProxy PROVE RuleRestored'
  BY <1>4, ToolNames DEF ProofStartsProxy, NotWritten, Aborts, ProofFails, Goes, Answers, Hiccup, Outside, RunningFor, NoBox, RuleRestored, ProofTypes, ProofTypeOK, Up, Boxes
<1>5. ASSUME StartBridge PROVE RuleRestored'
  BY <1>5, ToolNames DEF StartBridge, Aborts, ProofFails, Goes, Answers, Hiccup, Outside, RuleRestored, ProofTypes, ProofTypeOK, Up, Boxes
<1>6. ASSUME StartACL PROVE RuleRestored'
  BY <1>6, ToolNames DEF StartACL, Aborts, ProofFails, Goes, Outside, RuleRestored, ProofTypes, ProofTypeOK, Up, Boxes
<1>7. ASSUME NEW t \in ProofTools, StartBarrel(t) PROVE RuleRestored'
  BY <1>7, ToolNames DEF StartBarrel, Barrel, Answers, Hiccup, Outside, RuleRestored, ProofTypes, ProofTypeOK, Up, Boxes
<1>8. ASSUME BarrelsDone PROVE RuleRestored'
  BY <1>8, ToolNames DEF BarrelsDone, Aborts, ProofFails, Goes, Outside, RuleRestored, ProofTypes, ProofTypeOK, Up, Boxes
<1>9. ASSUME NetworkSecurity PROVE RuleRestored'
  BY <1>9, ToolNames DEF NetworkSecurity, Goes, Answers, Hiccup, Outside, Reached, EgressBlocked, RuleRestored, ProofTypes, ProofTypeOK, Up, Boxes
<1>10. ASSUME ToolsPhase PROVE RuleRestored'
  BY <1>10, ToolNames DEF ToolsPhase, Goes, Outside, RuleRestored, ProofTypes, ProofTypeOK, Up, Boxes
<1>11. ASSUME BarrelEnv PROVE RuleRestored'
  BY <1>11, ToolNames DEF BarrelEnv, ProofFails, Goes, Outside, RuleRestored, ProofTypes, ProofTypeOK, Up, Boxes
<1>12. ASSUME BarrelEnvChecked PROVE RuleRestored'
  BY <1>12, ToolNames DEF BarrelEnvChecked, Goes, Outside, Reached, RuleRestored, ProofTypes, ProofTypeOK, Up, Boxes
<1>13. ASSUME LoopbackCheck PROVE RuleRestored'
  BY <1>13, ToolNames DEF LoopbackCheck, ProofFails, Goes, Answers, Hiccup, Outside, PortForwarding, ReloadSocat, NotWritten, RuleRestored, ProofTypes, ProofTypeOK, Up, Boxes
<1>14. ASSUME Restore PROVE RuleRestored'
  <2>1. ReloadSocat(FALSE, warned) /\ UNCHANGED boxes
    BY <1>14 DEF Restore, Outside
  <2>2. CASE warned'
    BY <2>2 DEF RuleRestored
  <2>3. CASE ~warned'
    <3>1. PICK deaf \in SUBSET {b \in Boxes : Up(b)} :
            probing' = (probing \ {"relay"}) \cap deaf /\ deaf \subseteq passedOver'
      BY <2>1, <2>3 DEF ReloadSocat
    <3>2. "file" \notin deaf
      BY ToolNames DEF Boxes
    <3> QED BY <2>1, <3>1, <3>2 DEF RuleRestored, Up
  <2> QED BY <2>2, <2>3
<1>15. ASSUME Summary PROVE RuleRestored'
  BY <1>15, ToolNames DEF Summary, Goes, Outside, RuleRestored, ProofTypes, ProofTypeOK, Up, Boxes
<1>16. ASSUME TeardownParts PROVE RuleRestored'
  BY <1>16, ToolNames DEF TeardownParts, Goes, Keeps, RuleRestored, ProofTypes, ProofTypeOK, Up, Boxes
<1>17. ASSUME NEW t \in ProofTools, TeardownBarrel(t) PROVE RuleRestored'
  BY <1>17, ToolNames DEF TeardownBarrel, Answers, Hiccup, Keeps, Stopped, NotStopped, NoBox, RuleRestored, ProofTypes, ProofTypeOK, Up, Boxes
<1>18. ASSUME TeardownProxy PROVE RuleRestored'
  BY <1>18, ToolNames DEF TeardownProxy, Goes, Answers, Hiccup, Keeps, Stopped, NotStopped, NoBox, RuleRestored, ProofTypes, ProofTypeOK, Up, Boxes
<1>19. ASSUME TeardownNetworks PROVE RuleRestored'
  BY <1>19, ToolNames DEF TeardownNetworks, Goes, Answers, Hiccup, Keeps, RemoveNetworks, RuleRestored, ProofTypes, ProofTypeOK, Up, Boxes
<1>20. ASSUME Killed PROVE RuleRestored'
  BY <1>20, ToolNames DEF Killed, Resting, Left, Goes, RuleRestored, ProofTypes, ProofTypeOK, Up, Boxes
<1>21. ASSUME CleanStarts PROVE RuleRestored'
  BY <1>21, ToolNames DEF CleanStarts, Resting, CleanKeeps, RuleRestored, ProofTypes, ProofTypeOK, Up, Boxes
<1>22. ASSUME CleanBarrels PROVE RuleRestored'
  BY <1>22, ToolNames DEF CleanBarrels, Answers, Hiccup, CleanKeeps, NotStopped, NoBox, RuleRestored, ProofTypes, ProofTypeOK, Up, Boxes
<1>23. ASSUME CleanProxy PROVE RuleRestored'
  BY <1>23, ToolNames DEF CleanProxy, Answers, Hiccup, CleanKeeps, Stopped, NotStopped, NoBox, RuleRestored, ProofTypes, ProofTypeOK, Up, Boxes
<1>24. ASSUME CleanImages PROVE RuleRestored'
  BY <1>24, ToolNames DEF CleanImages, Answers, Hiccup, CleanKeeps, RuleRestored, ProofTypes, ProofTypeOK, Up, Boxes
<1>25. ASSUME CleanNetworks PROVE RuleRestored'
  BY <1>25, ToolNames DEF CleanNetworks, Answers, Hiccup, CleanKeeps, RemoveNetworks, RuleRestored, ProofTypes, ProofTypeOK, Up, Boxes
<1>26. ASSUME UserStarts PROVE RuleRestored'
  BY <1>26, ToolNames DEF UserStarts, RunningFor, RuleRestored, ProofTypes, ProofTypeOK, Up, Boxes
<1> QED BY <1>1, <1>2, <1>3, <1>4, <1>5, <1>6, <1>7, <1>8, <1>9, <1>10, <1>11, <1>12, <1>13, <1>14, <1>15, <1>16, <1>17, <1>18, <1>19, <1>20, <1>21, <1>22, <1>23, <1>24, <1>25, <1>26 DEF ProofNext

(* The SSL check fails without a barrel; the egress check passes unasked only *)
(* when docker failed.                                                      *)
LEMMA KeptSeen == ASSUME ProofInv, ProofNext PROVE Seen'
<1> USE DEF ProofInv, ctxVars, dockerVars, countVars
<1>1. ASSUME RunStarts PROVE Seen'
  BY <1>1 DEF RunStarts, Resting, Left, Goes, Seen, ProofTypes, ProofTypeOK, BeyondSecurity
<1>2. ASSUME Preflight PROVE Seen'
  BY <1>2 DEF Preflight, Aborts, ProofFails, Goes, Answers, Hiccup, Outside, Seen, ProofTypes, ProofTypeOK, BeyondSecurity
<1>3. ASSUME CreateNetworks PROVE Seen'
  BY <1>3 DEF CreateNetworks, Aborts, ProofFails, Goes, Answers, Hiccup, Outside, Seen, ProofTypes, ProofTypeOK, BeyondSecurity
<1>4. ASSUME ProofStartsProxy PROVE Seen'
  BY <1>4 DEF ProofStartsProxy, NotWritten, Aborts, ProofFails, Goes, Answers, Hiccup, Outside, RunningFor, NoBox, Seen, ProofTypes, ProofTypeOK, BeyondSecurity
<1>5. ASSUME StartBridge PROVE Seen'
  BY <1>5 DEF StartBridge, Aborts, ProofFails, Goes, Answers, Hiccup, Outside, Seen, ProofTypes, ProofTypeOK, BeyondSecurity
<1>6. ASSUME StartACL PROVE Seen'
  BY <1>6 DEF StartACL, Aborts, ProofFails, Goes, Outside, Seen, ProofTypes, ProofTypeOK, BeyondSecurity
<1>7. ASSUME NEW t \in ProofTools, StartBarrel(t) PROVE Seen'
  BY <1>7 DEF StartBarrel, Barrel, Answers, Hiccup, Outside, Seen, ProofTypes, ProofTypeOK, BeyondSecurity
<1>8. ASSUME BarrelsDone PROVE Seen'
  BY <1>8 DEF BarrelsDone, Aborts, ProofFails, Goes, Outside, Seen, ProofTypes, ProofTypeOK, BeyondSecurity
<1>9. ASSUME NetworkSecurity PROVE Seen'
  <2>1. PICK ssl \in BOOLEAN, asked \in BOOLEAN :
          /\ ssl => Reached(Up("proxy"))
          /\ IF Reached(TRUE) /\ ~asked THEN Hiccup ELSE Answers
          /\ failed' = (failed \/ ~ssl \/ ~EgressBlocked(asked))
    BY <1>9 DEF NetworkSecurity
  <2>2. UNCHANGED <<enabled, isolated>>
    BY <1>9 DEF NetworkSecurity, Outside
  <2> SUFFICES ASSUME ~failed' PROVE enabled # {} /\ (isolated \/ hiccups' > 0)
    BY <2>2 DEF Seen
  <2>3. ssl /\ EgressBlocked(asked)
    BY <2>1
  <2>4. Reached(TRUE) /\ enabled # {}
    BY <2>1, <2>3 DEF Reached, ProofTypes, ProofTypeOK
  <2>5. CASE asked
    BY <2>3, <2>4, <2>5 DEF EgressBlocked
  <2>6. CASE ~asked
    BY <2>1, <2>4, <2>6 DEF Hiccup, ProofTypes
  <2> QED BY <2>5, <2>6
<1>10. ASSUME ToolsPhase PROVE Seen'
  BY <1>10 DEF ToolsPhase, Goes, Outside, Seen, ProofTypes, ProofTypeOK, BeyondSecurity
<1>11. ASSUME BarrelEnv PROVE Seen'
  BY <1>11 DEF BarrelEnv, ProofFails, Goes, Outside, Seen, ProofTypes, ProofTypeOK, BeyondSecurity
<1>12. ASSUME BarrelEnvChecked PROVE Seen'
  BY <1>12 DEF BarrelEnvChecked, Goes, Outside, Reached, Seen, ProofTypes, ProofTypeOK, BeyondSecurity
<1>13. ASSUME LoopbackCheck PROVE Seen'
  <2>1. proofAt = "ports" /\ (failed => failed') /\ UNCHANGED <<enabled, isolated>>
    BY <1>13 DEF LoopbackCheck, PortForwarding, ProofFails, ReloadSocat, Outside
  <2>2. UNCHANGED hiccups \/ ReloadSocat(TRUE, failed)
    BY <1>13 DEF LoopbackCheck, PortForwarding, Answers
  <2>3. hiccups \in Nat /\ (ReloadSocat(TRUE, failed) => hiccups' \in Nat /\ hiccups' >= hiccups)
    <3>1. ReloadSocat(TRUE, failed) => hiccups' \in Nat /\ hiccups' >= hiccups
      BY Reloaded
    <3> QED BY <3>1 DEF ProofTypes
  <2>4. hiccups' \in Nat /\ hiccups' >= hiccups
    <3>1. CASE UNCHANGED hiccups
      BY <2>3, <3>1
    <3>2. CASE ReloadSocat(TRUE, failed)
      BY <2>3, <3>2
    <3> QED BY <2>2, <3>1, <3>2
  <2> QED BY <2>1, <2>4 DEF Seen, BeyondSecurity, ProofTypes
<1>14. ASSUME Restore PROVE Seen'
  <2>1. /\ proofAt = "restore" /\ failed' \in {failed, TRUE} /\ UNCHANGED <<enabled, isolated>>
        /\ ReloadSocat(FALSE, warned)
    BY <1>14 DEF Restore, Outside
  <2>2. hiccups' \in Nat /\ hiccups' >= hiccups
    BY <2>1, Reloaded
  <2>3. ~failed' => ~failed
    BY <2>1
  <2> QED BY <2>1, <2>2, <2>3 DEF Seen, BeyondSecurity, ProofTypes
<1>15. ASSUME Summary PROVE Seen'
  BY <1>15 DEF Summary, Goes, Outside, Seen, ProofTypes, ProofTypeOK, BeyondSecurity
<1>16. ASSUME TeardownParts PROVE Seen'
  BY <1>16 DEF TeardownParts, Goes, Keeps, Seen, ProofTypes, ProofTypeOK, BeyondSecurity
<1>17. ASSUME NEW t \in ProofTools, TeardownBarrel(t) PROVE Seen'
  BY <1>17 DEF TeardownBarrel, Answers, Hiccup, Keeps, Stopped, NotStopped, NoBox, Seen, ProofTypes, ProofTypeOK, BeyondSecurity
<1>18. ASSUME TeardownProxy PROVE Seen'
  BY <1>18 DEF TeardownProxy, Goes, Answers, Hiccup, Keeps, Stopped, NotStopped, NoBox, Seen, ProofTypes, ProofTypeOK, BeyondSecurity
<1>19. ASSUME TeardownNetworks PROVE Seen'
  BY <1>19 DEF TeardownNetworks, Goes, Answers, Hiccup, Keeps, RemoveNetworks, Seen, ProofTypes, ProofTypeOK, BeyondSecurity
<1>20. ASSUME Killed PROVE Seen'
  BY <1>20 DEF Killed, Resting, Left, Goes, Seen, ProofTypes, ProofTypeOK, BeyondSecurity
<1>21. ASSUME CleanStarts PROVE Seen'
  BY <1>21 DEF CleanStarts, Resting, CleanKeeps, Seen, ProofTypes, ProofTypeOK, BeyondSecurity
<1>22. ASSUME CleanBarrels PROVE Seen'
  BY <1>22 DEF CleanBarrels, Answers, Hiccup, CleanKeeps, NotStopped, NoBox, Seen, ProofTypes, ProofTypeOK, BeyondSecurity
<1>23. ASSUME CleanProxy PROVE Seen'
  BY <1>23 DEF CleanProxy, Answers, Hiccup, CleanKeeps, Stopped, NotStopped, NoBox, Seen, ProofTypes, ProofTypeOK, BeyondSecurity
<1>24. ASSUME CleanImages PROVE Seen'
  BY <1>24 DEF CleanImages, Answers, Hiccup, CleanKeeps, Seen, ProofTypes, ProofTypeOK, BeyondSecurity
<1>25. ASSUME CleanNetworks PROVE Seen'
  BY <1>25 DEF CleanNetworks, Answers, Hiccup, CleanKeeps, RemoveNetworks, Seen, ProofTypes, ProofTypeOK, BeyondSecurity
<1>26. ASSUME UserStarts PROVE Seen'
  BY <1>26 DEF UserStarts, RunningFor, Seen, ProofTypes, ProofTypeOK, BeyondSecurity
<1> QED BY <1>1, <1>2, <1>3, <1>4, <1>5, <1>6, <1>7, <1>8, <1>9, <1>10, <1>11, <1>12, <1>13, <1>14, <1>15, <1>16, <1>17, <1>18, <1>19, <1>20, <1>21, <1>22, <1>23, <1>24, <1>25, <1>26 DEF ProofNext

(* The verdict is made of failCount, once, in the summary. *)
LEMMA KeptOkMeansIsolated == ASSUME ProofInv, ProofNext PROVE OkMeansIsolated'
<1> USE DEF ProofInv, ctxVars, dockerVars, countVars
<1>1. ASSUME RunStarts PROVE OkMeansIsolated'
  BY <1>1 DEF RunStarts, Resting, Left, Goes, OkMeansIsolated, ProofTypes, Seen, BeyondSecurity
<1>2. ASSUME Preflight PROVE OkMeansIsolated'
  BY <1>2 DEF Preflight, Aborts, ProofFails, Goes, Answers, Hiccup, Outside, OkMeansIsolated, ProofTypes, Seen, BeyondSecurity
<1>3. ASSUME CreateNetworks PROVE OkMeansIsolated'
  BY <1>3 DEF CreateNetworks, Aborts, ProofFails, Goes, Answers, Hiccup, Outside, OkMeansIsolated, ProofTypes, Seen, BeyondSecurity
<1>4. ASSUME ProofStartsProxy PROVE OkMeansIsolated'
  BY <1>4 DEF ProofStartsProxy, NotWritten, Aborts, ProofFails, Goes, Answers, Hiccup, Outside, RunningFor, NoBox, OkMeansIsolated, ProofTypes, Seen, BeyondSecurity
<1>5. ASSUME StartBridge PROVE OkMeansIsolated'
  BY <1>5 DEF StartBridge, Aborts, ProofFails, Goes, Answers, Hiccup, Outside, OkMeansIsolated, ProofTypes, Seen, BeyondSecurity
<1>6. ASSUME StartACL PROVE OkMeansIsolated'
  BY <1>6 DEF StartACL, Aborts, ProofFails, Goes, Outside, OkMeansIsolated, ProofTypes, Seen, BeyondSecurity
<1>7. ASSUME NEW t \in ProofTools, StartBarrel(t) PROVE OkMeansIsolated'
  BY <1>7 DEF StartBarrel, Barrel, Answers, Hiccup, Outside, OkMeansIsolated, ProofTypes, Seen, BeyondSecurity
<1>8. ASSUME BarrelsDone PROVE OkMeansIsolated'
  BY <1>8 DEF BarrelsDone, Aborts, ProofFails, Goes, Outside, OkMeansIsolated, ProofTypes, Seen, BeyondSecurity
<1>9. ASSUME NetworkSecurity PROVE OkMeansIsolated'
  BY <1>9 DEF NetworkSecurity, Goes, Answers, Hiccup, Outside, Reached, EgressBlocked, OkMeansIsolated, ProofTypes, Seen, BeyondSecurity
<1>10. ASSUME ToolsPhase PROVE OkMeansIsolated'
  BY <1>10 DEF ToolsPhase, Goes, Outside, OkMeansIsolated, ProofTypes, Seen, BeyondSecurity
<1>11. ASSUME BarrelEnv PROVE OkMeansIsolated'
  BY <1>11 DEF BarrelEnv, ProofFails, Goes, Outside, OkMeansIsolated, ProofTypes, Seen, BeyondSecurity
<1>12. ASSUME BarrelEnvChecked PROVE OkMeansIsolated'
  BY <1>12 DEF BarrelEnvChecked, Goes, Outside, Reached, OkMeansIsolated, ProofTypes, Seen, BeyondSecurity
<1>13. ASSUME LoopbackCheck PROVE OkMeansIsolated'
  BY <1>13 DEF LoopbackCheck, ProofFails, Goes, Answers, Hiccup, Outside, PortForwarding, ReloadSocat, NotWritten, OkMeansIsolated, ProofTypes, Seen, BeyondSecurity
<1>14. ASSUME Restore PROVE OkMeansIsolated'
  BY <1>14 DEF Restore, Goes, Answers, Hiccup, Outside, ReloadSocat, NotWritten, OkMeansIsolated, ProofTypes, Seen, BeyondSecurity
<1>15. ASSUME Summary PROVE OkMeansIsolated'
  BY <1>15 DEF Summary, Goes, Outside, OkMeansIsolated, ProofTypes, Seen, BeyondSecurity
<1>16. ASSUME TeardownParts PROVE OkMeansIsolated'
  BY <1>16 DEF TeardownParts, Goes, Keeps, OkMeansIsolated, ProofTypes, Seen, BeyondSecurity
<1>17. ASSUME NEW t \in ProofTools, TeardownBarrel(t) PROVE OkMeansIsolated'
  BY <1>17 DEF TeardownBarrel, Answers, Hiccup, Keeps, Stopped, NotStopped, NoBox, OkMeansIsolated, ProofTypes, Seen, BeyondSecurity
<1>18. ASSUME TeardownProxy PROVE OkMeansIsolated'
  BY <1>18 DEF TeardownProxy, Goes, Answers, Hiccup, Keeps, Stopped, NotStopped, NoBox, OkMeansIsolated, ProofTypes, Seen, BeyondSecurity
<1>19. ASSUME TeardownNetworks PROVE OkMeansIsolated'
  BY <1>19 DEF TeardownNetworks, Goes, Answers, Hiccup, Keeps, RemoveNetworks, OkMeansIsolated, ProofTypes, Seen, BeyondSecurity
<1>20. ASSUME Killed PROVE OkMeansIsolated'
  BY <1>20 DEF Killed, Resting, Left, Goes, OkMeansIsolated, ProofTypes, Seen, BeyondSecurity
<1>21. ASSUME CleanStarts PROVE OkMeansIsolated'
  BY <1>21 DEF CleanStarts, Resting, CleanKeeps, OkMeansIsolated, ProofTypes, Seen, BeyondSecurity
<1>22. ASSUME CleanBarrels PROVE OkMeansIsolated'
  BY <1>22 DEF CleanBarrels, Answers, Hiccup, CleanKeeps, NotStopped, NoBox, OkMeansIsolated, ProofTypes, Seen, BeyondSecurity
<1>23. ASSUME CleanProxy PROVE OkMeansIsolated'
  BY <1>23 DEF CleanProxy, Answers, Hiccup, CleanKeeps, Stopped, NotStopped, NoBox, OkMeansIsolated, ProofTypes, Seen, BeyondSecurity
<1>24. ASSUME CleanImages PROVE OkMeansIsolated'
  BY <1>24 DEF CleanImages, Answers, Hiccup, CleanKeeps, OkMeansIsolated, ProofTypes, Seen, BeyondSecurity
<1>25. ASSUME CleanNetworks PROVE OkMeansIsolated'
  BY <1>25 DEF CleanNetworks, Answers, Hiccup, CleanKeeps, RemoveNetworks, OkMeansIsolated, ProofTypes, Seen, BeyondSecurity
<1>26. ASSUME UserStarts PROVE OkMeansIsolated'
  BY <1>26 DEF UserStarts, RunningFor, OkMeansIsolated, ProofTypes, Seen, BeyondSecurity
<1> QED BY <1>1, <1>2, <1>3, <1>4, <1>5, <1>6, <1>7, <1>8, <1>9, <1>10, <1>11, <1>12, <1>13, <1>14, <1>15, <1>16, <1>17, <1>18, <1>19, <1>20, <1>21, <1>22, <1>23, <1>24, <1>25, <1>26 DEF ProofNext

(* Neither a run that finds no images nor a teardown puts anything back. *)
LEMMA KeptCleared == ASSUME ProofInv, ProofNext PROVE Cleared'
<1> USE DEF ProofInv, ctxVars, dockerVars, countVars
<1>1. ASSUME RunStarts PROVE Cleared'
  BY <1>1, ToolNames DEF RunStarts, Left, Goes, Cleared, ProofTypes, ProofTypeOK, CleanSteps, Resting, AnyUp, Up, Boxes
<1>2. ASSUME Preflight PROVE Cleared'
  BY <1>2, ToolNames DEF Preflight, Aborts, ProofFails, Goes, Answers, Hiccup, Outside, Cleared, ProofTypes, ProofTypeOK, CleanSteps, Resting, AnyUp, Up, Boxes
<1>3. ASSUME CreateNetworks PROVE Cleared'
  BY <1>3, ToolNames DEF CreateNetworks, Aborts, ProofFails, Goes, Answers, Hiccup, Outside, Cleared, ProofTypes, ProofTypeOK, CleanSteps, Resting, AnyUp, Up, Boxes
<1>4. ASSUME ProofStartsProxy PROVE Cleared'
  BY <1>4, ToolNames DEF ProofStartsProxy, NotWritten, Aborts, ProofFails, Goes, Answers, Hiccup, Outside, RunningFor, NoBox, Cleared, ProofTypes, ProofTypeOK, CleanSteps, Resting, AnyUp, Up, Boxes
<1>5. ASSUME StartBridge PROVE Cleared'
  BY <1>5, ToolNames DEF StartBridge, Aborts, ProofFails, Goes, Answers, Hiccup, Outside, Cleared, ProofTypes, ProofTypeOK, CleanSteps, Resting, AnyUp, Up, Boxes
<1>6. ASSUME StartACL PROVE Cleared'
  BY <1>6, ToolNames DEF StartACL, Aborts, ProofFails, Goes, Outside, Cleared, ProofTypes, ProofTypeOK, CleanSteps, Resting, AnyUp, Up, Boxes
<1>7. ASSUME NEW t \in ProofTools, StartBarrel(t) PROVE Cleared'
  BY <1>7, ToolNames DEF StartBarrel, Barrel, Answers, Hiccup, Outside, Cleared, ProofTypes, ProofTypeOK, CleanSteps, Resting, AnyUp, Up, Boxes
<1>8. ASSUME BarrelsDone PROVE Cleared'
  BY <1>8, ToolNames DEF BarrelsDone, Aborts, ProofFails, Goes, Outside, Cleared, ProofTypes, ProofTypeOK, CleanSteps, Resting, AnyUp, Up, Boxes
<1>9. ASSUME NetworkSecurity PROVE Cleared'
  BY <1>9, ToolNames DEF NetworkSecurity, Goes, Answers, Hiccup, Outside, Reached, EgressBlocked, Cleared, ProofTypes, ProofTypeOK, CleanSteps, Resting, AnyUp, Up, Boxes
<1>10. ASSUME ToolsPhase PROVE Cleared'
  BY <1>10, ToolNames DEF ToolsPhase, Goes, Outside, Cleared, ProofTypes, ProofTypeOK, CleanSteps, Resting, AnyUp, Up, Boxes
<1>11. ASSUME BarrelEnv PROVE Cleared'
  BY <1>11, ToolNames DEF BarrelEnv, ProofFails, Goes, Outside, Cleared, ProofTypes, ProofTypeOK, CleanSteps, Resting, AnyUp, Up, Boxes
<1>12. ASSUME BarrelEnvChecked PROVE Cleared'
  BY <1>12, ToolNames DEF BarrelEnvChecked, Goes, Outside, Reached, Cleared, ProofTypes, ProofTypeOK, CleanSteps, Resting, AnyUp, Up, Boxes
<1>13. ASSUME LoopbackCheck PROVE Cleared'
  BY <1>13, ToolNames DEF LoopbackCheck, ProofFails, Goes, Answers, Hiccup, Outside, PortForwarding, ReloadSocat, NotWritten, Cleared, ProofTypes, ProofTypeOK, CleanSteps, Resting, AnyUp, Up, Boxes
<1>14. ASSUME Restore PROVE Cleared'
  BY <1>14, ToolNames DEF Restore, Goes, Answers, Hiccup, Outside, ReloadSocat, NotWritten, Cleared, ProofTypes, ProofTypeOK, CleanSteps, Resting, AnyUp, Up, Boxes
<1>15. ASSUME Summary PROVE Cleared'
  BY <1>15, ToolNames DEF Summary, Goes, Outside, Cleared, ProofTypes, ProofTypeOK, CleanSteps, Resting, AnyUp, Up, Boxes
<1>16. ASSUME TeardownParts PROVE Cleared'
  BY <1>16, ToolNames DEF TeardownParts, Goes, Keeps, Cleared, ProofTypes, ProofTypeOK, CleanSteps, Resting, AnyUp, Up, Boxes
<1>17. ASSUME NEW t \in ProofTools, TeardownBarrel(t) PROVE Cleared'
  BY <1>17, ToolNames DEF TeardownBarrel, Answers, Hiccup, Keeps, Stopped, NotStopped, NoBox, Cleared, ProofTypes, ProofTypeOK, CleanSteps, Resting, AnyUp, Up, Boxes
<1>18. ASSUME TeardownProxy PROVE Cleared'
  BY <1>18, ToolNames DEF TeardownProxy, Goes, Answers, Hiccup, Keeps, Stopped, NotStopped, NoBox, Cleared, ProofTypes, ProofTypeOK, CleanSteps, Resting, AnyUp, Up, Boxes
<1>19. ASSUME TeardownNetworks PROVE Cleared'
  <2>1. nets' => nets
    BY <1>19 DEF TeardownNetworks, RemoveNetworks
  <2>2. /\ UNCHANGED <<boxes, cleanAt, images>> /\ proofAt' = "ended" /\ proofAt = "netsdown"
        /\ "clean" \notin missed' => "clean" \notin missed
    BY <1>19 DEF TeardownNetworks, RemoveNetworks, Keeps, Goes
  <2> QED BY <2>1, <2>2 DEF Cleared, CleanSteps, Resting, Up
<1>20. ASSUME Killed PROVE Cleared'
  BY <1>20, ToolNames DEF Killed, Left, Goes, Cleared, ProofTypes, ProofTypeOK, CleanSteps, Resting, AnyUp, Up, Boxes
<1>21. ASSUME CleanStarts PROVE Cleared'
  BY <1>21, ToolNames DEF CleanStarts, CleanKeeps, Cleared, ProofTypes, ProofTypeOK, CleanSteps, Resting, AnyUp, Up, Boxes
<1>22. ASSUME CleanBarrels PROVE Cleared'
  BY <1>22, ToolNames DEF CleanBarrels, Answers, Hiccup, CleanKeeps, NotStopped, NoBox, Cleared, ProofTypes, ProofTypeOK, CleanSteps, Resting, AnyUp, Up, Boxes
<1>23. ASSUME CleanProxy PROVE Cleared'
  BY <1>23, ToolNames DEF CleanProxy, Answers, Hiccup, CleanKeeps, Stopped, NotStopped, NoBox, Cleared, ProofTypes, ProofTypeOK, CleanSteps, Resting, AnyUp, Up, Boxes
<1>24. ASSUME CleanImages PROVE Cleared'
  BY <1>24, ToolNames DEF CleanImages, Answers, Hiccup, CleanKeeps, Cleared, ProofTypes, ProofTypeOK, CleanSteps, Resting, AnyUp, Up, Boxes
<1>25. ASSUME CleanNetworks PROVE Cleared'
  BY <1>25, ToolNames DEF CleanNetworks, Answers, Hiccup, CleanKeeps, RemoveNetworks, Cleared, ProofTypes, ProofTypeOK, CleanSteps, Resting, AnyUp, Up, Boxes
<1>26. ASSUME UserStarts PROVE Cleared'
  BY <1>26, ToolNames DEF UserStarts, RunningFor, Cleared, ProofTypes, ProofTypeOK, CleanSteps, Resting, AnyUp, Up, Boxes
<1> QED BY <1>1, <1>2, <1>3, <1>4, <1>5, <1>6, <1>7, <1>8, <1>9, <1>10, <1>11, <1>12, <1>13, <1>14, <1>15, <1>16, <1>17, <1>18, <1>19, <1>20, <1>21, <1>22, <1>23, <1>24, <1>25, <1>26 DEF ProofNext

(* Nothing of a run exists, and the user's cooper up may be there. *)
LEMMA ProofBegins == ProofInit => ProofInv
<1> SUFFICES ASSUME ProofInit PROVE ProofInv
  OBVIOUS
<1>1. ProofTypes
  <2>1. boxes \in [Boxes -> [state : {"none", "created", "running"}, owner : {"nobody", "proof", "earlier", "user"}]]
    BY DEF ProofInit, NoBox, RunningFor
  <2> QED BY <2>1 DEF ProofInit, ProofTypes, ProofTypeOK, RunPhases, CleanSteps
<1>2. Recorded
  BY DEF ProofInit, Recorded, NoBox, RunningFor
<1>3. NetworksGo /\ RuleRestored /\ Seen /\ OkMeansIsolated /\ Cleared
  BY DEF ProofInit, NetworksGo, RuleRestored, Seen, BeyondSecurity, OkMeansIsolated, Cleared, CleanSteps
<1> QED BY <1>1, <1>2, <1>3 DEF ProofInv

LEMMA ProofStep == ProofInv /\ [ProofNext]_proofVars => ProofInv'
<1>1. ProofInv /\ ProofNext => ProofInv'
  BY KeptProofTypes, KeptRecorded, KeptNetworksGo, KeptRuleRestored, KeptSeen, KeptOkMeansIsolated, KeptCleared
  DEF ProofInv
<1>2. ProofInv /\ UNCHANGED proofVars => ProofInv'
  BY DEF proofVars, ctxVars, dockerVars, countVars, ProofInv, ProofTypes, ProofTypeOK, Recorded, NetworksGo,
    RuleRestored, Seen, OkMeansIsolated, Cleared, Up, AnyUp, Resting
<1> QED BY <1>1, <1>2

(* For every set of tools and every number of runs, failures of docker,     *)
(* interrupted runs and sessions beside them: a run of cooper proof takes   *)
(* down what it put up and the rule of its loopback check, and says all is  *)
(* well only of a network without a way out; cooper cleanup leaves nothing  *)
(* (proof.go and runCleanup of main.go).                                    *)
THEOREM ProofIsSound == ProofSpec => []ProofSound
<1>1. ProofInv => ProofSound
  <2> SUFFICES ASSUME ProofInv PROVE ProofSound
    OBVIOUS
  <2>1. ProofTypeOK /\ OkMeansIsolated
    BY DEF ProofInv, ProofTypes
  <2>2. ProofCleansUp
    <3> SUFFICES ASSUME proofAt = "ended", cleanAt = "idle", "proof" \notin missed
                 PROVE  /\ \A b \in Boxes : boxes[b].owner = "proof" => ~Up(b)
                        /\ nets => AnyUp
      BY DEF ProofCleansUp, ProofInv, Recorded
    <3> QED BY DEF ProofInv, Recorded, BeyondProxy, NetworksGo
  <2>3. ProbeRuleRemoved
    BY DEF ProbeRuleRemoved, ProofInv, RuleRestored
  <2>4. CleanupLeavesNothing
    BY DEF CleanupLeavesNothing, ProofInv, Cleared, AnyUp, Boxes
  <2> QED BY <2>1, <2>2, <2>3, <2>4 DEF ProofSound
<1>2. ProofSpec => []ProofInv
  BY ProofBegins, ProofStep, PTL DEF ProofSpec
<1> QED BY <1>1, <1>2, PTL

-----------------------------------------------------------------------------
(***************************************************************************)
(* The wizard.  WizardInv is about steps: m.cfg is what the screens hold     *)
(* from the moment the save screen is shown (Shown), since going there takes *)
(* it over and no key there edits; what was written is that (Written); the   *)
(* rows of the lists keep the shape and, from a sound file, the soundness    *)
(* that the dialogs check (RowsStaySound); every row of a detail view is one *)
(* it offers (DetailsShaped).                                               *)
(***************************************************************************)
RowShaped(s, r) ==
  /\ s = "whitelist" => r.source # "default"
  /\ s = "barrelenv" => DOMAIN r = EnvFields
ListShaped(s, l) ==
  /\ DOMAIN l = {"rows", "cursor", "modal"} /\ IsList(l.rows)
  /\ \A i \in DOMAIN l.rows : RowShaped(s, l.rows[i])
  /\ l.cursor \in Nat /\ 1 <= l.cursor /\ (l.cursor = 1 \/ l.cursor <= Len(l.rows))
  /\ \/ l.modal = NoModal
     \/ /\ DOMAIN l.modal = {"row", "text", "onCancel"}
        /\ l.modal.row \in 0 .. Len(l.rows) /\ RowShaped(s, l.modal.text)
ListsShaped == DOMAIN lists = ListScreens /\ \A s \in ListScreens : ListShaped(s, lists[s])
(* The rows of the detail view: Mirror needs a version on the host. *)
RowsOffered(s) == IF tools[ToolAt(s)].host # NoVersion THEN 3 ELSE 2
DetailsShaped ==
  /\ DOMAIN detail = DOMAIN ToolScreens
  /\ \A s \in DOMAIN ToolScreens :
       /\ DOMAIN detail[s] = {"cursor", "row", "text", "focused"}
       /\ detail[s].cursor \in DOMAIN ToolScreens[s] /\ detail[s].row \in 0 .. RowsOffered(s)
ConfigsShaped == (file = NoFile \/ IsConfig(file)) /\ IsConfig(conf) /\ AreTools(tools)
AtTyped ==
  /\ at \in [screen : Screens \cup {"welcome"}, top : {"none", "changes", "quit"},
             ended : {"no", "quit", "save", "saved", "failed"}]
  /\ at.ended \in {"save", "saved", "failed"} => at.screen = "save"
PortsShaped ==
  /\ DOMAIN ports = {"proxy", "bridge", "typed"}
  /\ LoadConfig.proxy # LoadConfig.bridge => ports.proxy # ports.bridge
(* The save screen shows what every screen holds, and a save wrote that.    *)
Shown == at.screen = "save" => conf = Synced
Written == at.ended = "saved" => file = Saved(conf)
RowsStaySound == SoundRows(LoadConfig) /\ at.ended = "no" => SoundRows(Synced)
WizardInv ==
  /\ ConfigsShaped /\ ListsShaped /\ DetailsShaped /\ PortsShaped /\ AtTyped
  /\ Shown /\ Written /\ RowsStaySound /\ PinsAreFound

(* Lists of any elements: the library's facts about sequences, for them.     *)
LEMMA ListIntro == ASSUME NEW X, NEW s \in Seq(X) PROVE IsList(s)
<1>1. Len(s) \in Nat /\ DOMAIN s = 1 .. Len(s) /\ s \in [1 .. Len(s) -> X]
  BY LenProperties
<1>2. s \in [1 .. Len(s) -> ToSet(s)]
  BY <1>1 DEF ToSet
<1> QED BY <1>1, <1>2, FunctionIsSeq DEF IsList

LEMMA ListFacts == ASSUME NEW s, IsList(s)
                   PROVE  /\ Len(s) \in Nat /\ DOMAIN s = 1 .. Len(s) /\ \A i \in DOMAIN s : s[i] \in ToSet(s)
                          /\ (s # << >> <=> Len(s) > 0)
<1>1. s \in Seq(ToSet(s))
  BY DEF IsList
<1>2. Len(s) \in Nat /\ DOMAIN s = 1 .. Len(s) /\ \A i \in DOMAIN s : s[i] \in ToSet(s)
  BY <1>1, LenProperties, ElementOfSeq
<1>3. s # << >> => Len(s) \in Nat \ {0}
  BY <1>1, EmptySeq
<1>4. s = << >> => Len(s) = 0
  BY EmptySeq
<1> QED BY <1>2, <1>3, <1>4

LEMMA EmptyList == IsList(<< >>) /\ DOMAIN << >> = {}
<1>1. IsList(<< >>)
  BY EmptySeq, ListIntro
<1> QED BY <1>1

LEMMA ListAppend ==
  ASSUME NEW s, NEW x, IsList(s)
  PROVE  /\ IsList(Append(s, x)) /\ Len(Append(s, x)) = Len(s) + 1 /\ DOMAIN Append(s, x) = 1 .. Len(s) + 1
         /\ \A i \in DOMAIN s : Append(s, x)[i] = s[i]
         /\ Append(s, x)[Len(s) + 1] = x
<1> DEFINE X == ToSet(s) \cup {x}
           t == Append(s, x)
<1>1. s \in Seq(X)
  BY SeqMonotonic DEF IsList
<1>2. x \in X /\ DOMAIN s = 1 .. Len(s)
  BY <1>1, LenProperties
<1> HIDE DEF X
<1>3. t \in Seq(X) /\ Len(t) = Len(s) + 1 /\ t[Len(s) + 1] = x /\ \A i \in 1 .. Len(s) : t[i] = s[i]
  BY <1>1, <1>2, AppendProperties
<1> HIDE DEF t
<1>4. DOMAIN t = 1 .. Len(s) + 1 /\ IsList(t)
  BY <1>3, LenProperties, ListIntro
<1> QED BY <1>2, <1>3, <1>4 DEF t

LEMMA ListReplace ==
  ASSUME NEW s, NEW i \in DOMAIN s, NEW x, IsList(s)
  PROVE  LET t == [s EXCEPT ![i] = x] IN
         IsList(t) /\ Len(t) = Len(s) /\ DOMAIN t = DOMAIN s /\ t[i] = x /\ \A j \in DOMAIN s \ {i} : t[j] = s[j]
<1> DEFINE X == ToSet(s) \cup {x}
           t == [s EXCEPT ![i] = x]
<1>1. s \in Seq(X)
  BY SeqMonotonic DEF IsList
<1>2. x \in X
  OBVIOUS
<1> HIDE DEF X
<1>3. t \in Seq(X) /\ Len(t) = Len(s) /\ DOMAIN t = DOMAIN s /\ t[i] = x /\ \A j \in DOMAIN s \ {i} : t[j] = s[j]
  BY <1>1, <1>2, ReplaceOne
<1> HIDE DEF t
<1>4. IsList(t)
  BY <1>3, ListIntro
<1> QED BY <1>3, <1>4 DEF t

LEMMA ListRemove ==
  ASSUME NEW s, NEW i \in DOMAIN s, IsList(s)
  PROVE  LET t == RemoveAt(s, i) IN
         /\ IsList(t) /\ Len(t) = Len(s) - 1 /\ DOMAIN t = 1 .. Len(s) - 1
         /\ \A k \in DOMAIN t : \E n \in DOMAIN s : t[k] = s[n]
<1> DEFINE t == Dropped(s, i)
<1>1. s \in Seq(ToSet(s))
  BY DEF IsList
<1>2. RemoveAt(s, i) = t
  BY DEF RemoveAt, Dropped
<1>3. /\ t \in Seq(ToSet(s)) /\ Len(t) = Len(s) - 1 /\ DOMAIN t = 1 .. Len(s) - 1
      /\ \A k \in DOMAIN t : \E n \in DOMAIN s : t[k] = s[n]
  BY <1>1, DropFacts
<1> HIDE DEF t
<1>4. IsList(t)
  BY <1>3, ListIntro
<1> QED BY <1>2, <1>3, <1>4

LEMMA ListRemoveApart ==
  ASSUME NEW s, NEW i \in DOMAIN s, IsList(s), NEW k \in DOMAIN RemoveAt(s, i), NEW l \in DOMAIN RemoveAt(s, i), k # l
  PROVE  \E n, o \in DOMAIN s : n # o /\ RemoveAt(s, i)[k] = s[n] /\ RemoveAt(s, i)[l] = s[o]
<1>1. s \in Seq(ToSet(s))
  BY DEF IsList
<1>2. RemoveAt(s, i) = Dropped(s, i)
  BY DEF RemoveAt, Dropped
<1>3. k \in DOMAIN Dropped(s, i) /\ l \in DOMAIN Dropped(s, i)
  BY <1>2
<1>4. \E n, o \in DOMAIN s : n # i /\ o # i /\ n # o /\ Dropped(s, i)[k] = s[n] /\ Dropped(s, i)[l] = s[o]
  BY <1>1, <1>3, DropApart
<1> QED BY <1>2, <1>4

LEMMA ListMapped ==
  ASSUME NEW s, NEW t, IsList(s), t = [i \in DOMAIN s |-> t[i]]
  PROVE  IsList(t) /\ DOMAIN t = DOMAIN s
<1>1. Len(s) \in Nat /\ DOMAIN s = 1 .. Len(s)
  BY ListFacts
<1>2. DOMAIN t = DOMAIN s
  OBVIOUS
<1>3. t \in [1 .. Len(s) -> ToSet(t)]
  BY <1>1, <1>2 DEF ToSet
<1>4. t \in Seq(ToSet(t))
  BY <1>1, <1>3, FunctionIsSeq
<1> QED BY <1>2, <1>4 DEF IsList

LEMMA ListConcat == ASSUME NEW s, NEW t, IsList(s), IsList(t) PROVE IsList(s \o t)
<1> DEFINE X == ToSet(s) \cup ToSet(t)
<1>1. s \in Seq(X) /\ t \in Seq(X)
  BY SeqMonotonic DEF IsList
<1> HIDE DEF X
<1> QED BY <1>1, ConcatProperties, ListIntro

LEMMA ListFiltered ==
  ASSUME NEW s, NEW K, IsList(s)
  PROVE  /\ IsList(Filtered(s, K)) /\ Filtered(s, K) = Kept(s, K)
         /\ \A i \in DOMAIN Filtered(s, K) : Filtered(s, K)[i] \in K
<1> DEFINE t == Filtered(s, K)
<1>1. t = Kept(s, K)
  BY DEF Filtered, Kept
<1>2. s \in Seq(ToSet(s))
  BY DEF IsList
<1>3. t \in Seq(ToSet(s) \cap K)
  BY <1>1, <1>2, KeptType
<1> HIDE DEF t
<1>4. IsList(t) /\ \A i \in DOMAIN t : t[i] \in K
  BY <1>3, ListIntro, LenProperties, ElementOfSeq
<1> QED BY <1>1, <1>4 DEF t

(* Domains by their source. *)
LEMMA OfDomains ==
  ASSUME NEW s, IsList(s)
  PROVE  /\ IsList(DefaultsOf(s)) /\ \A i \in DOMAIN DefaultsOf(s) : DefaultsOf(s)[i].source = "default"
         /\ IsList(UsersOf(s)) /\ \A i \in DOMAIN UsersOf(s) : UsersOf(s)[i].source # "default"
<1>1. /\ IsList(DefaultsOf(s))
      /\ \A i \in DOMAIN DefaultsOf(s) : DefaultsOf(s)[i] \in {d \in ToSet(s) : d.source = "default"}
  BY ListFiltered DEF DefaultsOf
<1>2. /\ IsList(UsersOf(s))
      /\ \A i \in DOMAIN UsersOf(s) : UsersOf(s)[i] \in {d \in ToSet(s) : d.source # "default"}
  BY ListFiltered DEF UsersOf
<1> QED BY <1>1, <1>2

LEMMA HasTools == AllTools # {} /\ \A ts : AreTools(ts) => ts # << >>
<1>1. AllTools # {}
  <2>1. "aicli" \in DOMAIN ToolScreens /\ IsList(ToolScreens["aicli"]) /\ ToolScreens["aicli"] # << >>
    BY WizardAssumption
  <2>2. 1 \in DOMAIN ToolScreens["aicli"]
    BY <2>1, ListFacts
  <2>3. ToolScreens["aicli"][1] \in ToSet(ToolScreens["aicli"])
    BY <2>2 DEF ToSet
  <2> QED BY <2>1, <2>3 DEF AllTools
<1>2. \A ts : AreTools(ts) => ts # << >>
  BY <1>1 DEF AreTools
<1> QED BY <1>1, <1>2

LEMMA LoadedShaped == ASSUME file = NoFile \/ IsConfig(file) PROVE IsConfig(LoadConfig)
<1>1. CASE file = NoFile
  <2>1. LoadConfig = DefaultConfig
    BY <1>1 DEF LoadConfig
  <2>2. IsList(Defaults)
    BY WizardAssumption
  <2> QED BY <2>1, <2>2, EmptyList DEF DefaultConfig, IsConfig
<1>2. CASE file # NoFile
  <2>1. IsConfig(file) /\ LoadConfig = [file EXCEPT !.domains = MergeDefaultDomains(@)]
    BY <1>2 DEF LoadConfig
  <2>2. IsList(MergeDefaultDomains(file.domains))
    <3>1. IsList(file.domains) /\ IsList(Defaults)
      BY <2>1, WizardAssumption DEF IsConfig
    <3> QED BY <3>1, ListFiltered, ListConcat DEF MergeDefaultDomains
  <2> QED BY <2>1, <2>2 DEF IsConfig
<1> QED BY <1>1, <1>2

LEMMA NewToolsShaped == ASSUME NEW c, IsConfig(c) PROVE AreTools(NewTools(c))
<1>1. DOMAIN NewTools(c) = AllTools
  BY DEF NewTools
<1>2. ASSUME NEW t \in AllTools
      PROVE  /\ DOMAIN NewTools(c)[t] = {"enabled", "mode", "pinned", "host"}
             /\ NewTools(c)[t].mode \in ToolModes
  <2>1. CASE c.tools # << >>
    <3>1. DOMAIN c.tools[t] = {"enabled", "mode", "pinned", "host"} /\ c.tools[t].mode \in ToolModes
      BY <2>1 DEF IsConfig, AreTools
    <3>2. NewTools(c)[t] = [c.tools[t] EXCEPT !.host = IF HostHas[t] # NoVersion THEN HostHas[t] ELSE @]
      BY <2>1 DEF NewTools
    <3> QED BY <3>1, <3>2
  <2>2. CASE c.tools = << >>
    <3>1. NewTools(c)[t] = [enabled |-> HostHas[t] # NoVersion, mode |-> IF HostHas[t] # NoVersion THEN "mirror" ELSE "off",
                            pinned |-> NoVersion, host |-> HostHas[t]]
      BY <2>2 DEF NewTools
    <3> QED BY <3>1 DEF ToolModes
  <2> QED BY <2>1, <2>2
<1> QED BY <1>1, <1>2 DEF AreTools

LEMMA NewListsShaped ==
  ASSUME NEW c, IsConfig(c)
  PROVE  DOMAIN NewLists(c) = ListScreens /\ \A s \in ListScreens : ListShaped(s, NewLists(c)[s])
<1>1. DOMAIN NewLists(c) = ListScreens
  BY DEF NewLists
<1>2. ASSUME NEW s, NEW rows, IsList(rows), \A i \in DOMAIN rows : RowShaped(s, rows[i])
      PROVE  ListShaped(s, NewList(rows))
  BY <1>2 DEF ListShaped, NewList
<1>3. NewLists(c)["whitelist"] = NewList(UsersOf(c.domains)) /\ NewLists(c)["portforward"] = NewList(c.rules)
      /\ NewLists(c)["barrelenv"] = NewList(c.env)
  BY DEF NewLists, ListScreens
<1>4. ListShaped("whitelist", NewList(UsersOf(c.domains)))
  <2>1. IsList(UsersOf(c.domains)) /\ \A i \in DOMAIN UsersOf(c.domains) : UsersOf(c.domains)[i].source # "default"
    BY OfDomains DEF IsConfig
  <2>2. \A i \in DOMAIN UsersOf(c.domains) : RowShaped("whitelist", UsersOf(c.domains)[i])
    BY <2>1 DEF RowShaped
  <2> QED BY <1>2, <2>1, <2>2
<1>5. ListShaped("portforward", NewList(c.rules))
  <2>1. IsList(c.rules) /\ \A i \in DOMAIN c.rules : RowShaped("portforward", c.rules[i])
    BY DEF IsConfig, RowShaped
  <2> QED BY <1>2, <2>1
<1>6. ListShaped("barrelenv", NewList(c.env))
  <2>1. IsList(c.env) /\ \A i \in DOMAIN c.env : RowShaped("barrelenv", c.env[i])
    BY DEF IsConfig, RowShaped
  <2> QED BY <1>2, <2>1
<1> QED BY <1>1, <1>3, <1>4, <1>5, <1>6 DEF ListScreens

LEMMA SyncedShaped ==
  ASSUME ConfigsShaped, ListsShaped
  PROVE  IsConfig(Synced) /\ AreTools(Synced.tools)
<1>1. AreTools(ToToolConfigs)
  <2>1. DOMAIN ToToolConfigs = AllTools
    BY DEF ToToolConfigs
  <2>2. ASSUME NEW t \in AllTools
        PROVE  DOMAIN ToToolConfigs[t] = {"enabled", "mode", "pinned", "host"} /\ ToToolConfigs[t].mode \in ToolModes
    <3>1. DOMAIN tools[t] = {"enabled", "mode", "pinned", "host"} /\ tools[t].mode \in ToolModes
      BY DEF ConfigsShaped, AreTools
    <3>2. ToToolConfigs[t] = [tools[t] EXCEPT !.pinned = IF tools[t].mode = "pin" THEN @ ELSE NoVersion]
      BY DEF ToToolConfigs
    <3> QED BY <3>1, <3>2
  <2> QED BY <2>1, <2>2 DEF AreTools
<1>2. /\ IsList(lists["whitelist"].rows) /\ IsList(lists["portforward"].rows) /\ IsList(lists["barrelenv"].rows)
      /\ \A i \in DOMAIN lists["barrelenv"].rows : DOMAIN lists["barrelenv"].rows[i] = EnvFields
  BY DEF ListsShaped, ListShaped, RowShaped, ListScreens
<1>3. IsList(ToDomainEntries)
  <2>1. IsList(conf.domains)
    BY DEF ConfigsShaped, IsConfig
  <2> QED BY <1>2, <2>1, OfDomains, ListConcat DEF ToDomainEntries
<1> QED BY <1>1, <1>2, <1>3 DEF Synced, IsConfig

LEMMA SavedShaped ==
  ASSUME NEW c, IsConfig(c), AreTools(c.tools)
  PROVE  /\ IsConfig(Saved(c)) /\ AreTools(Saved(c).tools)
         /\ Saved(c).domains = c.domains /\ Saved(c).rules = c.rules /\ Saved(c).env = CanonicalizeBarrelEnvVars(c.env)
         /\ Saved(c).proxy = c.proxy /\ Saved(c).bridge = c.bridge
         /\ \A t \in AllTools : /\ Saved(c).tools[t].enabled = c.tools[t].enabled
                                /\ Saved(c).tools[t].mode = c.tools[t].mode
                                /\ c.tools[t].mode = "pin" => Saved(c).tools[t].pinned = c.tools[t].pinned
<1> DEFINE d == [c EXCEPT !.env = CanonicalizeBarrelEnvVars(@)]
           ts == [t \in AllTools |-> IF d.tools[t].enabled /\ d.tools[t].mode = "latest"
                                     THEN [d.tools[t] EXCEPT !.pinned = LatestOf[t]] ELSE d.tools[t]]
<1>1. DOMAIN c = {"tools", "domains", "rules", "env", "proxy", "bridge"}
  BY DEF IsConfig
<1>2. /\ DOMAIN d = DOMAIN c /\ d.tools = c.tools /\ d.domains = c.domains /\ d.rules = c.rules
      /\ d.env = CanonicalizeBarrelEnvVars(c.env) /\ d.proxy = c.proxy /\ d.bridge = c.bridge
  BY <1>1
<1>3. Saved(c) = [d EXCEPT !.tools = ts]
  BY DEF Saved, WithLatest
<1>4. /\ DOMAIN ts = AllTools
      /\ \A t \in AllTools : ts[t] = IF c.tools[t].enabled /\ c.tools[t].mode = "latest"
                                     THEN [c.tools[t] EXCEPT !.pinned = LatestOf[t]] ELSE c.tools[t]
  BY <1>2
<1> HIDE DEF d, ts
<1>5. /\ DOMAIN Saved(c) = DOMAIN c /\ Saved(c).tools = ts /\ Saved(c).domains = c.domains /\ Saved(c).rules = c.rules
      /\ Saved(c).env = CanonicalizeBarrelEnvVars(c.env) /\ Saved(c).proxy = c.proxy /\ Saved(c).bridge = c.bridge
  BY <1>1, <1>2, <1>3
<1>6. ASSUME NEW t \in AllTools
      PROVE  /\ DOMAIN ts[t] = {"enabled", "mode", "pinned", "host"} /\ ts[t].mode \in ToolModes
             /\ ts[t].enabled = c.tools[t].enabled /\ ts[t].mode = c.tools[t].mode
             /\ c.tools[t].mode = "pin" => ts[t].pinned = c.tools[t].pinned
  <2>1. DOMAIN c.tools[t] = {"enabled", "mode", "pinned", "host"} /\ c.tools[t].mode \in ToolModes
    BY DEF AreTools
  <2> QED BY <1>4, <2>1
<1>7. AreTools(ts)
  BY <1>4, <1>6 DEF AreTools
<1>8. IsList(CanonicalizeBarrelEnvVars(c.env))
      /\ \A i \in DOMAIN CanonicalizeBarrelEnvVars(c.env) : DOMAIN CanonicalizeBarrelEnvVars(c.env)[i] = EnvFields
  <2> DEFINE e == CanonicalizeBarrelEnvVars(c.env)
  <2>1. IsList(c.env) /\ e = [i \in DOMAIN c.env |-> Trimmed(c.env[i])]
    BY DEF IsConfig, CanonicalizeBarrelEnvVars
  <2> HIDE DEF e
  <2>2. e = [i \in DOMAIN c.env |-> e[i]]
    BY <2>1
  <2>3. IsList(e) /\ DOMAIN e = DOMAIN c.env
    BY <2>1, <2>2, ListMapped
  <2>4. \A i \in DOMAIN c.env : DOMAIN e[i] = EnvFields
    BY <2>1 DEF Trimmed, IsConfig
  <2> QED BY <2>3, <2>4 DEF e
<1>9. IsConfig(Saved(c))
  BY <1>1, <1>5, <1>7, <1>8 DEF IsConfig
<1> QED BY <1>5, <1>6, <1>7, <1>9

(* Default domains, the user's, and default ones again: each kind is taken   *)
(* back out of them.                                                         *)
LEMMA SplitSource ==
  ASSUME NEW d, NEW r, NEW e, IsList(d), IsList(r), IsList(e),
         \A i \in DOMAIN d : d[i].source = "default", \A i \in DOMAIN r : r[i].source # "default",
         \A i \in DOMAIN e : e[i].source = "default"
  PROVE  DefaultsOf(d \o r) = d /\ UsersOf((d \o r) \o e) = r
<1> DEFINE D == ToSet(d)
           R == ToSet(r)
           E == ToSet(e)
           X == (D \cup R) \cup E
<1>1. /\ d \in Seq(D) /\ r \in Seq(R) /\ e \in Seq(E)
      /\ \A x \in D : x.source = "default"
      /\ \A x \in R : x.source # "default"
      /\ \A x \in E : x.source = "default"
  BY DEF IsList, ToSet
<1> HIDE DEF D, R, E
<1>2. d \in Seq(X) /\ r \in Seq(X) /\ e \in Seq(X)
  BY <1>1, SeqMonotonic
<1> DEFINE K == {x \in X : x.source = "default"}
           U == {x \in X : x.source # "default"}
<1>3. ASSUME NEW s \in Seq(X) PROVE DefaultsOf(s) = Kept(s, K) /\ UsersOf(s) = Kept(s, U)
  <2>1. IsList(s) /\ s \in Seq(ToSet(s)) /\ ToSet(s) \subseteq X
    <3>1. IsList(s) /\ DOMAIN s = 1 .. Len(s) /\ \A i \in 1 .. Len(s) : s[i] \in X
      BY ListIntro, LenProperties, ElementOfSeq
    <3> QED BY <3>1 DEF ToSet, IsList
  <2> DEFINE k == {x \in ToSet(s) : x.source = "default"}
             u == {x \in ToSet(s) : x.source # "default"}
  <2>2. ToSet(s) \cap k = ToSet(s) \cap K /\ ToSet(s) \cap u = ToSet(s) \cap U
    BY <2>1
  <2>3. DefaultsOf(s) = Kept(s, k) /\ UsersOf(s) = Kept(s, u)
    BY <2>1, ListFiltered DEF DefaultsOf, UsersOf
  <2> HIDE DEF k, u, K, U
  <2>4. Kept(s, k) = Kept(s, K) /\ Kept(s, u) = Kept(s, U)
    BY <2>1, <2>2, KeptAgree
  <2> QED BY <2>3, <2>4
<1>4. D \subseteq K /\ E \subseteq K /\ R \cap K = {} /\ R \subseteq U /\ D \cap U = {} /\ E \cap U = {}
  BY <1>1
<1>5. d \o r \in Seq(X) /\ (d \o r) \o e \in Seq(X)
  BY <1>2, ConcatProperties
<1> HIDE DEF K, U, X
<1>6. Kept(d, K) = d /\ Kept(r, K) = << >> /\ Kept(d, U) = << >> /\ Kept(e, U) = << >> /\ Kept(r, U) = r
  BY <1>1, <1>4, KeptAll, KeptNone
<1>7. DefaultsOf(d \o r) = d
  <2>1. Kept(d \o r, K) = d \o << >>
    <3>1. Kept(d \o r, K) = Kept(d, K) \o Kept(r, K)
      BY <1>2, KeptConcat
    <3> QED BY <1>6, <3>1
  <2>2. d \o << >> = d
    BY <1>2, ConcatEmptySeq
  <2> QED BY <1>3, <1>5, <2>1, <2>2
<1>8. UsersOf((d \o r) \o e) = r
  <2> DEFINE s == d \o r
  <2>1. Kept(s, U) = << >> \o r
    <3>1. Kept(d \o r, U) = Kept(d, U) \o Kept(r, U)
      BY <1>2, KeptConcat
    <3> QED BY <1>6, <3>1
  <2>2. << >> \o r = r /\ r \o << >> = r
    BY <1>2, ConcatEmptySeq
  <2> HIDE DEF s
  <2>3. s \in Seq(X)
    BY <1>5 DEF s
  <2>4. Kept(s \o e, U) = Kept(s, U) \o Kept(e, U)
    BY <1>2, <2>3, KeptConcat
  <2>5. Kept(s \o e, U) = r
    BY <1>6, <2>1, <2>2, <2>4
  <2>6. s \o e \in Seq(X)
    BY <1>5 DEF s
  <2> QED BY <1>3, <2>5, <2>6 DEF s
<1> QED BY <1>7, <1>8

(* Taking over what the screens hold once more changes nothing.              *)
LEMMA SyncedAgain ==
  ASSUME ConfigsShaped, ListsShaped, conf' = Synced, UNCHANGED <<tools, lists, ports>>
  PROVE  conf' = Synced'
<1> DEFINE d == DefaultsOf(conf.domains)
           r == lists["whitelist"].rows
<1>1. IsList(d) /\ IsList(r) /\ (\A i \in DOMAIN d : d[i].source = "default") /\ (\A i \in DOMAIN r : r[i].source # "default")
  <2>1. IsList(conf.domains)
    BY DEF ConfigsShaped, IsConfig
  <2>2. IsList(r) /\ \A i \in DOMAIN r : r[i].source # "default"
    BY DEF ListsShaped, ListShaped, RowShaped, ListScreens
  <2> QED BY <2>1, <2>2, OfDomains
<1>2. Synced.domains = d \o r
  BY DEF Synced, ToDomainEntries
<1> HIDE DEF d
<1>3. DefaultsOf(d \o r) = d
  <2>1. IsList(<< >>) /\ \A i \in DOMAIN << >> : << >>[i].source = "default"
    BY EmptyList
  <2> QED BY <1>1, <2>1, SplitSource
<1>4. ToDomainEntries' = d \o r
  <2>1. ToDomainEntries' = DefaultsOf(conf'.domains) \o lists'["whitelist"].rows
    BY DEF ToDomainEntries, DefaultsOf
  <2>2. conf'.domains = d \o r
    BY <1>2
  <2> QED BY <2>1, <2>2, <1>3
<1>5. ToToolConfigs' = ToToolConfigs
  BY DEF ToToolConfigs
<1>6. ToDomainEntries = d \o r
  BY DEF ToDomainEntries, d
<1> QED BY <1>4, <1>5, <1>6 DEF Synced

-----------------------------------------------------------------------------
(* What the keys of the tool screens, and of the list screens, leave alone.  *)
LEMMA ToolKeysFrame ==
  ASSUME NEW s, ToolKeys(s)
  PROVE  On(s) /\ UNCHANGED <<file, conf, lists, ports, at>>
<1>1. ASSUME NEW row, ToolMove(s, row) PROVE On(s) /\ UNCHANGED <<file, conf, lists, ports, at>>
  BY <1>1 DEF ToolMove, InScreens, Unspent
<1>2. CASE ToolToggle(s)
  BY <1>2 DEF ToolToggle, InScreens
<1>3. CASE ToolOpen(s)
  BY <1>3 DEF ToolOpen, InScreens, Unspent
<1>4. CASE DetailSelect(s)
  BY <1>4 DEF DetailSelect, InDetail, InScreens
<1>5. CASE DetailLeave(s)
  BY <1>5 DEF DetailLeave, InDetail, InScreens, Unspent
<1>6. CASE PinBlur(s)
  BY <1>6 DEF PinBlur, InScreens, Unspent
<1>7. ASSUME NEW row, DetailMove(s, row) PROVE On(s) /\ UNCHANGED <<file, conf, lists, ports, at>>
  BY <1>7 DEF DetailMove, InDetail, InScreens, Unspent
<1>8. ASSUME NEW v, PinType(s, v) PROVE On(s) /\ UNCHANGED <<file, conf, lists, ports, at>>
  BY <1>8 DEF PinType, InScreens
<1>9. ASSUME NEW reachable, PinEnter(s, reachable) PROVE On(s) /\ UNCHANGED <<file, conf, lists, ports, at>>
  BY <1>9 DEF PinEnter, InScreens, Unspent
<1> QED BY <1>1, <1>2, <1>3, <1>4, <1>5, <1>6, <1>7, <1>8, <1>9 DEF ToolKeys

LEMMA ListKeysFrame ==
  ASSUME NEW s, ListKeys(s)
  PROVE  On(s) /\ UNCHANGED <<file, conf, tools, detail, ports, at>>
<1>1. ASSUME NEW row, ListMove(s, row) PROVE On(s) /\ UNCHANGED <<file, conf, tools, detail, ports, at>>
  BY <1>1 DEF ListMove, Listed, InLists, Unspent
<1>2. CASE ListNew(s)
  BY <1>2 DEF ListNew, Listed, InLists, Unspent
<1>3. CASE ListEdit(s)
  BY <1>3 DEF ListEdit, Listed, InLists, Unspent
<1>4. CASE ListDelete(s)
  BY <1>4 DEF ListDelete, Listed, InLists
<1>5. CASE ModalFocus(s)
  BY <1>5 DEF ModalFocus, InModal, InLists, Unspent
<1>6. CASE ModalCancel(s)
  BY <1>6 DEF ModalCancel, InModal, InLists, Unspent
<1>7. CASE ModalConfirm(s)
  BY <1>7 DEF ModalConfirm, InModal, InLists, Unspent
<1>8. ASSUME NEW t, ModalType(s, t) PROVE On(s) /\ UNCHANGED <<file, conf, tools, detail, ports, at>>
  BY <1>8 DEF ModalType, InModal, InLists
<1> QED BY <1>1, <1>2, <1>3, <1>4, <1>5, <1>6, <1>7, <1>8 DEF ListKeys

(* The steps that change neither lists, nor ports, nor tools: moving between *)
(* screens takes over what they hold.                                       *)
Moving ==
  /\ UNCHANGED <<file, tools, detail, lists, ports>> /\ conf' \in {conf, Synced}
  /\ at.ended = "no"
  /\ \/ at'.screen = at.screen /\ UNCHANGED conf
     \/ at.screen # at'.screen /\ at'.ended = "no" /\ conf' = Synced
  /\ AtTyped'
LEMMA Movements ==
  ASSUME AtTyped,
         \/ DismissChanges \/ KeyQuit \/ \E yes \in BOOLEAN : AnswerQuit(yes)
         \/ \E s \in Screens : ChooseScreen(s) \/ Back(s)
         \/ KeySave
  PROVE  Moving
<1> USE DEF AtTyped, Unspent, InWizard
<1>1. CASE DismissChanges
  BY <1>1 DEF DismissChanges, Moving
<1>2. CASE KeyQuit
  BY <1>2 DEF KeyQuit, Moving, Open
<1>3. ASSUME NEW yes \in BOOLEAN, AnswerQuit(yes) PROVE Moving
  BY <1>3 DEF AnswerQuit, Moving
<1>4. ASSUME NEW s \in Screens, ChooseScreen(s) PROVE Moving
  <2>1. s # "welcome"
    BY WizardAssumption DEF Screens, ListScreens
  <2> QED BY <1>4, <2>1 DEF ChooseScreen, Navigate, On, Open, Moving
<1>5. ASSUME NEW s \in Screens, Back(s) PROVE Moving
  <2>1. s # "welcome"
    BY WizardAssumption DEF Screens, ListScreens
  <2> QED BY <1>5, <2>1 DEF Back, Navigate, On, Open, Moving
<1>6. CASE KeySave
  BY <1>6 DEF KeySave, On, Open, Moving
<1> QED BY <1>1, <1>2, <1>3, <1>4, <1>5, <1>6

LEMMA WizardCases ==
  ASSUME WizardNext, AtTyped
  PROVE  \/ Run \/ Moving \/ PortsEnter
         \/ \E s \in DOMAIN ToolScreens : ToolKeys(s)
         \/ \E s \in ListScreens : ListKeys(s)
         \/ \E field \in 1 .. 2, n \in TypedPorts : PortType(field, n)
         \/ \E online \in BOOLEAN : SaveWithProgress(online)
BY Movements DEF WizardNext

LEMMA KeptAt == ASSUME WizardInv, WizardNext PROVE AtTyped'
<1> USE DEF AtTyped
<1>1. AtTyped
  BY DEF WizardInv
<1>2. CASE Run
  BY <1>2 DEF Run, NewModel
<1>3. CASE Moving
  BY <1>3 DEF Moving
<1>4. CASE PortsEnter
  BY <1>1, <1>4 DEF PortsEnter, On, Open
<1>5. ASSUME NEW s, ToolKeys(s) PROVE AtTyped'
  BY <1>1, <1>5, ToolKeysFrame
<1>6. ASSUME NEW s, ListKeys(s) PROVE AtTyped'
  BY <1>1, <1>6, ListKeysFrame
<1>7. ASSUME NEW field, NEW n, PortType(field, n) PROVE AtTyped'
  BY <1>1, <1>7 DEF PortType
<1>8. ASSUME NEW online, SaveWithProgress(online) PROVE AtTyped'
  BY <1>1, <1>8 DEF SaveWithProgress
<1> QED BY <1>1, <1>2, <1>3, <1>4, <1>5, <1>6, <1>7, <1>8, WizardCases

-----------------------------------------------------------------------------
(* The tool under the cursor of a tool screen. *)
LEMMA ToolUnderCursor == ASSUME DetailsShaped, NEW s \in DOMAIN ToolScreens PROVE ToolAt(s) \in AllTools
<1>1. detail[s].cursor \in DOMAIN ToolScreens[s]
  BY DEF DetailsShaped
<1>2. ToolAt(s) \in ToSet(ToolScreens[s])
  BY <1>1 DEF ToolAt, ToSet
<1> QED BY <1>2 DEF AllTools

LEMMA ChoicesKept ==
  ASSUME DetailsShaped, NEW s \in DOMAIN ToolScreens, detail'[s].cursor = detail[s].cursor,
         \A t \in AllTools : tools'[t].host = tools[t].host
  PROVE  RowsOffered(s)' = RowsOffered(s)
BY ToolUnderCursor DEF RowsOffered, ToolAt

(* The detail view offers the modes in as many rows as RowsOffered says.         *)
LEMMA ModeRows ==
  ASSUME NEW s
  PROVE  /\ DOMAIN Modes(s) = 1 .. RowsOffered(s) /\ Len(Modes(s)) = RowsOffered(s)
         /\ \A i \in DOMAIN Modes(s) : Modes(s)[i] \in {"mirror", "latest", "pin"}
<1> DEFINE M == {"mirror", "latest", "pin"}
           mirror == IF tools[ToolAt(s)].host # NoVersion THEN <<"mirror">> ELSE << >>
           n == IF tools[ToolAt(s)].host # NoVersion THEN 1 ELSE 0
<1>1. mirror \in Seq(M) /\ Len(mirror) = n
  <2>1. <<"mirror">> \in Seq(M) /\ Len(<<"mirror">>) = 1
    OBVIOUS
  <2>2. << >> \in Seq(M) /\ Len(<< >>) = 0
    BY EmptySeq
  <2>3. CASE tools[ToolAt(s)].host # NoVersion
    <3>1. mirror = <<"mirror">> /\ n = 1
      BY <2>3
    <3> HIDE DEF mirror, n, M
    <3> QED BY <2>1, <3>1
  <2>4. CASE tools[ToolAt(s)].host = NoVersion
    <3>1. mirror = << >> /\ n = 0
      BY <2>4
    <3> HIDE DEF mirror, n, M
    <3> QED BY <2>2, <3>1
  <2> QED BY <2>3, <2>4
<1>2. <<"latest", "pin">> \in Seq(M) /\ Len(<<"latest", "pin">>) = 2 /\ <<"latest">> \in Seq(M) /\ Len(<<"latest">>) = 1
      /\ <<"pin">> \in Seq(M) /\ Len(<<"pin">>) = 1
  OBVIOUS
<1>3. Modes(s) = IF s = "programming" THEN mirror \o <<"latest", "pin">> ELSE (<<"latest">> \o mirror) \o <<"pin">>
  BY DEF Modes
<1>4. RowsOffered(s) = n + 2 /\ n \in Nat
  BY DEF RowsOffered
<1> HIDE DEF mirror, n, M
<1>5. Modes(s) \in Seq(M) /\ Len(Modes(s)) = n + 2
  <2>1. CASE s = "programming"
    BY <1>1, <1>2, <1>3, <1>4, <2>1, ConcatProperties
  <2>2. CASE s # "programming"
    <3>1. <<"latest">> \o mirror \in Seq(M) /\ Len(<<"latest">> \o mirror) = n + 1
      BY <1>1, <1>2, <1>4, ConcatProperties
    <3> DEFINE two == <<"latest">> \o mirror
    <3> HIDE DEF two
    <3>2. two \o <<"pin">> \in Seq(M) /\ Len(two \o <<"pin">>) = n + 2
      <4>1. two \in Seq(M) /\ Len(two) = n + 1
        BY <3>1 DEF two
      <4> QED BY <1>2, <1>4, <4>1, ConcatProperties
    <3> QED BY <1>3, <2>2, <3>2 DEF two
  <2> QED BY <2>1, <2>2
<1>6. DOMAIN Modes(s) = 1 .. RowsOffered(s) /\ \A i \in DOMAIN Modes(s) : Modes(s)[i] \in M
  BY <1>4, <1>5, LenProperties, ElementOfSeq
<1> QED BY <1>4, <1>5, <1>6 DEF M

LEMMA RowOfModeInside ==
  ASSUME NEW s
  PROVE  RowOfMode(s) \in 0 .. RowsOffered(s)
<1> DEFINE I == {i \in 1 .. Len(Modes(s)) : Modes(s)[i] = tools[ToolAt(s)].mode}
<1>1. SelectInSeq(Modes(s), LAMBDA m : m = tools[ToolAt(s)].mode) = IF I # {} THEN Min(I) ELSE 0
  BY DEF SelectInSeq
<1>2. RowsOffered(s) \in {2, 3} /\ Len(Modes(s)) = RowsOffered(s)
  BY ModeRows DEF RowsOffered
<1>3. I # {} => Min(I) \in I
  <2> SUFFICES ASSUME I # {} PROVE Min(I) \in I
    OBVIOUS
  <2>1. I \subseteq Nat
    BY <1>2
  <2> HIDE DEF I
  <2>2. \E x \in I : \A y \in I : x <= y
    BY <2>1, NatSetMin
  <2> QED BY <2>2 DEF Min
<1>4. I \subseteq 1 .. RowsOffered(s)
  BY <1>2
<1> HIDE DEF I
<1>5. RowOfMode(s) = 1 \/ RowOfMode(s) \in I
  BY <1>1, <1>3 DEF RowOfMode
<1>6. 1 \in 0 .. RowsOffered(s)
  BY <1>2
<1>7. \A i \in I : i \in 0 .. RowsOffered(s)
  BY <1>4
<1> QED BY <1>5, <1>6, <1>7

(* A key of a tool screen: the tools keep their hosts, and a version comes    *)
(* into a pinned field only when the registry has it for that tool.          *)
LEMMA ToolKeysTools ==
  ASSUME ConfigsShaped, DetailsShaped, NEW s \in DOMAIN ToolScreens, ToolKeys(s)
  PROVE  /\ AreTools(tools')
         /\ \A t \in AllTools : tools'[t].host = tools[t].host
         /\ \A t \in AllTools : tools'[t].pinned = tools[t].pinned \/ <<t, tools'[t].pinned>> \in Findable
<1> DEFINE Same == UNCHANGED tools
           Done == /\ AreTools(tools')
                   /\ \A t \in AllTools : tools'[t].host = tools[t].host
                   /\ \A t \in AllTools : tools'[t].pinned = tools[t].pinned \/ <<t, tools'[t].pinned>> \in Findable
<1>1. AreTools(tools) /\ ToolAt(s) \in AllTools
  BY ToolUnderCursor DEF ConfigsShaped
<1>2. CASE Same
  BY <1>1, <1>2
<1>3. CASE ToolToggle(s)
  <2>1. PICK v : tools' = [tools EXCEPT ![ToolAt(s)].enabled = v]
    BY <1>3 DEF ToolToggle
  <2>2. /\ AreTools(tools')
        /\ \A t \in AllTools : tools'[t].host = tools[t].host
        /\ \A t \in AllTools : tools'[t].pinned = tools[t].pinned \/ (t = ToolAt(s) /\ tools'[t].pinned = v)
    BY <1>1, <2>1 DEF AreTools, ToolModes
  <2>3. \A t \in AllTools : tools'[t].pinned = tools[t].pinned
    BY <1>1, <2>1 DEF AreTools
  <2> QED BY <2>2, <2>3
<1>4. CASE DetailSelect(s)
  <2> DEFINE m == Modes(s)[detail[s].row]
  <2>1. tools' = [tools EXCEPT ![ToolAt(s)].mode = m] /\ detail[s].row # 0
    BY <1>4 DEF DetailSelect, InDetail
  <2>2. m \in ToolModes
    <3>1. detail[s].row \in 1 .. RowsOffered(s)
      BY <2>1 DEF DetailsShaped, RowsOffered
    <3> QED BY <3>1, ModeRows DEF ToolModes
  <2> HIDE DEF m
  <2>3. /\ AreTools(tools')
        /\ \A t \in AllTools : tools'[t].host = tools[t].host
    BY <1>1, <2>1, <2>2 DEF AreTools
  <2>4. \A t \in AllTools : tools'[t].pinned = tools[t].pinned
    BY <1>1, <2>1 DEF AreTools
  <2> QED BY <2>3, <2>4
<1>5. ASSUME NEW reachable, PinEnter(s, reachable) PROVE Done
  <2> DEFINE v == detail[s].text
  <2>1. /\ tools' = [tools EXCEPT ![ToolAt(s)].pinned = v, ![ToolAt(s)].mode = "pin"]
        /\ <<ToolAt(s), v>> \in Findable
    BY <1>5 DEF PinEnter
  <2> HIDE DEF v
  <2>2. /\ AreTools(tools')
        /\ \A t \in AllTools : tools'[t].host = tools[t].host
        /\ \A t \in AllTools : tools'[t].pinned = tools[t].pinned \/ (t = ToolAt(s) /\ tools'[t].pinned = v)
    BY <1>1, <2>1 DEF AreTools, ToolModes
  <2> QED BY <2>1, <2>2
<1>6. ToolKeys(s) => \/ Same \/ ToolToggle(s) \/ DetailSelect(s) \/ \E reachable \in BOOLEAN : PinEnter(s, reachable)
  BY DEF ToolKeys, ToolMove, ToolOpen, DetailLeave, PinBlur, DetailMove, PinType
<1> QED BY <1>2, <1>3, <1>4, <1>5, <1>6

(* The cursor of a tool screen moves in the list only; the row of the detail *)
(* view is one that it shows.                                                *)
LEMMA ToolKeysDetail ==
  ASSUME ConfigsShaped, DetailsShaped, NEW s \in DOMAIN ToolScreens, ToolKeys(s)
  PROVE  DetailsShaped'
<1> DEFINE d == detail[s]
           Fields == {"cursor", "row", "text", "focused"}
           Shaped(e) == DOMAIN e = Fields /\ e.cursor \in DOMAIN ToolScreens[s]
<1>1. /\ DOMAIN detail = DOMAIN ToolScreens
      /\ \A o \in DOMAIN ToolScreens : /\ DOMAIN detail[o] = Fields /\ detail[o].cursor \in DOMAIN ToolScreens[o]
                                       /\ detail[o].row \in 0 .. RowsOffered(o)
  BY DEF DetailsShaped
<1>2. \A t \in AllTools : tools'[t].host = tools[t].host
  BY ToolKeysTools
<1>3. /\ DOMAIN detail' = DOMAIN ToolScreens
      /\ \A o \in DOMAIN ToolScreens \ {s} : detail'[o] = detail[o]
      /\ DOMAIN detail'[s] = Fields /\ detail'[s].cursor \in DOMAIN ToolScreens[s]
      /\ \/ detail'[s].row = 0
         \/ detail'[s].cursor = d.cursor /\ detail'[s].row \in {d.row, RowOfMode(s)} \cup DOMAIN Modes(s)
  <2> DEFINE Q == /\ DOMAIN detail' = DOMAIN ToolScreens
                  /\ \A o \in DOMAIN ToolScreens \ {s} : detail'[o] = detail[o]
                  /\ DOMAIN detail'[s] = Fields /\ detail'[s].cursor \in DOMAIN ToolScreens[s]
                  /\ \/ detail'[s].row = 0
                     \/ detail'[s].cursor = d.cursor /\ detail'[s].row \in {d.row, RowOfMode(s)} \cup DOMAIN Modes(s)
  <2>1. ASSUME NEW row, ToolMove(s, row) PROVE Q
    <3>1. detail' = [detail EXCEPT ![s].cursor = row] /\ row \in DOMAIN ToolScreens[s] /\ d.row = 0
      BY <2>1 DEF ToolMove
    <3> QED BY <1>1, <3>1
  <2>2. CASE ToolToggle(s)
    BY <1>1, <2>2 DEF ToolToggle
  <2>3. CASE ToolOpen(s)
    <3>1. PICK v : detail' = [detail EXCEPT ![s].row = RowOfMode(s), ![s].text = v]
      BY <2>3 DEF ToolOpen
    <3> QED BY <1>1, <3>1
  <2>4. CASE DetailSelect(s)
    <3>1. PICK v : detail' = [detail EXCEPT ![s].focused = v]
      BY <2>4 DEF DetailSelect
    <3> QED BY <1>1, <3>1
  <2>5. CASE DetailLeave(s)
    BY <1>1, <2>5 DEF DetailLeave
  <2>6. CASE PinBlur(s)
    BY <1>1, <2>6 DEF PinBlur
  <2>7. ASSUME NEW row, DetailMove(s, row) PROVE Q
    <3>1. detail' = [detail EXCEPT ![s].row = row] /\ row \in DOMAIN Modes(s)
      BY <2>7 DEF DetailMove
    <3> QED BY <1>1, <3>1
  <2>8. ASSUME NEW v, PinType(s, v) PROVE Q
    BY <1>1, <2>8 DEF PinType
  <2>9. ASSUME NEW reachable, PinEnter(s, reachable) PROVE Q
    <3>1. detail' = [detail EXCEPT ![s].focused = FALSE]
      BY <2>9 DEF PinEnter
    <3> QED BY <1>1, <3>1
  <2> QED BY <2>1, <2>2, <2>3, <2>4, <2>5, <2>6, <2>7, <2>8, <2>9 DEF ToolKeys
<1>4. detail'[s].row \in 0 .. RowsOffered(s)'
  <2>1. RowsOffered(s) \in {2, 3} /\ RowsOffered(s)' \in {2, 3}
    BY DEF RowsOffered
  <2>2. CASE detail'[s].row = 0
    BY <2>1, <2>2
  <2>3. CASE detail'[s].cursor = d.cursor /\ detail'[s].row \in {d.row, RowOfMode(s)} \cup DOMAIN Modes(s)
    <3>1. RowsOffered(s)' = RowsOffered(s)
      BY <1>2, <2>3, ChoicesKept
    <3>2. d.row \in 0 .. RowsOffered(s) /\ RowOfMode(s) \in 0 .. RowsOffered(s) /\ DOMAIN Modes(s) \subseteq 0 .. RowsOffered(s)
      <4>1. DOMAIN Modes(s) = 1 .. RowsOffered(s)
        BY ModeRows
      <4> QED BY <1>1, <2>1, <4>1, RowOfModeInside
    <3> QED BY <2>3, <3>1, <3>2
  <2> QED BY <1>3, <2>2, <2>3
<1>5. ASSUME NEW o \in DOMAIN ToolScreens, o # s PROVE detail'[o].row \in 0 .. RowsOffered(o)'
  <2>1. RowsOffered(o)' = RowsOffered(o)
    BY <1>2, <1>3, <1>5, ChoicesKept
  <2> QED BY <1>1, <1>3, <1>5, <2>1
<1>6. ASSUME NEW o \in DOMAIN ToolScreens
      PROVE  /\ DOMAIN detail'[o] = Fields
             /\ detail'[o].cursor \in DOMAIN ToolScreens[o] /\ detail'[o].row \in 0 .. RowsOffered(o)'
  <2>1. CASE o = s
    BY <1>3, <1>4, <2>1
  <2>2. CASE o # s
    BY <1>1, <1>3, <1>5, <2>2
  <2> QED BY <2>1, <2>2
<1> QED BY <1>3, <1>6 DEF DetailsShaped

LEMMA KeptDetails == ASSUME WizardInv, WizardNext PROVE DetailsShaped'
<1>1. ConfigsShaped /\ DetailsShaped /\ AtTyped
  BY DEF WizardInv
<1>2. CASE UNCHANGED <<tools, detail>>
  BY <1>1, <1>2 DEF DetailsShaped, RowsOffered, ToolAt
<1>3. CASE Run
  <2>1. detail' = [s \in DOMAIN ToolScreens |-> NoDetail]
    BY <1>3 DEF Run, NewModel
  <2>2. ASSUME NEW s \in DOMAIN ToolScreens PROVE 1 \in DOMAIN ToolScreens[s] /\ 0 \in 0 .. RowsOffered(s)'
    <3>1. IsList(ToolScreens[s]) /\ ToolScreens[s] # << >>
      BY WizardAssumption
    <3>2. 1 \in DOMAIN ToolScreens[s]
      BY <3>1, ListFacts
    <3>3. RowsOffered(s)' \in {2, 3}
      BY DEF RowsOffered
    <3> QED BY <3>2, <3>3
  <2> QED BY <2>1, <2>2 DEF DetailsShaped, NoDetail
<1>4. ASSUME NEW s \in DOMAIN ToolScreens, ToolKeys(s) PROVE DetailsShaped'
  BY <1>1, <1>4, ToolKeysDetail
<1>5. ASSUME NEW s, ListKeys(s) PROVE UNCHANGED <<tools, detail>>
  BY <1>5, ListKeysFrame
<1>6. Moving \/ PortsEnter => UNCHANGED <<tools, detail>>
  BY DEF Moving, PortsEnter
<1>7. ASSUME NEW field, NEW n, PortType(field, n) PROVE UNCHANGED <<tools, detail>>
  BY <1>7 DEF PortType
<1>8. ASSUME NEW online, SaveWithProgress(online) PROVE UNCHANGED <<tools, detail>>
  BY <1>8 DEF SaveWithProgress, InWizard
<1> QED BY <1>1, <1>2, <1>3, <1>4, <1>5, <1>6, <1>7, <1>8, WizardCases

-----------------------------------------------------------------------------
(* How the rows of a list screen change: not at all, by the row under the    *)
(* cursor going, or by what was accepted in the modal going where it says.   *)
Removed(s) == /\ lists[s].rows # << >> /\ lists[s].cursor \in DOMAIN lists[s].rows
              /\ lists'[s].rows = RemoveAt(lists[s].rows, lists[s].cursor)
Confirmed(s) ==
  LET l == lists[s]
      new == RowOf(s, l.modal.text)
  IN  /\ l.modal # NoModal /\ Accepted(s, l.modal.text, l.rows, l.modal.row)
      /\ \/ l.modal.row = 0 /\ lists'[s].rows = Append(l.rows, new)
         \/ l.modal.row \in DOMAIN l.rows /\ lists'[s].rows = [l.rows EXCEPT ![l.modal.row] = new]

(* What ListsShaped says of one screen, in the form the steps use it.        *)
LEMMA ListUnfolded ==
  ASSUME ListsShaped, NEW s \in ListScreens
  PROVE  LET l == lists[s] IN
         /\ DOMAIN lists = ListScreens
         /\ DOMAIN l = {"rows", "cursor", "modal"} /\ IsList(l.rows) /\ Len(l.rows) \in Nat
         /\ DOMAIN l.rows = 1 .. Len(l.rows)
         /\ \A i \in DOMAIN l.rows : RowShaped(s, l.rows[i])
         /\ l.cursor \in Nat /\ 1 <= l.cursor /\ (l.cursor = 1 \/ l.cursor <= Len(l.rows))
         /\ l.rows # << >> => l.cursor \in DOMAIN l.rows
         /\ l.modal # NoModal => /\ DOMAIN l.modal = {"row", "text", "onCancel"}
                                 /\ l.modal.row \in 0 .. Len(l.rows) /\ RowShaped(s, l.modal.text)
<1> DEFINE l == lists[s]
<1>1. ListShaped(s, l) /\ DOMAIN lists = ListScreens
  BY DEF ListsShaped
<1> HIDE DEF l
<1>2. /\ DOMAIN l = {"rows", "cursor", "modal"} /\ IsList(l.rows)
      /\ \A i \in DOMAIN l.rows : RowShaped(s, l.rows[i])
      /\ l.cursor \in Nat /\ 1 <= l.cursor /\ (l.cursor = 1 \/ l.cursor <= Len(l.rows))
      /\ l.modal # NoModal => /\ DOMAIN l.modal = {"row", "text", "onCancel"}
                              /\ l.modal.row \in 0 .. Len(l.rows) /\ RowShaped(s, l.modal.text)
  BY <1>1 DEF ListShaped
<1>3. Len(l.rows) \in Nat /\ DOMAIN l.rows = 1 .. Len(l.rows) /\ (l.rows # << >> => Len(l.rows) > 0)
  BY <1>2, ListFacts
<1>4. l.rows # << >> => l.cursor \in DOMAIN l.rows
  BY <1>2, <1>3
<1> QED BY <1>1, <1>2, <1>3, <1>4 DEF l

(* A list screen holds a modal or none. *)
LEMMA ModalShaped ==
  ASSUME NEW m, DOMAIN m = {"row", "text", "onCancel"}
  PROVE  m # NoModal
<1>1. DOMAIN NoModal = {"row"}
  BY DEF NoModal
<1>2. "text" \in DOMAIN m /\ "text" \notin {"row"}
  OBVIOUS
<1> QED BY <1>1, <1>2

LEMMA RowTexts ==
  ASSUME NEW s \in ListScreens, NEW x, RowShaped(s, x)
  PROVE  RowShaped(s, TextOf(s, x)) /\ RowShaped(s, RowOf(s, x)) /\ RowShaped(s, Blank(s))
<1>1. CASE s = "whitelist"
  BY <1>1 DEF RowShaped, TextOf, RowOf, Blank
<1>2. CASE s = "portforward"
  BY <1>2 DEF RowShaped
<1>3. CASE s = "barrelenv"
  BY <1>3 DEF RowShaped, TextOf, RowOf, Blank, Trimmed, EnvFields
<1> QED BY <1>1, <1>2, <1>3 DEF ListScreens

LEMMA ListKeysLists ==
  ASSUME ListsShaped, NEW s \in ListScreens, ListKeys(s)
  PROVE  /\ ListsShaped'
         /\ \A o \in ListScreens \ {s} : lists'[o] = lists[o]
         /\ lists'[s].rows = lists[s].rows \/ Removed(s) \/ Confirmed(s)
<1> DEFINE l == lists[s]
           k == lists'[s]
           Fields == {"rows", "cursor", "modal"}
           Others == DOMAIN lists' = ListScreens /\ \A o \in ListScreens \ {s} : lists'[o] = lists[o]
           Goal == Others /\ ListShaped(s, k) /\ (k.rows = l.rows \/ Removed(s) \/ Confirmed(s))
<1>1. /\ DOMAIN lists = ListScreens
      /\ DOMAIN l = Fields /\ IsList(l.rows) /\ Len(l.rows) \in Nat /\ DOMAIN l.rows = 1 .. Len(l.rows)
      /\ \A i \in DOMAIN l.rows : RowShaped(s, l.rows[i])
      /\ l.cursor \in Nat /\ 1 <= l.cursor /\ (l.cursor = 1 \/ l.cursor <= Len(l.rows))
      /\ l.rows # << >> => l.cursor \in DOMAIN l.rows
      /\ l.modal # NoModal => /\ DOMAIN l.modal = {"row", "text", "onCancel"}
                              /\ l.modal.row \in 0 .. Len(l.rows) /\ RowShaped(s, l.modal.text)
  BY ListUnfolded
<1>2. ASSUME NEW row, ListMove(s, row) PROVE Goal
  <2>1. lists' = [lists EXCEPT ![s].cursor = row] /\ row \in DOMAIN l.rows
    BY <1>2 DEF ListMove
  <2>2. Others /\ DOMAIN k = Fields /\ k.rows = l.rows /\ k.cursor = row /\ k.modal = l.modal
    BY <1>1, <2>1
  <2>3. row \in Nat /\ 1 <= row /\ row <= Len(l.rows)
    BY <1>1, <2>1
  <2> HIDE DEF l, k
  <2> QED BY <1>1, <2>2, <2>3 DEF ListShaped
<1>3. ASSUME NEW m, lists' = [lists EXCEPT ![s].modal = m],
             m = NoModal \/ (DOMAIN m = {"row", "text", "onCancel"} /\ m.row \in 0 .. Len(l.rows) /\ RowShaped(s, m.text))
      PROVE  Goal
  <2>1. Others /\ DOMAIN k = Fields /\ k.rows = l.rows /\ k.cursor = l.cursor /\ k.modal = m
    BY <1>1, <1>3
  <2> HIDE DEF l, k
  <2> QED BY <1>1, <1>3, <2>1 DEF ListShaped
<1>4. ASSUME ListNew(s) PROVE Goal
  <2> DEFINE m == [row |-> 0, text |-> Blank(s), onCancel |-> FALSE]
  <2>1. lists' = [lists EXCEPT ![s].modal = m]
    BY <1>4 DEF ListNew
  <2>2. RowShaped(s, Blank(s))
    BY RowTexts DEF RowShaped, Blank, EnvFields
  <2>3. DOMAIN m = {"row", "text", "onCancel"} /\ m.row \in 0 .. Len(l.rows) /\ RowShaped(s, m.text)
    BY <1>1, <2>2
  <2> HIDE DEF m, l, k, Goal
  <2> QED BY <1>3, <2>1, <2>3
<1>5. ASSUME ListEdit(s) PROVE Goal
  <2> DEFINE m == [row |-> l.cursor, text |-> TextOf(s, l.rows[l.cursor]), onCancel |-> FALSE]
  <2>1. lists' = [lists EXCEPT ![s].modal = m] /\ l.rows # << >>
    BY <1>5 DEF ListEdit
  <2>2. l.cursor \in DOMAIN l.rows /\ RowShaped(s, l.rows[l.cursor])
    BY <1>1, <2>1
  <2>3. RowShaped(s, TextOf(s, l.rows[l.cursor])) /\ l.cursor \in 0 .. Len(l.rows)
    BY <1>1, <2>2, RowTexts
  <2>4. DOMAIN m = {"row", "text", "onCancel"} /\ m.row \in 0 .. Len(l.rows) /\ RowShaped(s, m.text)
    BY <2>3
  <2> HIDE DEF m, l, k, Goal
  <2> QED BY <1>3, <2>1, <2>4
<1>6. ASSUME ListDelete(s) PROVE Goal
  <2> DEFINE r == RemoveAt(l.rows, l.cursor)
             c == IF l.cursor = Len(l.rows) /\ l.cursor > 1 THEN l.cursor - 1 ELSE l.cursor
  <2>1. /\ l.rows # << >> /\ l.modal = NoModal
        /\ lists' = [lists EXCEPT ![s].rows = r, ![s].cursor = c]
    BY <1>6 DEF ListDelete, Listed
  <2>2. Others /\ DOMAIN k = Fields /\ k.rows = r /\ k.cursor = c /\ k.modal = NoModal
    BY <1>1, <2>1
  <2>3. l.cursor \in DOMAIN l.rows
    BY <1>1, <2>1
  <2>4. /\ IsList(r) /\ Len(r) = Len(l.rows) - 1 /\ DOMAIN r = 1 .. Len(l.rows) - 1
        /\ \A i \in DOMAIN r : \E n \in DOMAIN l.rows : r[i] = l.rows[n]
    <3> DEFINE rows == l.rows
               i == l.cursor
    <3>1. IsList(rows) /\ i \in DOMAIN rows
      BY <1>1, <2>3
    <3> HIDE DEF rows, i
    <3>2. LET t == RemoveAt(rows, i) IN
          /\ IsList(t) /\ Len(t) = Len(rows) - 1 /\ DOMAIN t = 1 .. Len(rows) - 1
          /\ \A j \in DOMAIN t : \E n \in DOMAIN rows : t[j] = rows[n]
      BY <3>1, ListRemove
    <3> QED BY <3>2 DEF rows, i
  <2>5. c \in Nat /\ 1 <= c /\ (c = 1 \/ c <= Len(r))
    <3>1. Len(r) = Len(l.rows) - 1
      BY <2>4
    <3> HIDE DEF r
    <3> QED BY <1>1, <2>3, <3>1
  <2>6. \A i \in DOMAIN r : RowShaped(s, r[i])
    BY <1>1, <2>4
  <2>7. Removed(s)
    BY <2>1, <2>2, <2>3 DEF Removed
  <2> HIDE DEF l, k, r, c
  <2>8. ListShaped(s, k)
    BY <2>2, <2>4, <2>5, <2>6 DEF ListShaped
  <2> QED BY <2>2, <2>7, <2>8
<1>7. ASSUME ModalFocus(s) PROVE Goal
  <2> DEFINE m == [l.modal EXCEPT !.onCancel = ~@]
  <2>1. l.modal # NoModal /\ lists' = [lists EXCEPT ![s].modal.onCancel = ~@]
    BY <1>7 DEF ModalFocus, InModal
  <2>2. DOMAIN m = {"row", "text", "onCancel"} /\ m.row = l.modal.row /\ m.text = l.modal.text
    BY <1>1, <2>1
  <2>3. lists' = [lists EXCEPT ![s].modal = m]
    BY <1>1, <2>1
  <2> HIDE DEF m, k, Goal
  <2> QED BY <1>1, <1>3, <2>1, <2>2, <2>3
<1>8. ASSUME ModalCancel(s) PROVE Goal
  <2>1. lists' = [lists EXCEPT ![s].modal = NoModal]
    BY <1>8 DEF ModalCancel
  <2> HIDE DEF l, k, Goal
  <2> QED BY <1>3, <2>1
<1>9. ASSUME NEW t \in Typed[s], ModalType(s, t) PROVE Goal
  <2> DEFINE m == [l.modal EXCEPT !.text = t]
  <2>1. l.modal # NoModal /\ lists' = [lists EXCEPT ![s].modal.text = t]
    BY <1>9 DEF ModalType, InModal
  <2>2. DOMAIN m = {"row", "text", "onCancel"} /\ m.row = l.modal.row /\ m.text = t
    BY <1>1, <2>1
  <2>3. lists' = [lists EXCEPT ![s].modal = m]
    BY <1>1, <2>1
  <2>4. RowShaped(s, t)
    BY <1>9, WizardAssumption DEF RowShaped
  <2> HIDE DEF m, k, Goal
  <2> QED BY <1>1, <1>3, <2>1, <2>2, <2>3, <2>4
<1>10. ASSUME ModalConfirm(s) PROVE Goal
  <2> DEFINE new == RowOf(s, l.modal.text)
             r == IF l.modal.row = 0 THEN Append(l.rows, new) ELSE [l.rows EXCEPT ![l.modal.row] = new]
             c == IF l.modal.row = 0 /\ s = "barrelenv" THEN Len(l.rows) + 1 ELSE l.cursor
  <2>1. /\ l.modal # NoModal /\ Accepted(s, l.modal.text, l.rows, l.modal.row)
        /\ lists' = [lists EXCEPT ![s].modal = NoModal, ![s].rows = r, ![s].cursor = c]
    BY <1>10 DEF ModalConfirm, InModal
  <2>2. Others /\ DOMAIN k = Fields /\ k.rows = r /\ k.cursor = c /\ k.modal = NoModal
    BY <1>1, <2>1
  <2>3. RowShaped(s, new)
    BY <1>1, <2>1, RowTexts
  <2>4. l.modal.row \in 0 .. Len(l.rows)
    BY <1>1, <2>1
  <2> HIDE DEF l, k, new
  <2>5. CASE l.modal.row = 0
    <3>1. r = Append(l.rows, new)
      BY <2>5
    <3>2. /\ IsList(r) /\ Len(r) = Len(l.rows) + 1 /\ DOMAIN r = 1 .. Len(l.rows) + 1
          /\ \A i \in DOMAIN l.rows : r[i] = l.rows[i]
          /\ r[Len(l.rows) + 1] = new
      BY <1>1, <3>1, ListAppend
    <3> HIDE DEF r
    <3>3. c \in Nat /\ 1 <= c /\ (c = 1 \/ c <= Len(r))
      BY <1>1, <3>2
    <3>4. ASSUME NEW i \in DOMAIN r PROVE RowShaped(s, r[i])
      <4>1. i \in DOMAIN l.rows \/ i = Len(l.rows) + 1
        BY <1>1, <3>2
      <4> QED BY <1>1, <2>3, <3>2, <4>1
    <3>5. Confirmed(s)
      BY <2>1, <2>2, <2>5, <3>1 DEF Confirmed, l, k, new
    <3> HIDE DEF c
    <3>6. ListShaped(s, k)
      BY <2>2, <3>2, <3>3, <3>4 DEF ListShaped
    <3> QED BY <2>2, <3>5, <3>6
  <2>6. CASE l.modal.row # 0
    <3>1. r = [l.rows EXCEPT ![l.modal.row] = new] /\ c = l.cursor /\ l.modal.row \in DOMAIN l.rows
      BY <1>1, <2>4, <2>6
    <3>2. /\ IsList(r) /\ Len(r) = Len(l.rows) /\ DOMAIN r = DOMAIN l.rows
          /\ r[l.modal.row] = new /\ \A i \in DOMAIN l.rows \ {l.modal.row} : r[i] = l.rows[i]
      BY <1>1, <3>1, ListReplace
    <3>3. Confirmed(s)
      BY <2>1, <2>2, <3>1 DEF Confirmed, l, k, new
    <3> HIDE DEF r, c
    <3>4. \A i \in DOMAIN r : RowShaped(s, r[i])
      BY <1>1, <2>3, <3>2
    <3>5. ListShaped(s, k)
      BY <1>1, <2>2, <3>1, <3>2, <3>4 DEF ListShaped
    <3> QED BY <2>2, <3>3, <3>5
  <2> QED BY <2>5, <2>6
<1>11. Goal
  BY <1>2, <1>4, <1>5, <1>6, <1>7, <1>8, <1>9, <1>10 DEF ListKeys
<1>12. ListsShaped'
  <2>1. \A o \in ListScreens : ListShaped(o, lists'[o])
    <3>1. \A o \in ListScreens : ListShaped(o, lists[o])
      BY DEF ListsShaped
    <3> HIDE DEF k, l
    <3> QED BY <1>11, <3>1 DEF k
  <2> QED BY <1>11, <2>1 DEF ListsShaped, ListShaped, RowShaped
<1> QED BY <1>11, <1>12

LEMMA KeptLists == ASSUME WizardInv, WizardNext PROVE ListsShaped'
<1>1. ConfigsShaped /\ ListsShaped /\ AtTyped
  BY DEF WizardInv
<1>2. CASE UNCHANGED lists
  BY <1>1, <1>2 DEF ListsShaped, ListShaped, RowShaped
<1>3. CASE Run
  <2>1. lists' = NewLists(LoadConfig)
    BY <1>3 DEF Run, NewModel
  <2>2. IsConfig(LoadConfig)
    BY <1>1, LoadedShaped DEF ConfigsShaped
  <2>3. DOMAIN lists' = ListScreens /\ \A s \in ListScreens : ListShaped(s, lists'[s])
    BY <2>1, <2>2, NewListsShaped
  <2> QED BY <2>3 DEF ListsShaped, ListShaped, RowShaped
<1>4. ASSUME NEW s \in ListScreens, ListKeys(s) PROVE ListsShaped'
  BY <1>1, <1>4, ListKeysLists
<1>5. ASSUME NEW s, ToolKeys(s) PROVE UNCHANGED lists
  BY <1>5, ToolKeysFrame
<1>6. Moving \/ PortsEnter => UNCHANGED lists
  BY DEF Moving, PortsEnter
<1>7. ASSUME NEW field, NEW n, PortType(field, n) PROVE UNCHANGED lists
  BY <1>7 DEF PortType
<1>8. ASSUME NEW online, SaveWithProgress(online) PROVE UNCHANGED lists
  BY <1>8 DEF SaveWithProgress, InWizard
<1> QED BY <1>1, <1>2, <1>3, <1>4, <1>5, <1>6, <1>7, <1>8, WizardCases

(* A save is made on the save screen, of what the screens hold.              *)
LEMMA SaveShaped ==
  ASSUME WizardInv, at.ended = "save"
  PROVE  /\ at.screen = "save" /\ conf = Synced
         /\ IsConfig(conf) /\ AreTools(conf.tools) /\ IsConfig(Saved(conf))
<1>1. at.screen = "save" /\ conf = Synced
  BY DEF WizardInv, AtTyped, Shown
<1>2. IsConfig(conf) /\ AreTools(conf.tools)
  BY <1>1, SyncedShaped DEF WizardInv
<1> QED BY <1>1, <1>2, SavedShaped

LEMMA KeptConfigs == ASSUME WizardInv, WizardNext PROVE ConfigsShaped'
<1>1. ConfigsShaped /\ ListsShaped /\ DetailsShaped /\ AtTyped
  BY DEF WizardInv
<1>2. IsConfig(LoadConfig) /\ IsConfig(Synced)
  BY <1>1, LoadedShaped, SyncedShaped DEF ConfigsShaped
<1> DEFINE Goal == (file' = NoFile \/ IsConfig(file')) /\ IsConfig(conf') /\ AreTools(tools')
<1>3. ASSUME Run PROVE Goal
  <2>1. file' = file /\ conf' = LoadConfig /\ tools' = NewTools(LoadConfig)
    BY <1>3 DEF Run, NewModel
  <2> QED BY <1>1, <1>2, <2>1, NewToolsShaped DEF ConfigsShaped
<1>4. ASSUME Moving PROVE Goal
  BY <1>1, <1>2, <1>4 DEF Moving, ConfigsShaped
<1>5. ASSUME PortsEnter PROVE Goal
  <2>1. PICK p, q : conf' = [Synced EXCEPT !.proxy = p, !.bridge = q] /\ UNCHANGED <<file, tools>>
    BY <1>5 DEF PortsEnter, Unspent
  <2>2. IsConfig(conf')
    BY <1>2, <2>1 DEF IsConfig
  <2> QED BY <1>1, <2>1, <2>2 DEF ConfigsShaped
<1>6. ASSUME NEW s \in DOMAIN ToolScreens, ToolKeys(s) PROVE Goal
  BY <1>1, <1>6, ToolKeysFrame, ToolKeysTools DEF ConfigsShaped
<1>7. ASSUME NEW s, ListKeys(s) PROVE Goal
  BY <1>1, <1>7, ListKeysFrame DEF ConfigsShaped
<1>8. ASSUME NEW field, NEW n, PortType(field, n) PROVE Goal
  BY <1>1, <1>8 DEF PortType, ConfigsShaped
<1>9. ASSUME NEW online, SaveWithProgress(online) PROVE Goal
  <2>1. at.ended = "save" /\ file' \in {file, Saved(conf)} /\ UNCHANGED <<conf, tools>>
    BY <1>9 DEF SaveWithProgress, InWizard
  <2> QED BY <1>1, <2>1, SaveShaped DEF ConfigsShaped
<1>10. Goal
  BY <1>1, <1>3, <1>4, <1>5, <1>6, <1>7, <1>8, <1>9, WizardCases
<1> QED BY <1>10 DEF ConfigsShaped, IsConfig, AreTools

LEMMA KeptPorts == ASSUME WizardInv, WizardNext PROVE PortsShaped'
<1>1. ConfigsShaped /\ PortsShaped /\ AtTyped
  BY DEF WizardInv
<1> DEFINE Same == UNCHANGED file /\ DOMAIN ports' = DOMAIN ports /\ ports'.proxy = ports.proxy /\ ports'.bridge = ports.bridge
<1>2. ASSUME Same PROVE PortsShaped'
  BY <1>1, <1>2 DEF PortsShaped, LoadConfig
<1>3. CASE Run
  <2>1. file' = file /\ ports' = NewPorts(LoadConfig)
    BY <1>3 DEF Run, NewModel
  <2>2. LoadConfig' = LoadConfig
    BY <2>1 DEF LoadConfig
  <2> QED BY <2>1, <2>2 DEF PortsShaped, NewPorts
<1>4. CASE Moving
  <2>1. Same
    BY <1>4 DEF Moving
  <2> QED BY <1>2, <2>1
<1>5. CASE PortsEnter
  <2>1. ports' = [ports EXCEPT !.proxy = ports.typed[1], !.bridge = ports.typed[2]] /\ ports.typed[1] # ports.typed[2]
    BY <1>5 DEF PortsEnter
  <2> QED BY <1>1, <2>1 DEF PortsShaped
<1>6. ASSUME NEW s, ToolKeys(s) PROVE PortsShaped'
  <2>1. Same
    BY <1>6, ToolKeysFrame
  <2> QED BY <1>2, <2>1
<1>7. ASSUME NEW s, ListKeys(s) PROVE PortsShaped'
  <2>1. Same
    BY <1>7, ListKeysFrame
  <2> QED BY <1>2, <2>1
<1>8. ASSUME NEW field, NEW n, PortType(field, n) PROVE PortsShaped'
  <2>1. Same
    BY <1>1, <1>8 DEF PortType, PortsShaped
  <2> QED BY <1>2, <2>1
<1>9. ASSUME NEW online, SaveWithProgress(online) PROVE PortsShaped'
  <2>1. at.ended = "save" /\ ports' = ports /\ (file' = file \/ (file' = Saved(conf) /\ Validate(conf)))
    BY <1>9 DEF SaveWithProgress, InWizard
  <2>2. CASE file' = file
    <3>1. Same
      BY <2>1, <2>2
    <3> QED BY <1>2, <3>1
  <2>3. CASE file' = Saved(conf) /\ Validate(conf)
    <3>1. conf.proxy # conf.bridge
      BY <2>3 DEF Validate
    <3>2. conf = Synced
      BY <2>1, SaveShaped
    <3>3. ports.proxy # ports.bridge
      BY <3>1, <3>2 DEF Synced
    <3> QED BY <1>1, <2>1, <3>3 DEF PortsShaped
  <2> QED BY <2>1, <2>2, <2>3
<1> QED BY <1>1, <1>3, <1>4, <1>5, <1>6, <1>7, <1>8, <1>9, WizardCases

(* What the screens hold is in m.cfg whenever the save screen is shown.      *)
LEMMA KeptShown == ASSUME WizardInv, WizardNext PROVE Shown'
<1>1. ConfigsShaped /\ ListsShaped /\ AtTyped /\ Shown
  BY DEF WizardInv
<1>2. CASE Run
  <2>1. at'.screen = "welcome"
    BY <1>2 DEF Run, NewModel
  <2> QED BY <2>1 DEF Shown
<1>3. CASE Moving
  <2>1. UNCHANGED <<tools, lists, ports>>
    BY <1>3 DEF Moving
  <2>2. CASE at'.screen = at.screen /\ UNCHANGED conf
    BY <1>1, <2>1, <2>2 DEF Shown, Synced, ToToolConfigs, ToDomainEntries
  <2>3. CASE conf' = Synced
    BY <1>1, <2>1, <2>3, SyncedAgain DEF Shown
  <2> QED BY <1>3, <2>2, <2>3 DEF Moving
<1>4. CASE PortsEnter
  <2>1. at'.screen = "welcome"
    BY <1>1, <1>4 DEF PortsEnter, AtTyped
  <2> QED BY <2>1 DEF Shown
<1>5. "save" \notin DOMAIN ToolScreens /\ "save" \notin ListScreens
  BY WizardAssumption DEF ListScreens
<1>6. ASSUME NEW s \in DOMAIN ToolScreens, ToolKeys(s) PROVE Shown'
  <2>1. at'.screen = s
    BY <1>6, ToolKeysFrame DEF On
  <2> QED BY <1>5, <2>1 DEF Shown
<1>7. ASSUME NEW s \in ListScreens, ListKeys(s) PROVE Shown'
  <2>1. at'.screen = s
    BY <1>7, ListKeysFrame DEF On
  <2> QED BY <1>5, <2>1 DEF Shown
<1>8. ASSUME NEW field, NEW n, PortType(field, n) PROVE Shown'
  BY <1>8 DEF PortType, On, Shown
<1>9. ASSUME NEW online, SaveWithProgress(online) PROVE Shown'
  <2>1. conf = Synced /\ UNCHANGED <<conf, tools, lists, ports>>
    BY <1>9, SaveShaped DEF SaveWithProgress, InWizard
  <2> QED BY <2>1 DEF Shown, Synced, ToToolConfigs, ToDomainEntries
<1> QED BY <1>1, <1>2, <1>3, <1>4, <1>6, <1>7, <1>8, <1>9, WizardCases

LEMMA KeptWritten == ASSUME WizardInv, WizardNext PROVE Written'
<1>1. AtTyped /\ Written
  BY DEF WizardInv
<1>2. ASSUME at'.ended \in {"no", "save"} PROVE Written'
  BY <1>2 DEF Written
<1>3. CASE Run
  <2>1. at'.ended = "no"
    BY <1>3 DEF Run, NewModel
  <2> QED BY <1>2, <2>1
<1>4. ASSUME DismissChanges \/ KeyQuit \/ (\E yes \in BOOLEAN : AnswerQuit(yes)) \/ KeySave
             \/ \E s \in Screens : ChooseScreen(s) \/ Back(s)
      PROVE  at'.ended # "saved"
  BY <1>1, <1>4 DEF AtTyped, DismissChanges, KeyQuit, AnswerQuit, KeySave, ChooseScreen, Back, Navigate, On, Open
<1>5. CASE PortsEnter
  BY <1>1, <1>2, <1>5 DEF PortsEnter, On, Open, AtTyped
<1>6. ASSUME NEW s \in DOMAIN ToolScreens, ToolKeys(s) PROVE Written'
  BY <1>2, <1>6, ToolKeysFrame DEF On, Open
<1>7. ASSUME NEW s \in ListScreens, ListKeys(s) PROVE Written'
  BY <1>2, <1>7, ListKeysFrame DEF On, Open
<1>8. ASSUME NEW field, NEW n, PortType(field, n) PROVE Written'
  BY <1>2, <1>8 DEF PortType, On, Open
<1>9. ASSUME NEW online, SaveWithProgress(online) PROVE Written'
  BY <1>1, <1>9 DEF SaveWithProgress, Written, AtTyped, Saved, WithLatest, CanonicalizeBarrelEnvVars
<1> QED BY <1>3, <1>4, <1>5, <1>6, <1>7, <1>8, <1>9 DEF WizardNext, Written

-----------------------------------------------------------------------------
(* The rows of both screens, and when they are sound. *)
EnvSound(rows) ==
  /\ \A i \in DOMAIN rows : rows[i].good
  /\ \A i, j \in DOMAIN rows : i # j => rows[i].word # rows[j].word
RulesSound(rows) == \A i \in DOMAIN rows : RuleValid(rows[i], {})

LEMMA EnvCanonical ==
  ASSUME NEW rows, \A i \in DOMAIN rows : DOMAIN rows[i] = EnvFields
  PROVE  ValidateBarrelEnvVars(CanonicalizeBarrelEnvVars(rows)) <=> EnvSound(rows)
<1> DEFINE e == CanonicalizeBarrelEnvVars(rows)
<1>1. DOMAIN e = DOMAIN rows /\ \A i \in DOMAIN rows : e[i].good = rows[i].good /\ e[i].word = rows[i].word
  BY DEF CanonicalizeBarrelEnvVars, Trimmed, EnvFields
<1> HIDE DEF e
<1>2. ValidateBarrelEnvVars(e) <=> EnvSound(rows)
  BY <1>1 DEF ValidateBarrelEnvVars, EnvSound
<1> QED BY <1>2 DEF e

LEMMA SyncedSound ==
  ASSUME ListsShaped
  PROVE  SoundRows(Synced) <=> EnvSound(lists["barrelenv"].rows) /\ RulesSound(lists["portforward"].rows)
<1>1. \A i \in DOMAIN lists["barrelenv"].rows : DOMAIN lists["barrelenv"].rows[i] = EnvFields
  BY DEF ListsShaped, ListShaped, RowShaped, ListScreens
<1>2. ValidateBarrelEnvVars(CanonicalizeBarrelEnvVars(lists["barrelenv"].rows)) <=> EnvSound(lists["barrelenv"].rows)
  BY <1>1, EnvCanonical
<1>3. Synced.env = lists["barrelenv"].rows /\ Synced.rules = lists["portforward"].rows
  BY DEF Synced
<1> QED BY <1>2, <1>3 DEF SoundRows, RulesSound

(* A row less. *)
LEMMA RemoveSound ==
  ASSUME NEW rows, NEW i \in DOMAIN rows, IsList(rows)
  PROVE  /\ EnvSound(rows) => EnvSound(RemoveAt(rows, i))
         /\ RulesSound(rows) => RulesSound(RemoveAt(rows, i))
<1> DEFINE t == RemoveAt(rows, i)
<1>1. \A k \in DOMAIN t : \E n \in DOMAIN rows : t[k] = rows[n]
  BY ListRemove
<1>4. ASSUME NEW k \in DOMAIN t, NEW l \in DOMAIN t, k # l
      PROVE  \E n, o \in DOMAIN rows : n # o /\ t[k] = rows[n] /\ t[l] = rows[o]
  BY <1>4, ListRemoveApart
<1> HIDE DEF t
<1>2. ASSUME EnvSound(rows) PROVE EnvSound(t)
  <2>1. \A k \in DOMAIN t : t[k].good
    BY <1>1, <1>2 DEF EnvSound
  <2>2. ASSUME NEW k \in DOMAIN t, NEW l \in DOMAIN t, k # l PROVE t[k].word # t[l].word
    <3>1. PICK n \in DOMAIN rows, o \in DOMAIN rows : n # o /\ t[k] = rows[n] /\ t[l] = rows[o]
      BY <1>4, <2>2
    <3> QED BY <1>2, <3>1 DEF EnvSound
  <2> QED BY <2>1, <2>2 DEF EnvSound
<1>3. ASSUME RulesSound(rows) PROVE RulesSound(t)
  BY <1>1, <1>3 DEF RulesSound
<1> QED BY <1>2, <1>3 DEF t

(* What parseRule and parseEntry accept is sound beside the other rows.      *)
LEMMA AcceptedRule == ASSUME NEW x, RuleOk(x) PROVE RuleValid(RuleOf(x), {})
<1> DEFINE r == RuleOf(x)
<1>1. /\ r.range = x.range /\ r.first = x.cli[1] /\ r.host = x.host[1]
      /\ r.last = IF x.range THEN x.cli[2] ELSE 0
  BY DEF RuleOf
<1> HIDE DEF r
<1>2. RuleValid(r, {}) <=> InPort(r.first) /\ InPort(r.host) /\ (r.range => r.last > r.first /\ r.last <= MaxPort)
  <2>1. \A port \in {} : ~(r.first <= port /\ port <= IF r.range THEN r.last ELSE r.first)
    OBVIOUS
  <2> QED BY <2>1, Zenon DEF RuleValid
<1>3. CASE x.range
  <2>1. InPort(r.first) /\ InPort(r.host) /\ r.last > r.first /\ InPort(r.last)
    BY <1>1, <1>3, Zenon DEF RuleOk, RangeOk
  <2>2. ASSUME NEW n, InPort(n) PROVE n <= MaxPort
    BY <2>2 DEF InPort, MaxPort
  <2>3. r.last <= MaxPort
    BY <2>1, <2>2, Zenon
  <2> QED BY <1>2, <2>1, <2>3, Zenon DEF r
<1>4. CASE ~x.range
  <2>1. InPort(r.first) /\ InPort(r.host) /\ ~r.range
    BY <1>1, <1>4, Zenon DEF RuleOk
  <2> QED BY <1>2, <2>1, Zenon DEF r
<1> QED BY <1>3, <1>4

LEMMA ConfirmSound ==
  ASSUME ListsShaped, NEW s \in {"portforward", "barrelenv"}, Confirmed(s)
  PROVE  /\ s = "portforward" /\ RulesSound(lists[s].rows) => RulesSound(lists'[s].rows)
         /\ s = "barrelenv" /\ EnvSound(lists[s].rows) => EnvSound(lists'[s].rows)
<1> DEFINE rows == lists[s].rows
           m == lists[s].modal
           new == RowOf(s, m.text)
           t == lists'[s].rows
<1>1. IsList(rows) /\ Len(rows) \in Nat /\ DOMAIN rows = 1 .. Len(rows) /\ (m # NoModal => m.row \in 0 .. Len(rows) /\ RowShaped(s, m.text))
  <2>1. s \in ListScreens
    BY DEF ListScreens
  <2> QED BY <2>1, ListUnfolded
<1>2. /\ m # NoModal /\ Accepted(s, m.text, rows, m.row)
      /\ \/ m.row = 0 /\ t = Append(rows, new)
         \/ m.row \in DOMAIN rows /\ t = [rows EXCEPT ![m.row] = new]
  BY DEF Confirmed
<1> DEFINE at1 == IF m.row = 0 THEN Len(rows) + 1 ELSE m.row
<1> HIDE DEF rows, m, new, t
<1>3. /\ DOMAIN t = DOMAIN rows \cup {at1} /\ t[at1] = new
      /\ \A i \in DOMAIN rows \ {m.row} : t[i] = rows[i] /\ i # at1
      /\ \A i \in DOMAIN t : i = at1 \/ i \in DOMAIN rows \ {m.row}
  <2>1. CASE m.row = 0 /\ t = Append(rows, new)
    <3>1. /\ DOMAIN t = 1 .. Len(rows) + 1 /\ \A i \in DOMAIN rows : t[i] = rows[i]
          /\ t[Len(rows) + 1] = new
      BY <1>1, <2>1, ListAppend
    <3> QED BY <1>1, <2>1, <3>1
  <2>2. CASE m.row \in DOMAIN rows /\ t = [rows EXCEPT ![m.row] = new]
    <3>1. m.row # 0
      BY <1>1, <2>2
    <3> QED BY <1>1, <2>2, <3>1
  <2> QED BY <1>2, <2>1, <2>2
<1> HIDE DEF at1
<1>4. ASSUME s = "portforward", RulesSound(rows) PROVE RulesSound(t)
  <2>1. RuleValid(new, {})
    BY <1>2, <1>4, AcceptedRule DEF Accepted, RowOf, new
  <2> QED BY <1>3, <1>4, <2>1 DEF RulesSound
<1>5. ASSUME s = "barrelenv", EnvSound(rows) PROVE EnvSound(t)
  <2>1. new.good /\ \A i \in DOMAIN rows \ {m.row} : rows[i].word # new.word
    BY <1>2, <1>5 DEF Accepted, EntryOk, RowOf, new
  <2>2. \A i \in DOMAIN t : t[i].good
    BY <1>3, <1>5, <2>1 DEF EnvSound
  <2>3. ASSUME NEW i \in DOMAIN t, NEW j \in DOMAIN t, i # j PROVE t[i].word # t[j].word
    BY <1>3, <1>5, <2>1, <2>3 DEF EnvSound
  <2> QED BY <2>2, <2>3 DEF EnvSound
<1> QED BY <1>4, <1>5 DEF rows, t

LEMMA KeptRows == ASSUME WizardInv, WizardNext PROVE RowsStaySound'
<1>1. ConfigsShaped /\ ListsShaped /\ AtTyped /\ RowsStaySound /\ ListsShaped'
  BY KeptLists DEF WizardInv
<1> DEFINE Rows(l) == EnvSound(l["barrelenv"].rows) /\ RulesSound(l["portforward"].rows)
<1>2. SoundRows(Synced) <=> Rows(lists)
  BY <1>1, SyncedSound
<1>3. SoundRows(Synced') <=> Rows(lists')
  <2>1. \A i \in DOMAIN lists'["barrelenv"].rows : DOMAIN lists'["barrelenv"].rows[i] = EnvFields
    BY <1>1 DEF ListsShaped, ListShaped, RowShaped, ListScreens
  <2>2. ValidateBarrelEnvVars(CanonicalizeBarrelEnvVars(lists'["barrelenv"].rows)) <=> EnvSound(lists'["barrelenv"].rows)
    BY <2>1, EnvCanonical
  <2>3. Synced'.env = lists'["barrelenv"].rows /\ Synced'.rules = lists'["portforward"].rows
    BY DEF Synced
  <2> QED BY <2>2, <2>3 DEF SoundRows, RulesSound
<1>4. RowsStaySound' <=> (SoundRows(LoadConfig') /\ at'.ended = "no" => SoundRows(Synced'))
  BY DEF RowsStaySound, SoundRows, ValidateBarrelEnvVars, CanonicalizeBarrelEnvVars, Trimmed, RuleValid, InPort
<1> HIDE DEF Rows
<1>5. ASSUME at'.ended # "no" PROVE RowsStaySound'
  BY <1>4, <1>5
<1>6. ASSUME UNCHANGED file, at.ended = "no", Rows(lists) => Rows(lists') PROVE RowsStaySound'
  <2>1. LoadConfig' = LoadConfig
    BY <1>6 DEF LoadConfig
  <2> QED BY <1>1, <1>2, <1>3, <1>4, <1>6, <2>1 DEF RowsStaySound
<1>7. CASE Run
  <2>1. UNCHANGED file /\ lists' = NewLists(LoadConfig)
    BY <1>7 DEF Run, NewModel
  <2>2. LoadConfig' = LoadConfig /\ IsConfig(LoadConfig)
    BY <1>1, <2>1, LoadedShaped DEF LoadConfig, ConfigsShaped
  <2>3. lists'["barrelenv"].rows = LoadConfig.env /\ lists'["portforward"].rows = LoadConfig.rules
    BY <2>1 DEF NewLists, NewList, ListScreens
  <2>4. ASSUME SoundRows(LoadConfig) PROVE Rows(lists')
    <3>1. EnvSound(LoadConfig.env)
      BY <2>2, <2>4, EnvCanonical DEF SoundRows, IsConfig
    <3>2. RulesSound(LoadConfig.rules)
      BY <2>4 DEF SoundRows, RulesSound
    <3> QED BY <2>3, <3>1, <3>2 DEF Rows
  <2> QED BY <1>3, <1>4, <2>2, <2>4
<1>8. ASSUME Moving \/ PortsEnter PROVE RowsStaySound'
  <2>1. UNCHANGED <<file, lists>> /\ at.ended = "no"
    BY <1>8 DEF Moving, PortsEnter, On, Open, Unspent
  <2> QED BY <1>6, <2>1
<1>9. ASSUME NEW s, ToolKeys(s) PROVE RowsStaySound'
  <2>1. UNCHANGED <<file, lists>> /\ at.ended = "no"
    BY <1>9, ToolKeysFrame DEF On, Open
  <2> QED BY <1>6, <2>1
<1>10. ASSUME NEW s \in ListScreens, ListKeys(s) PROVE RowsStaySound'
  <2>1. UNCHANGED file /\ at.ended = "no"
    BY <1>10, ListKeysFrame DEF On, Open
  <2>2. /\ \A o \in ListScreens \ {s} : lists'[o] = lists[o]
        /\ lists'[s].rows = lists[s].rows \/ Removed(s) \/ Confirmed(s)
    BY <1>1, <1>10, ListKeysLists
  <2>3. ASSUME s = "barrelenv", EnvSound(lists[s].rows) PROVE EnvSound(lists'[s].rows)
    <3>1. ASSUME Removed(s) PROVE EnvSound(lists'[s].rows)
      <4> DEFINE rows == lists[s].rows
                 i == lists[s].cursor
      <4>1. IsList(rows) /\ i \in DOMAIN rows /\ lists'[s].rows = RemoveAt(rows, i) /\ EnvSound(rows)
        BY <1>1, <2>3, <3>1, ListUnfolded DEF Removed
      <4> HIDE DEF rows, i
      <4> QED BY <4>1, RemoveSound
    <3> QED BY <1>1, <2>2, <2>3, <3>1, ConfirmSound
  <2>4. ASSUME s = "portforward", RulesSound(lists[s].rows) PROVE RulesSound(lists'[s].rows)
    <3>1. ASSUME Removed(s) PROVE RulesSound(lists'[s].rows)
      <4> DEFINE rows == lists[s].rows
                 i == lists[s].cursor
      <4>1. IsList(rows) /\ i \in DOMAIN rows /\ lists'[s].rows = RemoveAt(rows, i) /\ RulesSound(rows)
        BY <1>1, <2>4, <3>1, ListUnfolded DEF Removed
      <4> HIDE DEF rows, i
      <4> QED BY <4>1, RemoveSound
    <3> QED BY <1>1, <2>2, <2>4, <3>1, ConfirmSound
  <2>5. "barrelenv" \in ListScreens /\ "portforward" \in ListScreens /\ "barrelenv" # "portforward"
    BY DEF ListScreens
  <2>6. Rows(lists) => Rows(lists')
    <3> SUFFICES ASSUME Rows(lists) PROVE Rows(lists')
      OBVIOUS
    <3>1. EnvSound(lists'["barrelenv"].rows)
      BY <2>2, <2>3, <2>5 DEF Rows
    <3>2. RulesSound(lists'["portforward"].rows)
      BY <2>2, <2>4, <2>5 DEF Rows
    <3> QED BY <3>1, <3>2 DEF Rows
  <2> QED BY <1>6, <2>1, <2>6
<1>11. ASSUME NEW field, NEW n, PortType(field, n) PROVE RowsStaySound'
  <2>1. UNCHANGED <<file, lists>> /\ at.ended = "no"
    BY <1>11 DEF PortType, On, Open
  <2> QED BY <1>6, <2>1
<1>12. ASSUME NEW online, SaveWithProgress(online) PROVE RowsStaySound'
  <2>1. at'.ended # "no"
    BY <1>1, <1>12 DEF SaveWithProgress, AtTyped
  <2> QED BY <1>5, <2>1
<1> QED BY <1>1, <1>7, <1>8, <1>9, <1>10, <1>11, <1>12, WizardCases

LEMMA KeptPins == ASSUME WizardInv, WizardNext PROVE PinsAreFound'
<1>1. ConfigsShaped /\ DetailsShaped /\ AtTyped /\ PinsAreFound
  BY DEF WizardInv
<1>2. ASSUME UNCHANGED file, at.ended = "no",
             \A t \in AllTools : tools'[t].pinned = tools[t].pinned \/ <<t, tools'[t].pinned>> \in Findable
      PROVE  PinsAreFound'
  BY <1>1, <1>2 DEF PinsAreFound
<1>3. CASE Run
  <2>1. UNCHANGED file /\ tools' = NewTools(LoadConfig)
    BY <1>3 DEF Run, NewModel
  <2>2. ASSUME NEW t \in AllTools
        PROVE  tools'[t].pinned = NoVersion \/ (file # NoFile /\ file.tools # << >> /\ tools'[t].pinned = file.tools[t].pinned)
    <3>1. CASE LoadConfig.tools = << >>
      BY <2>1, <3>1 DEF NewTools
    <3>2. CASE LoadConfig.tools # << >>
      <4>1. file # NoFile
        BY <3>2 DEF LoadConfig, DefaultConfig
      <4>2. IsConfig(file) /\ LoadConfig = [file EXCEPT !.domains = MergeDefaultDomains(@)]
        BY <1>1, <4>1 DEF LoadConfig, ConfigsShaped
      <4>3. LoadConfig.tools = file.tools
        BY <4>2 DEF IsConfig
      <4>4. DOMAIN file.tools[t] = {"enabled", "mode", "pinned", "host"}
        BY <3>2, <4>2, <4>3 DEF IsConfig, AreTools
      <4>5. tools'[t] = [file.tools[t] EXCEPT !.host = IF HostHas[t] # NoVersion THEN HostHas[t] ELSE @]
        BY <2>1, <3>2, <4>3 DEF NewTools
      <4> QED BY <3>2, <4>1, <4>3, <4>4, <4>5
    <3> QED BY <3>1, <3>2
  <2> QED BY <2>1, <2>2 DEF PinsAreFound
<1>4. ASSUME Moving \/ PortsEnter PROVE PinsAreFound'
  <2>1. UNCHANGED <<file, tools>> /\ at.ended = "no"
    BY <1>4 DEF Moving, PortsEnter, On, Open, Unspent
  <2> QED BY <1>2, <2>1
<1>5. ASSUME NEW s \in DOMAIN ToolScreens, ToolKeys(s) PROVE PinsAreFound'
  <2>1. UNCHANGED file /\ at.ended = "no"
    BY <1>5, ToolKeysFrame DEF On, Open
  <2>2. \A t \in AllTools : tools'[t].pinned = tools[t].pinned \/ <<t, tools'[t].pinned>> \in Findable
    BY <1>1, <1>5, ToolKeysTools
  <2> QED BY <1>2, <2>1, <2>2
<1>6. ASSUME NEW s, ListKeys(s) PROVE PinsAreFound'
  <2>1. UNCHANGED <<file, tools>> /\ at.ended = "no"
    BY <1>6, ListKeysFrame DEF On, Open
  <2> QED BY <1>2, <2>1
<1>7. ASSUME NEW field, NEW n, PortType(field, n) PROVE PinsAreFound'
  <2>1. UNCHANGED <<file, tools>> /\ at.ended = "no"
    BY <1>7 DEF PortType, On, Open
  <2> QED BY <1>2, <2>1
<1>8. ASSUME NEW online, SaveWithProgress(online) PROVE PinsAreFound'
  <2>1. at'.ended # "no"
    BY <1>1, <1>8 DEF SaveWithProgress, AtTyped
  <2> QED BY <2>1 DEF PinsAreFound
<1> QED BY <1>1, <1>3, <1>4, <1>5, <1>6, <1>7, <1>8, WizardCases

LEMMA WizardBegins == WizardInit => WizardInv
<1> SUFFICES ASSUME WizardInit PROVE WizardInv
  OBVIOUS
<1>1. file = NoFile \/ IsConfig(file)
  BY WizardAssumption DEF WizardInit
<1>2. IsConfig(LoadConfig) /\ conf = LoadConfig
  BY <1>1, LoadedShaped DEF WizardInit
<1>3. ConfigsShaped
  BY <1>1, <1>2, NewToolsShaped DEF ConfigsShaped, WizardInit
<1>4. ListsShaped
  BY <1>2, NewListsShaped DEF ListsShaped, WizardInit
<1>5. DetailsShaped
  <2>1. ASSUME NEW s \in DOMAIN ToolScreens PROVE 1 \in DOMAIN ToolScreens[s] /\ 0 \in 0 .. RowsOffered(s)
    <3>1. IsList(ToolScreens[s]) /\ ToolScreens[s] # << >>
      BY WizardAssumption
    <3>2. 1 \in DOMAIN ToolScreens[s]
      BY <3>1, ListFacts
    <3>3. RowsOffered(s) \in {2, 3}
      BY DEF RowsOffered
    <3> QED BY <3>2, <3>3
  <2> QED BY <2>1 DEF DetailsShaped, NoDetail, WizardInit
<1>6. PortsShaped
  BY <1>2 DEF PortsShaped, NewPorts, WizardInit
<1>7. AtTyped /\ Shown /\ Written
  BY DEF AtTyped, Shown, Written, WizardInit
<1>8. RowsStaySound
  <2>1. lists["barrelenv"].rows = LoadConfig.env /\ lists["portforward"].rows = LoadConfig.rules
    BY <1>2 DEF NewLists, NewList, ListScreens, WizardInit
  <2>2. Synced.env = LoadConfig.env /\ Synced.rules = LoadConfig.rules
    BY <2>1 DEF Synced
  <2> QED BY <2>2 DEF RowsStaySound, SoundRows
<1>9. PinsAreFound
  <2>1. tools = NewTools(LoadConfig)
    BY <1>2 DEF WizardInit
  <2>2. ASSUME NEW t \in AllTools
        PROVE  tools[t].pinned = NoVersion \/ (file # NoFile /\ file.tools # << >> /\ tools[t].pinned = file.tools[t].pinned)
    <3>1. CASE LoadConfig.tools = << >>
      BY <2>1, <3>1 DEF NewTools
    <3>2. CASE LoadConfig.tools # << >>
      <4>1. file # NoFile
        BY <3>2 DEF LoadConfig, DefaultConfig
      <4>2. IsConfig(file) /\ LoadConfig = [file EXCEPT !.domains = MergeDefaultDomains(@)]
        BY <1>1, <4>1 DEF LoadConfig
      <4>3. LoadConfig.tools = file.tools
        BY <4>2 DEF IsConfig
      <4>4. DOMAIN file.tools[t] = {"enabled", "mode", "pinned", "host"}
        BY <3>2, <4>2, <4>3 DEF IsConfig, AreTools
      <4>5. tools[t] = [file.tools[t] EXCEPT !.host = IF HostHas[t] # NoVersion THEN HostHas[t] ELSE @]
        BY <2>1, <3>2, <4>3 DEF NewTools
      <4> QED BY <3>2, <4>1, <4>3, <4>4, <4>5
    <3> QED BY <3>1, <3>2
  <2> QED BY <2>2 DEF PinsAreFound
<1> QED BY <1>3, <1>4, <1>5, <1>6, <1>7, <1>8, <1>9 DEF WizardInv

LEMMA WizardStep == WizardInv /\ [WizardNext]_wizardVars => WizardInv'
<1>1. WizardInv /\ WizardNext => WizardInv'
  BY KeptConfigs, KeptLists, KeptDetails, KeptPorts, KeptAt, KeptShown, KeptWritten, KeptRows, KeptPins DEF WizardInv
<1>2. ASSUME WizardInv, UNCHANGED wizardVars PROVE WizardInv'
  <2> USE <1>2 DEF WizardInv, wizardVars
  <2>1. ConfigsShaped' /\ ListsShaped' /\ DetailsShaped'
    BY DEF ConfigsShaped, ListsShaped, DetailsShaped, RowsOffered, ToolAt
  <2>2. PortsShaped' /\ AtTyped' /\ PinsAreFound'
    BY DEF PortsShaped, AtTyped, PinsAreFound, LoadConfig
  <2>3. LoadConfig' = LoadConfig /\ Synced' = Synced
    BY DEF LoadConfig, Synced, ToToolConfigs, ToDomainEntries
  <2>4. Shown' /\ Written' /\ RowsStaySound'
    BY <2>3 DEF Shown, Written, RowsStaySound
  <2> QED BY <2>1, <2>2, <2>4
<1> QED BY <1>1, <1>2

(* What a saved file brings back. *)
LEMMA RunBringsBack ==
  ASSUME WizardInv, Run, at.ended = "saved"
  PROVE  /\ \A s \in ListScreens \ {"barrelenv"} : lists'[s].rows = lists[s].rows
         /\ lists'["barrelenv"].rows = CanonicalizeBarrelEnvVars(lists["barrelenv"].rows)
         /\ ports'.proxy = ports.proxy /\ ports'.bridge = ports.bridge
         /\ \A t \in AllTools :
              /\ tools'[t].enabled = tools[t].enabled /\ tools'[t].mode = tools[t].mode
              /\ tools[t].mode = "pin" => tools'[t].pinned = tools[t].pinned
<1>1. /\ ConfigsShaped /\ ListsShaped /\ file = Saved(conf) /\ conf = Synced
      /\ IsConfig(conf) /\ AreTools(conf.tools)
  <2>1. ConfigsShaped /\ ListsShaped /\ file = Saved(conf) /\ conf = Synced
    BY DEF WizardInv, AtTyped, Shown, Written
  <2> QED BY <2>1, SyncedShaped
<1>2. /\ IsConfig(file) /\ AreTools(file.tools) /\ file.domains = conf.domains /\ file.rules = conf.rules
      /\ file.env = CanonicalizeBarrelEnvVars(conf.env) /\ file.proxy = conf.proxy /\ file.bridge = conf.bridge
      /\ \A t \in AllTools : /\ file.tools[t].enabled = conf.tools[t].enabled
                             /\ file.tools[t].mode = conf.tools[t].mode
                             /\ conf.tools[t].mode = "pin" => file.tools[t].pinned = conf.tools[t].pinned
  BY <1>1, SavedShaped
<1>3. LoadConfig = [file EXCEPT !.domains = MergeDefaultDomains(@)]
  <2>1. "none" \notin DOMAIN file
    BY <1>2 DEF IsConfig
  <2>2. file # NoFile
    BY <2>1 DEF NoFile
  <2> QED BY <2>2 DEF LoadConfig
<1>4. /\ LoadConfig.tools = file.tools /\ LoadConfig.domains = MergeDefaultDomains(conf.domains)
      /\ LoadConfig.rules = conf.rules /\ LoadConfig.env = CanonicalizeBarrelEnvVars(conf.env)
      /\ LoadConfig.proxy = conf.proxy /\ LoadConfig.bridge = conf.bridge
  BY <1>2, <1>3 DEF IsConfig
<1>5. tools' = NewTools(LoadConfig) /\ lists' = NewLists(LoadConfig) /\ ports' = NewPorts(LoadConfig)
  BY DEF Run, NewModel
<1>6. /\ conf.tools = ToToolConfigs /\ conf.domains = ToDomainEntries /\ conf.rules = lists["portforward"].rows
      /\ conf.env = lists["barrelenv"].rows /\ conf.proxy = ports.proxy /\ conf.bridge = ports.bridge
  BY <1>1 DEF Synced
<1>7. lists'["whitelist"].rows = lists["whitelist"].rows
  <2> DEFINE d == DefaultsOf(conf.domains)
             r == lists["whitelist"].rows
             e == Filtered(Defaults, {x \in ToSet(Defaults) : \A i \in DOMAIN conf.domains : conf.domains[i].name # x.name})
  <2>1. IsList(d) /\ \A i \in DOMAIN d : d[i].source = "default"
    BY <1>1, OfDomains DEF IsConfig
  <2>2. IsList(r) /\ \A i \in DOMAIN r : r[i].source # "default"
    BY <1>1 DEF ListsShaped, ListShaped, RowShaped, ListScreens
  <2>3. IsList(e) /\ \A i \in DOMAIN e : e[i].source = "default"
    <3>1. IsList(Defaults) /\ \A x \in ToSet(Defaults) : x.source = "default"
      BY WizardAssumption DEF ToSet
    <3> QED BY <3>1, ListFiltered
  <2>4. MergeDefaultDomains(conf.domains) = (d \o r) \o e
    <3>1. MergeDefaultDomains(conf.domains) = conf.domains \o e
      BY DEF MergeDefaultDomains
    <3> QED BY <1>6, <3>1 DEF ToDomainEntries
  <2> HIDE DEF d, r, e
  <2>5. UsersOf((d \o r) \o e) = r
    BY <2>1, <2>2, <2>3, SplitSource
  <2>6. lists'["whitelist"].rows = UsersOf(LoadConfig.domains)
    BY <1>5 DEF NewLists, NewList, ListScreens
  <2> QED BY <1>4, <2>4, <2>5, <2>6 DEF r
<1>8. /\ lists'["portforward"].rows = lists["portforward"].rows
      /\ lists'["barrelenv"].rows = CanonicalizeBarrelEnvVars(lists["barrelenv"].rows)
  BY <1>4, <1>5, <1>6 DEF NewLists, NewList, ListScreens
<1>9. ports'.proxy = ports.proxy /\ ports'.bridge = ports.bridge
  BY <1>4, <1>5, <1>6 DEF NewPorts
<1>10. ASSUME NEW t \in AllTools
       PROVE  /\ tools'[t].enabled = tools[t].enabled /\ tools'[t].mode = tools[t].mode
              /\ tools[t].mode = "pin" => tools'[t].pinned = tools[t].pinned
  <2>1. conf.tools[t] = [tools[t] EXCEPT !.pinned = IF tools[t].mode = "pin" THEN @ ELSE NoVersion]
    BY <1>6 DEF ToToolConfigs
  <2>2. DOMAIN tools[t] = {"enabled", "mode", "pinned", "host"}
    BY <1>1 DEF ConfigsShaped, AreTools
  <2>3. /\ conf.tools[t].enabled = tools[t].enabled /\ conf.tools[t].mode = tools[t].mode
        /\ tools[t].mode = "pin" => conf.tools[t].pinned = tools[t].pinned
    BY <2>1, <2>2
  <2>4. LoadConfig.tools # << >>
    BY <1>2, <1>4, HasTools
  <2>5. tools'[t] = [file.tools[t] EXCEPT !.host = IF HostHas[t] # NoVersion THEN HostHas[t] ELSE @]
    BY <1>4, <1>5, <2>4 DEF NewTools
  <2>6. DOMAIN file.tools[t] = {"enabled", "mode", "pinned", "host"}
    BY <1>2 DEF AreTools
  <2>7. tools'[t].enabled = file.tools[t].enabled /\ tools'[t].mode = file.tools[t].mode
        /\ tools'[t].pinned = file.tools[t].pinned
    BY <2>5, <2>6
  <2> QED BY <1>2, <2>3, <2>7
<1> QED BY <1>7, <1>8, <1>9, <1>10 DEF ListScreens

(* For every tool, file, list of defaults and whatever is typed: what the    *)
(* wizard saves is what its screens show, every row passed the checks of its *)
(* dialog, a pinned version was found for that very tool or came from the    *)
(* file, cursors stay on rows, and the next run shows what was saved         *)
(* (configure.go, whitelist.go, portfwdscreen.go, barrelenv.go, config.go).  *)
THEOREM WizardIsSound == WizardSpec => WizardSound
<1>1. WizardInv => WizardTypeOK /\ SavedIsShown /\ EditsStayValid /\ PinsAreFound /\ CursorsInside
  <2> SUFFICES ASSUME WizardInv
               PROVE  WizardTypeOK /\ SavedIsShown /\ EditsStayValid /\ PinsAreFound /\ CursorsInside
    OBVIOUS
  <2>1. WizardTypeOK
    <3>1. ASSUME NEW s \in DOMAIN ToolScreens PROVE detail[s].cursor \in DOMAIN ToolScreens[s] /\ detail[s].row \in 0 .. 3
      BY DEF WizardInv, DetailsShaped, RowsOffered
    <3> QED BY <3>1 DEF WizardInv, WizardTypeOK, AtTyped, ConfigsShaped, AreTools
  <2>2. SavedIsShown
    BY SaveShaped DEF SavedIsShown
  <2>3. EditsStayValid
    BY DEF WizardInv, EditsStayValid, RowsStaySound, PortsShaped
  <2>4. CursorsInside
    <3> SUFFICES ASSUME NEW s \in ListScreens
                 PROVE  /\ lists[s].cursor \in 1 .. Len(lists[s].rows) \/ (lists[s].cursor = 1 /\ lists[s].rows = << >>)
                        /\ lists[s].modal # NoModal => lists[s].modal.row \in 0 .. Len(lists[s].rows)
      BY DEF CursorsInside
    <3>1. /\ DOMAIN lists[s].rows = 1 .. Len(lists[s].rows)
          /\ lists[s].rows # << >> => lists[s].cursor \in DOMAIN lists[s].rows
          /\ lists[s].cursor \in Nat /\ 1 <= lists[s].cursor /\ (lists[s].cursor = 1 \/ lists[s].cursor <= Len(lists[s].rows))
          /\ lists[s].modal # NoModal => lists[s].modal.row \in 0 .. Len(lists[s].rows)
      BY ListUnfolded DEF WizardInv
    <3>2. CASE lists[s].rows # << >>
      BY <3>1, <3>2
    <3>3. CASE lists[s].rows = << >>
      <4>1. Len(lists[s].rows) = 0
        BY <3>3, EmptySeq
      <4>2. lists[s].cursor = 1
        BY <3>1, <4>1
      <4> QED BY <3>1, <3>3, <4>2
    <3> QED BY <3>2, <3>3
  <2> QED BY <2>1, <2>2, <2>3, <2>4 DEF WizardInv
<1>2. WizardSpec => []WizardInv
  BY WizardBegins, WizardStep, PTL DEF WizardSpec
<1>3. WizardInv /\ [WizardNext]_wizardVars =>
        [(Run /\ at.ended = "saved") =>
           /\ \A s \in ListScreens \ {"barrelenv"} : lists'[s].rows = lists[s].rows
           /\ lists'["barrelenv"].rows = CanonicalizeBarrelEnvVars(lists["barrelenv"].rows)
           /\ ports'.proxy = ports.proxy /\ ports'.bridge = ports.bridge
           /\ \A t \in AllTools :
                /\ tools'[t].enabled = tools[t].enabled /\ tools'[t].mode = tools[t].mode
                /\ tools[t].mode = "pin" => tools'[t].pinned = tools[t].pinned]_wizardVars
  BY RunBringsBack
<1>4. WizardSpec => SavedComesBack
  BY <1>2, <1>3, PTL DEF WizardSpec, SavedComesBack
<1> QED BY <1>1, <1>2, <1>4, PTL DEF WizardSound

-----------------------------------------------------------------------------
(***************************************************************************)
(* The images and config.json.  What a build or an update works on is the   *)
(* configuration it loaded, refreshed (JobOnCourse): what it wrote of the   *)
(* base and of a tool is therefore what that configuration wants, until the *)
(* next release or the next save.  A container version in config.json is    *)
(* that of an image, unless the image was built again since (BaseTold,      *)
(* ToolsTold), and one that names no base names nothing in it               *)
(* (NothingTold); a tool that is off was never built (OffNeverBuilt), since *)
(* the wizard cannot turn a tool's mode back off.  Language servers fit the *)
(* Node that config.json has of the base (Fits), so that one taken over     *)
(* from the last build fits as well.  What a job has built and not saved is *)
(* what its templates say.                                                  *)
(***************************************************************************)

ServerNames == UNION {ImplicitOf(l) : l \in Langs}
IsServers(f) == DOMAIN f \subseteq ServerNames /\ f \in [DOMAIN f -> Version \ {None}]
IsToolConfig(c) ==
  c \in [tools : [Tools -> ToolStates], implicit : {c.implicit}, baseNode : Version] /\ IsServers(c.implicit)
IsBase(b) ==
  /\ b \in [langs : {b.langs}, node : Version \ {None}, implicit : {b.implicit}, needed : SUBSET AITools]
  /\ DOMAIN b.langs \subseteq Langs /\ b.langs \in [DOMAIN b.langs -> Version] /\ IsServers(b.implicit)
IsJob(j) ==
  /\ j \in [kind : {"build", "update"}, cfg : {j.cfg}, implicit : {j.implicit}, base : BOOLEAN,
           built : SUBSET ({"base"} \cup AITools), left : SUBSET Children]
  /\ IsToolConfig(j.cfg) /\ IsServers(j.implicit)

WorldTyped ==
  /\ released \in [DOMAIN Registry -> Nat] /\ hostAt \in 1..2
  /\ \A pkg \in DOMAIN Registry : released[pkg] \in 1..Len(Registry[pkg])
ImagesTyped ==
  /\ IsToolConfig(config)
  /\ templates \in [base : {templates.base}, version : [AITools -> Version]]
  /\ templates.base # None => IsBase(templates.base)
  /\ base # None => IsBase(base)
  /\ child = [t \in Children |-> child[t]] /\ \A t \in Children : child[t].version \in Version
  /\ ~Idle => IsJob(job)
  /\ said \in {"", "match", "complete", "built", "failed"}
OffNeverBuilt(c) == \A t \in Tools : c.tools[t].mode = "off" => c.tools[t].container = None
NothingTold(c) ==
  c.baseNode = None => c.implicit = None /\ \A l \in Langs : c.tools[l].container = None
BaseTold(c) ==
  c.baseNode # None =>
    /\ base # None
    /\ "base" \notin untold =>
         /\ c.baseNode = base.node /\ c.implicit = base.implicit
         /\ "go" \in DOMAIN base.langs => c.tools["go"].container \in {None, base.langs["go"]}
         /\ "gopls" \in DOMAIN base.implicit => "go" \in DOMAIN base.langs
ToolsTold(c) == \A t \in AITools \ untold : c.tools[t].container # None => c.tools[t].container = child[t].version
RunsOn(implicit, name, node) ==
  name \in DOMAIN implicit => Satisfies(node, Needs(name, implicit[name])) = "yes"
Fits(cfg) ==
  /\ DOMAIN cfg.implicit # {} => cfg.baseNode # None
  /\ RunsOn(cfg.implicit, "typescript", cfg.baseNode) /\ RunsOn(cfg.implicit, "pyright", cfg.baseNode)
  /\ "typescript" \in DOMAIN cfg.implicit => cfg.tools["node"].container \in {None, cfg.baseNode}
Told(c) == OffNeverBuilt(c) /\ NothingTold(c) /\ BaseTold(c) /\ ToolsTold(c) /\ Fits(c)
Want(cfg) == ResolveImplicit(cfg, Implicit(cfg), TRUE, FALSE)
BaseAsWanted(cfg) ==
  /\ base # None /\ base.node = EffectiveBaseNodeVersion(cfg) /\ base.implicit = Want(cfg)
  /\ "go" \in Langs /\ Included(cfg.tools["go"]) =>
       "go" \in DOMAIN base.langs /\ base.langs["go"] = Desired(cfg.tools["go"])
ToolAsWanted(cfg, t) == Included(cfg.tools[t]) => child[t].version = Desired(cfg.tools[t])
JobOnCourse ==
  ~Idle =>
    /\ said = "" /\ job.cfg = Refresh(config, TRUE)
    /\ job.implicit = Want(job.cfg) /\ Complete(job.implicit)
    /\ \A t \in Tools : Included(job.cfg.tools[t]) => Desired(job.cfg.tools[t]) # None
    /\ templates.base = RenderBase(job.cfg, job.implicit)
    /\ \A t \in AITools : job.cfg.tools[t].enabled => templates.version[t] = Rendered(job.cfg, t)
    /\ job.left \cap AITools \subseteq Enabled(job.cfg)
    /\ \A t \in AITools \ job.left : t \in untold \ job.built \/ ToolAsWanted(job.cfg, t)
    /\ job.base \/ "base" \in untold \ job.built \/ BaseAsWanted(job.cfg)
    /\ "base" \in job.built => base = templates.base
    /\ \A t \in AITools \cap job.built : job.cfg.tools[t].enabled /\ child[t].version = templates.version[t]
    /\ job.kind = "build" =>
         untold \cap ({"base"} \cup Enabled(job.cfg))
           \subseteq (IF job.base THEN {"base"} ELSE {}) \cup (job.left \cap AITools) \cup job.built
SaidIsTrue ==
  /\ said \in {"match", "complete", "built"} =>
       /\ \A t \in AITools \ untold : ToolAsWanted(Refresh(config, TRUE), t)
       /\ "base" \notin untold => BaseAsWanted(Refresh(config, TRUE))
  /\ said = "built" => untold \cap ({"base"} \cup Enabled(Refresh(config, TRUE))) = {}
ImageInv == WorldTyped /\ ImagesTyped /\ Told(config) /\ TemplatesFit /\ JobOnCourse /\ SaidIsTrue

-----------------------------------------------------------------------------
(* What the lookups return. *)

LEMMA MinFacts ==
  ASSUME NEW T, T \subseteq Nat, T # {}
  PROVE  Min(T) \in T /\ \A y \in T : Min(T) <= y
<1>1. \E x \in T : \A y \in T : x <= y
  BY NatSetMin
<1> QED BY <1>1 DEF Min

LEMMA LatestKnown ==
  ASSUME WorldTyped, NEW pkg \in DOMAIN Registry
  PROVE  Latest(pkg) \in Version \ {None} /\ Latest(pkg) \in Published(pkg)
<1>1. Registry[pkg] \in Seq(Releases) /\ released[pkg] \in 1..Len(Registry[pkg])  BY ToolsAssumption DEF WorldTyped
<1>2. Registry[pkg][released[pkg]] \in Releases  BY <1>1
<1>3. released[pkg] \in 1..released[pkg]  BY <1>1
<1> QED BY <1>2, <1>3 DEF Latest, Published, Releases

LEMMA HostKnown == ASSUME WorldTyped, NEW t \in Tools PROVE HostVersion(t) \in Version
BY ToolsAssumption DEF WorldTyped, HostVersion

LEMMA FromTableKnown ==
  ASSUME NEW runtime, NEW table, NEW n \in Nat, Len(table) = n, \A i \in 1..n : table[i][2] \in Version
  PROVE  FromTable(runtime, table) \in Version
<1> DEFINE I == {i \in 1..Len(table) : AtLeast(runtime, table[i][1])}
           row == SelectInSeq(table, LAMBDA r : AtLeast(runtime, r[1]))
<1>1. row = IF I # {} THEN Min(I) ELSE 0  BY DEF SelectInSeq
<1>2. I \subseteq 1..n /\ I \subseteq Nat  OBVIOUS
<1>3. I # {} => Min(I) \in I
  <2> HIDE DEF I
  <2> QED BY <1>2, MinFacts
<1>4. FromTable(runtime, table) = IF row = 0 THEN None ELSE table[row][2]  BY DEF FromTable
<1> HIDE DEF I, row
<1>5. CASE I = {}
  BY <1>1, <1>4, <1>5 DEF None, Version
<1>6. CASE I # {}
  <2>1. row \in 1..n
    BY <1>1, <1>2, <1>3, <1>6
  <2>2. row # 0
    BY <2>1
  <2> QED BY <1>4, <2>1, <2>2
<1> QED BY <1>5, <1>6

LEMMA TablesKnown ==
  ASSUME NEW pkg
  PROVE  \E n \in Nat : Len(TableOf(pkg)) = n /\ \A i \in 1..n : TableOf(pkg)[i][2] \in Version
<1>1. Len(GoplsTable) = 5 /\ \A i \in 1..5 : GoplsTable[i][2] \in Version
  BY DEF GoplsTable, Version
<1>2. Len(TypeScriptLanguageServerTable) = 2 /\ \A i \in 1..2 : TypeScriptLanguageServerTable[i][2] \in Version
  BY DEF TypeScriptLanguageServerTable, Version
<1>3. Len(PythonLSPTable) = 3 /\ \A i \in 1..3 : PythonLSPTable[i][2] \in Version
  BY DEF PythonLSPTable, Version
<1>4. Len(<< >>) = 0 /\ \A i \in 1..0 : << >>[i][2] \in Version
  OBVIOUS
<1> QED BY <1>1, <1>2, <1>3, <1>4 DEF TableOf

LEMMA ServerPackages ==
  ASSUME NEW name \in ServerNames
  PROVE  /\ name \in DOMAIN Registry
         /\ name \in {"gopls", "typescript-language-server", "typescript", "pyright", "python-lsp-server"}
BY ToolsAssumption DEF ServerNames, ImplicitOf

LEMMA ResolvedKnown ==
  ASSUME WorldTyped, NEW name \in ServerNames, NEW runtime, NEW up \in BOOLEAN
  PROVE  Resolved(name, runtime, up) \in Version
<1>1. None \in Version
  BY DEF None, Version
<1>2. FromTable(runtime, TableOf(name)) \in Version
  BY TablesKnown, FromTableKnown
<1>3. Latest(name) \in Version
  BY ServerPackages, LatestKnown
<1>4. LatestOrFallback(name, FallbackOf(name), runtime) \in Version
  <2>1. FallbackOf(name) \in Version
    BY DEF FallbackOf, None, Version
  <2> QED BY <1>1, <1>3, <2>1 DEF LatestOrFallback
<1> QED BY <1>1, <1>2, <1>3, <1>4 DEF Resolved

(* A compiler or a type checker that is looked up runs on the runtime it was   *)
(* looked up for.                                                             *)
LEMMA ResolvedRuns ==
  ASSUME NEW name \in {"typescript", "pyright"}, NEW runtime, NEW up \in BOOLEAN,
         Resolved(name, runtime, up) # None
  PROVE  Satisfies(runtime, Needs(name, Resolved(name, runtime, up))) = "yes"
<1>1. FromTable(runtime, TableOf("pyright")) = None
  <2> DEFINE I == {i \in 1..Len(<< >>) : AtLeast(runtime, << >>[i][1])}
  <2>1. I = {}  OBVIOUS
  <2>2. SelectInSeq(<< >>, LAMBDA r : AtLeast(runtime, r[1])) = IF I # {} THEN Min(I) ELSE 0  BY DEF SelectInSeq
  <2>3. FromTable(runtime, << >>) = None  BY <2>1, <2>2 DEF FromTable
  <2> QED BY <2>3 DEF TableOf
<1>2. Resolved(name, runtime, up) = LatestOrFallback(name, FallbackOf(name), runtime)
  BY <1>1 DEF Resolved
<1>3. ASSUME NEW v, Compatible(name, v, runtime) = "yes"
      PROVE  Satisfies(runtime, Needs(name, v)) = "yes"
  BY <1>3 DEF Compatible
<1> QED BY <1>2, <1>3 DEF LatestOrFallback

-----------------------------------------------------------------------------
(* Tools, and configurations that want the same. *)

LEMMA DesiredKnown == ASSUME NEW tool \in ToolStates PROVE Desired(tool) \in Version
BY DEF Desired, ToolStates

LEMMA RefreshedKeeps ==
  ASSUME WorldTyped, NEW t \in Tools, NEW tool \in ToolStates, NEW up \in BOOLEAN
  PROVE  LET new == Refreshed(t, tool, up) IN
           /\ new \in ToolStates
           /\ new.enabled = tool.enabled /\ new.mode = tool.mode /\ new.container = tool.container
           /\ Included(new) = Included(tool)
<1>1. HostVersion(t) \in Version
  BY HostKnown
<1>2. Latest(t) \in Version
  BY LatestKnown, ToolsAssumption
<1> QED BY <1>1, <1>2 DEF Refreshed, ToolStates, Included

LEMMA RefreshedAgain ==
  ASSUME WorldTyped, NEW t \in Tools, NEW tool \in ToolStates
  PROVE  Refreshed(t, Refreshed(t, tool, TRUE), TRUE) = Refreshed(t, tool, TRUE)
<1>1. HostVersion(t) \in Version
  BY HostKnown
<1>2. Latest(t) \in Version
  BY LatestKnown, ToolsAssumption
<1> QED BY <1>1, <1>2 DEF Refreshed, ToolStates, Included

LEMMA RefreshedContainer ==
  ASSUME NEW t, NEW tool \in ToolStates, NEW v \in Version
  PROVE  Refreshed(t, [tool EXCEPT !.container = v], TRUE) = [Refreshed(t, tool, TRUE) EXCEPT !.container = v]
BY DEF Refreshed, ToolStates, Included

(* A refresh that goes through leaves no included tool without a version. *)
LEMMA RefreshedWants ==
  ASSUME WorldTyped, NEW t \in Tools, NEW tool \in ToolStates, NEW up \in BOOLEAN, NEW stale \in BOOLEAN,
         Refreshable(t, tool, up, stale), Included(Refreshed(t, tool, up))
  PROVE  Desired(Refreshed(t, tool, up)) # None
<1>1. HostVersion(t) \in Version
  BY HostKnown
<1>2. Latest(t) \in Version /\ Latest(t) # None
  BY LatestKnown, ToolsAssumption
<1>3. Included(tool) /\ tool.mode \in {"mirror", "latest", "pin"}
  BY RefreshedKeeps DEF Included, ToolStates
<1>4. CASE tool.mode = "latest"
  BY <1>2, <1>3, <1>4 DEF Refreshable, Refreshed, Desired, ToolStates
<1>5. CASE tool.mode = "mirror"
  BY <1>1, <1>3, <1>5 DEF Refreshable, Refreshed, Desired, ToolStates
<1>6. CASE tool.mode = "pin"
  BY <1>3, <1>6 DEF Refreshable, Refreshed, Desired, ToolStates
<1> QED BY <1>3, <1>4, <1>5, <1>6

SameWants(c, d) ==
  \A t \in Tools :
    LET a == c.tools[t]
        b == d.tools[t]
    IN  a.enabled = b.enabled /\ a.mode = b.mode /\ a.pinned = b.pinned /\ a.host = b.host

LEMMA ParentOfServer ==
  ASSUME NEW l \in Langs, NEW name \in ImplicitOf(l)
  PROVE  ParentOf(name) = l /\ name \in ServerNames
<1>1. l \in {"go", "node", "python"}
  BY ToolsAssumption
<1>2. \A k \in {"go", "node", "python"} : name \in ImplicitOf(k) => k = l
  BY <1>1 DEF ImplicitOf
<1>3. ParentOf(name) = l
  BY <1>1, <1>2 DEF ParentOf
<1> QED BY <1>3 DEF ServerNames

LEMMA SameWanted ==
  ASSUME NEW c, NEW d, SameWants(c, d)
  PROVE  /\ \A t \in Tools : Desired(c.tools[t]) = Desired(d.tools[t]) /\ Included(c.tools[t]) = Included(d.tools[t])
         /\ \A l \in Langs : Counts(c, l) = Counts(d, l)
         /\ Implicit(c) = Implicit(d)
         /\ EffectiveBaseNodeVersion(c) = EffectiveBaseNodeVersion(d)
         /\ Want(c) = Want(d)
         /\ \A implicit : RenderBase(c, implicit) = RenderBase(d, implicit)
         /\ \A t \in AITools : Rendered(c, t) = Rendered(d, t) /\ c.tools[t].enabled = d.tools[t].enabled
<1>1. \A t \in Tools : /\ Desired(c.tools[t]) = Desired(d.tools[t])
                       /\ Included(c.tools[t]) = Included(d.tools[t])
                       /\ c.tools[t].enabled = d.tools[t].enabled /\ c.tools[t].mode = d.tools[t].mode
  BY DEF SameWants, Desired, Included
<1>2. \A l : Counts(c, l) = Counts(d, l)
  BY <1>1 DEF Counts, Tools
<1>3. Implicit(c) = Implicit(d)
  BY <1>2 DEF Implicit
<1>4. EffectiveBaseNodeVersion(c) = EffectiveBaseNodeVersion(d)
  BY <1>1, <1>2 DEF EffectiveBaseNodeVersion, Counts, Tools
<1>5. \A name \in Implicit(c) : RuntimeVersion(c, name) = RuntimeVersion(d, name)
  <2> SUFFICES ASSUME NEW name \in Implicit(c)
               PROVE  RuntimeVersion(c, name) = RuntimeVersion(d, name)
    OBVIOUS
  <2>1. ParentOf(name) \in Tools
    BY ParentOfServer DEF Implicit, Tools
  <2> QED BY <1>1, <1>4, <2>1 DEF RuntimeVersion
<1>6. Want(c) = Want(d)
  <2>1. \A name \in Implicit(c) : WithFallback(c, name, TRUE, FALSE) = WithFallback(d, name, TRUE, FALSE)
    BY <1>5 DEF WithFallback
  <2> QED BY <1>3, <2>1 DEF Want, ResolveImplicit
<1>7. \A implicit : RenderBase(c, implicit) = RenderBase(d, implicit)
  <2>1. {k \in Langs \ {"node"} : c.tools[k].enabled} = {k \in Langs \ {"node"} : d.tools[k].enabled}
    BY <1>1 DEF Tools
  <2>2. {t \in AITools \cap {"codex", "opencode"} : c.tools[t].enabled} = {t \in AITools \cap {"codex", "opencode"} : d.tools[t].enabled}
    BY <1>1 DEF Tools
  <2>3. [l \in {k \in Langs \ {"node"} : c.tools[k].enabled} |-> IF l = "python" THEN <<3, 11>> ELSE Desired(c.tools[l])]
        = [l \in {k \in Langs \ {"node"} : d.tools[k].enabled} |-> IF l = "python" THEN <<3, 11>> ELSE Desired(d.tools[l])]
    BY <1>1, <2>1 DEF Tools
  <2> QED BY <1>4, <2>2, <2>3 DEF RenderBase
<1>8. \A t \in AITools : Rendered(c, t) = Rendered(d, t) /\ c.tools[t].enabled = d.tools[t].enabled
  BY <1>1 DEF Rendered, Tools
<1> QED BY <1>1, <1>2, <1>3, <1>4, <1>6, <1>7, <1>8

Known(cfg) == \A t \in Tools : Included(cfg.tools[t]) => Desired(cfg.tools[t]) # None

LEMMA RefreshTyped ==
  ASSUME WorldTyped, NEW c, IsToolConfig(c), NEW up \in BOOLEAN
  PROVE  /\ IsToolConfig(Refresh(c, up))
         /\ \A t \in Tools : Refresh(c, up).tools[t] = Refreshed(t, c.tools[t], up)
         /\ Refresh(c, up).implicit = c.implicit /\ Refresh(c, up).baseNode = c.baseNode
<1>1. c \in [tools : [Tools -> ToolStates], implicit : {c.implicit}, baseNode : Version] /\ IsServers(c.implicit)
  BY DEF IsToolConfig
<1>2. \A t \in Tools : Refreshed(t, c.tools[t], up) \in ToolStates
  BY <1>1, RefreshedKeeps
<1> DEFINE new == [t \in Tools |-> Refreshed(t, c.tools[t], up)]
<1>3. new \in [Tools -> ToolStates]
  BY <1>2
<1>4. \A t \in Tools : new[t] = Refreshed(t, c.tools[t], up)
  OBVIOUS
<1>5. Refresh(c, up) = [c EXCEPT !.tools = new]
  BY DEF Refresh
<1> HIDE DEF new
<1>6. /\ Refresh(c, up).tools = new /\ Refresh(c, up).implicit = c.implicit /\ Refresh(c, up).baseNode = c.baseNode
      /\ Refresh(c, up) \in [tools : [Tools -> ToolStates], implicit : {c.implicit}, baseNode : Version]
  BY <1>1, <1>3, <1>5
<1> QED BY <1>1, <1>4, <1>6 DEF IsToolConfig

LEMMA RefreshTwice ==
  ASSUME WorldTyped, NEW c, IsToolConfig(c)
  PROVE  Refresh(Refresh(c, TRUE), TRUE) = Refresh(c, TRUE)
<1> DEFINE d == Refresh(c, TRUE)
<1>1. IsToolConfig(d) /\ \A t \in Tools : d.tools[t] = Refreshed(t, c.tools[t], TRUE)
  BY RefreshTyped
<1>2. \A t \in Tools : c.tools[t] \in ToolStates
  BY DEF IsToolConfig
<1>3. \A t \in Tools : Refreshed(t, d.tools[t], TRUE) = d.tools[t]
  BY <1>1, <1>2, RefreshedAgain
<1>4. [t \in Tools |-> Refreshed(t, d.tools[t], TRUE)] = d.tools
  BY <1>1, <1>3 DEF IsToolConfig
<1>5. Refresh(d, TRUE) = [d EXCEPT !.tools = d.tools]
  BY <1>4 DEF Refresh
<1> HIDE DEF d
<1>6. [d EXCEPT !.tools = d.tools] = d
  BY <1>1 DEF IsToolConfig
<1> QED BY <1>5, <1>6 DEF d

LEMMA RefreshKnown ==
  ASSUME WorldTyped, NEW c, IsToolConfig(c), NEW up \in BOOLEAN, NEW stale \in BOOLEAN, CanRefresh(c, up, stale)
  PROVE  Known(Refresh(c, up))
<1>1. \A t \in Tools : c.tools[t] \in ToolStates /\ Refreshable(t, c.tools[t], up, stale)
  BY DEF IsToolConfig, CanRefresh
<1> QED BY <1>1, RefreshTyped, RefreshedWants DEF Known

LEMMA ImplicitServers == ASSUME NEW c PROVE Implicit(c) \subseteq ServerNames
BY DEF Implicit, ServerNames

LEMMA ResolveKnown ==
  ASSUME WorldTyped, NEW c, IsToolConfig(c), NEW S \in SUBSET ServerNames, NEW up \in BOOLEAN, NEW stale \in BOOLEAN,
         Complete(ResolveImplicit(c, S, up, stale))
  PROVE  IsServers(ResolveImplicit(c, S, up, stale)) /\ DOMAIN ResolveImplicit(c, S, up, stale) = S
<1> DEFINE f == ResolveImplicit(c, S, up, stale)
<1>1. f = [name \in S |-> WithFallback(c, name, up, stale)]
  BY DEF ResolveImplicit
<1>2. \A name \in S : WithFallback(c, name, up, stale) \in Version
  <2> TAKE name \in S
  <2>1. Resolved(name, RuntimeVersion(c, name), up) \in Version
    BY ResolvedKnown
  <2>2. name \in DOMAIN c.implicit => c.implicit[name] \in Version
    BY DEF IsToolConfig, IsServers
  <2> QED BY <2>1, <2>2 DEF WithFallback
<1>3. \A name \in S : f[name] \in Version \ {None}
  BY <1>1, <1>2 DEF Complete
<1> QED BY <1>1, <1>3 DEF IsServers

LEMMA EffectiveKnown ==
  ASSUME NEW c, IsToolConfig(c), Known(c)
  PROVE  EffectiveBaseNodeVersion(c) \in Version \ {None}
<1>1. ASSUME Counts(c, "node") PROVE Desired(c.tools["node"]) \in Version \ {None}
  <2>1. "node" \in Tools /\ c.tools["node"] \in ToolStates
    BY <1>1 DEF Counts, Tools, IsToolConfig
  <2>2. Desired(c.tools["node"]) # None
    BY <1>1, <2>1 DEF Counts, Known, Included
  <2> QED BY <2>1, <2>2, DesiredKnown
<1>2. DefaultBaseNodeVersion \in Version \ {None}
  BY DEF DefaultBaseNodeVersion, Version, None
<1> QED BY <1>1, <1>2 DEF EffectiveBaseNodeVersion

LEMMA RenderKnown ==
  ASSUME NEW c, IsToolConfig(c), Known(c), NEW implicit, IsServers(implicit)
  PROVE  /\ IsBase(RenderBase(c, implicit)) /\ RenderBase(c, implicit) # None
         /\ RenderBase(c, implicit).node = EffectiveBaseNodeVersion(c)
         /\ RenderBase(c, implicit).implicit = implicit
         /\ DOMAIN RenderBase(c, implicit).langs = {k \in Langs \ {"node"} : c.tools[k].enabled}
         /\ \A k \in Langs \ {"node", "python"} : c.tools[k].enabled => RenderBase(c, implicit).langs[k] = Desired(c.tools[k])
<1> DEFINE b == RenderBase(c, implicit)
           on == {k \in Langs \ {"node"} : c.tools[k].enabled}
           langs == [l \in on |-> IF l = "python" THEN <<3, 11>> ELSE Desired(c.tools[l])]
           needed == {t \in AITools \cap {"codex", "opencode"} : c.tools[t].enabled}
<1>1. b = [langs |-> langs, node |-> EffectiveBaseNodeVersion(c), implicit |-> implicit, needed |-> needed]
  BY DEF RenderBase
<1>2. langs \in [on -> Version]
  <2>1. \A l \in on : Desired(c.tools[l]) \in Version
    BY DesiredKnown DEF IsToolConfig, Tools
  <2>2. <<3, 11>> \in Version
    BY DEF Version
  <2> QED BY <2>1, <2>2
<1>3. on \subseteq Langs /\ needed \in SUBSET AITools /\ DOMAIN langs = on
  OBVIOUS
<1>4. \A k \in Langs \ {"node", "python"} : c.tools[k].enabled => langs[k] = Desired(c.tools[k])
  OBVIOUS
<1>5. b # None
  BY <1>1 DEF None
<1> HIDE DEF langs, needed, b, on
<1>6. b \in [langs : {b.langs}, node : Version \ {None}, implicit : {b.implicit}, needed : SUBSET AITools]
  BY <1>1, <1>3, EffectiveKnown
<1>7. IsBase(b)
  BY <1>1, <1>2, <1>3, <1>6 DEF IsBase
<1> QED BY <1>1, <1>3, <1>4, <1>5, <1>7 DEF b, on

(* The compiler and the type checker that a configuration asks for run on its   *)
(* Node, looked up or taken over from the last build.                          *)
LEMMA WantedRuns ==
  ASSUME NEW c, Fits(c), NEW up \in BOOLEAN, NEW stale \in BOOLEAN,
         Complete(ResolveImplicit(c, Implicit(c), up, stale))
  PROVE  LET f == ResolveImplicit(c, Implicit(c), up, stale) IN
           RunsOn(f, "typescript", EffectiveBaseNodeVersion(c)) /\ RunsOn(f, "pyright", EffectiveBaseNodeVersion(c))
<1> DEFINE f == ResolveImplicit(c, Implicit(c), up, stale)
           node == EffectiveBaseNodeVersion(c)
<1>1. f = [name \in Implicit(c) |-> WithFallback(c, name, up, stale)]
  BY DEF ResolveImplicit
<1>2. ASSUME NEW name \in {"typescript", "pyright"}, name \in DOMAIN f PROVE Satisfies(node, Needs(name, f[name])) = "yes"
  <2>1. name \in Implicit(c) /\ f[name] = WithFallback(c, name, up, stale) /\ f[name] # None
    BY <1>1, <1>2 DEF Complete
  <2>2. PICK l \in Langs : Counts(c, l) /\ name \in ImplicitOf(l)
    BY <2>1 DEF Implicit
  <2>3. ParentOf(name) = l
    BY <2>2, ParentOfServer
  <2>4. name = "typescript" => l = "node" /\ Runtime(name) = "node" /\ RuntimeVersion(c, name) = node
    <3>1. name = "typescript" => l = "node"
      BY <2>2, ToolsAssumption DEF ImplicitOf
    <3> QED BY <2>2, <2>3, <3>1 DEF Runtime, RuntimeVersion, EffectiveBaseNodeVersion
  <2>5. name = "pyright" => Runtime(name) = "base node" /\ RuntimeVersion(c, name) = node
    BY DEF Runtime, RuntimeVersion
  <2>6. RuntimeVersion(c, name) = node
    BY <1>2, <2>4, <2>5
  <2> DEFINE strict == Resolved(name, RuntimeVersion(c, name), up)
  <2>7. CASE strict # None
    <3>1. f[name] = strict
      BY <2>1, <2>7 DEF WithFallback
    <3> QED BY <1>2, <2>6, <2>7, <3>1, ResolvedRuns
  <2>8. CASE strict = None
    <3>1. f[name] = c.implicit[name] /\ name \in DOMAIN c.implicit /\ RuntimeAsBuilt(c, name)
      BY <2>1, <2>8 DEF WithFallback
    <3>2. c.baseNode # None
      BY <3>1 DEF Fits
    <3>3. node = c.baseNode
      <4>1. CASE name = "pyright"
        <5>1. BuiltBaseNodeVersion(c) = c.baseNode
          BY <3>2 DEF BuiltBaseNodeVersion
        <5>2. EffectiveBaseNodeVersion(c) = BuiltBaseNodeVersion(c)
          BY <2>5, <3>1, <4>1 DEF RuntimeAsBuilt
        <5> QED BY <5>1, <5>2
      <4>2. CASE name = "typescript"
        <5>1. Desired(c.tools["node"]) # None /\ Desired(c.tools["node"]) = c.tools["node"].container
          BY <2>3, <2>4, <3>1, <4>2 DEF RuntimeAsBuilt
        <5>2. node = Desired(c.tools["node"])
          BY <2>2, <2>4, <4>2 DEF EffectiveBaseNodeVersion
        <5> QED BY <3>1, <4>2, <5>1, <5>2 DEF Fits
      <4> QED BY <1>2, <4>1, <4>2
    <3> QED BY <1>2, <3>1, <3>3 DEF Fits, RunsOn
  <2> QED BY <2>7, <2>8
<1> QED BY <1>2 DEF RunsOn

-----------------------------------------------------------------------------
(* What a build writes into the configuration. *)

SameBuilt(c, d) ==
  c.implicit = d.implicit /\ c.baseNode = d.baseNode /\ \A t \in Tools : c.tools[t].container = d.tools[t].container

LEMMA SameBuiltFits == ASSUME NEW c, NEW d, SameBuilt(c, d), Fits(c), "typescript" \in DOMAIN c.implicit => "node" \in Tools PROVE Fits(d)
BY DEF SameBuilt, Fits, RunsOn

LEMMA RefreshSameBuilt ==
  ASSUME WorldTyped, NEW c, IsToolConfig(c), NEW up \in BOOLEAN
  PROVE  SameBuilt(c, Refresh(c, up))
<1>1. \A t \in Tools : c.tools[t] \in ToolStates
  BY DEF IsToolConfig
<1> QED BY <1>1, RefreshTyped, RefreshedKeeps DEF SameBuilt

LEMMA ContainerBuilt ==
  ASSUME NEW tool \in ToolStates
  PROVE  LET new == RefreshContainerVersion(tool) IN
           /\ new \in ToolStates /\ new = [tool EXCEPT !.container = new.container]
           /\ new.enabled = tool.enabled /\ new.mode = tool.mode /\ new.pinned = tool.pinned /\ new.host = tool.host
           /\ Included(tool) /\ Desired(tool) # None => new.container = Desired(tool)
           /\ ~Included(tool) => new = tool
BY DEF RefreshContainerVersion, ToolStates, Included, Desired

LEMMA BaseBuiltTyped ==
  ASSUME NEW c, IsToolConfig(c), NEW implicit, IsServers(implicit), EffectiveBaseNodeVersion(c) \in Version
  PROVE  LET d == BaseBuilt(c, implicit) IN
           /\ IsToolConfig(d) /\ SameWants(c, d)
           /\ d.implicit = implicit /\ d.baseNode = EffectiveBaseNodeVersion(c)
           /\ \A l \in Langs : d.tools[l] = RefreshContainerVersion(c.tools[l])
           /\ \A t \in AITools : d.tools[t] = c.tools[t]
<1> DEFINE new == [t \in Tools |-> IF t \in Langs THEN RefreshContainerVersion(c.tools[t]) ELSE c.tools[t]]
           node == EffectiveBaseNodeVersion(c)
           d == BaseBuilt(c, implicit)
<1>1. c \in [tools : [Tools -> ToolStates], implicit : {c.implicit}, baseNode : Version]
  BY DEF IsToolConfig
<1>2. \A t \in Tools : c.tools[t] \in ToolStates
  BY <1>1
<1>3. new \in [Tools -> ToolStates]
  BY <1>2, ContainerBuilt
<1>4. /\ \A l \in Langs : new[l] = RefreshContainerVersion(c.tools[l])
      /\ \A t \in AITools : new[t] = c.tools[t]
  BY ToolsAssumption DEF Tools
<1>5. d = [c EXCEPT !.tools = new, !.baseNode = node, !.implicit = implicit]
  BY DEF BaseBuilt
<1>6. node \in Version
  OBVIOUS
<1> HIDE DEF new, d, node
<1>7. /\ d.tools = new /\ d.implicit = implicit /\ d.baseNode = node
      /\ d \in [tools : [Tools -> ToolStates], implicit : {d.implicit}, baseNode : Version]
  BY <1>1, <1>3, <1>5, <1>6
<1>8. SameWants(c, d)
  BY <1>2, <1>4, <1>7, ContainerBuilt DEF SameWants, Tools
<1> QED BY <1>4, <1>7, <1>8 DEF IsToolConfig, d, node

LEMMA ToolBuiltTyped ==
  ASSUME NEW c, IsToolConfig(c), NEW t \in AITools
  PROVE  LET d == ToolBuilt(c, t) IN
           /\ IsToolConfig(d) /\ SameWants(c, d)
           /\ d.implicit = c.implicit /\ d.baseNode = c.baseNode
           /\ d.tools[t] = RefreshContainerVersion(c.tools[t])
           /\ \A u \in Tools \ {t} : d.tools[u] = c.tools[u]
<1> DEFINE d == ToolBuilt(c, t)
           tool == RefreshContainerVersion(c.tools[t])
<1>1. c \in [tools : [Tools -> ToolStates], implicit : {c.implicit}, baseNode : Version]
  BY DEF IsToolConfig
<1>2. \A u \in Tools : c.tools[u] \in ToolStates
  BY <1>1
<1>3. t \in Tools /\ tool \in ToolStates
  BY <1>2, ContainerBuilt DEF Tools
<1>4. d = [c EXCEPT !.tools[t] = tool]
  BY DEF ToolBuilt
<1>5. SameWants(c, d)
  <2>1. tool.enabled = c.tools[t].enabled /\ tool.mode = c.tools[t].mode /\ tool.pinned = c.tools[t].pinned /\ tool.host = c.tools[t].host
    BY <1>2, <1>3, ContainerBuilt
  <2> HIDE DEF tool, d
  <2> QED BY <1>1, <1>3, <1>4, <2>1 DEF SameWants
<1> HIDE DEF tool, d
<1>6. /\ d.implicit = c.implicit /\ d.baseNode = c.baseNode /\ d.tools[t] = tool
      /\ \A u \in Tools \ {t} : d.tools[u] = c.tools[u]
      /\ d \in [tools : [Tools -> ToolStates], implicit : {d.implicit}, baseNode : Version]
  BY <1>1, <1>3, <1>4
<1> QED BY <1>5, <1>6 DEF IsToolConfig, d, tool

LEMMA RefreshedStays ==
  ASSUME NEW c, NEW d, IsToolConfig(c), IsToolConfig(d), SameWants(c, d), Refresh(c, TRUE) = c
  PROVE  Refresh(d, TRUE) = d
<1>1. \A t \in Tools : c.tools[t] \in ToolStates /\ d.tools[t] \in ToolStates
  BY DEF IsToolConfig
<1>2. \A t \in Tools : Refreshed(t, c.tools[t], TRUE) = c.tools[t]
  <2>1. Refresh(c, TRUE).tools = [t \in Tools |-> Refreshed(t, c.tools[t], TRUE)]
    BY DEF Refresh, IsToolConfig
  <2> QED BY <2>1
<1>3. \A t \in Tools : d.tools[t] = [c.tools[t] EXCEPT !.container = d.tools[t].container] /\ d.tools[t].container \in Version
  BY <1>1 DEF SameWants, ToolStates
<1>4. \A t \in Tools : Refreshed(t, d.tools[t], TRUE) = d.tools[t]
  <2> TAKE t \in Tools
  <2>1. PICK v \in Version : v = d.tools[t].container
    BY <1>3
  <2>2. Refreshed(t, [c.tools[t] EXCEPT !.container = v], TRUE) = [Refreshed(t, c.tools[t], TRUE) EXCEPT !.container = v]
    BY <1>1, RefreshedContainer
  <2> QED BY <1>2, <1>3, <2>1, <2>2
<1>5. [t \in Tools |-> Refreshed(t, d.tools[t], TRUE)] = d.tools
  BY <1>4 DEF IsToolConfig
<1>6. Refresh(d, TRUE) = [d EXCEPT !.tools = d.tools]
  BY <1>5 DEF Refresh
<1> QED BY <1>6 DEF IsToolConfig

-----------------------------------------------------------------------------
(* Each action keeps the invariant. *)

LEMMA NoneFacts == None \in Version /\ DOMAIN None = {} /\ IsServers(None)
<1>1. None \in Version
  BY DEF None, Version
<1>2. DOMAIN None = {} /\ None \in [{} -> Version \ {None}]
  BY DEF None
<1> QED BY <1>1, <1>2 DEF IsServers

(* What the wizard starts from without a config.json: nothing is built. *)
LEMMA FreshTyped ==
  ASSUME WorldTyped
  PROVE  IsToolConfig(Fresh) /\ Fresh.implicit = None /\ Fresh.baseNode = None /\ \A t \in Tools : Fresh.tools[t].container = None
<1> DEFINE new == [t \in Tools |-> Found(t)]
<1>1. \A t \in Tools : Found(t) \in ToolStates /\ Found(t).container = None
  <2> TAKE t \in Tools
  <2>1. HostVersion(t) \in Version
    BY HostKnown
  <2>2. OffTool \in ToolStates /\ OffTool.container = None
    BY DEF OffTool, ToolStates, None, Version
  <2> QED BY <2>1, <2>2 DEF Found, ToolStates
<1>2. None \in Version /\ IsServers(None)
  BY NoneFacts
<1>3. new \in [Tools -> ToolStates] /\ \A t \in Tools : new[t].container = None
  BY <1>1
<1>4. Fresh = [tools |-> new, implicit |-> None, baseNode |-> None]
  BY DEF Fresh
<1> HIDE DEF new
<1> QED BY <1>2, <1>3, <1>4 DEF IsToolConfig

LEMMA FreshTold == ASSUME WorldTyped PROVE Told(Fresh)
<1>1. Fresh.implicit = None /\ Fresh.baseNode = None /\ \A t \in Tools : Fresh.tools[t].container = None
  BY FreshTyped
<1>2. PICK c : c = Fresh
  OBVIOUS
<1>3. c.implicit = None /\ c.baseNode = None /\ \A t \in Tools : c.tools[t].container = None
  BY <1>1, <1>2
<1>4. OffNeverBuilt(c) /\ NothingTold(c) /\ BaseTold(c) /\ ToolsTold(c)
  BY <1>3 DEF OffNeverBuilt, NothingTold, BaseTold, ToolsTold, Tools
<1>5. Fits(c)
  BY <1>3, NoneFacts DEF Fits, RunsOn
<1> QED BY <1>2, <1>4, <1>5 DEF Told

LEMMA ImageInvInit == ImageInit => ImageInv
<1> SUFFICES ASSUME ImageInit PROVE ImageInv
  OBVIOUS
<1>1. WorldTyped
  <2>1. \A pkg \in DOMAIN Registry : 1 \in 1..Len(Registry[pkg])
    <3> TAKE pkg \in DOMAIN Registry
    <3>1. Registry[pkg] \in Seq(Releases) /\ Registry[pkg] # << >>
      BY ToolsAssumption
    <3> QED BY <3>1
  <2>2. released = [pkg \in DOMAIN Registry |-> 1] /\ hostAt = 1
    BY DEF ImageInit
  <2> QED BY <2>1, <2>2 DEF WorldTyped
<1>2. IsToolConfig(config) /\ Told(config)
  BY <1>1, FreshTyped, FreshTold DEF ImageInit
<1>3. ImagesTyped
  <2>1. templates \in [base : {templates.base}, version : [AITools -> Version]] /\ templates.base = None
    <3>1. templates = [base |-> None, version |-> [t \in AITools |-> None]] /\ None \in Version
      BY NoneFacts DEF ImageInit
    <3> QED BY <3>1
  <2>2. child = [t \in Children |-> child[t]] /\ \A t \in Children : child[t].version \in Version
    <3>1. child = [t \in Children |-> NoImage] /\ NoImage.version = None /\ None \in Version
      BY NoneFacts DEF ImageInit, NoImage
    <3> QED BY <3>1
  <2>3. said \in {"", "match", "complete", "built", "failed"} /\ base = None /\ Idle
    BY DEF ImageInit, Idle
  <2> QED BY <1>2, <2>1, <2>2, <2>3 DEF ImagesTyped
<1>4. TemplatesFit /\ JobOnCourse /\ SaidIsTrue
  <2>1. templates.base = None /\ Idle /\ said = ""
    BY DEF ImageInit, Idle
  <2> QED BY <2>1 DEF TemplatesFit, JobOnCourse, SaidIsTrue
<1> QED BY <1>1, <1>2, <1>3, <1>4 DEF ImageInv

LEMMA ToldStays ==
  ASSUME Told(config), UNCHANGED <<config, base, child, untold>>
  PROVE  Told(config)'
<1>1. OffNeverBuilt(config)' /\ NothingTold(config)'
  BY DEF Told, OffNeverBuilt, NothingTold
<1>2. BaseTold(config)' /\ ToolsTold(config)'
  BY DEF Told, BaseTold, ToolsTold
<1>3. Fits(config)'
  BY DEF Told, Fits, RunsOn
<1> QED BY <1>1, <1>2, <1>3 DEF Told

LEMMA ImageInvWorld ==
  ASSUME ImageInv, (\E pkg \in DOMAIN Registry : Publish(pkg)) \/ UpgradeHost
  PROVE  ImageInv'
<1>1. Idle /\ said' = "" /\ UNCHANGED <<config, templates, base, child, job, untold>>
  BY DEF Publish, UpgradeHost
<1>2. WorldTyped'
  <2>1. CASE \E pkg \in DOMAIN Registry : Publish(pkg)
    <3>1. PICK pkg \in DOMAIN Registry : Publish(pkg)
      BY <2>1
    <3>2. released[pkg] < Len(Registry[pkg]) /\ released' = [released EXCEPT ![pkg] = @ + 1] /\ hostAt' = hostAt
      BY <3>1 DEF Publish
    <3>3. Registry[pkg] \in Seq(Releases)
      BY ToolsAssumption
    <3>4. WorldTyped
      BY DEF ImageInv
    <3> QED BY <3>2, <3>3, <3>4 DEF WorldTyped
  <2>2. CASE UpgradeHost
    <3>1. hostAt' = hostAt + 1 /\ hostAt < 2 /\ released' = released /\ WorldTyped
      BY <2>2 DEF UpgradeHost, ImageInv
    <3> QED BY <3>1 DEF WorldTyped
  <2> QED BY <2>1, <2>2
<1>3. Idle'
  BY <1>1 DEF Idle
<1>4. ImagesTyped'
  BY <1>1, <1>3 DEF ImageInv, ImagesTyped
<1>5. Told(config)' /\ TemplatesFit'
  BY <1>1, ToldStays DEF ImageInv, TemplatesFit
<1>6. JobOnCourse' /\ SaidIsTrue'
  BY <1>1, <1>3 DEF JobOnCourse, SaidIsTrue
<1> QED BY <1>2, <1>4, <1>5, <1>6 DEF ImageInv

LEMMA ImageInvFail == ASSUME ImageInv, Fail \/ CutShort PROVE ImageInv'
<1>1. job' = NoJob /\ said' = "failed" /\ UNCHANGED <<worldVars, config, templates, base, child, untold>>
  BY DEF Fail, CutShort
<1>2. Idle'
  BY <1>1 DEF Idle
<1>3. WorldTyped' /\ ImagesTyped'
  BY <1>1, <1>2 DEF ImageInv, WorldTyped, ImagesTyped, worldVars
<1>4. Told(config)' /\ TemplatesFit'
  BY <1>1, ToldStays DEF ImageInv, TemplatesFit
<1>5. JobOnCourse' /\ SaidIsTrue'
  BY <1>1, <1>2 DEF JobOnCourse, SaidIsTrue
<1> QED BY <1>3, <1>4, <1>5 DEF ImageInv

LEMMA WorldStays ==
  ASSUME UNCHANGED worldVars, NEW c
  PROVE  /\ \A up \in BOOLEAN : Refresh(c, up)' = Refresh(c, up)
         /\ Want(c)' = Want(c)
         /\ \A t \in AITools : Rendered(c, t)' = Rendered(c, t)
<1>1. \A pkg : Latest(pkg)' = Latest(pkg) /\ Published(pkg)' = Published(pkg)
  BY DEF Latest, Published, worldVars
<1>2. \A t : HostVersion(t)' = HostVersion(t)
  BY DEF HostVersion, worldVars
<1>3. \A up \in BOOLEAN : Refresh(c, up)' = Refresh(c, up)
  BY <1>1, <1>2 DEF Refresh, Refreshed
<1>4. \A pkg, v, runtime : Compatible(pkg, v, runtime)' = Compatible(pkg, v, runtime)
  BY <1>1 DEF Compatible
<1>5. \A pkg, fallback, runtime : LatestOrFallback(pkg, fallback, runtime)' = LatestOrFallback(pkg, fallback, runtime)
  BY <1>1, <1>4 DEF LatestOrFallback
<1>6. \A name, runtime : Resolved(name, runtime, TRUE)' = Resolved(name, runtime, TRUE)
  BY <1>1, <1>5 DEF Resolved
<1>7. \A name : WithFallback(c, name, TRUE, FALSE)' = WithFallback(c, name, TRUE, FALSE)
  BY <1>6 DEF WithFallback
<1>8. Want(c)' = Want(c)
  BY <1>7 DEF Want, ResolveImplicit
<1>9. \A t \in AITools : Rendered(c, t)' = Rendered(c, t)
  BY <1>1 DEF Rendered
<1> QED BY <1>3, <1>8, <1>9

LEMMA ChooseTyped ==
  ASSUME WorldTyped, NEW c, IsToolConfig(c), NEW t \in Tools, NEW setting \in Setting
  PROVE  LET d == Choose(c, t, setting) IN
           /\ IsToolConfig(d) /\ SameBuilt(c, d)
           /\ \A u \in Tools : d.tools[u].mode = IF u = t THEN setting.mode ELSE c.tools[u].mode
           /\ \A u \in Tools : d.tools[u].enabled = IF u = t THEN setting.enabled ELSE c.tools[u].enabled
<1> DEFINE tool == [c.tools[t] EXCEPT !.enabled = setting.enabled, !.mode = setting.mode,
                                      !.pinned = IF setting.mode = "pin" THEN setting.pinned ELSE @]
           set(u) == IF u = t THEN tool ELSE c.tools[u]
           new == [u \in Tools |-> FromWizard(u, set(u))]
           d == Choose(c, t, setting)
<1>1. c \in [tools : [Tools -> ToolStates], implicit : {c.implicit}, baseNode : Version]
  BY DEF IsToolConfig
<1>2. \A u \in Tools : c.tools[u] \in ToolStates
  BY <1>1
<1>3. tool \in ToolStates /\ tool.enabled = setting.enabled /\ tool.mode = setting.mode /\ tool.container = c.tools[t].container
  BY <1>2 DEF ToolStates, Setting
<1> HIDE DEF tool
<1>4. \A u \in Tools : /\ set(u) \in ToolStates /\ set(u).container = c.tools[u].container
                       /\ set(u).mode = IF u = t THEN setting.mode ELSE c.tools[u].mode
                       /\ set(u).enabled = IF u = t THEN setting.enabled ELSE c.tools[u].enabled
  BY <1>2, <1>3
<1> HIDE DEF set
<1>5. ASSUME NEW u \in Tools, NEW old \in ToolStates
      PROVE  LET w == FromWizard(u, old) IN
               w \in ToolStates /\ w.container = old.container /\ w.mode = old.mode /\ w.enabled = old.enabled
  <2>1. HostVersion(u) \in Version
    BY HostKnown
  <2> QED BY <2>1, NoneFacts DEF FromWizard, ToolStates
<1>6. new \in [Tools -> ToolStates] /\ \A u \in Tools : new[u] = FromWizard(u, set(u))
  BY <1>4, <1>5
<1>7. d = [c EXCEPT !.tools = new]
  BY DEF Choose, set, tool
<1> HIDE DEF new, d
<1>8. /\ d.tools = new /\ d.implicit = c.implicit /\ d.baseNode = c.baseNode
      /\ d \in [tools : [Tools -> ToolStates], implicit : {d.implicit}, baseNode : Version]
  BY <1>1, <1>6, <1>7
<1>9. IsToolConfig(d)
  BY <1>8 DEF IsToolConfig
<1>10. \A u \in Tools : /\ d.tools[u].container = c.tools[u].container
                        /\ d.tools[u].mode = IF u = t THEN setting.mode ELSE c.tools[u].mode
                        /\ d.tools[u].enabled = IF u = t THEN setting.enabled ELSE c.tools[u].enabled
  BY <1>4, <1>5, <1>6, <1>8
<1> QED BY <1>8, <1>9, <1>10 DEF SameBuilt, d

LEMMA ImageInvFinish == ASSUME ImageInv, Finish PROVE ImageInv'
<1>1. /\ ~Idle /\ ~job.base /\ job.left = {} /\ job.built = {} /\ job' = NoJob
      /\ said' = IF job.kind = "build" THEN "built" ELSE "complete"
      /\ UNCHANGED <<worldVars, config, templates, base, child, untold>>
  BY DEF Finish
<1>2. Idle'
  BY <1>1 DEF Idle
<1>3. WorldTyped' /\ ImagesTyped'
  BY <1>1, <1>2 DEF ImageInv, WorldTyped, ImagesTyped, worldVars
<1>4. Told(config)' /\ TemplatesFit'
  BY <1>1, ToldStays DEF ImageInv, TemplatesFit
<1>5. JobOnCourse'
  BY <1>2 DEF JobOnCourse
<1>6. SaidIsTrue'
  <2>1. PICK c : c = config
    OBVIOUS
  <2>2. PICK d : d = Refresh(c, TRUE)
    OBVIOUS
  <2>3. /\ \A t \in AITools \ untold : ToolAsWanted(d, t)
        /\ "base" \notin untold => BaseAsWanted(d)
        /\ job.kind = "build" => untold \cap ({"base"} \cup Enabled(d)) = {}
    BY <1>1, <2>1, <2>2 DEF ImageInv, JobOnCourse
  <2>4. UNCHANGED worldVars
    BY <1>1
  <2>5. Refresh(c, TRUE)' = d /\ Want(d)' = Want(d)
    BY <2>2, <2>4, WorldStays
  <2>6. Refresh(config, TRUE)' = d
    BY <1>1, <2>1, <2>5
  <2>7. (\A t \in AITools \ untold : ToolAsWanted(d, t)') /\ ("base" \notin untold => BaseAsWanted(d)')
    BY <1>1, <2>3, <2>5 DEF ToolAsWanted, BaseAsWanted
  <2>8. said' = "built" => untold' \cap ({"base"} \cup Enabled(d)) = {}
    BY <1>1, <2>3
  <2> QED BY <1>1, <2>6, <2>7, <2>8 DEF SaidIsTrue, Enabled
<1> QED BY <1>3, <1>4, <1>5, <1>6 DEF ImageInv

LEMMA WriteTyped ==
  ASSUME WorldTyped, ImagesTyped, NEW c, IsToolConfig(c), NEW implicit
  PROVE  LET w == WriteTemplates(c, implicit) IN
           /\ w \in [base : {w.base}, version : [AITools -> Version]]
           /\ w.base = RenderBase(c, implicit)
           /\ \A t \in AITools : c.tools[t].enabled => w.version[t] = Rendered(c, t)
<1> DEFINE version == [t \in AITools |-> IF c.tools[t].enabled THEN Rendered(c, t) ELSE templates.version[t]]
<1>1. \A t \in AITools : Rendered(c, t) \in Version
  <2> TAKE t \in AITools
  <2>1. Latest(t) \in Version
    BY LatestKnown, ToolsAssumption DEF Tools
  <2>2. Desired(c.tools[t]) \in Version
    BY DesiredKnown DEF IsToolConfig, Tools
  <2> QED BY <2>1, <2>2 DEF Rendered
<1>2. version \in [AITools -> Version]
  BY <1>1 DEF ImagesTyped
<1>3. \A t \in AITools : c.tools[t].enabled => version[t] = Rendered(c, t)
  OBVIOUS
<1>4. WriteTemplates(c, implicit) = [base |-> RenderBase(c, implicit), version |-> version]
  BY DEF WriteTemplates
<1> HIDE DEF version
<1> QED BY <1>2, <1>3, <1>4

(* What a configuration tells of the images, another one tells that has the   *)
(* same of them.                                                             *)
LEMMA SameBuiltTold ==
  ASSUME ImagesTyped, NEW c, IsToolConfig(c), Told(c), NEW d, SameBuilt(c, d),
         \A t \in Tools : d.tools[t].mode = "off" => c.tools[t].mode = "off"
  PROVE  Told(d)
<1>1. OffNeverBuilt(d)
  BY DEF Told, OffNeverBuilt, SameBuilt
<1>2. NothingTold(d)
  BY DEF Told, NothingTold, SameBuilt, Tools
<1>3. ToolsTold(d)
  BY DEF Told, ToolsTold, SameBuilt, Tools
<1>4. BaseTold(d)
  <2>1. base # None /\ "go" \in DOMAIN base.langs => "go" \in Tools
    BY DEF ImagesTyped, IsBase, Tools
  <2> QED BY <2>1 DEF Told, BaseTold, SameBuilt
<1>5. Fits(d)
  <2>1. "typescript" \in DOMAIN c.implicit => "node" \in Tools
    <3>1. DOMAIN c.implicit \subseteq ServerNames
      BY DEF IsToolConfig, IsServers
    <3>2. "typescript" \in ServerNames => "node" \in Langs
      BY ToolsAssumption DEF ServerNames, ImplicitOf
    <3> QED BY <3>1, <3>2 DEF Tools
  <2> QED BY <2>1, SameBuiltFits DEF Told
<1> QED BY <1>1, <1>2, <1>3, <1>4, <1>5 DEF Told

(* What is rendered for a configuration that has its versions. *)
LEMMA RenderedFits ==
  ASSUME WorldTyped, NEW c, IsToolConfig(c), Known(c), Fits(c), NEW up \in BOOLEAN, NEW stale \in BOOLEAN,
         Complete(ResolveImplicit(c, Implicit(c), up, stale))
  PROVE  LET f == ResolveImplicit(c, Implicit(c), up, stale)
             b == RenderBase(c, f)
         IN  IsServers(f) /\ DOMAIN f = Implicit(c) /\ IsBase(b) /\ b # None
             /\ RunsOn(b.implicit, "typescript", b.node) /\ RunsOn(b.implicit, "pyright", b.node)
<1> DEFINE f == ResolveImplicit(c, Implicit(c), up, stale)
<1>1. IsServers(f) /\ DOMAIN f = Implicit(c)
  BY ImplicitServers, ResolveKnown
<1>2. RunsOn(f, "typescript", EffectiveBaseNodeVersion(c)) /\ RunsOn(f, "pyright", EffectiveBaseNodeVersion(c))
  BY WantedRuns
<1> HIDE DEF f
<1>3. /\ IsBase(RenderBase(c, f)) /\ RenderBase(c, f) # None
      /\ RenderBase(c, f).node = EffectiveBaseNodeVersion(c) /\ RenderBase(c, f).implicit = f
  BY <1>1, RenderKnown
<1> QED BY <1>1, <1>2, <1>3 DEF f

LEMMA ImageInvSave ==
  ASSUME ImageInv, NEW t \in Tools, NEW setting \in Settings[t], NEW up \in BOOLEAN, NEW written \in BOOLEAN,
         Save(t, setting, up, written)
  PROVE  ImageInv'
<1>0. setting \in Setting /\ WorldTyped /\ ImagesTyped /\ IsToolConfig(config)
  BY ImageAssumption DEF ImageInv, ImagesTyped
<1>1. PICK c : c = Loaded /\ IsToolConfig(c) /\ Told(c)
  <2>1. IsToolConfig(Loaded) /\ Told(Loaded)
    <3>1. CASE readable
      BY <1>0, <3>1 DEF Loaded, ImageInv
    <3>2. CASE ~readable
      BY <1>0, <3>2, FreshTyped, FreshTold DEF Loaded
    <3> QED BY <3>1, <3>2
  <2> QED BY <2>1
<1>2. PICK chosen : chosen = Choose(c, t, setting)
  OBVIOUS
<1>3. PICK cfg : cfg = Refresh(chosen, up)
  OBVIOUS
<1>4. PICK implicit : implicit = ResolveImplicit(cfg, Implicit(cfg), up, TRUE)
  OBVIOUS
<1>5. /\ Idle /\ CanRefresh(chosen, up, TRUE) /\ Complete(implicit)
      /\ setting.mode = "off" => c.tools[t].mode = "off"
      /\ config' = cfg /\ templates' = IF written THEN WriteTemplates(cfg, implicit) ELSE templates
      /\ said' = "" /\ UNCHANGED <<worldVars, base, child, job, untold>>
  BY <1>1, <1>2, <1>3, <1>4 DEF Save
<1>6. /\ IsToolConfig(chosen) /\ SameBuilt(c, chosen)
      /\ \A u \in Tools : chosen.tools[u].mode = IF u = t THEN setting.mode ELSE c.tools[u].mode
  BY <1>0, <1>1, <1>2, ChooseTyped
<1>7. IsToolConfig(cfg) /\ SameBuilt(chosen, cfg) /\ \A u \in Tools : cfg.tools[u].mode = chosen.tools[u].mode
  <2>1. IsToolConfig(cfg) /\ SameBuilt(chosen, cfg) /\ \A u \in Tools : cfg.tools[u] = Refreshed(u, chosen.tools[u], up)
    BY <1>0, <1>3, <1>6, RefreshTyped, RefreshSameBuilt
  <2>2. \A u \in Tools : chosen.tools[u] \in ToolStates
    BY <1>6 DEF IsToolConfig
  <2>3. \A u \in Tools : Refreshed(u, chosen.tools[u], up).mode = chosen.tools[u].mode
    BY <1>0, <2>2, RefreshedKeeps
  <2> QED BY <2>1, <2>3
<1>8. SameBuilt(c, cfg) /\ \A u \in Tools : cfg.tools[u].mode = "off" => c.tools[u].mode = "off"
  BY <1>5, <1>6, <1>7 DEF SameBuilt
<1>9. Told(cfg) /\ Fits(cfg) /\ Told(config)'
  <2>1. Told(cfg)
    BY <1>0, <1>1, <1>8, SameBuiltTold
  <2>2. /\ OffNeverBuilt(config)' = OffNeverBuilt(cfg) /\ NothingTold(config)' = NothingTold(cfg)
        /\ BaseTold(config)' = BaseTold(cfg) /\ ToolsTold(config)' = ToolsTold(cfg) /\ Fits(config)' = Fits(cfg)
    BY <1>5 DEF OffNeverBuilt, NothingTold, BaseTold, ToolsTold, Fits, RunsOn
  <2> QED BY <2>1, <2>2 DEF Told
<1>10. Known(cfg)
  BY <1>0, <1>3, <1>5, <1>6, RefreshKnown
<1>11. /\ IsBase(RenderBase(cfg, implicit)) /\ RenderBase(cfg, implicit) # None
       /\ RunsOn(RenderBase(cfg, implicit).implicit, "typescript", RenderBase(cfg, implicit).node)
       /\ RunsOn(RenderBase(cfg, implicit).implicit, "pyright", RenderBase(cfg, implicit).node)
  BY <1>0, <1>4, <1>5, <1>7, <1>9, <1>10, RenderedFits
<1>12. /\ templates' \in [base : {templates'.base}, version : [AITools -> Version]]
       /\ templates'.base \in {templates.base, RenderBase(cfg, implicit)}
  <2>1. CASE written
    BY <1>0, <1>5, <1>7, <2>1, WriteTyped
  <2>2. CASE ~written
    BY <1>0, <1>5, <2>2 DEF ImagesTyped
  <2> QED BY <2>1, <2>2
<1>13. WorldTyped' /\ Idle'
  BY <1>0, <1>5 DEF WorldTyped, worldVars, Idle
<1>14. ImagesTyped'
  BY <1>0, <1>5, <1>7, <1>11, <1>12, <1>13 DEF ImagesTyped
<1>16. TemplatesFit'
  BY <1>11, <1>12 DEF TemplatesFit, RunsOn, ImageInv
<1>17. JobOnCourse' /\ SaidIsTrue'
  BY <1>5, <1>13 DEF JobOnCourse, SaidIsTrue
<1> QED BY <1>9, <1>13, <1>14, <1>16, <1>17 DEF ImageInv

(* With no drift, what is built is what is wanted. *)
LEMMA NoDriftBuilt ==
  ASSUME ImageInv, NEW c, c = config, NEW d, d = Refresh(c, TRUE), Known(d),
         Complete(Want(d)), ~UpdatePlan(d, Want(d)).base, "base" \notin untold
  PROVE  BaseAsWanted(d)
<1>0. WorldTyped /\ IsToolConfig(c) /\ IsToolConfig(d) /\ SameBuilt(c, d)
  BY RefreshTyped, RefreshSameBuilt DEF ImageInv, ImagesTyped
<1>1. /\ \A l \in Langs : Included(d.tools[l]) => d.tools[l].container = Desired(d.tools[l])
      /\ BuiltBaseNodeVersion(d) = EffectiveBaseNodeVersion(d)
      /\ ImplicitDrift(d.implicit, Want(d)) = {}
  BY DEF UpdatePlan, BaseNodeDrift
<1>2. EffectiveBaseNodeVersion(d) # None
  BY <1>0, EffectiveKnown
<1>3. c.baseNode # None
  <2>1. SUFFICES ASSUME c.baseNode = None PROVE FALSE
    OBVIOUS
  <2>2. d.baseNode = None /\ \A l \in Langs : d.tools[l].container = None
    BY <1>0, <2>1 DEF ImageInv, Told, NothingTold, SameBuilt, Tools
  <2>3. BuiltBaseNodeVersion(d) = None
    BY <2>2 DEF BuiltBaseNodeVersion
  <2> QED BY <1>1, <1>2, <2>3
<1>4. base # None /\ d.baseNode = base.node /\ d.implicit = base.implicit /\ IsBase(base)
  BY <1>0, <1>3 DEF ImageInv, Told, BaseTold, ImagesTyped, SameBuilt
<1>5. base.node = EffectiveBaseNodeVersion(d)
  BY <1>1, <1>4 DEF BuiltBaseNodeVersion, IsBase
<1>6. base.implicit = Want(d)
  <2>1. IsServers(d.implicit)
    BY <1>0 DEF IsToolConfig
  <2>2. Want(d) = [name \in Implicit(d) |-> WithFallback(d, name, TRUE, FALSE)]
    BY DEF Want, ResolveImplicit
  <2>3. DOMAIN d.implicit = Implicit(d) /\ \A name \in Implicit(d) : d.implicit[name] = Want(d)[name]
    BY <1>1, <2>2 DEF ImplicitDrift
  <2>4. d.implicit = [name \in DOMAIN d.implicit |-> d.implicit[name]]
    BY <2>1 DEF IsServers
  <2> QED BY <1>4, <2>2, <2>3, <2>4
<1>7. ASSUME "go" \in Langs, Included(d.tools["go"])
      PROVE  "go" \in DOMAIN base.langs /\ base.langs["go"] = Desired(d.tools["go"])
  <2>1. Desired(d.tools["go"]) # None /\ d.tools["go"].container = Desired(d.tools["go"])
    BY <1>1, <1>7 DEF Known, Tools
  <2>2. Counts(d, "go") /\ "gopls" \in ImplicitOf("go")
    BY <1>7, <2>1 DEF Counts, Included, ImplicitOf
  <2>3. "gopls" \in DOMAIN base.implicit
    BY <1>6, <1>7, <2>2 DEF Want, ResolveImplicit, Implicit
  <2>4. config.tools["go"].container = d.tools["go"].container
    BY <1>0, <1>7 DEF SameBuilt, Tools
  <2> QED BY <1>3, <2>1, <2>3, <2>4 DEF ImageInv, Told, BaseTold
<1> QED BY <1>4, <1>5, <1>6, <1>7 DEF BaseAsWanted

LEMMA NoPlanBuilt ==
  ASSUME ImageInv, NEW c, c = config, NEW d, d = Refresh(c, TRUE), Known(d),
         NEW t \in AITools \ untold, t \notin UpdatePlan(d, Want(d)).tools
  PROVE  ToolAsWanted(d, t)
<1>1. SUFFICES ASSUME Included(d.tools[t]) PROVE child[t].version = Desired(d.tools[t])
  BY DEF ToolAsWanted
<1>2. d.tools[t].container = Desired(d.tools[t]) /\ Desired(d.tools[t]) # None
  BY <1>1 DEF UpdatePlan, Known, Tools
<1>3. d.tools[t].container = config.tools[t].container
  BY RefreshSameBuilt DEF SameBuilt, Tools, ImageInv, ImagesTyped
<1> QED BY <1>2, <1>3 DEF ImageInv, Told, ToolsTold

LEMMA ImageInvBegin ==
  ASSUME ImageInv, NEW kind \in {"build", "update"}, Begin(kind)
  PROVE  ImageInv'
<1>0. WorldTyped /\ ImagesTyped /\ IsToolConfig(config)
  BY DEF ImageInv, ImagesTyped
<1>1. PICK c : c = config
  OBVIOUS
<1>2. PICK cfg : cfg = Refresh(c, TRUE)
  OBVIOUS
<1>3. PICK implicit : implicit = ResolveImplicit(cfg, Implicit(cfg), TRUE, FALSE)
  OBVIOUS
<1>4. PICK plan : plan = IF kind = "build" THEN [base |-> TRUE, tools |-> {}] ELSE UpdatePlan(cfg, implicit)
  OBVIOUS
<1>5. /\ Idle /\ CanRefresh(config, TRUE, FALSE) /\ Complete(implicit)
      /\ IF plan.base \/ plan.tools # {}
         THEN /\ templates' = WriteTemplates(cfg, implicit)
              /\ job' = [kind |-> kind, cfg |-> cfg, implicit |-> implicit, base |-> plan.base, built |-> {},
                         left |-> IF plan.base THEN Enabled(cfg) \cup Customs ELSE plan.tools]
              /\ said' = ""
         ELSE templates' = templates /\ job' = job /\ said' = "match"
      /\ UNCHANGED <<worldVars, config, base, child, untold>>
  BY <1>1, <1>2, <1>3, <1>4 DEF Begin
<1>6. implicit = Want(cfg)
  BY <1>3 DEF Want
<1>7. IsToolConfig(cfg) /\ SameBuilt(c, cfg) /\ Known(cfg) /\ Refresh(cfg, TRUE) = cfg
  BY <1>0, <1>1, <1>2, <1>5, RefreshTyped, RefreshSameBuilt, RefreshKnown, RefreshTwice
<1>8. Fits(cfg)
  <2>1. "typescript" \in DOMAIN c.implicit => "node" \in Tools
    <3>1. DOMAIN c.implicit \subseteq ServerNames
      BY <1>0, <1>1 DEF IsToolConfig, IsServers
    <3>2. "typescript" \in ServerNames => "node" \in Langs
      BY ToolsAssumption DEF ServerNames, ImplicitOf
    <3> QED BY <3>1, <3>2 DEF Tools
  <2> QED BY <1>1, <1>7, <2>1, SameBuiltFits DEF ImageInv, Told
<1>9. /\ IsServers(implicit) /\ IsBase(RenderBase(cfg, implicit)) /\ RenderBase(cfg, implicit) # None
      /\ RunsOn(RenderBase(cfg, implicit).implicit, "typescript", RenderBase(cfg, implicit).node)
      /\ RunsOn(RenderBase(cfg, implicit).implicit, "pyright", RenderBase(cfg, implicit).node)
  BY <1>0, <1>3, <1>5, <1>7, <1>8, RenderedFits
<1>10. WorldTyped' /\ Told(config)'
  BY <1>0, <1>5, ToldStays DEF ImageInv, WorldTyped, worldVars
<1>11. UNCHANGED worldVars /\ Refresh(config, TRUE)' = cfg /\ Want(cfg)' = implicit
  <2>1. UNCHANGED worldVars
    BY <1>5
  <2>2. Refresh(c, TRUE)' = cfg /\ Want(cfg)' = implicit
    BY <1>2, <1>6, <2>1, WorldStays
  <2> QED BY <1>1, <1>5, <2>1, <2>2
<1>12. kind = "update" => plan = UpdatePlan(cfg, Want(cfg))
  BY <1>4, <1>6
<1>13. ~plan.base => ("base" \in untold \/ BaseAsWanted(cfg)) /\ kind = "update"
  BY <1>1, <1>2, <1>4, <1>5, <1>6, <1>7, <1>12, NoDriftBuilt
<1>14. kind = "update" => \A t \in AITools \ plan.tools : t \in untold \/ ToolAsWanted(cfg, t)
  BY <1>1, <1>2, <1>7, <1>12, NoPlanBuilt
<1>15. CASE plan.base \/ plan.tools # {}
  <2> DEFINE left == IF plan.base THEN Enabled(cfg) \cup Customs ELSE plan.tools
  <2>1. /\ templates' = WriteTemplates(cfg, implicit) /\ said' = ""
        /\ job' = [kind |-> kind, cfg |-> cfg, implicit |-> implicit, base |-> plan.base, built |-> {}, left |-> left]
    BY <1>5, <1>15
  <2>2. plan.base \in BOOLEAN /\ plan.tools \subseteq Enabled(cfg)
    BY <1>4 DEF UpdatePlan, Enabled, Included
  <2>3. left \subseteq Children /\ left \cap AITools \subseteq Enabled(cfg) /\ (plan.base => Enabled(cfg) \subseteq left) /\ (~plan.base => left = plan.tools)
    BY <2>2, ImageAssumption DEF Children, Enabled
  <2> HIDE DEF left
  <2>4. ~Idle' /\ IsJob(job')
    <3>1. ~Idle'
      BY <2>1 DEF Idle, NoJob
    <3> QED BY <1>7, <1>9, <2>1, <2>2, <2>3, <3>1 DEF IsJob
  <2>5. /\ templates' \in [base : {templates'.base}, version : [AITools -> Version]]
        /\ templates'.base = RenderBase(cfg, implicit)
        /\ \A t \in AITools : cfg.tools[t].enabled => templates'.version[t] = Rendered(cfg, t)
    BY <1>0, <1>7, <2>1, WriteTyped
  <2>6. ImagesTyped'
    BY <1>0, <1>5, <1>9, <2>1, <2>4, <2>5 DEF ImagesTyped
  <2>7. TemplatesFit'
    BY <1>9, <2>5 DEF TemplatesFit, RunsOn
  <2>8. \A t \in AITools : Rendered(cfg, t)' = Rendered(cfg, t)
    BY <1>11, WorldStays
  <2>9. \A t \in AITools \ left : t \in untold \/ ToolAsWanted(cfg, t)'
    <3>1. ASSUME NEW t \in AITools \ left PROVE t \in untold \/ ToolAsWanted(cfg, t)
      <4>1. CASE plan.base
        BY <2>3, <3>1, <4>1 DEF ToolAsWanted, Included, Enabled
      <4>2. CASE ~plan.base
        BY <1>13, <1>14, <2>3, <3>1, <4>2
      <4> QED BY <4>1, <4>2
    <3> QED BY <1>5, <3>1 DEF ToolAsWanted
  <2>10. plan.base \/ "base" \in untold \/ BaseAsWanted(cfg)'
    BY <1>5, <1>6, <1>11, <1>13 DEF BaseAsWanted
  <2>11. JobOnCourse'
    <3>1. /\ said' = "" /\ job'.cfg = Refresh(config, TRUE)' /\ job'.cfg = cfg /\ job'.implicit = Want(cfg)' /\ Complete(job'.implicit)
          /\ job'.left = left /\ job'.base = plan.base /\ job'.implicit = implicit /\ job'.built = {} /\ untold' = untold /\ job'.kind = kind
      BY <1>5, <1>11, <2>1
    <3>2. \A t \in Tools : Included(cfg.tools[t]) => Desired(cfg.tools[t]) # None
      BY <1>7 DEF Known
    <3>3. templates'.base = RenderBase(cfg, implicit) /\ \A t \in AITools : cfg.tools[t].enabled => templates'.version[t] = Rendered(cfg, t)'
      BY <2>5, <2>8
    <3>4. left \cap AITools \subseteq Enabled(cfg)
      BY <2>3
    <3>5. kind = "build" => {"base"} \cup Enabled(cfg) \subseteq (IF plan.base THEN {"base"} ELSE {}) \cup (left \cap AITools)
      BY <1>4, <2>3 DEF Enabled
    <3> QED BY <2>9, <2>10, <3>1, <3>2, <3>3, <3>4, <3>5 DEF JobOnCourse, Enabled
  <2>12. SaidIsTrue'
    BY <2>1 DEF SaidIsTrue
  <2> QED BY <1>10, <2>6, <2>7, <2>11, <2>12 DEF ImageInv
<1>16. CASE ~plan.base /\ plan.tools = {}
  <2>1. templates' = templates /\ job' = job /\ said' = "match"
    BY <1>5, <1>16
  <2>2. Idle'
    BY <1>5, <2>1 DEF Idle
  <2>3. ImagesTyped'
    BY <1>0, <1>5, <2>1, <2>2 DEF ImagesTyped
  <2>4. TemplatesFit' /\ JobOnCourse'
    BY <2>1, <2>2 DEF ImageInv, TemplatesFit, JobOnCourse
  <2>5. SaidIsTrue'
    <3>1. (\A t \in AITools \ untold : ToolAsWanted(cfg, t)) /\ ("base" \notin untold => BaseAsWanted(cfg))
      BY <1>13, <1>14, <1>16
    <3>2. (\A t \in AITools \ untold : ToolAsWanted(cfg, t)') /\ ("base" \notin untold => BaseAsWanted(cfg)')
      BY <1>5, <1>6, <1>11, <3>1 DEF ToolAsWanted, BaseAsWanted
    <3> QED BY <1>5, <1>11, <2>1, <3>2 DEF SaidIsTrue
  <2> QED BY <1>10, <2>3, <2>4, <2>5 DEF ImageInv
<1> QED BY <1>15, <1>16

(* The configuration a job works on, while it runs. *)
LEMMA JobConfig ==
  ASSUME ImageInv, ~Idle, NEW j, j = job.cfg
  PROVE  /\ IsToolConfig(j) /\ IsToolConfig(config) /\ SameBuilt(config, j) /\ Known(j) /\ Refresh(j, TRUE) = j
         /\ \A t \in Tools : j.tools[t] \in ToolStates
         /\ \A t \in Tools : ~Included(j.tools[t]) /\ j.tools[t].enabled => j.tools[t].container = None
         /\ \A t \in Tools : j.tools[t].mode = "off" => j.tools[t].container = None
         /\ IsServers(job.implicit) /\ job.implicit = Want(j) /\ DOMAIN job.implicit = Implicit(j)
<1>0. WorldTyped /\ ImagesTyped /\ JobOnCourse /\ OffNeverBuilt(config)
  BY DEF ImageInv, Told
<1>1. IsToolConfig(config) /\ IsToolConfig(j) /\ IsServers(job.implicit)
  BY <1>0 DEF ImagesTyped, IsJob
<1>2. PICK c : c = config
  OBVIOUS
<1>3. j = Refresh(c, TRUE)
  BY <1>0, <1>2 DEF JobOnCourse
<1>4. SameBuilt(config, j) /\ Refresh(j, TRUE) = j
  BY <1>0, <1>1, <1>2, <1>3, RefreshSameBuilt, RefreshTwice
<1>5. Known(j) /\ job.implicit = Want(j)
  BY <1>0 DEF JobOnCourse, Known
<1>6. \A t \in Tools : j.tools[t] \in ToolStates
  BY <1>1 DEF IsToolConfig
<1>7. \A t \in Tools : j.tools[t].mode = "off" => j.tools[t].container = None
  <2> TAKE t \in Tools
  <2>1. c.tools[t] \in ToolStates /\ j.tools[t] = Refreshed(t, c.tools[t], TRUE)
    BY <1>0, <1>1, <1>2, <1>3, RefreshTyped DEF IsToolConfig
  <2>2. j.tools[t].mode = c.tools[t].mode /\ j.tools[t].container = c.tools[t].container
    <3>1. /\ Refreshed(t, c.tools[t], TRUE).mode = c.tools[t].mode
          /\ Refreshed(t, c.tools[t], TRUE).container = c.tools[t].container
      BY <1>0, <2>1, RefreshedKeeps
    <3> QED BY <2>1, <3>1
  <2> QED BY <1>0, <1>2, <2>2 DEF OffNeverBuilt
<1>8. \A t \in Tools : ~Included(j.tools[t]) /\ j.tools[t].enabled => j.tools[t].mode = "off"
  BY DEF Included
<1>9. DOMAIN job.implicit = Implicit(j)
  BY <1>5 DEF Want, ResolveImplicit
<1> QED BY <1>1, <1>4, <1>5, <1>6, <1>7, <1>8, <1>9

(* The base that the templates of a job render is what it works towards. *)
LEMMA JobBase ==
  ASSUME ImageInv, ~Idle, NEW j, j = job.cfg, NEW b, b = templates.base
  PROVE  /\ IsBase(b) /\ b # None /\ b.node = EffectiveBaseNodeVersion(j) /\ b.implicit = job.implicit
         /\ DOMAIN b.langs = {k \in Langs \ {"node"} : j.tools[k].enabled}
         /\ \A k \in Langs \ {"node", "python"} : j.tools[k].enabled => b.langs[k] = Desired(j.tools[k])
         /\ "go" \in Langs /\ Included(j.tools["go"]) => "go" \in DOMAIN b.langs /\ b.langs["go"] = Desired(j.tools["go"])
<1>1. PICK implicit : implicit = job.implicit
  OBVIOUS
<1>2. IsToolConfig(j) /\ Known(j) /\ IsServers(implicit) /\ DOMAIN implicit = Implicit(j)
  BY <1>1, JobConfig
<1>3. WorldTyped /\ b = RenderBase(j, implicit)
  BY <1>1 DEF ImageInv, JobOnCourse
<1>4. /\ IsBase(b) /\ b # None /\ b.node = EffectiveBaseNodeVersion(j) /\ b.implicit = implicit
      /\ DOMAIN b.langs = {k \in Langs \ {"node"} : j.tools[k].enabled}
      /\ \A k \in Langs \ {"node", "python"} : j.tools[k].enabled => b.langs[k] = Desired(j.tools[k])
  BY <1>2, <1>3, RenderKnown
<1> QED BY <1>1, <1>4 DEF Included

LEMMA ImageInvBuildBase == ASSUME ImageInv, BuildBase PROVE ImageInv'
<1>1. PICK j : j = job.cfg
  OBVIOUS
<1>2. /\ ~Idle /\ job.base /\ base' = templates.base
      /\ job' = [job EXCEPT !.base = FALSE, !.built = @ \cup {"base"}]
      /\ untold' = untold \cup {"base"}
      /\ UNCHANGED <<worldVars, config, templates, child, said>>
  BY DEF BuildBase
<1>3. PICK b : b = base'
  OBVIOUS
<1>4. /\ IsBase(b) /\ b # None /\ b.node = EffectiveBaseNodeVersion(j) /\ b.implicit = job.implicit
      /\ "go" \in Langs /\ Included(j.tools["go"]) => "go" \in DOMAIN b.langs /\ b.langs["go"] = Desired(j.tools["go"])
  BY <1>1, <1>2, <1>3, JobBase
<1>5. WorldTyped /\ ImagesTyped /\ JobOnCourse /\ Told(config) /\ IsJob(job)
  BY <1>2 DEF ImageInv, ImagesTyped
<1>6. /\ ~Idle' /\ IsJob(job') /\ job'.cfg = j /\ job'.base = FALSE /\ job'.left = job.left /\ job'.implicit = job.implicit
      /\ job'.kind = job.kind /\ job'.built = job.built \cup {"base"}
  <2>1. job' \in [kind : {"build", "update"}, cfg : {job'.cfg}, implicit : {job'.implicit}, base : BOOLEAN,
                  built : SUBSET ({"base"} \cup AITools), left : SUBSET Children]
        /\ job'.cfg = j /\ job'.base = FALSE /\ job'.left = job.left /\ job'.implicit = job.implicit
        /\ job'.kind = job.kind /\ job'.built = job.built \cup {"base"}
    BY <1>1, <1>2, <1>5 DEF IsJob
  <2>2. ~Idle'
    <3>1. job'.kind \in {"build", "update"}
      BY <2>1
    <3> QED BY <3>1 DEF Idle, NoJob
  <2> QED BY <1>1, <1>5, <2>1, <2>2 DEF IsJob
<1>7. WorldTyped' /\ ImagesTyped'
  <2>1. WorldTyped'
    BY <1>2, <1>5 DEF WorldTyped, worldVars
  <2>2. ImagesTyped'
    BY <1>2, <1>3, <1>4, <1>5, <1>6 DEF ImagesTyped
  <2> QED BY <2>1, <2>2
(* config.json does not tell of the new base. *)
<1>8. Told(config)'
  <2>1. OffNeverBuilt(config)' /\ NothingTold(config)'
    BY <1>2, <1>5 DEF Told, OffNeverBuilt, NothingTold
  <2>2. BaseTold(config)'
    BY <1>2, <1>3, <1>4 DEF BaseTold
  <2>3. ToolsTold(config)'
    BY <1>2, <1>5 DEF Told, ToolsTold
  <2>4. Fits(config)'
    BY <1>2, <1>5 DEF Told, Fits, RunsOn
  <2> QED BY <2>1, <2>2, <2>3, <2>4 DEF Told
<1>9. TemplatesFit'
  BY <1>2 DEF TemplatesFit, ImageInv
<1>10. PICK c : c = config
  OBVIOUS
<1>11. PICK implicit : implicit = job.implicit
  OBVIOUS
<1>12. /\ Refresh(config, TRUE)' = j /\ Want(j)' = implicit /\ implicit = Want(j)
       /\ \A t \in AITools : Rendered(j, t)' = Rendered(j, t)
  <2>1. UNCHANGED worldVars
    BY <1>2
  <2>2. Refresh(c, TRUE) = j /\ Want(j) = implicit
    BY <1>1, <1>2, <1>5, <1>10, <1>11 DEF JobOnCourse
  <2>3. Refresh(c, TRUE)' = j /\ Want(j)' = implicit /\ \A t \in AITools : Rendered(j, t)' = Rendered(j, t)
    BY <2>1, <2>2, WorldStays
  <2> QED BY <1>2, <1>10, <2>2, <2>3
<1>13. JobOnCourse'
  <2>1. /\ said' = "" /\ Complete(implicit) /\ templates'.base = RenderBase(j, implicit)
        /\ \A t \in Tools : Included(j.tools[t]) => Desired(j.tools[t]) # None
        /\ \A t \in AITools : j.tools[t].enabled => templates'.version[t] = Rendered(j, t)'
        /\ job'.left \cap AITools \subseteq Enabled(j)
    BY <1>1, <1>2, <1>5, <1>6, <1>11, <1>12 DEF JobOnCourse
  <2>2. \A t \in AITools \ job'.left : t \in untold' \ job'.built \/ ToolAsWanted(j, t)'
    <3>1. \A t \in AITools \ job.left : t \in untold \ job.built \/ ToolAsWanted(j, t)
      BY <1>1, <1>2, <1>5 DEF JobOnCourse
    <3>2. \A t \in AITools : t # "base"
      BY ImageAssumption
    <3> QED BY <1>2, <1>6, <3>1, <3>2 DEF ToolAsWanted
  <2>3. BaseAsWanted(j)'
    BY <1>3, <1>4, <1>11, <1>12 DEF BaseAsWanted
  <2>4. base' = templates'.base
    BY <1>2
  <2>5. \A t \in AITools \cap job'.built : j.tools[t].enabled /\ child'[t].version = templates'.version[t]
    <3>1. \A t \in AITools \cap job.built : j.tools[t].enabled /\ child[t].version = templates.version[t]
      BY <1>1, <1>2, <1>5 DEF JobOnCourse
    <3>2. "base" \notin AITools
      BY ImageAssumption
    <3> QED BY <1>2, <1>6, <3>1, <3>2
  <2>6. job'.kind = "build" =>
          untold' \cap ({"base"} \cup Enabled(j)) \subseteq (IF job'.base THEN {"base"} ELSE {}) \cup (job'.left \cap AITools) \cup job'.built
    <3>1. job.kind = "build" =>
            untold \cap ({"base"} \cup Enabled(j)) \subseteq (IF job.base THEN {"base"} ELSE {}) \cup (job.left \cap AITools) \cup job.built
      BY <1>1, <1>2, <1>5 DEF JobOnCourse
    <3> QED BY <1>2, <1>6, <3>1
  <2> QED BY <1>6, <1>11, <1>12, <2>1, <2>2, <2>3, <2>4, <2>5, <2>6 DEF JobOnCourse, Enabled
<1>14. SaidIsTrue'
  <2>1. said' = ""
    BY <1>2, <1>5 DEF JobOnCourse
  <2> QED BY <2>1 DEF SaidIsTrue
<1> QED BY <1>7, <1>8, <1>9, <1>13, <1>14 DEF ImageInv

(* A save that tells of what was built keeps a job on its course. *)
LEMMA SavedOnCourse ==
  ASSUME ImageInv, ~Idle, UNCHANGED <<worldVars, templates, base, child, said>>,
         NEW j, j = job.cfg, NEW d, IsToolConfig(d), SameWants(j, d), config' = d,
         NEW x \in job.built, untold' = untold \ {x}, job' = [job EXCEPT !.built = @ \ {x}, !.cfg = d]
  PROVE  ~Idle' /\ IsJob(job') /\ JobOnCourse'
<1>1. IsToolConfig(j) /\ Known(j) /\ Refresh(j, TRUE) = j /\ IsServers(job.implicit)
  BY JobConfig
<1>2. IsJob(job)
  BY DEF ImageInv, ImagesTyped
<1>3. /\ job' \in [kind : {"build", "update"}, cfg : {job'.cfg}, implicit : {job'.implicit}, base : BOOLEAN,
                   built : SUBSET ({"base"} \cup AITools), left : SUBSET Children]
      /\ job'.cfg = d /\ job'.base = job.base /\ job'.left = job.left /\ job'.implicit = job.implicit
      /\ job'.kind = job.kind /\ job'.built = job.built \ {x}
  BY <1>2 DEF IsJob
<1>4. ~Idle'
  <2>1. job'.kind \in {"build", "update"}
    BY <1>3
  <2> QED BY <2>1 DEF Idle, NoJob
<1>5. IsJob(job')
  BY <1>1, <1>3 DEF IsJob
<1>6. PICK implicit : implicit = job.implicit
  OBVIOUS
<1>7. /\ \A t \in Tools : Desired(j.tools[t]) = Desired(d.tools[t]) /\ Included(j.tools[t]) = Included(d.tools[t])
      /\ EffectiveBaseNodeVersion(j) = EffectiveBaseNodeVersion(d) /\ Want(j) = Want(d)
      /\ RenderBase(j, implicit) = RenderBase(d, implicit)
      /\ \A t \in AITools : Rendered(j, t) = Rendered(d, t) /\ j.tools[t].enabled = d.tools[t].enabled
  BY SameWanted
<1>8. /\ said = "" /\ implicit = Want(j) /\ Complete(implicit) /\ templates.base = RenderBase(j, implicit)
      /\ \A t \in AITools : j.tools[t].enabled => templates.version[t] = Rendered(j, t)
      /\ job.left \cap AITools \subseteq Enabled(j)
  BY <1>6 DEF ImageInv, JobOnCourse
<1>9. Refresh(d, TRUE)' = d /\ Want(d)' = implicit /\ \A t \in AITools : Rendered(d, t)' = Rendered(d, t)
  <2>1. Refresh(d, TRUE) = d
    BY <1>1, RefreshedStays
  <2> QED BY <1>7, <1>8, <2>1, WorldStays
<1>10. \A t \in Tools : Included(d.tools[t]) => Desired(d.tools[t]) # None
  BY <1>1, <1>7 DEF Known
<1>11. templates'.base = RenderBase(d, implicit) /\ \A t \in AITools : d.tools[t].enabled => templates'.version[t] = Rendered(d, t)'
  BY <1>7, <1>8, <1>9
<1>12. Enabled(d) = Enabled(j)
  BY <1>7 DEF Enabled
<1>13. \A t \in AITools \cap job.built : j.tools[t].enabled /\ child[t].version = templates.version[t]
  BY DEF ImageInv, JobOnCourse
<1>14. \A t \in AITools \ job'.left : t \in untold' \ job'.built \/ ToolAsWanted(d, t)'
  <2>1. ASSUME NEW t \in AITools \ job.left PROVE t \in untold' \ job'.built \/ ToolAsWanted(d, t)
    <3>1. t \in Tools /\ (ToolAsWanted(j, t) => ToolAsWanted(d, t))
      BY <1>7 DEF ToolAsWanted, Tools
    <3>2. CASE t = x
      <4>1. j.tools[t].enabled /\ child[t].version = Rendered(j, t)
        BY <1>8, <1>13, <3>2
      <4>2. ToolAsWanted(j, t)
        BY <1>1, <3>1, <4>1 DEF ToolAsWanted, Rendered, Known
      <4> QED BY <3>1, <4>2
    <3>3. CASE t # x
      <4>1. t \in untold \ job.built \/ ToolAsWanted(j, t)
        BY DEF ImageInv, JobOnCourse
      <4> QED BY <1>3, <3>1, <3>3, <4>1
    <3> QED BY <3>2, <3>3
  <2> QED BY <1>3, <2>1 DEF ToolAsWanted
<1>15. job'.base \/ "base" \in untold' \ job'.built \/ BaseAsWanted(d)'
  <2>1. "go" \in Langs => "go" \in Tools
    BY DEF Tools
  <2>2. BaseAsWanted(j) => BaseAsWanted(d)'
    BY <1>7, <1>8, <1>9, <2>1 DEF BaseAsWanted
  <2>3. CASE x = "base"
    <3>1. PICK b : b = templates.base /\ base = b
      BY <2>3 DEF ImageInv, JobOnCourse
    <3>2. /\ b # None /\ b.node = EffectiveBaseNodeVersion(j) /\ b.implicit = implicit
          /\ "go" \in Langs /\ Included(j.tools["go"]) => "go" \in DOMAIN b.langs /\ b.langs["go"] = Desired(j.tools["go"])
      BY <1>6, <3>1, JobBase
    <3> QED BY <1>8, <2>2, <3>1, <3>2 DEF BaseAsWanted
  <2>4. CASE x # "base"
    <3>1. job.base \/ "base" \in untold \ job.built \/ BaseAsWanted(j)
      BY DEF ImageInv, JobOnCourse
    <3> QED BY <1>3, <2>2, <2>4, <3>1
  <2> QED BY <2>3, <2>4
<1>16. "base" \in job'.built => base' = templates'.base
  BY <1>3 DEF ImageInv, JobOnCourse
<1>17. \A t \in AITools \cap job'.built : d.tools[t].enabled /\ child'[t].version = templates'.version[t]
  BY <1>3, <1>7, <1>13
<1>18. job'.kind = "build" =>
         untold' \cap ({"base"} \cup Enabled(d)) \subseteq (IF job'.base THEN {"base"} ELSE {}) \cup (job'.left \cap AITools) \cup job'.built
  <2>1. job.kind = "build" =>
          untold \cap ({"base"} \cup Enabled(j)) \subseteq (IF job.base THEN {"base"} ELSE {}) \cup (job.left \cap AITools) \cup job.built
    BY DEF ImageInv, JobOnCourse
  <2> QED BY <1>3, <1>12, <2>1
<1>19. Refresh(config, TRUE)' = d /\ said' = "" /\ job'.left \cap AITools \subseteq Enabled(d)
  BY <1>3, <1>8, <1>9, <1>12
<1>20. JobOnCourse'
  BY <1>3, <1>6, <1>8, <1>9, <1>10, <1>11, <1>14, <1>15, <1>16, <1>17, <1>18, <1>19 DEF JobOnCourse, Enabled
<1> QED BY <1>4, <1>5, <1>20

LEMMA ImageInvSaveBase == ASSUME ImageInv, SaveBase PROVE ImageInv'
<1>1. PICK j : j = job.cfg
  OBVIOUS
<1>2. PICK implicit : implicit = job.implicit
  OBVIOUS
<1>3. PICK d : d = BaseBuilt(j, implicit)
  OBVIOUS
<1>4. /\ ~Idle /\ "base" \in job.built /\ config' = d
      /\ job' = [job EXCEPT !.built = @ \ {"base"}, !.cfg = d] /\ untold' = untold \ {"base"}
      /\ UNCHANGED <<worldVars, templates, base, child, said>>
  BY <1>1, <1>2, <1>3 DEF SaveBase
<1>5. /\ IsToolConfig(j) /\ SameBuilt(config, j) /\ Known(j)
      /\ \A t \in Tools : j.tools[t] \in ToolStates
      /\ \A t \in Tools : ~Included(j.tools[t]) /\ j.tools[t].enabled => j.tools[t].container = None
      /\ \A t \in Tools : j.tools[t].mode = "off" => j.tools[t].container = None
      /\ IsServers(implicit) /\ DOMAIN implicit = Implicit(j)
  BY <1>1, <1>2, <1>4, JobConfig
<1>6. EffectiveBaseNodeVersion(j) \in Version \ {None}
  BY <1>5, EffectiveKnown
<1>7. /\ IsToolConfig(d) /\ SameWants(j, d) /\ d.implicit = implicit /\ d.baseNode = EffectiveBaseNodeVersion(j)
      /\ \A l \in Langs : d.tools[l] = RefreshContainerVersion(j.tools[l])
      /\ \A t \in AITools : d.tools[t] = j.tools[t]
  BY <1>3, <1>5, <1>6, BaseBuiltTyped
<1>8. \A l \in Langs : /\ d.tools[l].mode = j.tools[l].mode
                       /\ Included(j.tools[l]) => d.tools[l].container = Desired(j.tools[l])
                       /\ ~Included(j.tools[l]) => d.tools[l] = j.tools[l]
  BY <1>5, <1>7, ContainerBuilt DEF Known, Tools
<1>9. WorldTyped /\ ImagesTyped /\ said = "" /\ base = templates.base
  BY <1>4 DEF ImageInv, JobOnCourse
<1>10. /\ IsBase(base) /\ base # None /\ base.node = EffectiveBaseNodeVersion(j) /\ base.implicit = implicit
       /\ DOMAIN base.langs = {k \in Langs \ {"node"} : j.tools[k].enabled}
       /\ \A k \in Langs \ {"node", "python"} : j.tools[k].enabled => base.langs[k] = Desired(j.tools[k])
  <2>1. PICK b : b = templates.base /\ base = b
    BY <1>9
  <2>2. /\ IsBase(b) /\ b # None /\ b.node = EffectiveBaseNodeVersion(j) /\ b.implicit = job.implicit
        /\ DOMAIN b.langs = {k \in Langs \ {"node"} : j.tools[k].enabled}
        /\ \A k \in Langs \ {"node", "python"} : j.tools[k].enabled => b.langs[k] = Desired(j.tools[k])
    BY <1>1, <1>4, <2>1, JobBase
  <2> QED BY <1>2, <2>1, <2>2
<1>11. ~Idle' /\ IsJob(job') /\ JobOnCourse'
  BY <1>1, <1>4, <1>7, SavedOnCourse
<1>12. WorldTyped'
  BY <1>4, <1>9 DEF WorldTyped, worldVars
<1>13. ImagesTyped'
  BY <1>4, <1>7, <1>9, <1>11 DEF ImagesTyped
<1>14. OffNeverBuilt(d)
  BY <1>5, <1>7, <1>8 DEF OffNeverBuilt, Tools, Included
<1>15. NothingTold(d)
  BY <1>6, <1>7 DEF NothingTold
<1>17. \A t \in AITools \ untold : d.tools[t].container # None => d.tools[t].container = child[t].version
  BY <1>5, <1>7 DEF ImageInv, Told, ToolsTold, SameBuilt, Tools
<1>18. Fits(d)
  <2>1. RunsOn(implicit, "typescript", EffectiveBaseNodeVersion(j)) /\ RunsOn(implicit, "pyright", EffectiveBaseNodeVersion(j))
    BY <1>4, <1>9, <1>10 DEF ImageInv, TemplatesFit, RunsOn
  <2>2. ASSUME "typescript" \in DOMAIN implicit PROVE d.tools["node"].container \in {None, EffectiveBaseNodeVersion(j)}
    <3>1. PICK l \in Langs : Counts(j, l) /\ "typescript" \in ImplicitOf(l)
      BY <1>5, <2>2 DEF Implicit
    <3>2. l = "node"
      BY <3>1, ToolsAssumption DEF ImplicitOf
    <3>3. EffectiveBaseNodeVersion(j) = Desired(j.tools["node"]) /\ j.tools["node"].enabled
      BY <3>1, <3>2 DEF EffectiveBaseNodeVersion, Counts
    <3> QED BY <1>5, <1>8, <3>1, <3>2, <3>3 DEF Tools
  <2> QED BY <1>6, <1>7, <2>1, <2>2 DEF Fits
<1>19. Told(config)'
  <2>1. OffNeverBuilt(config)' /\ NothingTold(config)' /\ Fits(config)'
    BY <1>4, <1>14, <1>15, <1>18 DEF OffNeverBuilt, NothingTold, Fits, RunsOn
  <2>2. BaseTold(config)'
    <3>1. d.baseNode = base.node /\ d.implicit = base.implicit
      BY <1>7, <1>10
    <3>2. "go" \in DOMAIN base.langs => d.tools["go"].container \in {None, base.langs["go"]}
      BY <1>5, <1>8, <1>10 DEF Tools
    <3>3. "gopls" \in DOMAIN base.implicit => "go" \in DOMAIN base.langs
      <4>1. ASSUME "gopls" \in DOMAIN implicit PROVE "go" \in DOMAIN base.langs
        <5>1. PICK l \in Langs : Counts(j, l) /\ "gopls" \in ImplicitOf(l)
          BY <1>5, <4>1 DEF Implicit
        <5>2. l = "go"
          BY <5>1, ToolsAssumption DEF ImplicitOf
        <5> QED BY <1>10, <5>1, <5>2 DEF Counts
      <4> QED BY <1>10, <4>1
    <3> QED BY <1>4, <1>10, <3>1, <3>2, <3>3 DEF BaseTold
  <2>3. ToolsTold(config)'
    <3>1. \A t \in AITools : t # "base"
      BY ImageAssumption
    <3> QED BY <1>4, <1>17, <3>1 DEF ToolsTold
  <2> QED BY <2>1, <2>2, <2>3 DEF Told
<1>20. TemplatesFit' /\ SaidIsTrue'
  BY <1>4, <1>9 DEF TemplatesFit, SaidIsTrue, ImageInv
<1> QED BY <1>11, <1>12, <1>13, <1>19, <1>20 DEF ImageInv

LEMMA ImageInvBuildChild ==
  ASSUME ImageInv, NEW t \in Children, BuildChild(t)
  PROVE  ImageInv'
<1>1. PICK j : j = job.cfg
  OBVIOUS
<1>2. PICK version : version = (IF t \in AITools THEN templates.version[t] ELSE None)
  OBVIOUS
<1>3. /\ ~Idle /\ ~job.base /\ job.built = {} /\ t \in job.left
      /\ child' = [child EXCEPT ![t] = [version |-> version, base |-> base]]
      /\ job' = [job EXCEPT !.left = @ \ {t}, !.built = {t} \cap AITools]
      /\ untold' = untold \cup ({t} \cap AITools)
      /\ UNCHANGED <<worldVars, config, templates, base, said>>
  BY <1>2 DEF BuildChild
<1>4. WorldTyped /\ ImagesTyped /\ JobOnCourse /\ Told(config) /\ IsJob(job) /\ "base" \notin AITools
  BY <1>3, ImageAssumption DEF ImageInv, ImagesTyped
<1>5. version \in Version
  BY <1>2, <1>4, NoneFacts DEF ImagesTyped
<1>6. /\ child'[t].version = version /\ child' = [u \in Children |-> child'[u]]
      /\ \A u \in Children \ {t} : child'[u] = child[u]
      /\ \A u \in Children : child'[u].version \in Version
  <2>1. child = [u \in Children |-> child[u]] /\ \A u \in Children : child[u].version \in Version
    BY <1>4 DEF ImagesTyped
  <2> DEFINE row == [version |-> version, base |-> base]
  <2>2. row.version = version
    OBVIOUS
  <2> HIDE DEF row
  <2>3. child' = [child EXCEPT ![t] = row]
    BY <1>3 DEF row
  <2> QED BY <1>5, <2>1, <2>2, <2>3
<1>7. /\ ~Idle' /\ IsJob(job') /\ job'.cfg = j /\ job'.base = FALSE /\ job'.left = job.left \ {t}
      /\ job'.implicit = job.implicit /\ job'.kind = job.kind /\ job'.built = {t} \cap AITools
  <2>1. job' \in [kind : {"build", "update"}, cfg : {job'.cfg}, implicit : {job'.implicit}, base : BOOLEAN,
                  built : SUBSET ({"base"} \cup AITools), left : SUBSET Children]
        /\ job'.cfg = j /\ job'.base = FALSE /\ job'.left = job.left \ {t}
        /\ job'.implicit = job.implicit /\ job'.kind = job.kind /\ job'.built = {t} \cap AITools
    BY <1>1, <1>3, <1>4 DEF IsJob
  <2>2. ~Idle'
    <3>1. job'.kind \in {"build", "update"}
      BY <2>1
    <3> QED BY <3>1 DEF Idle, NoJob
  <2> QED BY <1>1, <1>4, <2>1, <2>2 DEF IsJob
<1>8. WorldTyped'
  BY <1>3, <1>4 DEF WorldTyped, worldVars
<1>9. ImagesTyped'
  BY <1>3, <1>4, <1>6, <1>7 DEF ImagesTyped
(* config.json does not tell of the new image. *)
<1>10. Told(config)'
  <2>1. OffNeverBuilt(config)' /\ NothingTold(config)' /\ Fits(config)'
    BY <1>3, <1>4 DEF Told, OffNeverBuilt, NothingTold, Fits, RunsOn
  <2>2. BaseTold(config)'
    BY <1>3, <1>4 DEF Told, BaseTold
  <2>3. ToolsTold(config)'
    <3>1. \A u \in AITools \ untold' : u \in Children \ {t} /\ u \notin untold
      BY <1>3 DEF Children
    <3> QED BY <1>3, <1>4, <1>6, <3>1 DEF Told, ToolsTold
  <2> QED BY <2>1, <2>2, <2>3 DEF Told
<1>11. TemplatesFit'
  BY <1>3 DEF TemplatesFit, ImageInv
<1>12. PICK c : c = config
  OBVIOUS
<1>13. PICK implicit : implicit = job.implicit
  OBVIOUS
<1>14. /\ Refresh(config, TRUE)' = j /\ Want(j)' = implicit /\ implicit = Want(j)
       /\ \A u \in AITools : Rendered(j, u)' = Rendered(j, u)
  <2>1. UNCHANGED worldVars
    BY <1>3
  <2>2. Refresh(c, TRUE) = j /\ Want(j) = implicit
    BY <1>1, <1>3, <1>4, <1>12, <1>13 DEF JobOnCourse
  <2>3. Refresh(c, TRUE)' = j /\ Want(j)' = implicit /\ \A u \in AITools : Rendered(j, u)' = Rendered(j, u)
    BY <2>1, <2>2, WorldStays
  <2> QED BY <1>3, <1>12, <2>2, <2>3
<1>15. /\ said = "" /\ Complete(implicit) /\ templates.base = RenderBase(j, implicit)
       /\ \A u \in Tools : Included(j.tools[u]) => Desired(j.tools[u]) # None
       /\ \A u \in AITools : j.tools[u].enabled => templates.version[u] = Rendered(j, u)
       /\ job.left \cap AITools \subseteq Enabled(j)
       /\ \A u \in AITools \ job.left : u \in untold \/ ToolAsWanted(j, u)
       /\ "base" \in untold \/ BaseAsWanted(j)
       /\ job.kind = "build" => untold \cap ({"base"} \cup Enabled(j)) \subseteq job.left \cap AITools
  BY <1>1, <1>3, <1>4, <1>13 DEF JobOnCourse
<1>16. JobOnCourse'
  <2>1. /\ said' = "" /\ Complete(implicit) /\ templates'.base = RenderBase(j, implicit)
        /\ \A u \in AITools : j.tools[u].enabled => templates'.version[u] = Rendered(j, u)'
        /\ job'.left \cap AITools \subseteq Enabled(j)
    BY <1>3, <1>7, <1>14, <1>15
  <2>2. \A u \in AITools \ job'.left : u \in untold' \ job'.built \/ ToolAsWanted(j, u)'
    <3>1. ASSUME NEW u \in AITools \ job'.left PROVE u \in untold' \ job'.built \/ (Included(j.tools[u]) => child'[u].version = Desired(j.tools[u]))
      <4>1. CASE u = t
        <5>1. j.tools[t].enabled /\ t \in Tools
          BY <1>3, <1>15, <3>1, <4>1 DEF Enabled, Tools
        <5>2. child'[t].version = Rendered(j, t)
          BY <1>2, <1>6, <1>15, <3>1, <4>1, <5>1
        <5> QED BY <1>15, <4>1, <5>1, <5>2 DEF Rendered
      <4>2. CASE u # t
        <5>1. u \in untold \/ ToolAsWanted(j, u)
          BY <1>7, <1>15, <3>1, <4>2
        <5>2. child'[u] = child[u]
          BY <1>6, <3>1, <4>2 DEF Children
        <5> QED BY <1>3, <1>7, <4>2, <5>1, <5>2 DEF ToolAsWanted
      <4> QED BY <4>1, <4>2
    <3> QED BY <3>1 DEF ToolAsWanted
  <2>3. "base" \in untold' \ job'.built \/ BaseAsWanted(j)'
    BY <1>3, <1>4, <1>7, <1>14, <1>15 DEF BaseAsWanted
  <2>4. "base" \in job'.built => base' = templates'.base
    BY <1>4, <1>7
  <2>5. \A u \in AITools \cap job'.built : j.tools[u].enabled /\ child'[u].version = templates'.version[u]
    BY <1>2, <1>3, <1>6, <1>7, <1>15 DEF Enabled
  <2>6. job'.kind = "build" =>
          untold' \cap ({"base"} \cup Enabled(j)) \subseteq (IF job'.base THEN {"base"} ELSE {}) \cup (job'.left \cap AITools) \cup job'.built
    BY <1>3, <1>7, <1>15
  <2> QED BY <1>7, <1>13, <1>14, <1>15, <2>1, <2>2, <2>3, <2>4, <2>5, <2>6 DEF JobOnCourse, Enabled
<1>17. SaidIsTrue'
  BY <1>3, <1>15 DEF SaidIsTrue
<1> QED BY <1>8, <1>9, <1>10, <1>11, <1>16, <1>17 DEF ImageInv

LEMMA ImageInvSaveChild ==
  ASSUME ImageInv, NEW t \in Children, SaveChild(t)
  PROVE  ImageInv'
<1>1. PICK j : j = job.cfg
  OBVIOUS
<1>2. PICK d : d = ToolBuilt(j, t)
  OBVIOUS
<1>3. /\ ~Idle /\ t \in job.built /\ t # "base" /\ config' = d
      /\ job' = [job EXCEPT !.built = @ \ {t}, !.cfg = d] /\ untold' = untold \ {t}
      /\ UNCHANGED <<worldVars, templates, base, child, said>>
  BY <1>1, <1>2 DEF SaveChild
<1>4. /\ IsToolConfig(j) /\ IsToolConfig(config) /\ SameBuilt(config, j) /\ Known(j)
      /\ \A u \in Tools : j.tools[u] \in ToolStates
      /\ \A u \in Tools : ~Included(j.tools[u]) /\ j.tools[u].enabled => j.tools[u].container = None
      /\ \A u \in Tools : j.tools[u].mode = "off" => j.tools[u].container = None
  BY <1>1, <1>3, JobConfig
<1>5. WorldTyped /\ ImagesTyped /\ said = "" /\ Told(config) /\ t \in AITools /\ t \in Tools /\ t \notin Langs
  <2>1. job.built \subseteq {"base"} \cup AITools
    BY <1>3 DEF ImageInv, ImagesTyped, IsJob
  <2> QED BY <1>3, <2>1, ToolsAssumption DEF ImageInv, JobOnCourse, Tools
<1>6. /\ IsToolConfig(d) /\ SameWants(j, d) /\ d.implicit = j.implicit /\ d.baseNode = j.baseNode
      /\ d.tools[t] = RefreshContainerVersion(j.tools[t])
      /\ \A u \in Tools \ {t} : d.tools[u] = j.tools[u]
  BY <1>2, <1>4, <1>5, ToolBuiltTyped
<1>7. ~Idle' /\ IsJob(job') /\ JobOnCourse'
  BY <1>1, <1>3, <1>6, SavedOnCourse
(* What is built of the tool, and what config.json says of it. *)
<1>8. d.tools[t].container \in {None, child[t].version}
  <2>1. /\ j.tools[t].enabled /\ child[t].version = templates.version[t]
        /\ j.tools[t].enabled => templates.version[t] = Rendered(j, t)
    BY <1>1, <1>3, <1>5 DEF ImageInv, JobOnCourse
  <2>2. PICK tool \in ToolStates : tool = j.tools[t]
    BY <1>4, <1>5
  <2>3. d.tools[t] = RefreshContainerVersion(tool)
    BY <1>6, <2>2
  <2>4. CASE Included(tool)
    <3>1. Desired(tool) # None /\ child[t].version = Desired(tool)
      BY <1>4, <1>5, <2>1, <2>2, <2>4 DEF Rendered, Known
    <3>2. RefreshContainerVersion(tool).container = Desired(tool)
      BY <2>4, <3>1, ContainerBuilt
    <3> QED BY <2>3, <3>1, <3>2
  <2>5. CASE ~Included(tool)
    <3>1. RefreshContainerVersion(tool) = tool /\ tool.container = None
      BY <1>4, <1>5, <2>1, <2>2, <2>5, ContainerBuilt
    <3> QED BY <2>3, <3>1
  <2> QED BY <2>4, <2>5
<1>9. WorldTyped'
  BY <1>3, <1>5 DEF WorldTyped, worldVars
<1>10. ImagesTyped'
  BY <1>3, <1>5, <1>6, <1>7 DEF ImagesTyped
(* config.json keeps what it says of everything but the tool that was built. *)
<1>11. /\ d.implicit = config.implicit /\ d.baseNode = config.baseNode
       /\ \A u \in Tools : u # t => d.tools[u].container = config.tools[u].container
       /\ \A l \in Langs : d.tools[l].container = config.tools[l].container
  BY <1>4, <1>5, <1>6 DEF SameBuilt, Tools
<1>12. OffNeverBuilt(config)'
  <2>1. ASSUME NEW u \in Tools, d.tools[u].mode = "off" PROVE d.tools[u].container = None
    <3>1. j.tools[u].mode = "off" /\ ~Included(j.tools[u])
      BY <1>6, <2>1 DEF SameWants, Included
    <3>2. CASE u = t
      <4>1. d.tools[t] = j.tools[t]
        BY <1>4, <1>5, <1>6, <3>1, <3>2, ContainerBuilt
      <4> QED BY <1>4, <3>1, <3>2, <4>1
    <3>3. CASE u # t
      BY <1>4, <1>6, <3>1, <3>3
    <3> QED BY <3>2, <3>3
  <2> QED BY <1>3, <2>1 DEF OffNeverBuilt
<1>13. NothingTold(config)'
  BY <1>3, <1>5, <1>11 DEF Told, NothingTold
<1>14. BaseTold(config)'
  <2>1. base # None /\ "go" \in DOMAIN base.langs => "go" \in Langs
    BY <1>5 DEF ImagesTyped, IsBase
  <2>2. "base" \notin untold' => "base" \notin untold
    BY <1>3
  <2> QED BY <1>3, <1>5, <1>11, <2>1, <2>2 DEF Told, BaseTold
<1>15. ToolsTold(config)'
  <2>1. ASSUME NEW u \in AITools \ untold', d.tools[u].container # None PROVE d.tools[u].container = child[u].version
    <3>1. CASE u = t
      BY <1>8, <2>1, <3>1
    <3>2. CASE u # t
      BY <1>3, <1>5, <1>11, <2>1, <3>2 DEF Told, ToolsTold, Tools
    <3> QED BY <3>1, <3>2
  <2> QED BY <1>3, <2>1 DEF ToolsTold
<1>16. Fits(config)'
  <2>1. "typescript" \in DOMAIN config.implicit => "node" \in Langs
    <3>1. DOMAIN config.implicit \subseteq ServerNames
      BY <1>4 DEF IsToolConfig, IsServers
    <3>2. "typescript" \in ServerNames => "node" \in Langs
      BY ToolsAssumption DEF ServerNames, ImplicitOf
    <3> QED BY <3>1, <3>2
  <2> QED BY <1>3, <1>5, <1>11, <2>1 DEF Told, Fits, RunsOn
<1>17. Told(config)'
  BY <1>12, <1>13, <1>14, <1>15, <1>16 DEF Told
<1>18. TemplatesFit' /\ SaidIsTrue'
  BY <1>3, <1>5 DEF TemplatesFit, SaidIsTrue, ImageInv
<1> QED BY <1>7, <1>9, <1>10, <1>17, <1>18 DEF ImageInv

LEMMA ImageInvNext == ImageInv /\ [ImageNext]_imageVars => ImageInv'
<1> SUFFICES ASSUME ImageInv, [ImageNext]_imageVars PROVE ImageInv'
  OBVIOUS
<1>1. CASE \E t \in Tools : \E s \in Settings[t], up, written \in BOOLEAN : Save(t, s, up, written)
  BY <1>1, ImageInvSave
<1>2. CASE \E kind \in {"build", "update"} : Begin(kind)
  BY <1>2, ImageInvBegin
<1>3. CASE Fail \/ CutShort \/ BuildBase \/ SaveBase \/ Finish
  BY <1>3, ImageInvFail, ImageInvBuildBase, ImageInvSaveBase, ImageInvFinish
<1>4. CASE \E t \in Children : BuildChild(t) \/ SaveChild(t)
  BY <1>4, ImageInvBuildChild, ImageInvSaveChild
<1>5. CASE (\E pkg \in DOMAIN Registry : Publish(pkg)) \/ UpgradeHost
  BY <1>5, ImageInvWorld
<1>6. CASE UNCHANGED imageVars
  <2>1. UNCHANGED <<released, hostAt, worldVars, config, templates, base, child, job, said, untold>>
    BY <1>6 DEF imageVars, worldVars
  <2>2. PICK c : c = config
    OBVIOUS
  <2>3. PICK j : j = job.cfg
    OBVIOUS
  <2>4. PICK d : d = Refresh(c, TRUE)
    OBVIOUS
  <2>5. /\ Refresh(c, TRUE)' = d /\ Want(j)' = Want(j) /\ Want(d)' = Want(d)
        /\ \A t \in AITools : Rendered(j, t)' = Rendered(j, t)
    BY <2>1, <2>4, WorldStays
  <2>6. Refresh(config, TRUE)' = d /\ job'.cfg = j
    BY <2>1, <2>2, <2>3, <2>5
  <2>7. Idle' = Idle
    BY <2>1 DEF Idle
  <2>8. WorldTyped' /\ ImagesTyped' /\ Told(config)' /\ TemplatesFit'
    <3>1. WorldTyped'
      BY <2>1 DEF ImageInv, WorldTyped
    <3>2. ImagesTyped'
      BY <2>1, <2>7 DEF ImageInv, ImagesTyped
    <3>3. Told(config)'
      BY <2>1, ToldStays DEF ImageInv
    <3>4. TemplatesFit'
      BY <2>1 DEF ImageInv, TemplatesFit
    <3> QED BY <3>1, <3>2, <3>3, <3>4
  <2>9. JobOnCourse'
    <3>1. (\A t \in AITools : ToolAsWanted(j, t)' = ToolAsWanted(j, t)) /\ BaseAsWanted(j)' = BaseAsWanted(j)
      BY <2>1, <2>5 DEF ToolAsWanted, BaseAsWanted
    <3> QED BY <2>1, <2>2, <2>3, <2>4, <2>5, <2>6, <2>7, <3>1 DEF JobOnCourse, ImageInv, Enabled
  <2>10. SaidIsTrue'
    <3>1. (\A t \in AITools : ToolAsWanted(d, t)' = ToolAsWanted(d, t)) /\ BaseAsWanted(d)' = BaseAsWanted(d)
      BY <2>1, <2>5 DEF ToolAsWanted, BaseAsWanted
    <3> QED BY <2>1, <2>2, <2>4, <2>6, <3>1 DEF SaidIsTrue, ImageInv, Enabled
  <2> QED BY <2>8, <2>9, <2>10 DEF ImageInv
<1> QED BY <1>1, <1>2, <1>3, <1>4, <1>5, <1>6 DEF ImageNext

-----------------------------------------------------------------------------
(* What the invariant says of the properties. *)

LEMMA ImageInvDelivers == ASSUME ImageInv PROVE ImageTypeOK /\ ConfigTellsBuilt /\ UpdateDelivers /\ TemplatesFit
<1>1. ImageTypeOK
  BY DEF ImageInv, ImagesTyped, IsToolConfig, IsServers, IsJob, ImageTypeOK
<1>2. ConfigTellsBuilt
  BY DEF ImageInv, Told, BaseTold, ToolsTold, ConfigTellsBuilt
<1>3. UpdateDelivers
  <2>1. PICK cfg : cfg = Refresh(config, TRUE)
    OBVIOUS
  <2>2. said \in {"match", "complete", "built"} =>
          (\A t \in AITools \ untold : ToolAsWanted(cfg, t)) /\ ("base" \notin untold => BaseAsWanted(cfg))
    BY <2>1 DEF ImageInv, SaidIsTrue
  <2>3. said = "built" => untold \cap ({"base"} \cup Enabled(cfg)) = {}
    BY <2>1 DEF ImageInv, SaidIsTrue
  <2> QED BY <2>1, <2>2, <2>3 DEF UpdateDelivers, ToolAsWanted, BaseAsWanted, Want
<1>4. TemplatesFit
  BY DEF ImageInv
<1> QED BY <1>1, <1>2, <1>3, <1>4

(* A check that fails is never taken for a match, in any configuration. *)
LEMMA NothingUnchecked == ASSUME WorldTyped, IsToolConfig(config) PROVE NothingPassesUnchecked
<1> SUFFICES ASSUME NEW tried \in SUBSET Tools, NEW t \in Tools
             PROVE  LET named == StartupWarnings(config, tried, TRUE)
                        copy == Snapshot(config, tried)
                        now == Refreshed(t, config.tools[t], TRUE)
                    IN  /\ (Included(now) /\ now.container # None /\ Desired(now) # None /\ now.container # Desired(now)) => t \in named
                        /\ AboutMismatch(copy, t) => t \in named
  BY DEF NothingPassesUnchecked
<1> DEFINE copy == Snapshot(config, tried)
           unsure == Unchecked(config, tried)
           now == Refreshed(t, config.tools[t], TRUE)
           old == config.tools[t]
<1>1. ToolWarnings(copy, unsure) \subseteq StartupWarnings(config, tried, TRUE)
  BY DEF StartupWarnings
<1>2. old \in ToolStates
  BY DEF IsToolConfig
<1>3. now \in ToolStates /\ now.container = old.container /\ Included(now) = Included(old) /\ now.mode = old.mode
  BY <1>2, RefreshedKeeps
<1>4. copy.tools[t] = IF t \in tried THEN old ELSE now
  <2>1. config \in [tools : [Tools -> ToolStates], implicit : {config.implicit}, baseNode : Version]
    BY DEF IsToolConfig
  <2>2. copy.tools = [u \in Tools |-> IF u \in tried THEN config.tools[u] ELSE Refreshed(u, config.tools[u], TRUE)]
    BY <2>1 DEF Snapshot
  <2> QED BY <2>2
<1>5. Included(copy.tools[t]) = Included(old) /\ copy.tools[t].container = old.container
  BY <1>3, <1>4
<1> HIDE DEF copy, unsure, now, old
<1>6. AboutMismatch(copy, t) => t \in ToolWarnings(copy, unsure)
  BY DEF AboutMismatch, ToolWarnings
<1>7. ASSUME Included(now), now.container # None, Desired(now) # None, now.container # Desired(now)
      PROVE  t \in ToolWarnings(copy, unsure)
  <2>1. Included(copy.tools[t])
    BY <1>3, <1>5, <1>7
  <2>2. CASE t \in unsure
    BY <2>1, <2>2 DEF ToolWarnings
  <2>3. CASE t \notin unsure
    <3>1. copy.tools[t] = now
      <4>1. CASE t \notin tried
        BY <1>4, <4>1
      <4>2. CASE t \in tried
        <5>1. old.mode \notin {"latest", "mirror"}
          BY <1>3, <1>7, <2>3, <4>2 DEF Unchecked, unsure, old
        <5>2. now = old
          BY <5>1 DEF now, Refreshed, old
        <5> QED BY <1>4, <4>2, <5>2
      <4> QED BY <4>1, <4>2
    <3>2. CompareVersions(now.container, Desired(now)) = "mismatch"
      BY <1>7 DEF CompareVersions
    <3> QED BY <2>1, <3>1, <3>2 DEF ToolWarnings
  <2> QED BY <2>2, <2>3
<1> QED BY <1>1, <1>6, <1>7 DEF copy, unsure, now

-----------------------------------------------------------------------------
(* Ranges of versions. *)

Below(t) == t[1] \in 0..999 /\ t[2] \in 0..998 /\ t[3] \in 0..998

LEMMA ClauseHolds ==
  ASSUME NEW v, NEW c, NEW n \in Nat, Len(c) = n, DOMAIN c = 1..n
  PROVE  ClauseSays(v, c) = "yes" <=> \A j \in 1..n : TokenSays(v, c[j]) = "yes"
<1> DEFINE I == {i \in 1..Len(c) : TokenSays(v, c[i]) # "yes"}
           first == SelectInSeq(c, LAMBDA t : TokenSays(v, t) # "yes")
<1>1. first = IF I # {} THEN Min(I) ELSE 0
  BY DEF SelectInSeq
<1>2. I \subseteq 1..n /\ I \subseteq Nat
  OBVIOUS
<1>3. I # {} => Min(I) \in I
  <2> HIDE DEF I
  <2> QED BY <1>2, MinFacts
<1>4. ClauseSays(v, c) = IF first = 0 THEN "yes" ELSE TokenSays(v, c[first])
  BY DEF ClauseSays
<1>5. CASE I = {}
  <2>1. first = 0
    BY <1>1, <1>5
  <2>2. \A j \in 1..n : TokenSays(v, c[j]) = "yes"
    BY <1>5
  <2> QED BY <1>4, <2>1, <2>2
<1>6. CASE I # {}
  <2>1. first \in I
    BY <1>1, <1>3, <1>6
  <2>2. first \in 1..n /\ TokenSays(v, c[first]) # "yes"
    BY <2>1
  <2>3. first # 0
    BY <2>2
  <2> HIDE DEF first
  <2> QED BY <1>4, <2>2, <2>3
<1> QED BY <1>5, <1>6

LEMMA ThreeDigits ==
  ASSUME NEW a \in Nat, NEW b \in Nat, NEW c \in Nat, NEW x \in Nat, NEW y \in Nat, NEW z \in Nat,
         b <= 999, c <= 999, y <= 999, z <= 999
  PROVE  (a < x \/ (a = x /\ b < y) \/ (a = x /\ b = y /\ c < z)) <=> (a * 1000 + b) * 1000 + c < (x * 1000 + y) * 1000 + z
<1>1. (a * 1000 + b) * 1000 + c = a * 1000000 + b * 1000 + c /\ (x * 1000 + y) * 1000 + z = x * 1000000 + y * 1000 + z
  OBVIOUS
<1>2. CASE a < x
  BY <1>1, <1>2
<1>3. CASE a > x
  BY <1>1, <1>3
<1>4. CASE a = x
  BY <1>1, <1>4
<1> QED BY <1>2, <1>3, <1>4

LEMMA BeforeIsLess ==
  ASSUME NEW v, NEW w,
         Parsed(v)[1] \in Nat, Parsed(v)[2] \in Nat, Parsed(v)[3] \in Nat, Parsed(v)[2] <= 999, Parsed(v)[3] <= 999,
         Parsed(w)[1] \in Nat, Parsed(w)[2] \in Nat, Parsed(w)[3] \in Nat, Parsed(w)[2] <= 999, Parsed(w)[3] <= 999
  PROVE  Before(v, w) <=> Number(v) < Number(w)
<1> DEFINE p == Parsed(v)
           q == Parsed(w)
<1>1. Before(v, w) <=> \/ p[1] < q[1]
                       \/ p[1] = q[1] /\ p[2] < q[2]
                       \/ p[1] = q[1] /\ p[2] = q[2] /\ p[3] < q[3]
  <2>1. Before(v, w) <=> \E i \in {1, 2, 3} : p[i] < q[i] /\ \A j \in 1..(i - 1) : p[j] = q[j]
    BY DEF Before
  <2>2. 1..(1 - 1) = {} /\ 1..(2 - 1) = {1} /\ 1..(3 - 1) = {1, 2}
    OBVIOUS
  <2> HIDE DEF p, q
  <2> QED BY <2>1, <2>2
<1>2. Number(v) = (p[1] * 1000 + p[2]) * 1000 + p[3] /\ Number(w) = (q[1] * 1000 + q[2]) * 1000 + q[3]
  BY DEF Number
<1>3. /\ p[1] \in Nat /\ p[2] \in Nat /\ p[3] \in Nat /\ p[2] <= 999 /\ p[3] <= 999
      /\ q[1] \in Nat /\ q[2] \in Nat /\ q[3] \in Nat /\ q[2] <= 999 /\ q[3] <= 999
  OBVIOUS
<1> HIDE DEF p, q
<1> QED BY <1>1, <1>2, <1>3, ThreeDigits

LEMMA NumberBound ==
  ASSUME NEW a \in Nat, NEW b \in Nat, NEW c \in Nat, a <= 999, b <= 999, c <= 999, NEW n, n = a * 1000000 + b * 1000 + c
  PROVE  n \in Nat /\ n <= 999999999
BY SMT

LEMMA ThreeNumbers ==
  ASSUME NEW v, Parsed(v)[1] \in Nat, Parsed(v)[2] \in Nat, Parsed(v)[3] \in Nat
  PROVE  Number(v) = Parsed(v)[1] * 1000000 + Parsed(v)[2] * 1000 + Parsed(v)[3]
<1>1. PICK a \in Nat, b \in Nat, c \in Nat : Parsed(v)[1] = a /\ Parsed(v)[2] = b /\ Parsed(v)[3] = c
  OBVIOUS
<1>2. Number(v) = (a * 1000 + b) * 1000 + c
  BY <1>1 DEF Number
<1> QED BY <1>1, <1>2

LEMMA ParsedBase ==
  ASSUME NEW t \in RangeTokens
  PROVE  /\ t.op \in RangeOps /\ Len(t.base) \in 0..3 /\ DOMAIN t.base = 1..Len(t.base)
         /\ \A i \in 1..Len(t.base) : t.base[i] \in Nat /\ t.base[i] <= 998
         /\ \A i \in 1..3 : /\ Parsed(t.base)[i] = (IF i <= Len(t.base) THEN t.base[i] ELSE 0)
                          /\ Parsed(t.base)[i] \in Nat /\ Parsed(t.base)[i] <= 998
         /\ t.op # "x" => t.base # None /\ Len(t.base) > 0
<1>1. PICK R : R = 0..998
  OBVIOUS
<1>2. t.op \in RangeOps /\ t.base \in Seq(R) /\ Len(t.base) <= 3 /\ (t.op = "x" \/ t.base # None)
  BY <1>1 DEF RangeTokens
<1>3. PICK w, k : w = t.base /\ k = Len(t.base)
  OBVIOUS
<1>4. k \in Nat /\ DOMAIN w = 1..k /\ (\A i \in 1..k : w[i] \in R) /\ (w # None => k > 0)
  BY <1>2, <1>3 DEF None
<1>5. k \in 0..3
  <2>1. k <= 3
    BY <1>2, <1>3
  <2> QED BY <1>4, <2>1
<1>6. ASSUME NEW i \in 1..3
      PROVE  Parsed(w)[i] = (IF i <= k THEN w[i] ELSE 0) /\ Parsed(w)[i] \in R
  <2>1. Parsed(w)[i] = IF i \in DOMAIN w THEN w[i] ELSE 0
    BY DEF Parsed
  <2>2. (i \in DOMAIN w <=> i <= k) /\ (i <= k => i \in 1..k)
    BY <1>4
  <2>3. 0 \in R
    BY <1>1
  <2> QED BY <1>4, <2>1, <2>2, <2>3
<1>7. (t.op # "x" => t.base # None) /\ t.op \in RangeOps
  BY <1>2
<1>10. \A r \in R : r \in Nat /\ r <= 998
  BY <1>1
<1>8. (\A i \in 1..k : w[i] \in Nat /\ w[i] <= 998) /\ DOMAIN w = 1..k /\ (t.op # "x" => k > 0)
  BY <1>3, <1>4, <1>7, <1>10
<1>9. \A i \in 1..3 : Parsed(w)[i] = (IF i <= k THEN w[i] ELSE 0) /\ Parsed(w)[i] \in Nat /\ Parsed(w)[i] <= 998
  BY <1>6, <1>10
<1> QED BY <1>3, <1>5, <1>7, <1>8, <1>9

LEMMA TokenIsInterval ==
  ASSUME NEW t \in RangeTokens, NEW a \in Nat, NEW b \in Nat, NEW c \in Nat, a <= 999, b <= 998, c <= 1
  PROVE  TokenSays(<<a, b, c>>, t) = "yes" <=> Number(<<a, b, c>>) \in Interval(t)
<1> DEFINE v == <<a, b, c>>
           x == Parsed(t.base)[1]
           y == Parsed(t.base)[2]
           z == Parsed(t.base)[3]
           n == Number(t.base)
           m == Number(v)
<1>1. Parsed(v)[1] = a /\ Parsed(v)[2] = b /\ Parsed(v)[3] = c /\ v # None
  BY DEF Parsed, None
<1>2. m = a * 1000000 + b * 1000 + c /\ m \in Nat /\ m <= 999999999
  <2>1. m = a * 1000000 + b * 1000 + c
    BY <1>1, ThreeNumbers
  <2>2. b <= 999 /\ c <= 999
    OBVIOUS
  <2> HIDE DEF m
  <2>3. m \in Nat /\ m <= 999999999
    BY <2>1, <2>2, NumberBound
  <2> QED BY <2>1, <2>3
<1>3. x \in Nat /\ y \in Nat /\ z \in Nat /\ x <= 998 /\ y <= 998 /\ z <= 998
  BY ParsedBase
<1>4. n = x * 1000000 + y * 1000 + z /\ n \in Nat /\ n <= 999999999
  <2>1. n = x * 1000000 + y * 1000 + z
    BY <1>3, ThreeNumbers
  <2>2. x <= 999 /\ y <= 999 /\ z <= 999
    BY <1>3
  <2> HIDE DEF x, y, z, n
  <2> QED BY <1>3, <2>1, <2>2, NumberBound
<1>5. (Before(v, t.base) <=> m < n) /\ (Before(t.base, v) <=> n < m)
  BY <1>1, <1>3, BeforeIsLess
<1>6. t.op # "x" => t.base # None /\ Len(t.base) > 0 /\ t.base[1] = x
  BY ParsedBase
<1>7. t.op \in RangeOps
  BY ParsedBase
<1>8. t.op # "x" => (TokenSays(v, t) = "yes" <=> Holds(v, t))
  BY <1>6 DEF TokenSays
<1>9. CASE t.op = "="
  <2>1. Holds(v, t) <=> Parsed(v) = Parsed(t.base)
    BY <1>9 DEF Holds
  <2>2. Parsed(v) = Parsed(t.base) <=> a = x /\ b = y /\ c = z
    <3>1. Parsed(v) = [i \in 1..3 |-> Parsed(v)[i]] /\ Parsed(t.base) = [i \in 1..3 |-> Parsed(t.base)[i]]
      BY DEF Parsed
    <3> HIDE DEF v
    <3>2. ASSUME a = x, b = y, c = z PROVE Parsed(v) = Parsed(t.base)
      <4>1. \A i \in 1..3 : Parsed(v)[i] = Parsed(t.base)[i]
        BY <1>1, <3>2
      <4> QED BY <3>1, <4>1
    <3> QED BY <1>1, <3>2
  <2>3. a = x /\ b = y /\ c = z <=> m = n
    <3> HIDE DEF x, y, z, n, m
    <3> QED BY <1>2, <1>3, <1>4
  <2>4. Interval(t) = n..n
    BY <1>9 DEF Interval
  <2>5. t.op # "x"
    BY <1>9
  <2> HIDE DEF n, m
  <2>6. m \in n..n <=> m = n
    BY <1>2, <1>4
  <2> QED BY <1>8, <2>1, <2>2, <2>3, <2>4, <2>5, <2>6 DEF m
<1>10. CASE t.op \in {">", ">=", "<", "<="}
  <2>1. /\ t.op = ">" => (Holds(v, t) <=> Before(t.base, v)) /\ Interval(t) = (n + 1)..999999999
        /\ t.op = "<=" => (Holds(v, t) <=> ~Before(t.base, v)) /\ Interval(t) = 0..n
        /\ t.op = ">=" => (Holds(v, t) <=> ~Before(v, t.base)) /\ Interval(t) = n..999999999
        /\ t.op = "<" => (Holds(v, t) <=> Before(v, t.base)) /\ Interval(t) = 0..(n - 1)
    BY <1>1 DEF Holds, Interval
  <2>2. t.op \in {">", ">=", "<", "<="}
    BY <1>10
  <2> HIDE DEF n, m, v
  <2>3. /\ m \in (n + 1)..999999999 <=> n < m
        /\ m \in 0..n <=> ~(n < m)
        /\ m \in n..999999999 <=> ~(m < n)
        /\ m \in 0..(n - 1) <=> m < n
    BY <1>2, <1>4
  <2>5. TokenSays(v, t) = "yes" <=> Holds(v, t)
    BY <1>8, <2>2
  <2>4. Holds(v, t) <=> m \in Interval(t)
    <3>1. CASE t.op = ">"
      BY <1>5, <2>1, <2>3, <3>1
    <3>2. CASE t.op = ">="
      BY <1>5, <2>1, <2>3, <3>2
    <3>3. CASE t.op = "<"
      BY <1>5, <2>1, <2>3, <3>3
    <3>4. CASE t.op = "<="
      BY <1>5, <2>1, <2>3, <3>4
    <3> QED BY <2>2, <3>1, <3>2, <3>3, <3>4
  <2> QED BY <2>4, <2>5 DEF m, v
<1>11. CASE t.op = "^"
  <2> DEFINE u == <<t.base[1] + 1>>
  <2>1. Upper(t) = u
    BY <1>6, <1>11 DEF Upper
  <2>2. Parsed(u)[1] = x + 1 /\ Parsed(u)[2] = 0 /\ Parsed(u)[3] = 0
    BY <1>6, <1>11 DEF Parsed
  <2> HIDE DEF x, y, z, n, m, v, u
  <2>3. Number(u) = (x + 1) * 1000000
    BY <1>3, <2>2, ThreeNumbers
  <2>4. Before(v, u) <=> m < Number(u)
    BY <1>1, <1>3, <2>2, BeforeIsLess DEF m
  <2>5. Holds(v, t) <=> ~Before(v, t.base) /\ Before(v, u)
    BY <1>1, <1>11, <2>1 DEF Holds
  <2>6. Interval(t) = n..(Number(u) - 1)
    BY <1>11 DEF Interval, n, u
  <2>7. t.op # "x" /\ Number(u) \in Nat
    BY <1>3, <1>11, <2>3
  <2>8. m \in n..(Number(u) - 1) <=> ~(m < n) /\ m < Number(u)
    BY <1>2, <1>4, <2>7
  <2> QED BY <1>5, <1>8, <2>4, <2>5, <2>6, <2>7, <2>8 DEF m, v
<1>12. CASE t.op = "~"
  <2> DEFINE u == <<x, y + 1>>
  <2>1. Upper(t) = u
    BY <1>6, <1>12 DEF Upper
  <2>2. Parsed(u)[1] = x /\ Parsed(u)[2] = y + 1 /\ Parsed(u)[3] = 0
    BY <1>6, <1>12 DEF Parsed
  <2>6. Interval(t) = n..(Number(u) - 1)
    BY <1>12 DEF Interval
  <2> HIDE DEF x, y, z, n, m, v, u
  <2>3. Number(u) = x * 1000000 + (y + 1) * 1000
    BY <1>3, <2>2, ThreeNumbers
  <2>4. Before(v, u) <=> m < Number(u)
    BY <1>1, <1>3, <2>2, BeforeIsLess DEF m
  <2>5. Holds(v, t) <=> ~Before(v, t.base) /\ Before(v, u)
    BY <1>1, <1>12, <2>1 DEF Holds
  <2>7. t.op # "x" /\ Number(u) \in Nat
    BY <1>3, <1>12, <2>3
  <2>8. m \in n..(Number(u) - 1) <=> ~(m < n) /\ m < Number(u)
    BY <1>2, <1>4, <2>7
  <2> QED BY <1>5, <1>8, <2>4, <2>5, <2>6, <2>7, <2>8 DEF m, v
<1>13. CASE t.op = "x"
  <2>1. TokenSays(v, t) = "yes" <=> Holds(v, t)
    BY <1>13 DEF TokenSays
  <2>2. Holds(v, t) <=> \A i \in DOMAIN t.base : Parsed(v)[i] = t.base[i]
    BY <1>13 DEF Holds
  <2>3. Interval(t) = n..(n + <<999999999, 999999, 999, 0>>[Len(t.base) + 1])
    BY <1>13 DEF Interval
  <2>4. DOMAIN t.base = 1..Len(t.base) /\ Len(t.base) \in {0, 1, 2, 3}
    BY ParsedBase
  <2>5. \A i \in 1..3 : Parsed(t.base)[i] = IF i <= Len(t.base) THEN t.base[i] ELSE 0
    BY ParsedBase
  <2> HIDE DEF n, m, v
  <2>6. CASE Len(t.base) = 0
    <3>1. x = 0 /\ y = 0 /\ z = 0
      BY <2>5, <2>6
    <3>2. Holds(v, t)
      BY <2>2, <2>4, <2>6
    <3>3. Interval(t) = n..(n + 999999999)
      BY <2>3, <2>6
    <3> HIDE DEF x, y, z
    <3>5. n <= m /\ m <= n + 999999999
      BY <1>2, <1>4, <3>1
    <3>4. m \in n..(n + 999999999)
      BY <1>2, <1>4, <3>5
    <3> QED BY <2>1, <3>2, <3>3, <3>4 DEF m, v
  <2>7. CASE Len(t.base) = 1
    <3>1. x = t.base[1] /\ y = 0 /\ z = 0
      BY <2>5, <2>7
    <3>2. Holds(v, t) <=> a = x
      BY <1>1, <2>2, <2>4, <2>7, <3>1
    <3>3. Interval(t) = n..(n + 999999)
      BY <2>3, <2>7
    <3> HIDE DEF x, y, z
    <3>5. n = x * 1000000
      BY <1>3, <1>4, <3>1
    <3>6. n <= m /\ m <= n + 999999 <=> a = x
      <4>1. CASE a < x
        BY <1>2, <1>3, <3>5, <4>1
      <4>2. CASE a = x
        BY <1>2, <1>3, <3>5, <4>2
      <4>3. CASE a > x
        BY <1>2, <1>3, <3>5, <4>3
      <4> QED BY <1>3, <4>1, <4>2, <4>3
    <3>4. m \in n..(n + 999999) <=> a = x
      BY <1>2, <1>4, <3>6
    <3> QED BY <2>1, <3>2, <3>3, <3>4 DEF m, v
  <2>8. CASE Len(t.base) = 2
    <3>1. x = t.base[1] /\ y = t.base[2] /\ z = 0
      BY <2>5, <2>8
    <3>2. Holds(v, t) <=> a = x /\ b = y
      BY <1>1, <2>2, <2>4, <2>8, <3>1
    <3>3. Interval(t) = n..(n + 999)
      BY <2>3, <2>8
    <3> HIDE DEF x, y, z
    <3>5. n = x * 1000000 + y * 1000
      BY <1>3, <1>4, <3>1
    <3>6. n <= m /\ m <= n + 999 <=> a = x /\ b = y
      BY <1>2, <1>3, <3>5
    <3>4. m \in n..(n + 999) <=> a = x /\ b = y
      BY <1>2, <1>4, <3>6
    <3> QED BY <2>1, <3>2, <3>3, <3>4 DEF m, v
  <2>9. CASE Len(t.base) = 3
    <3>1. x = t.base[1] /\ y = t.base[2] /\ z = t.base[3]
      BY <2>5, <2>9
    <3>2. Holds(v, t) <=> a = x /\ b = y /\ c = z
      BY <1>1, <2>2, <2>4, <2>9, <3>1
    <3>3. Interval(t) = n..n
      BY <1>4, <2>3, <2>9
    <3> HIDE DEF x, y, z
    <3>4. a = x /\ b = y /\ c = z <=> m = n
      BY <1>2, <1>3, <1>4
    <3>5. m \in n..n <=> m = n
      BY <1>2, <1>4
    <3> QED BY <2>1, <3>2, <3>3, <3>4, <3>5 DEF m, v
  <2> QED BY <2>4, <2>6, <2>7, <2>8, <2>9
<1> QED BY <1>7, <1>9, <1>10, <1>11, <1>12, <1>13 DEF RangeOps

(* A version between the numbers of a range is admitted exactly when one of its *)
(* clauses' intervals all hold it.                                            *)
LEMMA SatisfiesIsInterval ==
  ASSUME NEW needs \in Seq(Seq(RangeTokens)), NEW v \in Around(needs)
  PROVE  Satisfies(v, needs) = "yes" <=>
           (needs = << >> \/ \E i \in DOMAIN needs : \A j \in DOMAIN needs[i] : Number(v) \in Interval(needs[i][j]))
<1> DEFINE bases == UNION {{t.base : t \in ToSet(needs[i])} : i \in DOMAIN needs}
           parts == {0} \cup UNION {ToSet(b) : b \in bases}
<1>1. ASSUME NEW i \in DOMAIN needs PROVE needs[i] \in Seq(RangeTokens) /\ DOMAIN needs[i] = 1..Len(needs[i]) /\ Len(needs[i]) \in Nat
  BY <1>1
<1>2. ASSUME NEW w \in bases PROVE \A k \in DOMAIN w : w[k] \in Nat /\ w[k] <= 998
  <2>1. PICK i \in DOMAIN needs : \E t \in ToSet(needs[i]) : w = t.base
    BY <1>2
  <2>9. PICK t \in ToSet(needs[i]) : w = t.base
    BY <2>1
  <2>2. t \in RangeTokens
    BY <1>1 DEF ToSet
  <2> QED BY <2>9, <2>2, ParsedBase
<1>6. Around(needs) = {<<a, b, c>> : a \in parts \cup {p + 1 : p \in parts}, b \in parts, c \in {0, 1}}
  BY DEF Around
<1> HIDE DEF bases
<1>3. ASSUME NEW p \in parts PROVE p \in Nat /\ p <= 998
  <2>1. CASE p = 0
    BY <2>1
  <2>2. CASE p # 0
    <3>1. p \in UNION {ToSet(w) : w \in bases}
      BY <2>2
    <3>2. PICK w \in bases : p \in ToSet(w)
      BY <3>1
    <3>4. PICK k \in DOMAIN w : p = w[k]
      BY <3>2 DEF ToSet
    <3> QED BY <1>2, <3>2, <3>4
  <2> QED BY <2>1, <2>2
<1> HIDE DEF parts
<1>4. PICK a \in Nat, b \in Nat, c \in Nat : a <= 999 /\ b <= 998 /\ c <= 1 /\ v = <<a, b, c>>
  <2>1. PICK a \in parts \cup {p + 1 : p \in parts}, b \in parts, c \in {0, 1} : v = <<a, b, c>>
    BY <1>6
  <2>2. a \in Nat /\ a <= 999
    BY <1>3
  <2>3. b \in Nat /\ b <= 998
    BY <1>3
  <2>4. c \in Nat /\ c <= 1
    OBVIOUS
  <2> QED BY <2>1, <2>2, <2>3, <2>4
<1>5. ASSUME NEW i \in DOMAIN needs
      PROVE  ClauseSays(v, needs[i]) = "yes" <=> \A j \in DOMAIN needs[i] : Number(v) \in Interval(needs[i][j])
  <2>1. \A j \in DOMAIN needs[i] : needs[i][j] \in RangeTokens
    BY <1>1
  <2> HIDE DEF parts
  <2>2. \A j \in DOMAIN needs[i] : TokenSays(v, needs[i][j]) = "yes" <=> Number(v) \in Interval(needs[i][j])
    BY <1>4, <2>1, TokenIsInterval
  <2>6. Len(needs[i]) \in Nat
    BY <1>1
  <2>7. PICK n \in Nat : n = Len(needs[i])
    BY <2>6
  <2>3. PICK cl : cl = needs[i]
    OBVIOUS
  <2>4. Len(cl) = n /\ DOMAIN cl = 1..n
    BY <1>1, <2>3, <2>7
  <2>5. ClauseSays(v, cl) = "yes" <=> \A j \in 1..n : TokenSays(v, cl[j]) = "yes"
    BY <2>4, ClauseHolds
  <2> QED BY <2>2, <2>3, <2>4, <2>5
<1> DEFINE says == {ClauseSays(v, needs[i]) : i \in DOMAIN needs}
<1>8. Satisfies(v, needs) = IF needs = << >> \/ "yes" \in says THEN "yes" ELSE IF "error" \in says THEN "error" ELSE "no"
  BY DEF Satisfies
<1>7. "yes" \in says <=> \E i \in DOMAIN needs : ClauseSays(v, needs[i]) = "yes"
  OBVIOUS
<1> HIDE DEF says
<1> QED BY <1>5, <1>7, <1>8

LEMMA RangesHold == ASSUME WorldTyped PROVE RangesAreIntervals
<1> SUFFICES ASSUME NEW pkg \in DOMAIN Registry PROVE Needs(pkg, Latest(pkg)) \in Seq(Seq(RangeTokens))
  BY SatisfiesIsInterval DEF RangesAreIntervals
<1>1. Registry[pkg] \in Seq(Releases) /\ released[pkg] \in DOMAIN Registry[pkg]
  BY ToolsAssumption DEF WorldTyped
<1>2. Registry[pkg][released[pkg]].ver = Latest(pkg)
  BY DEF Latest
<1>3. PICK v : v = Latest(pkg)
  OBVIOUS
<1> DEFINE entry == CHOOSE i \in DOMAIN Registry[pkg] : Registry[pkg][i].ver = v
<1>4. entry \in DOMAIN Registry[pkg]
  BY <1>1, <1>2, <1>3
<1>5. Needs(pkg, v) = Registry[pkg][entry].needs
  BY DEF Needs
<1> HIDE DEF entry
<1>6. Registry[pkg][entry] \in Releases
  BY <1>1, <1>4
<1> QED BY <1>3, <1>5, <1>6 DEF Releases

-----------------------------------------------------------------------------
(* What cooper up warns of a language's servers is what an update finds changed *)
(* of them.                                                                    *)
LEMMA ParentWarned ==
  ASSUME NEW d, IsToolConfig(d), Complete(Want(d)), NEW l \in Langs,
         Counts(d, l) => Included(d.tools[l])
  PROVE  ParentWarnings(d, l, {}, TRUE) = ImplicitOf(l) \cap ImplicitDrift(d.implicit, Want(d))
<1> DEFINE w == Want(d)
           old == d.implicit
           had == [name \in DOMAIN old \cap ImplicitOf(l) |-> old[name]]
           target == ResolveImplicit(d, ImplicitOf(l), TRUE, FALSE)
           found(name) == WithFallback(d, name, TRUE, FALSE)
<1>1. w = [name \in Implicit(d) |-> found(name)] /\ target = [name \in ImplicitOf(l) |-> found(name)]
  BY DEF Want, ResolveImplicit
<1>2. ParentWarnings(d, l, {}, TRUE) =
        CASE ~Included(d.tools[l]) -> ImplicitWarnings(had, None)
          [] Included(d.tools[l]) /\ (Blocked(d, l, {}) \/ ~Complete(target)) -> {l}
          [] OTHER -> ImplicitWarnings(had, target)
  BY DEF ParentWarnings
<1>3. ~Blocked(d, l, {})
  BY DEF Blocked
<1>4. Counts(d, l) <=> Included(d.tools[l])
  BY DEF Counts, Included
<1>5. \A name \in ImplicitOf(l) : name \in Implicit(d) <=> Included(d.tools[l])
  <2> TAKE name \in ImplicitOf(l)
  <2>1. ASSUME name \in Implicit(d) PROVE Counts(d, l)
    <3>1. PICK k \in Langs : Counts(d, k) /\ name \in ImplicitOf(k)
      BY <2>1 DEF Implicit
    <3>2. ParentOf(name) = k
      BY <3>1, ParentOfServer
    <3>3. ParentOf(name) = l
      BY ParentOfServer
    <3> QED BY <3>1, <3>2, <3>3
  <2>2. Counts(d, l) => name \in Implicit(d)
    BY DEF Implicit
  <2> QED BY <1>4, <2>1, <2>2
<1>6. DOMAIN had = DOMAIN old \cap ImplicitOf(l) /\ \A name \in DOMAIN old \cap ImplicitOf(l) : had[name] = old[name]
  OBVIOUS
<1>7. DOMAIN w = Implicit(d) /\ DOMAIN target = ImplicitOf(l)
  BY <1>1
<1>8. ImplicitDrift(old, w) = {name \in DOMAIN old \cup DOMAIN w : ~(name \in DOMAIN old /\ name \in DOMAIN w /\ old[name] = w[name])}
  BY DEF ImplicitDrift
<1>9. CASE Included(d.tools[l])
  <2>1. \A name \in ImplicitOf(l) : name \in Implicit(d) /\ target[name] = w[name]
    BY <1>1, <1>5, <1>9
  <2>2. Complete(target)
    BY <1>7, <2>1 DEF Complete
  <2>3. ParentWarnings(d, l, {}, TRUE) = ImplicitDrift(had, target)
    BY <1>2, <1>3, <1>9, <2>2 DEF ImplicitWarnings
  <2>4. ImplicitDrift(had, target) = {name \in DOMAIN had \cup DOMAIN target :
            ~(name \in DOMAIN had /\ name \in DOMAIN target /\ had[name] = target[name])}
    BY DEF ImplicitDrift
  <2> HIDE DEF w, old, had, target, found
  <2>5. \A name \in ImplicitOf(l) : name \in ImplicitDrift(had, target) <=> name \in ImplicitDrift(old, w)
    BY <1>6, <1>7, <1>8, <2>1, <2>4
  <2>6. ImplicitDrift(had, target) \subseteq ImplicitOf(l)
    BY <1>6, <1>7, <2>4
  <2>7. ImplicitDrift(had, target) = ImplicitOf(l) \cap ImplicitDrift(old, w)
    BY <2>5, <2>6
  <2> QED BY <2>3, <2>7 DEF old, w
<1>10. CASE ~Included(d.tools[l])
  <2>1. ParentWarnings(d, l, {}, TRUE) = ImplicitDrift(had, None)
    BY <1>2, <1>10 DEF ImplicitWarnings
  <2>2. ImplicitDrift(had, None) = DOMAIN had
    BY NoneFacts DEF ImplicitDrift
  <2>3. \A name \in ImplicitOf(l) : name \notin DOMAIN w
    BY <1>5, <1>7, <1>10
  <2> HIDE DEF w, old, had, target, found
  <2>4. DOMAIN had = ImplicitOf(l) \cap ImplicitDrift(old, w)
    BY <1>6, <1>8, <2>3
  <2> QED BY <2>1, <2>2, <2>4 DEF old, w
<1> QED BY <1>9, <1>10

LEMMA WarningsMatch == ASSUME WorldTyped, IsToolConfig(config) PROVE WarningsAgree
<1> DEFINE d == Refresh(config, TRUE)
           w == Want(d)
           plan == UpdatePlan(d, w)
           named == StartupWarnings(config, {}, TRUE)
           outdated == {t \in Tools : Included(d.tools[t]) /\ d.tools[t].container \notin {None, Desired(d.tools[t])}}
           drift == ImplicitDrift(d.implicit, w)
<1> SUFFICES ASSUME CanRefresh(config, TRUE, FALSE), Complete(w), \A l \in Langs : Counts(d, l) => Included(d.tools[l])
             PROVE  /\ named # {} <=> outdated # {} \/ BaseNodeDrift(d) \/ drift # {}
                    /\ named # {} => plan.base \/ plan.tools # {}
  BY DEF WarningsAgree, Want
<1>1. /\ IsToolConfig(d) /\ SameBuilt(config, d) /\ Known(d)
      /\ \A t \in Tools : d.tools[t] = Refreshed(t, config.tools[t], TRUE)
  BY RefreshTyped, RefreshSameBuilt, RefreshKnown
<1>3. Snapshot(config, {}) = d
  BY DEF Snapshot, Refresh
<1>4. Unchecked(config, {}) = {}
  <2> SUFFICES ASSUME NEW t \in Tools, Included(config.tools[t]), config.tools[t].mode = "mirror", HostVersion(t) = None PROVE FALSE
    BY DEF Unchecked
  <2>1. Refreshable(t, config.tools[t], TRUE, FALSE)
    BY DEF CanRefresh
  <2> QED BY <2>1 DEF Refreshable
<1>5. named = ToolWarnings(d, {}) \cup (IF BaseNodeWarning(d, {}) THEN {"base node runtime"} ELSE {})
                 \cup UNION {ParentWarnings(d, l, {}, TRUE) : l \in Langs}
  BY <1>3, <1>4 DEF StartupWarnings
<1>6. BaseNodeWarning(d, {}) <=> BaseNodeDrift(d)
  BY DEF BaseNodeWarning
<1>7. \A l \in Langs : ParentWarnings(d, l, {}, TRUE) = ImplicitOf(l) \cap drift
  <2> TAKE l \in Langs
  <2> QED BY <1>1, ParentWarned
<1>8. drift \subseteq ServerNames
  <2>1. DOMAIN d.implicit \subseteq ServerNames
    BY <1>1 DEF IsToolConfig, IsServers
  <2>2. DOMAIN w \subseteq ServerNames
    BY ImplicitServers DEF Want, ResolveImplicit
  <2> HIDE DEF w, d
  <2> QED BY <2>1, <2>2 DEF ImplicitDrift
<1>9. UNION {ParentWarnings(d, l, {}, TRUE) : l \in Langs} = drift
  <2> HIDE DEF drift, d, w
  <2> QED BY <1>7, <1>8 DEF ServerNames
<1>10. ToolWarnings(d, {}) = outdated
  BY <1>1 DEF ToolWarnings, CompareVersions, Known
<1>11. /\ plan.base <=> \/ \E l \in Langs : Included(d.tools[l]) /\ d.tools[l].container # Desired(d.tools[l])
                        \/ BaseNodeDrift(d) \/ drift # {}
       /\ plan.tools = {t \in AITools : Included(d.tools[t]) /\ d.tools[t].container # Desired(d.tools[t])}
  BY DEF UpdatePlan
<1>12. outdated # {} => plan.base \/ plan.tools # {}
  BY <1>11 DEF Tools
<1>13. named # {} <=> outdated # {} \/ BaseNodeDrift(d) \/ drift # {}
  <2> HIDE DEF named, outdated, drift, d, w
  <2> QED BY <1>5, <1>6, <1>9, <1>10
<1> HIDE DEF named, plan, outdated, drift, d, w
<1> QED BY <1>11, <1>12, <1>13

-----------------------------------------------------------------------------
(* What config.json was told of the images is in them whatever step of a build  *)
(* or an update fails, the save that tells of an image among them; a build or    *)
(* an update that succeeds delivers what was wanted, but for Python and, with    *)
(* an update, for images config.json was never told of; startup and update       *)
(* agree on what is out of date, but for a language enabled in mode off; and no  *)
(* failed check passes for a match: for every set of languages and tools,        *)
(* registry, host and settings (SaveWithProgress, Run of buildflow/build.go,     *)
(* runUpdate, PrepareToolVersionSnapshot).                                      *)
THEOREM ImagesAreSound == ImageSpec => []ImagesSound
<1>1. ASSUME ImageInv PROVE ImagesSound
  <2>1. WorldTyped /\ IsToolConfig(config)
    BY <1>1 DEF ImageInv, ImagesTyped
  <2>2. ImageTypeOK /\ ConfigTellsBuilt /\ UpdateDelivers /\ TemplatesFit
    BY <1>1, ImageInvDelivers
  <2> QED BY <2>1, <2>2, WarningsMatch, NothingUnchecked, RangesHold DEF ImagesSound
<1> QED BY <1>1, ImageInvInit, ImageInvNext, PTL DEF ImageSpec

-----------------------------------------------------------------------------
(* A step of what cooper does around its sessions is one of a part, and the  *)
(* others stutter.                                                           *)
THEOREM AroundSessionsIsSound == Spec => []ProofSound /\ TestersApart /\ WizardSound /\ []ImagesSound
<1>1. Init => ProofInit /\ TestInit /\ WizardInit /\ ImageInit
  BY DEF Init
<1>2. ASSUME [Next]_vars
      PROVE  [ProofNext]_proofVars /\ [TestNext]_testVars /\ [WizardNext]_wizardVars /\ [ImageNext]_imageVars
  <2>1. CASE UNCHANGED vars
    BY <2>1 DEF vars
  <2>2. CASE Next
    BY <2>2 DEF Next
  <2> QED BY <1>2, <2>1, <2>2
<1> QED BY <1>1, <1>2, ImagesAreSound, ProofIsSound, TestersAreApart, WizardIsSound, PTL
  DEF Spec, ProofSpec, TestSpec, WizardSpec, ImageSpec
=============================================================================
