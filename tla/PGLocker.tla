------------------------------ MODULE PGLocker ------------------------------
(***************************************************************************)
(* The pgflock locker (pgflock/internal/locker/handler.go).                *)
(*                                                                         *)
(* The free databases sit in a buffered channel (cLockedDbConn) with one   *)
(* place per database; the map locks says which request holds which        *)
(* database.  Every /lock request is a goroutine of its own whose open     *)
(* HTTP stream is the lock.  Other goroutines (HTTP /unlock, /force-unlock,*)
(* /unlock-by-marker, /unlock-all and the TUI) take locks away from it.    *)
(* The map is changed under locksMu, the channel is not, so a release is   *)
(* two or three steps that interleave with everybody else's.               *)
(*                                                                         *)
(* A request identity is reused only when nothing refers to its previous   *)
(* life, as the memory of a LockInfo is.                                   *)
(***************************************************************************)
EXTENDS Naturals, Sequences, SequencesExt, FiniteSets

CONSTANTS Databases,  \* testDatabases
          Requests,   \* the /lock requests in flight at a time
          Admins,     \* the goroutines that release locks of others
          Markers,    \* what clients label their requests with
          NoDb, NoReq

ASSUME FiniteAssumption == IsFiniteSet(Databases) /\ IsFiniteSet(Requests)
ASSUME NoneAssumption == NoDb \notin Databases /\ NoReq \notin Requests

VARIABLES
  cLockedDbConn,  \* the channel of free databases
  locks,          \* database -> the request whose LockInfo the map stores, or NoReq
  waitingCount,   \* the atomic counter the TUI and /health-check show
  waitq,          \* the goroutines parked in the receive, first come first
  pc,             \* where the handler of a request is
  db,             \* the database a handler received, NoDb before
  marker,         \* the marker of a request
  gone,           \* req.Context() is done: the client closed or died
  lockDone,       \* lockCtx is done: cancelled, or autoUnlockDuration is over
  released,       \* admin -> what it removed from locks and has not sent back yet
  cancelling      \* admin -> the request whose cancel func it calls next, or NoReq

clientVars == <<gone, lockDone, marker>>
adminVars == <<released, cancelling>>
vars == <<cLockedDbConn, locks, waitingCount, waitq, pc, db,
          gone, lockDone, marker, released, cancelling>>

MaybeReq == Requests \cup {NoReq}
Phases == {"idle", "waiting", "resetting", "holding", "returning"}

-----------------------------------------------------------------------------
Init ==
  /\ cLockedDbConn \in Bijection(1..Cardinality(Databases), Databases)
  /\ locks = [d \in Databases |-> NoReq]
  /\ waitingCount = 0
  /\ waitq = << >>
  /\ pc = [r \in Requests |-> "idle"]
  /\ db = [r \in Requests |-> NoDb]
  /\ marker \in {[r \in Requests |-> m] : m \in Markers}
  /\ gone = [r \in Requests |-> FALSE]
  /\ lockDone = [r \in Requests |-> FALSE]
  /\ released = [a \in Admins |-> [d \in Databases |-> NoReq]]
  /\ cancelling = [a \in Admins |-> NoReq]

(* A send blocks while the buffer of cLockedDbConn is full. *)
SendToPool(d) == /\ Len(cLockedDbConn) < Cardinality(Databases)
                 /\ cLockedDbConn' = Append(cLockedDbConn, d)

(* An admin still has the LockInfo of r in a local variable. *)
Referenced(a, r) == \/ cancelling[a] = r
                    \/ \E d \in Databases : released[a][d] = r

(* The handler returns and its contexts are freed. *)
Finish(r) == /\ pc' = [pc EXCEPT ![r] = "idle"]
             /\ db' = [db EXCEPT ![r] = NoDb]
             /\ gone' = [gone EXCEPT ![r] = FALSE]
             /\ lockDone' = [lockDone EXCEPT ![r] = FALSE]

-----------------------------------------------------------------------------
(* handleLock *)

(* A valid request arrives and parks in the first select. *)
Arrive(r, m) ==
  /\ pc[r] = "idle"
  /\ \A a \in Admins : ~Referenced(a, r)
  /\ pc' = [pc EXCEPT ![r] = "waiting"]
  /\ marker' = [marker EXCEPT ![r] = m]
  /\ waitingCount' = waitingCount + 1
  /\ waitq' = Append(waitq, r)
  /\ UNCHANGED <<cLockedDbConn, locks, db, gone, lockDone, adminVars>>

(* The channel serves parked receivers in the order they parked. *)
Receive(r) ==
  /\ pc[r] = "waiting"
  /\ waitq # << >> /\ Head(waitq) = r
  /\ cLockedDbConn # << >>
  /\ waitq' = Tail(waitq)
  /\ cLockedDbConn' = Tail(cLockedDbConn)
  /\ db' = [db EXCEPT ![r] = Head(cLockedDbConn)]
  /\ pc' = [pc EXCEPT ![r] = "resetting"]
  /\ waitingCount' = waitingCount - 1
  /\ UNCHANGED <<locks, clientVars, adminVars>>

(* The runtime takes the goroutine out of the receive queue, wherever it is. *)
LeaveQueue(r) == \E i \in DOMAIN waitq : waitq[i] = r /\ waitq' = RemoveAt(waitq, i)

(* Mutant: the way out of a request that gave up forgets the counter. *)
GiveUpUncounted(r) ==
  /\ pc[r] = "waiting" /\ gone[r]
  /\ LeaveQueue(r)
  /\ Finish(r)
  /\ UNCHANGED <<waitingCount, cLockedDbConn, locks, marker, adminVars>>

(* The other branch of the select: the client left while it waited. *)
GiveUp(r) ==
  /\ pc[r] = "waiting" /\ gone[r]
  /\ LeaveQueue(r)
  /\ waitingCount' = waitingCount - 1
  /\ Finish(r)
  /\ UNCHANGED <<cLockedDbConn, locks, marker, adminVars>>

(* Mutants: the counter is decremented again on the error path; the        *)
(* database is not sent back; the return statement is missing.             *)
ResetFailsRecount(r) ==
  /\ pc[r] = "resetting"
  /\ SendToPool(db[r])
  /\ Finish(r)
  /\ waitingCount' = waitingCount - 1
  /\ UNCHANGED <<locks, waitq, marker, adminVars>>
ResetFailsKeeps(r) ==
  /\ pc[r] = "resetting"
  /\ Finish(r)
  /\ UNCHANGED <<cLockedDbConn, locks, waitingCount, waitq, marker, adminVars>>
ResetFailsGoesOn(r) ==
  /\ pc[r] = "resetting"
  /\ SendToPool(db[r])
  /\ locks' = [locks EXCEPT ![db[r]] = r]
  /\ pc' = [pc EXCEPT ![r] = "holding"]
  /\ UNCHANGED <<waitingCount, waitq, db, clientVars, adminVars>>

(* resetDatabase failed: the database goes back, the client gets a 500. *)
ResetFails(r) ==
  /\ pc[r] = "resetting"
  /\ SendToPool(db[r])
  /\ Finish(r)
  /\ UNCHANGED <<locks, waitingCount, waitq, marker, adminVars>>

(* resetDatabase succeeded: store the LockInfo, stream the connection string *)
(* and block.  A client that left during the reset is noticed only now.      *)
Grant(r) ==
  /\ pc[r] = "resetting"
  /\ locks' = [locks EXCEPT ![db[r]] = r]
  /\ pc' = [pc EXCEPT ![r] = "holding"]
  /\ UNCHANGED <<cLockedDbConn, waitingCount, waitq, db, clientVars, adminVars>>

(* The client closes the stream, its process dies, or its deadline passes. *)
ClientLeaves(r) ==
  /\ pc[r] \in {"waiting", "resetting", "holding"} /\ ~gone[r]
  /\ gone' = [gone EXCEPT ![r] = TRUE]
  /\ UNCHANGED <<cLockedDbConn, locks, waitingCount, waitq, pc, db, lockDone,
                 marker, adminVars>>

(* lockCtx reaches its deadline. *)
AutoUnlock(r) ==
  /\ pc[r] = "holding" /\ ~lockDone[r]
  /\ lockDone' = [lockDone EXCEPT ![r] = TRUE]
  /\ UNCHANGED <<cLockedDbConn, locks, waitingCount, waitq, pc, db, gone,
                 marker, adminVars>>

(* After the second select the handler looks its database up in the map    *)
(* and deletes the entry it finds, whoever stored it.                       *)
DeleteEntry(r) ==
  \/ /\ locks[db[r]] # NoReq
     /\ locks' = [locks EXCEPT ![db[r]] = NoReq]
     /\ pc' = [pc EXCEPT ![r] = "returning"]
     /\ UNCHANGED <<db, gone, lockDone>>
  \/ /\ locks[db[r]] = NoReq
     /\ Finish(r)
     /\ UNCHANGED locks

(* Mutants: the handler sends the database back without looking; one branch *)
(* of the select is missing; a gone client leaves its entry behind.         *)
WakeReturnsAlways(r) ==
  /\ pc[r] = "holding" /\ (gone[r] \/ lockDone[r])
  /\ locks' = [locks EXCEPT ![db[r]] = NoReq]
  /\ pc' = [pc EXCEPT ![r] = "returning"]
  /\ UNCHANGED <<db, gone, lockDone, cLockedDbConn, waitingCount, waitq, marker, adminVars>>
WakeOnClientOnly(r) ==
  /\ pc[r] = "holding" /\ gone[r] /\ DeleteEntry(r)
  /\ UNCHANGED <<cLockedDbConn, waitingCount, waitq, marker, adminVars>>
WakeOnDeadlineOnly(r) ==
  /\ pc[r] = "holding" /\ lockDone[r] /\ DeleteEntry(r)
  /\ UNCHANGED <<cLockedDbConn, waitingCount, waitq, marker, adminVars>>
WakeLeavesEntry(r) ==
  /\ pc[r] = "holding" /\ (gone[r] \/ lockDone[r])
  /\ Finish(r)
  /\ UNCHANGED <<locks, cLockedDbConn, waitingCount, waitq, marker, adminVars>>

(* The second select fires: the client left or lockCtx is done. *)
Wake(r) ==
  /\ pc[r] = "holding" /\ (gone[r] \/ lockDone[r]) /\ DeleteEntry(r)
  /\ UNCHANGED <<cLockedDbConn, waitingCount, waitq, marker, adminVars>>

ReturnToPool(r) ==
  /\ pc[r] = "returning"
  /\ SendToPool(db[r])
  /\ Finish(r)
  /\ UNCHANGED <<locks, waitingCount, waitq, marker, adminVars>>

-----------------------------------------------------------------------------
(* handleUnlock, ForceUnlock, UnlockByMarker, UnlockAll *)

AdminFree(a) == /\ cancelling[a] = NoReq
                /\ \A d \in Databases : released[a][d] = NoReq

(* Mutant: the entries are read but left to their handlers to delete. *)
CopyLocks(a, chosen) ==
  /\ AdminFree(a)
  /\ released' = [released EXCEPT ![a] =
       [d \in Databases |-> IF d \in chosen THEN locks[d] ELSE NoReq]]
  /\ UNCHANGED <<locks, cLockedDbConn, waitingCount, waitq, pc, db, clientVars, cancelling>>

(* One critical section removes the chosen entries and remembers them. *)
RemoveLocks(a, chosen) ==
  /\ AdminFree(a)
  /\ released' = [released EXCEPT ![a] =
       [d \in Databases |-> IF d \in chosen THEN locks[d] ELSE NoReq]]
  /\ locks' = [d \in Databases |-> IF d \in chosen THEN NoReq ELSE locks[d]]
  /\ UNCHANGED <<cLockedDbConn, waitingCount, waitq, pc, db, clientVars, cancelling>>

(* HTTP /unlock: any valid caller may name any locked database. *)
handleUnlock(a, d) == locks[d] # NoReq /\ RemoveLocks(a, {d})

(* HTTP /force-unlock and the TUI. *)
ForceUnlock(a, d) == locks[d] # NoReq /\ RemoveLocks(a, {d})

UnlockByMarker(a, m) ==
  \E chosen \in {{d \in Databases : locks[d] # NoReq /\ marker[locks[d]] = m}} :
    chosen # {} /\ RemoveLocks(a, chosen)

(* HTTP /unlock-all and every restart. *)
UnlockAll(a) == /\ \E d \in Databases : locks[d] # NoReq
                /\ RemoveLocks(a, Databases)

(* cancelAndRelease: first the database goes back ... *)
SendReleased(a, d) ==
  /\ cancelling[a] = NoReq
  /\ released[a][d] # NoReq
  /\ SendToPool(d)
  /\ released' = [released EXCEPT ![a][d] = NoReq]
  /\ cancelling' = [cancelling EXCEPT ![a] = released[a][d]]
  /\ UNCHANGED <<locks, waitingCount, waitq, pc, db, clientVars>>

(* ... then the handler that held it is woken, if it has not left already. *)
CancelHandler(a) ==
  /\ cancelling[a] # NoReq
  /\ lockDone' = [lockDone EXCEPT ![cancelling[a]] =
                    @ \/ pc[cancelling[a]] = "holding"]
  /\ cancelling' = [cancelling EXCEPT ![a] = NoReq]
  /\ UNCHANGED <<cLockedDbConn, locks, waitingCount, waitq, pc, db, gone,
                 marker, released>>

-----------------------------------------------------------------------------
HandlerStep(r) == \/ Receive(r) \/ GiveUp(r)
                  \/ ResetFails(r) \/ Grant(r)
                  \/ Wake(r) \/ ReturnToPool(r)

AdminStep(a) == CancelHandler(a) \/ \E d \in Databases : SendReleased(a, d)

Next ==
  \/ \E r \in Requests : \/ \E m \in Markers : Arrive(r, m)
                         \/ ClientLeaves(r)
                         \/ AutoUnlock(r)
                         \/ HandlerStep(r)
  \/ \E a \in Admins : \/ \E d \in Databases : handleUnlock(a, d)
                       \/ \E d \in Databases : ForceUnlock(a, d)
                       \/ \E m \in Markers : UnlockByMarker(a, m)
                       \/ UnlockAll(a)
                       \/ AdminStep(a)

Spec == Init /\ [][Next]_vars

(* The Go scheduler runs every runnable goroutine, and psql returns.  No    *)
(* client is assumed to arrive, to leave or to unlock, no admin to act.     *)
Scheduling == /\ \A r \in Requests : WF_vars(HandlerStep(r))
              /\ \A a \in Admins : WF_vars(AdminStep(a))

(* The timer of lockCtx fires. *)
Deadlines == \A r \in Requests : WF_vars(AutoUnlock(r))

ScheduledSpec == Spec /\ Scheduling
FairSpec == ScheduledSpec /\ Deadlines

-----------------------------------------------------------------------------
(* Properties *)

TypeOK ==
  /\ cLockedDbConn \in Seq(Databases)
  /\ locks \in [Databases -> MaybeReq]
  /\ waitingCount \in Nat
  /\ waitq \in Seq(Requests)
  /\ pc \in [Requests -> Phases]
  /\ db \in [Requests -> Databases \cup {NoDb}]
  /\ \A r \in Requests : db[r] = NoDb <=> pc[r] \in {"idle", "waiting"}
  /\ marker \in [Requests -> Markers]
  /\ gone \in [Requests -> BOOLEAN]
  /\ lockDone \in [Requests -> BOOLEAN]
  /\ released \in [Admins -> [Databases -> MaybeReq]]
  /\ cancelling \in [Admins -> MaybeReq]

(* The four places a database can be in. *)
InPool(d) == \E i \in DOMAIN cLockedDbConn : cLockedDbConn[i] = d
InLocks(d) == locks[d] # NoReq
Carries(r, d) == pc[r] \in {"resetting", "returning"} /\ db[r] = d
Removed(a, d) == released[a][d] # NoReq

SentOnce == \A i, j \in DOMAIN cLockedDbConn :
              cLockedDbConn[i] = cLockedDbConn[j] => i = j

OnePlace(d) ==
  /\ \/ InPool(d) \/ InLocks(d)
     \/ (\E r \in Requests : Carries(r, d)) \/ (\E a \in Admins : Removed(a, d))
  /\ ~(InPool(d) /\ InLocks(d))
  /\ \A r \in Requests : Carries(r, d) => ~InPool(d) /\ ~InLocks(d)
  /\ \A a \in Admins : Removed(a, d) => ~InPool(d) /\ ~InLocks(d)
  /\ \A r, s \in Requests : Carries(r, d) /\ Carries(s, d) => r = s
  /\ \A a, b \in Admins : Removed(a, d) /\ Removed(b, d) => a = b
  /\ \A r \in Requests, a \in Admins : ~(Carries(r, d) /\ Removed(a, d))

(* No database is lost or duplicated by the unlocked stretches between the  *)
(* map and the channel: each one is at every moment in exactly one of the   *)
(* channel (once), the map, the hands of one handler, the hands of one      *)
(* releaser (handleLock 158-225, cancelAndRelease).                         *)
OnePlaceEach == SentOnce /\ \A d \in Databases : OnePlace(d)

(* A goroutine that sends a database back finds room in the channel, so no  *)
(* release (nor the HTTP handler or TUI command that runs it) ever blocks.  *)
ReleaseNeverBlocks ==
  ((\E r \in Requests : pc[r] \in {"resetting", "returning"})
     \/ (\E a \in Admins, d \in Databases : Removed(a, d)))
  => Len(cLockedDbConn) < Cardinality(Databases)

(* The counter on the dashboard is the number of requests that wait, along  *)
(* all three ways out of the first select.                                  *)
WaitingCounted == waitingCount = Cardinality({r \in Requests : pc[r] = "waiting"})

(* A LockInfo in the map belongs to a handler that still blocks on it, so   *)
(* no entry can stay behind after its handler left: its stream and its      *)
(* deadline can still end it.                                               *)
LockHasHandler ==
  \A d \in Databases : InLocks(d) => /\ pc[locks[d]] = "holding"
                                     /\ db[locks[d]] = d

(* Nobody ended the lock of r: its stream is open, its deadline is ahead,   *)
(* and no admin has removed its LockInfo.                                   *)
Owns(r) == /\ pc[r] = "holding" /\ ~gone[r] /\ ~lockDone[r]
           /\ \A a \in Admins : ~Referenced(a, r)

(* client.go: Lock "acquires an exclusive lock"; each caller receives a     *)
(* different database.                                                      *)
Exclusive == \A r, s \in Requests : Owns(r) /\ Owns(s) /\ db[r] = db[s] => r = s

(* A handler that streams a database is the one the map names, up to the    *)
(* moment it deletes the entry itself.  It holds while nobody releases by   *)
(* force (Admins = {}); a forced release and the late look-up of            *)
(* handleLock 211-219 break it.                                             *)
HoldersKeepTheirLock ==
  \A r \in Requests : pc[r] = "holding" => locks[db[r]] = r

(* Every database comes back to the channel again and again, whatever       *)
(* clients and admins do: none is leaked for good, if the timers fire.      *)
NoDatabaseLeaks == Deadlines => \A d \in Databases : []<>InPool(d)

(* A request never waits for ever behind abandoned locks: the deadline of   *)
(* lockCtx frees a database and receivers are served in order.              *)
EveryWaitEnds ==
  Deadlines => \A r \in Requests : pc[r] = "waiting" ~> pc[r] # "waiting"

(* "The open connection IS the lock": the lock of a client that is gone     *)
(* ends without the help of the deadline, and so does a cancelled one.      *)
AbandonedLockEnds ==
  \A r \in Requests : pc[r] = "holding" /\ (gone[r] \/ lockDone[r]) ~> pc[r] = "idle"

-----------------------------------------------------------------------------
(* PGPool: a request is granted what its handler received and not yet gave back. *)
Granted == {g \in Requests \X Databases :
              /\ pc[g[1]] \in {"resetting", "holding", "returning"}
              /\ db[g[1]] = g[2]}

Pool == INSTANCE PGPool WITH asking <- {r \in Requests : pc[r] = "waiting"},
                             grants <- Granted

(* Without forced releases the locker implements the exclusive pool. *)
PoolSpec == Pool!Spec
PoolLiveSpec == Pool!LiveSpec

(* A lock ends and what it held comes back: no database is lost, no request  *)
(* waits for ever, and an abandoned stream ends its lock (handleLock).       *)
LocksEnd == NoDatabaseLeaks /\ EveryWaitEnds /\ AbandonedLockEnds
=============================================================================
