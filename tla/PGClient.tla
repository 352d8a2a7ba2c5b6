------------------------------- MODULE PGClient -------------------------------
(***************************************************************************)
(* pgflock/client/client.go: Lock, Unlock and CloseAll of one test process *)
(* whose tests run in parallel, against the locker of internal/locker.     *)
(*                                                                         *)
(* An open response body is the lock.  The client keeps the bodies in one  *)
(* map keyed by connection string; the server may take a database back     *)
(* (timeout, force-unlock, unlock-all) and hand it to another test while    *)
(* the first one still has its body.                                       *)
(***************************************************************************)
EXTENDS Naturals, Sequences, FiniteSets

CONSTANTS
  Tests,      \* goroutines of the process that call Lock and Unlock
  Dbs,        \* connection strings of the pool
  MaxStreams, \* lock requests answered in a behaviour
  MaxRevoked  \* times the server takes a database back

ASSUME ClientAssumption == MaxStreams \in Nat /\ MaxRevoked \in Nat

VARIABLES
  stream,    \* 1..n -> [db, body, held, taken, by]: body open at the client, handler blocked
             \* at the server, database taken back, the stream whose test's call removed this
             \* one from the map while it was held, or None
  openConns, \* db -> stream whose body Lock stored last, or None
  test,      \* test -> [at, stream], at "idle", "reading", "using", "done"
  closing    \* "no", "all" after CloseAll, "exit" when the process is gone

libVars == <<stream, openConns, test, closing>>

None == 0
Streams == DOMAIN stream
HolderOf(d) == {s \in Streams : stream[s].db = d /\ stream[s].held}
Taken == {s \in Streams : stream[s].taken}
Undisturbed(d) == \A s \in Taken : stream[s].db # d
(* The lock is gone, or a call of another test went for it.                 *)
Lost(s) == stream[s].taken \/ stream[s].by # None
Put(t, a, s) == test' = [test EXCEPT ![t] = [at |-> a, stream |-> s]]

ClientInit ==
  /\ stream = << >> /\ openConns = [d \in Dbs |-> None]
  /\ test = [t \in Tests |-> [at |-> "idle", stream |-> None]]
  /\ closing = "no"

(* The locker answers with the connection string of a free database. *)
ServerGrants(t, d) ==
  /\ closing = "no" /\ test[t].at = "idle" /\ HolderOf(d) = {} /\ Len(stream) < MaxStreams
  /\ stream' = Append(stream, [db |-> d, body |-> "open", held |-> TRUE, taken |-> FALSE, by |-> None])
  /\ Put(t, "reading", Len(stream) + 1)
  /\ UNCHANGED <<openConns, closing>>

(* Lock gives up: another version of the server, or no line in the answer. *)
LockFails(t) ==
  /\ test[t].at = "reading"
  /\ stream' = [stream EXCEPT ![test[t].stream].body = "closed"]
  /\ Put(t, "idle", None)
  /\ UNCHANGED <<openConns, closing>>

(* What a call for stream s leaves of the stream q that the map has.        *)
Hit(s, q, body) ==
  [stream EXCEPT ![q].body = body, ![q].by = IF q # s /\ stream[q].held THEN s ELSE @]

(* Lock stores the body under connMu and returns.  A body that is in the    *)
(* map under the same connection string is overwritten: nothing closes it   *)
(* any more.                                                                *)
Store(t) ==
  LET s == test[t].stream
      q == openConns[stream[s].db] IN
  /\ test[t].at = "reading"
  /\ IF q = None THEN UNCHANGED stream ELSE stream' = Hit(s, q, "open")
  /\ openConns' = [openConns EXCEPT ![stream[s].db] = s]
  /\ Put(t, "using", s)
  /\ UNCHANGED closing

(* Mutant: the entry stays in the map. *)
UnlockKeeping(t) ==
  LET s == test[t].stream
      q == openConns[stream[s].db] IN
  /\ test[t].at = "using"
  /\ IF q = None THEN UNCHANGED stream ELSE stream' = Hit(s, q, "closed")
  /\ \E a \in {"idle", "done"} : Put(t, a, None)
  /\ UNCHANGED <<openConns, closing>>

(* Mutant: CloseAll called at the end of a test. *)
UnlockEverything(t) ==
  /\ test[t].at = "using"
  /\ stream' = [s \in Streams |-> IF s = openConns[stream[s].db]
                                    THEN [stream[s] EXCEPT !.body = "closed"] ELSE stream[s]]
  /\ openConns' = [d \in Dbs |-> None]
  /\ \E a \in {"idle", "done"} : Put(t, a, None)
  /\ UNCHANGED closing

(* Unlock closes whatever body the map has for the connection string; the   *)
(* test may lock again or be done.                                          *)
Unlock(t) ==
  LET s == test[t].stream
      q == openConns[stream[s].db] IN
  /\ test[t].at = "using"
  /\ IF q = None
       THEN UNCHANGED <<stream, openConns>>
       ELSE /\ stream' = Hit(s, q, "closed")
            /\ openConns' = [openConns EXCEPT ![stream[s].db] = None]
  /\ \E a \in {"idle", "done"} : Put(t, a, None)
  /\ UNCHANGED closing

(* A test ends without Unlock, or without ever locking again. *)
EndTest(t) ==
  /\ test[t].at \in {"idle", "using"}
  /\ Put(t, "done", None)
  /\ UNCHANGED <<stream, openConns, closing>>

(* Mutant: CloseAll empties the map and leaves the bodies to the exit. *)
CloseAllMapOnly ==
  /\ closing = "no" /\ \A t \in Tests : test[t].at = "done"
  /\ openConns' = [d \in Dbs |-> None] /\ closing' = "all"
  /\ UNCHANGED <<stream, test>>

(* TestMain calls CloseAll when every test has finished. *)
CloseAll ==
  /\ closing = "no" /\ \A t \in Tests : test[t].at = "done"
  /\ stream' = [s \in Streams |-> IF s = openConns[stream[s].db]
                                    THEN [stream[s] EXCEPT !.body = "closed"] ELSE stream[s]]
  /\ openConns' = [d \in Dbs |-> None] /\ closing' = "all"
  /\ UNCHANGED <<test>>

(* The operating system closes what is left. *)
Exit ==
  /\ closing = "all" /\ closing' = "exit"
  /\ stream' = [s \in Streams |-> [stream[s] EXCEPT !.body = "closed"]]
  /\ UNCHANGED <<openConns, test>>

(* The handler sees that its client is gone. *)
ServerReleases(s) ==
  /\ stream[s].held /\ stream[s].body = "closed"
  /\ stream' = [stream EXCEPT ![s].held = FALSE]
  /\ UNCHANGED <<openConns, test, closing>>

(* Auto-unlock, force-unlock or unlock-all: the client is not told. *)
ServerRevokes(s) ==
  /\ stream[s].held /\ stream[s].body = "open" /\ Cardinality(Taken) < MaxRevoked
  /\ stream' = [stream EXCEPT ![s].held = FALSE, ![s].taken = TRUE]
  /\ UNCHANGED <<openConns, test, closing>>

Releases == \E s \in Streams : ServerReleases(s)
ClientNext ==
  \/ \E t \in Tests, d \in Dbs : ServerGrants(t, d)
  \/ \E t \in Tests : LockFails(t) \/ Store(t) \/ Unlock(t) \/ EndTest(t)
  \/ CloseAll \/ Exit
  \/ Releases
  \/ \E s \in Streams : ServerRevokes(s)

ClientSpec == ClientInit /\ [][ClientNext]_libVars

-----------------------------------------------------------------------------
(* Properties *)

(* The map holds open bodies only, each under its own connection string: no *)
(* body is closed twice, none is closed and kept.                           *)
MapHasOpenBodies ==
  \A d \in Dbs : openConns[d] # None =>
    stream[openConns[d]].body = "open" /\ stream[openConns[d]].db = d

(* A test in its critical section holds the lock and the map has its own    *)
(* body to unlock, whatever else happened to the database, unless the       *)
(* server took this very lock back or a call of another test went for it.   *)
OwnLock ==
  \A t \in Tests : test[t].at = "using" /\ ~Lost(test[t].stream) =>
    LET s == test[t].stream IN stream[s].held /\ openConns[stream[s].db] = s

(* A lock that is held goes to a call of another test only where that test  *)
(* had lost its own on the same database before, and the first lock lost    *)
(* there was taken back by the server.  This is how far a late Unlock or    *)
(* Store reaches; that it does reach another test is the code's.            *)
OnlyLateCallsHit ==
  \A q \in Streams : stream[q].by # None =>
    LET s == stream[q].by IN
    s \in Streams \ {q} /\ stream[s].db = stream[q].db /\ Lost(s) /\ ~Undisturbed(stream[q].db)

(* CloseAll gives the locks of forgetful tests back before the process      *)
(* exits; only a body whose lock was taken back, or that a late call pushed *)
(* out of the map, may stay open.                                           *)
ClosedAll ==
  closing = "all" => \A s \in Streams : stream[s].body = "open" => Lost(s)

(* The client's map stands for the locks it holds (Lock, Unlock, CloseAll   *)
(* of client.go).  A lock that is lost is lost through a takeback of itself *)
(* or through the late call of a test that had lost its own.  The second    *)
(* happens: a test whose database was taken back and handed on closes, with *)
(* its own Unlock, the stream of the test that has it now, although         *)
(* client.go:68 calls the package safe for concurrent use.                  *)
ClientSound == MapHasOpenBodies /\ OwnLock /\ OnlyLateCallsHit /\ ClosedAll
=============================================================================
