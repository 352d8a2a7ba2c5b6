--------------------------- MODULE PGLockerProofs ---------------------------
(***************************************************************************)
(* Theorems about PGLocker for every number of databases, requests and     *)
(* admins.  The inductive invariant is IInv: the types, the place of every *)
(* database and the exact waiting counter.                                 *)
(***************************************************************************)
EXTENDS PGLocker, SeqFacts, FiniteSetTheorems, SequenceTheorems, TLAPS

Waiting == {r \in Requests : pc[r] = "waiting"}

IInv == TypeOK /\ OnePlaceEach /\ WaitingCounted /\ LockHasHandler

-----------------------------------------------------------------------------
(* Taking an element out of the middle of a queue leaves a queue. *)
LEMMA RemoveAtType ==
  ASSUME NEW S, NEW s \in Seq(S), NEW i \in DOMAIN s
  PROVE  RemoveAt(s, i) \in Seq(S)
<1>1. /\ Len(s) \in Nat /\ i \in 1..Len(s) /\ \A k \in 1..Len(s) : s[k] \in S
  BY LenProperties, ElementOfSeq
<1>2. SubSeq(s, 1, i - 1) \in Seq(S)
  BY <1>1, SubSeqProperties
<1>3. SubSeq(s, i + 1, Len(s)) \in Seq(S)
  BY <1>1, SubSeqProperties
<1> QED BY <1>2, <1>3, ConcatProperties DEF RemoveAt

(* A channel without repetitions that lacks one of the databases has room   *)
(* for it.                                                                  *)
LEMMA RoomForMissing ==
  ASSUME NEW S, IsFiniteSet(S), NEW s \in Seq(S), NEW d \in S,
         Distinct(s), ~Occurs(s, d)
  PROVE  Len(s) < Cardinality(S)
<1>1. Len(s) \in Nat /\ DOMAIN s = 1..Len(s) /\ s \in [1..Len(s) -> S]
  BY LenProperties
<1>2. s \in [1..Len(s) -> S \ {d}]
  BY <1>1 DEF Occurs
<1>3. s \in Injection(1..Len(s), S \ {d})
  BY <1>1, <1>2 DEF Distinct, Injection, IsInjective
<1>4. IsFiniteSet(S \ {d}) /\ Cardinality(S \ {d}) = Cardinality(S) - 1
  BY FS_RemoveElement
<1>5. Cardinality(1..Len(s)) <= Cardinality(S \ {d})
  BY <1>3, <1>4, FS_Injection
<1>6. Cardinality(1..Len(s)) = Len(s)
  BY <1>1, FS_Interval
<1>7. Cardinality(S) \in Nat
  BY FS_CardinalityType
<1> QED BY <1>1, <1>4, <1>5, <1>6, <1>7

-----------------------------------------------------------------------------
(* What a send to the channel does to the places of the databases. *)
LEMMA SendFacts ==
  ASSUME TypeOK, OnePlaceEach, NEW d \in Databases, SendToPool(d), ~InPool(d)
  PROVE  /\ cLockedDbConn' \in Seq(Databases)
         /\ Distinct(cLockedDbConn')
         /\ \A e \in Databases : InPool(e)' <=> InPool(e) \/ e = d
<1>1. Distinct(cLockedDbConn) /\ ~Occurs(cLockedDbConn, d)
  BY DEF OnePlaceEach, SentOnce, Distinct, Occurs, InPool
<1>2. cLockedDbConn \in Seq(Databases) /\ cLockedDbConn' = Append(cLockedDbConn, d)
  BY DEF TypeOK, SendToPool
<1>3. \A e : Occurs(cLockedDbConn', e) <=> Occurs(cLockedDbConn, e) \/ e = d
  BY <1>1, <1>2, AppendFacts
<1>4. cLockedDbConn' \in Seq(Databases) /\ Distinct(cLockedDbConn')
  BY <1>1, <1>2, AppendFacts
<1> QED BY <1>3, <1>4 DEF InPool, Occurs

(* The set of waiting requests loses r and the counter one. *)
LEMMA LeaveWaiting ==
  ASSUME TypeOK, WaitingCounted, NEW r \in Requests, pc[r] = "waiting",
         Waiting' = Waiting \ {r}, waitingCount' = waitingCount - 1
  PROVE  waitingCount' \in Nat /\ WaitingCounted'
<1>1. IsFiniteSet(Waiting)
  BY FiniteAssumption, FS_Subset DEF Waiting
<1>2. r \in Waiting
  BY DEF Waiting
<1>3. Cardinality(Waiting) \in Nat /\ Cardinality(Waiting') = Cardinality(Waiting) - 1
      /\ Cardinality(Waiting') \in Nat
  BY <1>1, <1>2, FS_RemoveElement, FS_CardinalityType
<1> QED BY <1>3 DEF WaitingCounted, Waiting, TypeOK

(* A step after which every predicate on places is as before. *)
LEMMA SamePlaces ==
  ASSUME OnePlaceEach, UNCHANGED cLockedDbConn,
         \A e \in Databases :
           /\ InLocks(e)' <=> InLocks(e)
           /\ \A s \in Requests : Carries(s, e)' <=> Carries(s, e)
           /\ \A a \in Admins : Removed(a, e)' <=> Removed(a, e)
  PROVE  OnePlaceEach'
<1>1. SentOnce' /\ \A e \in Databases : InPool(e)' <=> InPool(e)
  BY DEF OnePlaceEach, SentOnce, InPool
<1>2. ASSUME NEW e \in Databases PROVE OnePlace(e)'
  BY <1>1 DEF OnePlaceEach, OnePlace
<1> QED BY <1>1, <1>2 DEF OnePlaceEach

-----------------------------------------------------------------------------
(* The initial state: every database is in the channel, once. *)
LEMMA InitInv == Init => IInv
<1> SUFFICES ASSUME Init PROVE IInv
  OBVIOUS
<1> USE DEF Init
<1>1. Cardinality(Databases) \in Nat
  BY FiniteAssumption, FS_CardinalityType
<1>2. /\ cLockedDbConn \in [1..Cardinality(Databases) -> Databases]
      /\ \A i, j \in 1..Cardinality(Databases) :
           cLockedDbConn[i] = cLockedDbConn[j] => i = j
      /\ \A d \in Databases : \E i \in 1..Cardinality(Databases) : cLockedDbConn[i] = d
  BY DEF Bijection, Injection, Surjection, IsInjective
<1>3. cLockedDbConn \in Seq(Databases) /\ DOMAIN cLockedDbConn = 1..Cardinality(Databases)
  BY <1>1, <1>2, SeqDef
<1>4. TypeOK
  BY <1>3, NoneAssumption, EmptySeq DEF TypeOK, MaybeReq, Phases
<1>5. OnePlaceEach
  BY <1>2, <1>3 DEF OnePlaceEach, SentOnce, OnePlace, InPool, InLocks, Carries, Removed
<1>6. WaitingCounted
  BY FS_EmptySet DEF WaitingCounted
<1>7. LockHasHandler
  BY DEF LockHasHandler, InLocks
<1> QED BY <1>4, <1>5, <1>6, <1>7 DEF IInv

-----------------------------------------------------------------------------
(* Each action preserves IInv. *)
LEMMA ArriveInv ==
  ASSUME IInv, NEW r \in Requests, NEW m \in Markers, Arrive(r, m)
  PROVE  IInv'
<1> USE DEF IInv
<1>1. waitq' \in Seq(Requests)
  BY AppendProperties DEF TypeOK, Arrive
<1>2. TypeOK'
  BY <1>1 DEF TypeOK, Arrive, adminVars, Phases, MaybeReq
<1>3. OnePlaceEach'
  <2>1. \A e \in Databases :
          /\ InLocks(e)' <=> InLocks(e)
          /\ \A s \in Requests : Carries(s, e)' <=> Carries(s, e)
          /\ \A a \in Admins : Removed(a, e)' <=> Removed(a, e)
    BY DEF TypeOK, InLocks, Carries, Removed, Arrive, adminVars
  <2> QED BY <2>1, SamePlaces DEF Arrive
<1>4. WaitingCounted'
  <2>1. Waiting' = Waiting \cup {r} /\ r \notin Waiting
    BY DEF Waiting, Arrive, TypeOK
  <2>2. IsFiniteSet(Waiting)
    BY FiniteAssumption, FS_Subset DEF Waiting
  <2>3. Cardinality(Waiting') = Cardinality(Waiting) + 1
    BY <2>1, <2>2, FS_AddElement
  <2> QED BY <2>3 DEF WaitingCounted, Waiting, Arrive
<1>5. LockHasHandler'
  BY NoneAssumption DEF LockHasHandler, InLocks, Arrive, TypeOK, MaybeReq
<1> QED BY <1>2, <1>3, <1>4, <1>5

LEMMA ReceiveInv ==
  ASSUME IInv, NEW r \in Requests, Receive(r)
  PROVE  IInv'
<1> USE DEF IInv
<1> DEFINE d == Head(cLockedDbConn)
<1>1. /\ cLockedDbConn' \in Seq(Databases) /\ d \in Databases /\ InPool(d)
      /\ Distinct(cLockedDbConn')
      /\ \A e \in Databases : InPool(e)' <=> InPool(e) /\ e # d
  <2>1. cLockedDbConn \in Seq(Databases) /\ cLockedDbConn # << >>
        /\ Distinct(cLockedDbConn) /\ cLockedDbConn' = Tail(cLockedDbConn)
    BY DEF TypeOK, OnePlaceEach, SentOnce, Distinct, Receive
  <2>2. /\ cLockedDbConn' \in Seq(Databases) /\ d \in Databases
        /\ Occurs(cLockedDbConn, d) /\ Distinct(cLockedDbConn')
        /\ \A e : Occurs(cLockedDbConn', e) <=> Occurs(cLockedDbConn, e) /\ e # d
    BY <2>1, TailFacts
  <2> QED BY <2>2 DEF InPool, Occurs
<1>2. waitq' \in Seq(Requests)
  BY HeadTailProperties DEF TypeOK, Receive
<1>3. waitingCount' \in Nat /\ WaitingCounted'
  <2>1. Waiting' = Waiting \ {r} /\ pc[r] = "waiting" /\ waitingCount' = waitingCount - 1
    BY DEF Waiting, Receive, TypeOK
  <2> QED BY <2>1, LeaveWaiting
<1>4. TypeOK'
  BY <1>1, <1>2, <1>3, NoneAssumption
  DEF TypeOK, Receive, clientVars, adminVars, Phases, MaybeReq
<1>5. OnePlaceEach'
  <2>1. /\ \A e \in Databases : InLocks(e)' <=> InLocks(e)
        /\ \A a \in Admins, e \in Databases : Removed(a, e)' <=> Removed(a, e)
        /\ \A s \in Requests, e \in Databases :
             Carries(s, e)' <=> Carries(s, e) \/ (s = r /\ e = d)
    BY DEF InLocks, Removed, Carries, Receive, adminVars, TypeOK
  <2> HIDE DEF d
  <2>2. ASSUME NEW e \in Databases PROVE OnePlace(e)'
    BY <1>1, <2>1 DEF OnePlaceEach, OnePlace
  <2> QED BY <1>1, <2>2 DEF OnePlaceEach, SentOnce, Distinct
<1>6. LockHasHandler'
  BY DEF LockHasHandler, InLocks, Receive, TypeOK, MaybeReq
<1> QED BY <1>3, <1>4, <1>5, <1>6

LEMMA GiveUpInv ==
  ASSUME IInv, NEW r \in Requests, GiveUp(r)
  PROVE  IInv'
<1> USE DEF IInv
<1>1. waitq' \in Seq(Requests)
  BY RemoveAtType DEF TypeOK, GiveUp, LeaveQueue
<1>2. waitingCount' \in Nat /\ WaitingCounted'
  <2>1. Waiting' = Waiting \ {r} /\ pc[r] = "waiting" /\ waitingCount' = waitingCount - 1
    BY DEF Waiting, GiveUp, Finish, TypeOK
  <2> QED BY <2>1, LeaveWaiting
<1>3. TypeOK'
  BY <1>1, <1>2 DEF TypeOK, GiveUp, Finish, adminVars, Phases, MaybeReq
<1>4. OnePlaceEach'
  <2>1. \A e \in Databases :
          /\ InLocks(e)' <=> InLocks(e)
          /\ \A s \in Requests : Carries(s, e)' <=> Carries(s, e)
          /\ \A a \in Admins : Removed(a, e)' <=> Removed(a, e)
    BY DEF TypeOK, InLocks, Carries, Removed, GiveUp, Finish, adminVars
  <2> QED BY <2>1, SamePlaces DEF GiveUp
<1>5. LockHasHandler'
  BY DEF LockHasHandler, InLocks, GiveUp, Finish, TypeOK, MaybeReq
<1> QED BY <1>2, <1>3, <1>4, <1>5

(* ResetFails and ReturnToPool: the handler sends what it carries and ends. *)
LEMMA SendAndFinishInv ==
  ASSUME IInv, NEW r \in Requests, pc[r] \in {"resetting", "returning"},
         SendToPool(db[r]), Finish(r),
         UNCHANGED <<locks, waitingCount, waitq, marker, adminVars>>
  PROVE  IInv'
<1> USE DEF IInv
<1>1. db[r] \in Databases /\ Carries(r, db[r])
  BY DEF TypeOK, Carries
<1>2. ~InPool(db[r])
  BY <1>1 DEF OnePlaceEach, OnePlace
<1>3. /\ cLockedDbConn' \in Seq(Databases) /\ Distinct(cLockedDbConn')
      /\ \A e \in Databases : InPool(e)' <=> InPool(e) \/ e = db[r]
  BY <1>1, <1>2, SendFacts
<1>4. TypeOK'
  BY <1>3 DEF TypeOK, Finish, adminVars, Phases, MaybeReq
<1>5. OnePlaceEach'
  <2>1. /\ \A e \in Databases : InLocks(e)' <=> InLocks(e)
        /\ \A a \in Admins, e \in Databases : Removed(a, e)' <=> Removed(a, e)
        /\ \A s \in Requests, e \in Databases :
             Carries(s, e)' <=> Carries(s, e) /\ s # r
    BY DEF InLocks, Removed, Carries, Finish, adminVars, TypeOK
  <2>2. \A e \in Databases : Carries(r, e) <=> e = db[r]
    BY <1>1 DEF Carries
  <2>3. ASSUME NEW e \in Databases PROVE OnePlace(e)'
    BY <1>3, <2>1, <2>2 DEF OnePlaceEach, OnePlace
  <2> QED BY <1>3, <2>3 DEF OnePlaceEach, SentOnce, Distinct
<1>6. WaitingCounted'
  <2>1. Waiting' = Waiting
    BY DEF Waiting, Finish, TypeOK
  <2> QED BY <2>1 DEF WaitingCounted, Waiting
<1>7. LockHasHandler'
  BY DEF LockHasHandler, InLocks, Finish, TypeOK, MaybeReq
<1> QED BY <1>4, <1>5, <1>6, <1>7

LEMMA GrantInv ==
  ASSUME IInv, NEW r \in Requests, Grant(r)
  PROVE  IInv'
<1> USE DEF IInv
<1>1. db[r] \in Databases /\ Carries(r, db[r])
  BY DEF TypeOK, Carries, Grant
<1>2. TypeOK'
  BY <1>1 DEF TypeOK, Grant, clientVars, adminVars, Phases, MaybeReq
<1>3. OnePlaceEach'
  <2>1. /\ \A e \in Databases : InPool(e)' <=> InPool(e)
        /\ \A e \in Databases : InLocks(e)' <=> InLocks(e) \/ e = db[r]
        /\ \A a \in Admins, e \in Databases : Removed(a, e)' <=> Removed(a, e)
        /\ \A s \in Requests, e \in Databases :
             Carries(s, e)' <=> Carries(s, e) /\ s # r
    BY NoneAssumption DEF InPool, InLocks, Removed, Carries, Grant, adminVars, TypeOK
  <2>2. \A e \in Databases : Carries(r, e) <=> e = db[r]
    BY <1>1 DEF Carries
  <2>3. ASSUME NEW e \in Databases PROVE OnePlace(e)'
    BY <2>1, <2>2 DEF OnePlaceEach, OnePlace
  <2> QED BY <2>3 DEF OnePlaceEach, SentOnce, Grant
<1>4. WaitingCounted'
  <2>1. Waiting' = Waiting
    BY DEF Waiting, Grant, TypeOK
  <2> QED BY <2>1 DEF WaitingCounted, Waiting, Grant
<1>5. LockHasHandler'
  BY <1>1 DEF LockHasHandler, InLocks, Grant, TypeOK, MaybeReq
<1> QED BY <1>2, <1>3, <1>4, <1>5

(* ClientLeaves, AutoUnlock and CancelHandler only change what the handlers *)
(* will notice.                                                             *)
LEMMA SignalInv ==
  ASSUME IInv, UNCHANGED <<cLockedDbConn, locks, waitingCount, waitq, pc, db,
                           marker, released>>,
         gone' \in [Requests -> BOOLEAN], lockDone' \in [Requests -> BOOLEAN],
         cancelling' \in [Admins -> MaybeReq]
  PROVE  IInv'
<1> USE DEF IInv
<1>1. TypeOK'
  BY DEF TypeOK
<1>2. OnePlaceEach'
  <2>1. \A e \in Databases :
          /\ InLocks(e)' <=> InLocks(e)
          /\ \A s \in Requests : Carries(s, e)' <=> Carries(s, e)
          /\ \A a \in Admins : Removed(a, e)' <=> Removed(a, e)
    BY DEF InLocks, Carries, Removed
  <2> QED BY <2>1, SamePlaces
<1>3. WaitingCounted' /\ LockHasHandler'
  BY DEF WaitingCounted, LockHasHandler, InLocks
<1> QED BY <1>1, <1>2, <1>3

LEMMA WakeInv ==
  ASSUME IInv, NEW r \in Requests, Wake(r)
  PROVE  IInv'
<1> USE DEF IInv
<1>1. db[r] \in Databases /\ pc[r] = "holding"
  BY DEF TypeOK, Wake
<1>2. TypeOK'
  BY <1>1 DEF TypeOK, Wake, DeleteEntry, Finish, adminVars, Phases, MaybeReq
<1>3. OnePlaceEach'
  <2>1. CASE locks[db[r]] # NoReq
    <3>1. /\ \A e \in Databases : InPool(e)' <=> InPool(e)
          /\ \A e \in Databases : InLocks(e)' <=> InLocks(e) /\ e # db[r]
          /\ \A a \in Admins, e \in Databases : Removed(a, e)' <=> Removed(a, e)
          /\ \A s \in Requests, e \in Databases :
               Carries(s, e)' <=> Carries(s, e) \/ (s = r /\ e = db[r])
      BY <2>1, <1>1 DEF InPool, InLocks, Removed, Carries, Wake, DeleteEntry, Finish,
                        adminVars, TypeOK
    <3>2. InLocks(db[r])
      BY <2>1 DEF InLocks
    <3>3. ASSUME NEW e \in Databases PROVE OnePlace(e)'
      BY <1>1, <3>1, <3>2 DEF OnePlaceEach, OnePlace
    <3> QED BY <3>3 DEF OnePlaceEach, SentOnce, Wake
  <2>2. CASE locks[db[r]] = NoReq
    <3>1. \A e \in Databases :
            /\ InLocks(e)' <=> InLocks(e)
            /\ \A s \in Requests : Carries(s, e)' <=> Carries(s, e)
            /\ \A a \in Admins : Removed(a, e)' <=> Removed(a, e)
      BY <2>2, <1>1 DEF InLocks, Removed, Carries, Wake, DeleteEntry, Finish,
                        adminVars, TypeOK
    <3> QED BY <3>1, SamePlaces DEF Wake
  <2> QED BY <2>1, <2>2
<1>4. WaitingCounted'
  <2>1. Waiting' = Waiting
    BY <1>1 DEF Waiting, Wake, DeleteEntry, Finish, TypeOK
  <2> QED BY <2>1 DEF WaitingCounted, Waiting, Wake
<1>5. LockHasHandler'
  BY <1>1 DEF LockHasHandler, InLocks, Wake, DeleteEntry, Finish, TypeOK, MaybeReq
<1> QED BY <1>2, <1>3, <1>4, <1>5

LEMMA RemoveLocksInv ==
  ASSUME IInv, NEW a \in Admins, NEW chosen \in SUBSET Databases,
         RemoveLocks(a, chosen)
  PROVE  IInv'
<1> USE DEF IInv
<1>1. TypeOK'
  BY DEF TypeOK, RemoveLocks, clientVars, Phases, MaybeReq
<1>2. OnePlaceEach'
  <2>1. /\ \A e \in Databases : InPool(e)' <=> InPool(e)
        /\ \A e \in Databases : InLocks(e)' <=> InLocks(e) /\ e \notin chosen
        /\ \A s \in Requests, e \in Databases : Carries(s, e)' <=> Carries(s, e)
        /\ \A b \in Admins, e \in Databases :
             Removed(b, e)' <=> Removed(b, e) \/ (b = a /\ e \in chosen /\ InLocks(e))
    BY DEF InPool, InLocks, Removed, Carries, RemoveLocks, AdminFree, TypeOK
  <2>2. ASSUME NEW e \in Databases PROVE OnePlace(e)'
    BY <2>1 DEF OnePlaceEach, OnePlace
  <2> QED BY <2>2 DEF OnePlaceEach, SentOnce, RemoveLocks
<1>3. WaitingCounted'
  BY DEF WaitingCounted, RemoveLocks
<1>4. LockHasHandler'
  BY DEF LockHasHandler, InLocks, RemoveLocks, TypeOK, MaybeReq
<1> QED BY <1>1, <1>2, <1>3, <1>4

LEMMA SendReleasedInv ==
  ASSUME IInv, NEW a \in Admins, NEW d \in Databases, SendReleased(a, d)
  PROVE  IInv'
<1> USE DEF IInv
<1>1. Removed(a, d) /\ ~InPool(d)
  BY DEF SendReleased, Removed, OnePlaceEach, OnePlace
<1>2. /\ cLockedDbConn' \in Seq(Databases) /\ Distinct(cLockedDbConn')
      /\ \A e \in Databases : InPool(e)' <=> InPool(e) \/ e = d
  BY <1>1, SendFacts DEF SendReleased
<1>3. TypeOK'
  BY <1>2 DEF TypeOK, SendReleased, clientVars, Phases, MaybeReq
<1>4. OnePlaceEach'
  <2>1. /\ \A e \in Databases : InLocks(e)' <=> InLocks(e)
        /\ \A s \in Requests, e \in Databases : Carries(s, e)' <=> Carries(s, e)
        /\ \A b \in Admins, e \in Databases :
             Removed(b, e)' <=> Removed(b, e) /\ ~(b = a /\ e = d)
    BY DEF InLocks, Removed, Carries, SendReleased, TypeOK
  <2>2. ASSUME NEW e \in Databases PROVE OnePlace(e)'
    BY <1>1, <1>2, <2>1 DEF OnePlaceEach, OnePlace
  <2> QED BY <1>2, <2>2 DEF OnePlaceEach, SentOnce, Distinct
<1>5. WaitingCounted' /\ LockHasHandler'
  BY DEF WaitingCounted, LockHasHandler, InLocks, SendReleased
<1> QED BY <1>3, <1>4, <1>5

-----------------------------------------------------------------------------
(* Every step preserves IInv. *)
LEMMA NextInv == IInv /\ [Next]_vars => IInv'
<1> SUFFICES ASSUME IInv, [Next]_vars PROVE IInv'
  OBVIOUS
<1>1. ASSUME NEW r \in Requests, NEW m \in Markers, Arrive(r, m) PROVE IInv'
  BY <1>1, ArriveInv
<1>2. ASSUME NEW r \in Requests, ClientLeaves(r) PROVE IInv'
  BY <1>2, SignalInv DEF ClientLeaves, adminVars, IInv, TypeOK
<1>3. ASSUME NEW r \in Requests, AutoUnlock(r) PROVE IInv'
  BY <1>3, SignalInv DEF AutoUnlock, adminVars, IInv, TypeOK
<1>4. ASSUME NEW r \in Requests, HandlerStep(r) PROVE IInv'
  <2>1. CASE Receive(r)
    BY <2>1, ReceiveInv
  <2>2. CASE GiveUp(r)
    BY <2>2, GiveUpInv
  <2>3. CASE ResetFails(r)
    BY <2>3, SendAndFinishInv DEF ResetFails
  <2>4. CASE Grant(r)
    BY <2>4, GrantInv
  <2>5. CASE Wake(r)
    BY <2>5, WakeInv
  <2>6. CASE ReturnToPool(r)
    BY <2>6, SendAndFinishInv DEF ReturnToPool
  <2> QED BY <1>4, <2>1, <2>2, <2>3, <2>4, <2>5, <2>6 DEF HandlerStep
<1>5. ASSUME NEW a \in Admins, NEW d \in Databases,
             handleUnlock(a, d) \/ ForceUnlock(a, d) \/ SendReleased(a, d)
      PROVE  IInv'
  BY <1>5, RemoveLocksInv, SendReleasedInv DEF handleUnlock, ForceUnlock
<1>6. ASSUME NEW a \in Admins, NEW m \in Markers, UnlockByMarker(a, m) PROVE IInv'
  BY <1>6, RemoveLocksInv DEF UnlockByMarker
<1>7. ASSUME NEW a \in Admins, UnlockAll(a) PROVE IInv'
  BY <1>7, RemoveLocksInv DEF UnlockAll
<1>8. ASSUME NEW a \in Admins, CancelHandler(a) PROVE IInv'
  <2>1. /\ gone' \in [Requests -> BOOLEAN] /\ lockDone' \in [Requests -> BOOLEAN]
        /\ cancelling' \in [Admins -> MaybeReq]
    BY <1>8 DEF CancelHandler, IInv, TypeOK, MaybeReq
  <2> QED BY <1>8, <2>1, SignalInv DEF CancelHandler
<1>9. CASE UNCHANGED vars
  <2>1. /\ gone' \in [Requests -> BOOLEAN] /\ lockDone' \in [Requests -> BOOLEAN]
        /\ cancelling' \in [Admins -> MaybeReq]
    BY <1>9 DEF vars, IInv, TypeOK
  <2> QED BY <1>9, <2>1, SignalInv DEF vars
<1> QED BY <1>1, <1>2, <1>3, <1>4, <1>5, <1>6, <1>7, <1>8, <1>9 DEF Next, AdminStep

LEMMA Invariance == Spec => []IInv
<1> QED BY InitInv, NextInv, PTL DEF Spec

(* The variables of the locker keep their types; in particular the atomic   *)
(* counter of waiting requests never goes below zero.                       *)
THEOREM TypeCorrect == Spec => []TypeOK
<1>1. IInv => TypeOK
  BY DEF IInv
<1> QED BY <1>1, Invariance, PTL

(* Whatever clients and admins do, a database is in exactly one place.      *)
THEOREM Conservation == Spec => []OnePlaceEach
<1>1. IInv => OnePlaceEach
  BY DEF IInv
<1> QED BY <1>1, Invariance, PTL

(* The counter is exact on every way out of handleLock's first select.      *)
THEOREM WaitingExact == Spec => []WaitingCounted
<1>1. IInv => WaitingCounted
  BY DEF IInv
<1> QED BY <1>1, Invariance, PTL

(* Every LockInfo in the map has a handler that blocks on it.               *)
THEOREM NoOrphanLock == Spec => []LockHasHandler
<1>1. IInv => LockHasHandler
  BY DEF IInv
<1> QED BY <1>1, Invariance, PTL

(* The channel has room for every database somebody is about to send.       *)
THEOREM NoBlockedRelease == Spec => []ReleaseNeverBlocks
<1>1. ASSUME IInv PROVE ReleaseNeverBlocks
  <2>1. ASSUME NEW d \in Databases, ~InPool(d)
        PROVE  Len(cLockedDbConn) < Cardinality(Databases)
    <3>1. /\ cLockedDbConn \in Seq(Databases) /\ Distinct(cLockedDbConn)
          /\ ~Occurs(cLockedDbConn, d)
      BY <1>1, <2>1 DEF IInv, TypeOK, OnePlaceEach, SentOnce, Distinct, Occurs, InPool
    <3> QED BY <3>1, FiniteAssumption, RoomForMissing
  <2>2. ASSUME NEW r \in Requests, pc[r] \in {"resetting", "returning"}
        PROVE  db[r] \in Databases /\ ~InPool(db[r])
    <3>1. db[r] \in Databases /\ Carries(r, db[r])
      BY <1>1, <2>2 DEF IInv, TypeOK, Carries
    <3> QED BY <3>1, <1>1 DEF IInv, OnePlaceEach, OnePlace
  <2>3. ASSUME NEW a \in Admins, NEW d \in Databases, Removed(a, d) PROVE ~InPool(d)
    BY <1>1, <2>3 DEF IInv, OnePlaceEach, OnePlace
  <2> QED BY <2>1, <2>2, <2>3 DEF ReleaseNeverBlocks
<1> QED BY <1>1, Invariance, PTL

-----------------------------------------------------------------------------
(* Without forced releases. *)

LEMMA KeepLockStep ==
  ASSUME Admins = {}, IInv, HoldersKeepTheirLock, [Next]_vars
  PROVE  HoldersKeepTheirLock'
<1> USE DEF HoldersKeepTheirLock, IInv
<1>1. ASSUME NEW r \in Requests, Grant(r) PROVE HoldersKeepTheirLock'
  <2>1. db[r] \in Databases /\ Carries(r, db[r])
    BY <1>1 DEF Grant, TypeOK, Carries
  <2>2. locks[db[r]] = NoReq
    BY <2>1 DEF OnePlaceEach, OnePlace, InLocks
  <2>3. ASSUME NEW s \in Requests, s # r, pc[s] = "holding"
        PROVE  db[s] # db[r]
    BY <2>2, <2>3, NoneAssumption
  <2> QED BY <1>1, <2>1, <2>3 DEF Grant, TypeOK
<1>2. ASSUME NEW r \in Requests, Wake(r) PROVE HoldersKeepTheirLock'
  <2>1. ASSUME NEW s \in Requests, s # r, pc[s] = "holding"
        PROVE  db[s] # db[r]
    BY <1>2, <2>1 DEF Wake
  <2> QED BY <1>2, <2>1 DEF Wake, DeleteEntry, Finish, TypeOK
<1>3. ASSUME NEW r \in Requests,
             \/ \E m \in Markers : Arrive(r, m)
             \/ Receive(r) \/ GiveUp(r) \/ ResetFails(r) \/ ReturnToPool(r)
             \/ ClientLeaves(r) \/ AutoUnlock(r)
      PROVE  HoldersKeepTheirLock'
  BY <1>3 DEF Arrive, Receive, GiveUp, ResetFails, ReturnToPool, ClientLeaves,
              AutoUnlock, Finish, TypeOK
<1>4. CASE UNCHANGED vars
  BY <1>4 DEF vars
<1> QED BY <1>1, <1>2, <1>3, <1>4 DEF Next, HandlerStep

(* While nobody releases by force, a handler that streams a database is the *)
(* one the map names.                                                       *)
THEOREM KeepLock == ASSUME Admins = {} PROVE Spec => []HoldersKeepTheirLock
<1>1. Init => HoldersKeepTheirLock
  BY DEF Init, HoldersKeepTheirLock
<1>2. IInv /\ HoldersKeepTheirLock /\ [Next]_vars => HoldersKeepTheirLock'
  BY KeepLockStep
<1> QED BY <1>1, <1>2, Invariance, PTL DEF Spec

(* Without forced releases a database is never held by two requests.        *)
THEOREM MutualExclusion == ASSUME Admins = {} PROVE Spec => []Exclusive
<1>1. IInv /\ HoldersKeepTheirLock => Exclusive
  BY DEF HoldersKeepTheirLock, Exclusive, Owns, IInv, TypeOK
<1> QED BY <1>1, KeepLock, Invariance, PTL

-----------------------------------------------------------------------------
(* The abstract view: two sets of pairs with the same pairs are equal. *)
LEMMA SamePairs ==
  ASSUME NEW A, NEW B, NEW X \in SUBSET (A \X B), NEW Y \in SUBSET (A \X B),
         \A a \in A, b \in B : <<a, b>> \in X <=> <<a, b>> \in Y
  PROVE  X = Y
<1>1. \A p \in A \X B : \E a \in A, b \in B : p = <<a, b>>
  OBVIOUS
<1>2. \A p \in A \X B : p \in X <=> p \in Y
  BY <1>1
<1> QED BY <1>2

Asking == {r \in Requests : pc[r] = "waiting"}

(* Who is granted what, read off the handlers, before and after a step. *)
LEMMA GrantedPairs ==
  /\ Granted \in SUBSET (Requests \X Databases)
  /\ Granted' \in SUBSET (Requests \X Databases)
  /\ \A s \in Requests, e \in Databases :
       /\ <<s, e>> \in Granted
            <=> pc[s] \in {"resetting", "holding", "returning"} /\ db[s] = e
       /\ <<s, e>> \in Granted'
            <=> pc'[s] \in {"resetting", "holding", "returning"} /\ db'[s] = e
BY DEF Granted

(* A handler that goes on with the same database changes nothing abstract. *)
LEMMA SameGrants ==
  ASSUME \A s \in Requests :
           /\ pc'[s] = "waiting" <=> pc[s] = "waiting"
           /\ pc'[s] \in {"resetting", "holding", "returning"}
                <=> pc[s] \in {"resetting", "holding", "returning"}
           /\ pc[s] \in {"resetting", "holding", "returning"} => db'[s] = db[s]
  PROVE  Asking' = Asking /\ Granted' = Granted
<1>1. Asking' = Asking
  BY DEF Asking
<1>2. \A s \in Requests, e \in Databases : <<s, e>> \in Granted' <=> <<s, e>> \in Granted
  BY GrantedPairs
<1>3. Granted' = Granted
  BY <1>2, GrantedPairs, SamePairs
<1> QED BY <1>1, <1>3

LEMMA ArriveAsks ==
  ASSUME TypeOK, NEW r \in Requests, NEW m \in Markers, Arrive(r, m)
  PROVE  Pool!Ask(r)
<1>1. pc[r] = "idle" /\ pc' = [pc EXCEPT ![r] = "waiting"] /\ db' = db
  BY DEF Arrive
<1>2. Asking' = Asking \cup {r} /\ r \notin Asking
  BY <1>1 DEF Asking, TypeOK
<1>3. \A d \in Databases : <<r, d>> \notin Granted
  BY <1>1, GrantedPairs
<1>4. \A s \in Requests, e \in Databases : <<s, e>> \in Granted' <=> <<s, e>> \in Granted
  BY <1>1, GrantedPairs DEF TypeOK
<1>5. Granted' = Granted
  BY <1>4, GrantedPairs, SamePairs
<1> QED BY <1>2, <1>3, <1>5 DEF Pool!Ask, Pool!Busy, Asking

LEMMA GiveUpWithdraws ==
  ASSUME TypeOK, NEW r \in Requests, GiveUp(r)
  PROVE  Pool!Withdraw(r)
<1>1. pc[r] = "waiting" /\ pc' = [pc EXCEPT ![r] = "idle"]
      /\ db' = [db EXCEPT ![r] = NoDb]
  BY DEF GiveUp, Finish
<1>2. Asking' = Asking \ {r} /\ r \in Asking
  BY <1>1 DEF Asking, TypeOK
<1>3. \A s \in Requests, e \in Databases : <<s, e>> \in Granted' <=> <<s, e>> \in Granted
  BY <1>1, GrantedPairs DEF TypeOK
<1>4. Granted' = Granted
  BY <1>3, GrantedPairs, SamePairs
<1> QED BY <1>2, <1>4 DEF Pool!Withdraw, Asking

(* A database in the channel is in nobody's hands. *)
LEMMA ReceiveTakes ==
  ASSUME IInv, HoldersKeepTheirLock, NEW r \in Requests, Receive(r)
  PROVE  \E d \in Databases : Pool!Take(r, d)
<1> USE DEF IInv
<1> DEFINE d == Head(cLockedDbConn)
<1>1. d \in Databases /\ InPool(d)
  <2>1. cLockedDbConn \in Seq(Databases) /\ cLockedDbConn # << >>
    BY DEF TypeOK, Receive
  <2> QED BY <2>1, TailFacts DEF InPool, Occurs
<1>2. pc[r] = "waiting" /\ pc' = [pc EXCEPT ![r] = "resetting"]
      /\ db' = [db EXCEPT ![r] = d]
  BY DEF Receive
<1> HIDE DEF d
<1>3. locks[d] = NoReq /\ \A s \in Requests : ~Carries(s, d)
  BY <1>1 DEF OnePlaceEach, OnePlace, InLocks
<1>4. \A s \in Requests : <<s, d>> \notin Granted
  <2> SUFFICES ASSUME NEW s \in Requests, <<s, d>> \in Granted PROVE FALSE
    OBVIOUS
  <2>1. pc[s] \in {"resetting", "holding", "returning"} /\ db[s] = d
    BY <1>1, GrantedPairs
  <2>2. CASE pc[s] = "holding"
    BY <2>1, <2>2, <1>3, NoneAssumption DEF HoldersKeepTheirLock
  <2>3. CASE pc[s] \in {"resetting", "returning"}
    BY <2>1, <2>3, <1>3 DEF Carries
  <2> QED BY <2>1, <2>2, <2>3
<1>5. Asking' = Asking \ {r} /\ r \in Asking
  BY <1>2 DEF Asking, TypeOK
<1>6. \A s \in Requests, e \in Databases :
        <<s, e>> \in Granted' <=> <<s, e>> \in Granted \cup {<<r, d>>}
  <2> SUFFICES ASSUME NEW s \in Requests, NEW e \in Databases
               PROVE  <<s, e>> \in Granted' <=> <<s, e>> \in Granted \/ (s = r /\ e = d)
    OBVIOUS
  <2>1. CASE s = r
    BY <1>2, <2>1, GrantedPairs DEF TypeOK
  <2>2. CASE s # r
    BY <1>2, <2>2, GrantedPairs DEF TypeOK
  <2> QED BY <2>1, <2>2
<1>7. Granted' = Granted \cup {<<r, d>>}
  <2>1. Granted \cup {<<r, d>>} \in SUBSET (Requests \X Databases)
    BY <1>1, GrantedPairs
  <2> QED BY <2>1, <1>6, GrantedPairs, SamePairs
<1> QED BY <1>1, <1>4, <1>5, <1>7 DEF Pool!Take, Asking

LEMMA FinishGivesBack ==
  ASSUME TypeOK, NEW r \in Requests, Finish(r),
         pc[r] \in {"resetting", "holding", "returning"}
  PROVE  \E d \in Databases : Pool!GiveBack(r, d)
<1>1. db[r] \in Databases /\ <<r, db[r]>> \in Granted
  BY GrantedPairs DEF TypeOK
<1>2. pc' = [pc EXCEPT ![r] = "idle"] /\ db' = [db EXCEPT ![r] = NoDb]
  BY DEF Finish
<1>3. Asking' = Asking
  BY <1>2 DEF Asking, TypeOK
<1>4. \A s \in Requests, e \in Databases :
        <<s, e>> \in Granted' <=> <<s, e>> \in Granted \ {<<r, db[r]>>}
  <2> SUFFICES ASSUME NEW s \in Requests, NEW e \in Databases
               PROVE  <<s, e>> \in Granted'
                        <=> <<s, e>> \in Granted /\ ~(s = r /\ e = db[r])
    OBVIOUS
  <2>1. CASE s = r
    BY <1>2, <2>1, GrantedPairs DEF TypeOK
  <2>2. CASE s # r
    BY <1>2, <2>2, GrantedPairs DEF TypeOK
  <2> QED BY <2>1, <2>2
<1>5. Granted' = Granted \ {<<r, db[r]>>}
  BY <1>4, GrantedPairs, SamePairs
<1> QED BY <1>1, <1>3, <1>5 DEF Pool!GiveBack, Asking

LEMMA OthersStutter ==
  ASSUME TypeOK, NEW r \in Requests,
         \/ Grant(r) \/ ClientLeaves(r) \/ AutoUnlock(r)
         \/ Wake(r) /\ ~Finish(r)
         \/ UNCHANGED vars
  PROVE  UNCHANGED Pool!poolVars
<1>1. \A s \in Requests :
        /\ pc'[s] = "waiting" <=> pc[s] = "waiting"
        /\ pc'[s] \in {"resetting", "holding", "returning"}
             <=> pc[s] \in {"resetting", "holding", "returning"}
        /\ pc[s] \in {"resetting", "holding", "returning"} => db'[s] = db[s]
  BY DEF Grant, ClientLeaves, AutoUnlock, Wake, DeleteEntry, vars, TypeOK
<1> QED BY <1>1, SameGrants DEF Pool!poolVars, Asking

(* Every step of the locker is a step of the pool or leaves it alone. *)
LEMMA StepSimulation ==
  ASSUME Admins = {}, IInv, HoldersKeepTheirLock, [Next]_vars
  PROVE  [Pool!Next]_Pool!poolVars
<1>1. TypeOK
  BY DEF IInv
<1>2. ASSUME NEW r \in Requests, NEW m \in Markers, Arrive(r, m)
      PROVE  Pool!Ask(r)
  BY <1>1, <1>2, ArriveAsks
<1>3. ASSUME NEW r \in Requests, ClientLeaves(r) \/ AutoUnlock(r)
      PROVE  UNCHANGED Pool!poolVars
  BY <1>1, <1>3, OthersStutter
<1>4. ASSUME NEW r \in Requests, HandlerStep(r)
      PROVE  Pool!Answer(r) \/ Pool!Return(r) \/ UNCHANGED Pool!poolVars
  <2>1. CASE Receive(r)
    BY <2>1, ReceiveTakes DEF Pool!Answer
  <2>2. CASE GiveUp(r)
    BY <2>2, <1>1, GiveUpWithdraws DEF Pool!Answer
  <2>3. CASE ResetFails(r) \/ ReturnToPool(r) \/ (Wake(r) /\ Finish(r))
    <3>1. Finish(r) /\ pc[r] \in {"resetting", "holding", "returning"}
      BY <2>3 DEF ResetFails, ReturnToPool, Wake
    <3> QED BY <3>1, <1>1, FinishGivesBack DEF Pool!Return
  <2>4. CASE Grant(r) \/ (Wake(r) /\ ~Finish(r))
    BY <2>4, <1>1, OthersStutter
  <2> QED BY <1>4, <2>1, <2>2, <2>3, <2>4 DEF HandlerStep
<1>5. CASE UNCHANGED vars
  BY <1>5 DEF vars, Pool!poolVars, Granted
<1> QED BY <1>2, <1>3, <1>4, <1>5 DEF Next, Pool!Next

(* Without forced releases the locker implements the abstract pool: every   *)
(* step of the locker is a step of PGPool or leaves it alone.               *)
THEOREM ImplementsPool == ASSUME Admins = {} PROVE Spec => PoolSpec
<1>1. Init => Pool!Init
  <2> SUFFICES ASSUME Init PROVE Pool!Init
    OBVIOUS
  <2>1. \A s \in Requests : pc[s] = "idle"
    BY DEF Init
  <2>2. Asking = {}
    BY <2>1 DEF Asking
  <2>3. Granted = {}
    BY <2>1 DEF Granted
  <2> QED BY <2>2, <2>3 DEF Pool!Init, Asking
<1>2. IInv /\ HoldersKeepTheirLock /\ [Next]_vars => [Pool!Next]_Pool!poolVars
  BY StepSimulation
<1> QED BY <1>1, <1>2, KeepLock, Invariance, PTL DEF Spec, PoolSpec, Pool!Spec
=============================================================================
