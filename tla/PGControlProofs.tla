-------------------------- MODULE PGControlProofs --------------------------
(***************************************************************************)
(* Theorems about the parts of pgflock around the locker, for every number *)
(* of tests, databases, streams and instances: the client library, the      *)
(* reset of a database, the containers, the loading screens and the main    *)
(* view.                                                                   *)
(***************************************************************************)
EXTENDS MCPGControl, SeqFacts, FiniteSetTheorems, SequenceTheorems, TLAPS

(***************************************************************************)
(* The client library.  ClientSound is not inductive.  OneHolder is what    *)
(* the server contributes: a body that is open is held or was taken back,   *)
(* and a database has one holder.  OwnStreams: no two tests have the same   *)
(* body, and one that is being read is not in the map yet.  Remembered: an  *)
(* open body is in the map or still being read, unless it is lost.          *)
(***************************************************************************)
StreamRec == [db : Dbs, body : {"open", "closed"}, held : BOOLEAN, taken : BOOLEAN,
              by : Nat]
TestRec == [at : {"idle", "reading", "using", "done"}, stream : Nat]
Uses(t) == test[t].at \in {"reading", "using"}

ClientTypeOK ==
  /\ stream \in Seq(StreamRec)
  /\ openConns \in [Dbs -> Nat] /\ \A d \in Dbs : openConns[d] # None => openConns[d] \in Streams
  /\ test \in [Tests -> TestRec] /\ closing \in {"no", "all", "exit"}
  /\ \A t \in Tests : Uses(t) => test[t].stream \in Streams
OneHolder ==
  /\ \A s \in Streams : stream[s].held => ~stream[s].taken
  /\ \A s \in Streams : stream[s].body = "open" => stream[s].held \/ stream[s].taken
  /\ \A s, q \in Streams : stream[s].held /\ stream[q].held /\ stream[s].db = stream[q].db => s = q
OwnStreams ==
  /\ \A t, u \in Tests : Uses(t) /\ Uses(u) /\ test[t].stream = test[u].stream => t = u
  /\ \A t \in Tests : test[t].at = "reading" =>
       /\ stream[test[t].stream].body = "open"
       /\ \A d \in Dbs : openConns[d] # test[t].stream
Remembered ==
  \A s \in Streams : stream[s].body = "open" /\ ~Lost(s) =>
    openConns[stream[s].db] = s \/ \E t \in Tests : test[t].at = "reading" /\ test[t].stream = s
AfterTests ==
  closing # "no" => /\ \A t \in Tests : test[t].at = "done"
                    /\ \A d \in Dbs : openConns[d] = None

ClientInv == ClientSound /\ ClientTypeOK /\ OneHolder /\ OwnStreams /\ Remembered /\ AfterTests

LEMMA ClientBegins == ClientInit => ClientInv
<1> SUFFICES ASSUME ClientInit PROVE ClientInv
  OBVIOUS
<1>1. /\ stream = << >> /\ DOMAIN stream = {} /\ closing = "no"
      /\ \A d \in Dbs : openConns[d] = None
      /\ \A t \in Tests : test[t].at = "idle"
  BY DEF ClientInit
<1>2. ClientTypeOK
  <2>1. stream \in Seq(StreamRec)
    BY <1>1, EmptySeq
  <2>2. openConns \in [Dbs -> Nat] /\ test \in [Tests -> TestRec]
    BY DEF ClientInit, None, TestRec
  <2> QED BY <1>1, <2>1, <2>2 DEF ClientTypeOK, Uses
<1> QED BY <1>1, <1>2 DEF ClientInv, ClientSound, MapHasOpenBodies, OwnLock, OnlyLateCallsHit, ClosedAll, OneHolder,
                          OwnStreams, Remembered, AfterTests, Streams, Uses

(* What ClientInv says of the state as functions of numbers.                *)
LEMMA ClientTypes ==
  ASSUME ClientInv
  PROVE  /\ Len(stream) \in Nat /\ Streams = 1..Len(stream) /\ DOMAIN stream = 1..Len(stream)
         /\ \A s \in Streams : stream[s] \in StreamRec
         /\ stream \in [1..Len(stream) -> StreamRec]
         /\ openConns \in [Dbs -> Nat] /\ test \in [Tests -> TestRec]
         /\ None \notin Streams
<1>1. stream \in Seq(StreamRec)
  BY DEF ClientInv, ClientTypeOK
<1>2. Len(stream) \in Nat /\ DOMAIN stream = 1..Len(stream) /\ stream \in [1..Len(stream) -> StreamRec]
  BY <1>1, LenProperties
<1> QED BY <1>2 DEF ClientInv, ClientTypeOK, Streams, None

(* A test that did not lose its lock holds it, and the map names it.        *)
LEMMA UserHolds ==
  ASSUME ClientInv, NEW t \in Tests, test[t].at = "using", ~Lost(test[t].stream)
  PROVE  /\ test[t].stream \in Streams /\ stream[test[t].stream].held
         /\ openConns[stream[test[t].stream].db] = test[t].stream
BY DEF ClientInv, ClientSound, OwnLock, ClientTypeOK, Uses

(* One stream changes.                                                      *)
LEMMA OneChanges ==
  ASSUME ClientInv, NEW q \in Streams, NEW new \in StreamRec, stream' = [stream EXCEPT ![q] = new]
  PROVE  /\ stream' \in Seq(StreamRec) /\ Streams' = Streams /\ stream'[q] = new
         /\ \A s \in Streams : s # q => stream'[s] = stream[s]
<1>1. /\ stream' \in Seq(StreamRec) /\ Len(stream') = Len(stream)
      /\ \A s \in Streams : stream'[s] = IF s = q THEN new ELSE stream[s]
  BY ClientTypes, ExceptSeq DEF ClientInv, ClientTypeOK
<1> QED BY <1>1, ClientTypes, LenProperties DEF Streams

(* A call for stream s that finds stream q in the map.                      *)
LEMMA HitIs ==
  ASSUME ClientInv, NEW s \in Streams, NEW q \in Streams, NEW b \in {"open", "closed"},
         stream' = Hit(s, q, b)
  PROVE  /\ stream' \in Seq(StreamRec) /\ Streams' = Streams
         /\ \A x \in Streams : x # q => stream'[x] = stream[x]
         /\ stream'[q].db = stream[q].db /\ stream'[q].body = b /\ stream'[q].held = stream[q].held
         /\ stream'[q].taken = stream[q].taken
         /\ q # s /\ stream[q].held => stream'[q].by = s
         /\ q = s \/ ~stream[q].held => stream'[q].by = stream[q].by
<1> DEFINE by == IF q # s /\ stream[q].held THEN s ELSE stream[q].by
           r == [stream[q] EXCEPT !.body = b, !.by = by]
<1>1. stream[q] \in StreamRec /\ s \in Nat
  BY ClientTypes
<1>2. by \in Nat
  BY <1>1 DEF StreamRec
<1>3. stream' = [stream EXCEPT ![q] = r]
  BY ClientTypes, <1>1 DEF Hit
<1> HIDE DEF by
<1>4. /\ r \in StreamRec /\ r.db = stream[q].db /\ r.body = b /\ r.held = stream[q].held
      /\ r.taken = stream[q].taken /\ r.by = by
  BY <1>1, <1>2 DEF StreamRec
<1> HIDE DEF r
<1> QED BY <1>3, <1>4, OneChanges DEF by

(* OnlyLateCallsHit with every operator expanded, now and after a step.     *)
Disturbed(d, st) == \E p \in DOMAIN st : st[p].taken /\ st[p].db = d
HitByLate(q, s, st) ==
  /\ s \in DOMAIN st /\ s # q /\ st[s].db = st[q].db /\ (st[s].taken \/ st[s].by # None)
  /\ Disturbed(st[q].db, st)
LEMMA LateIs ==
  OnlyLateCallsHit <=> \A q \in DOMAIN stream : stream[q].by # None => HitByLate(q, stream[q].by, stream)
BY DEF OnlyLateCallsHit, HitByLate, Disturbed, Undisturbed, Taken, Streams, Lost
LEMMA LateIsThen ==
  OnlyLateCallsHit' <=> \A q \in DOMAIN stream' : stream'[q].by # None => HitByLate(q, stream'[q].by, stream')
BY DEF OnlyLateCallsHit, HitByLate, Disturbed, Undisturbed, Taken, Streams, Lost

(* Late calls go on being the only ones that hit a lock that is held: a     *)
(* step that hits q0 for s0 is one for a lost lock.                         *)
LEMMA LateHits ==
  ASSUME ClientInv, Streams \subseteq Streams', NEW s0, NEW q0,
         \A s \in Streams : stream'[s].db = stream[s].db /\ (stream[s].taken => stream'[s].taken),
         \A s \in Streams : \/ stream'[s].by = stream[s].by
                            \/ s = q0 /\ s # s0 /\ s0 # None /\ stream[s].held /\ stream'[s].by = s0,
         \A s \in Streams' \ Streams : stream'[s].by = None,
         q0 # s0 /\ q0 \in Streams /\ stream[q0].held =>
           s0 \in Streams /\ Lost(s0) /\ stream[s0].db = stream[q0].db /\ ~Undisturbed(stream[q0].db),
         None \notin Streams
  PROVE  OnlyLateCallsHit' /\ \A s \in Streams : Lost(s) => Lost(s)'
<1>1. \A s \in Streams : /\ stream[s].taken => stream'[s].taken
                         /\ stream[s].by # None => stream'[s].by # None
  OBVIOUS
<1>2. \A s \in Streams : Lost(s) => Lost(s)'
  BY <1>1 DEF Lost
<1>3. \A d : Disturbed(d, stream) => Disturbed(d, stream')
  BY DEF Disturbed, Streams
<1> SUFFICES ASSUME NEW q \in DOMAIN stream', stream'[q].by # None
             PROVE  HitByLate(q, stream'[q].by, stream')
  BY <1>2, LateIsThen
<1>4. q \in DOMAIN stream /\ stream'[q].db = stream[q].db
  BY DEF Streams
<1>5. CASE stream'[q].by = stream[q].by
  <2>1. HitByLate(q, stream[q].by, stream)
    BY <1>4, <1>5, LateIs DEF ClientInv, ClientSound
  <2>2. PICK s : s = stream[q].by
    OBVIOUS
  <2> QED BY <1>1, <1>3, <1>4, <1>5, <2>1, <2>2 DEF HitByLate, Streams
<1>6. CASE q = q0 /\ q # s0 /\ stream[q].held /\ stream'[q].by = s0
  <2>1. s0 \in DOMAIN stream /\ Lost(s0) /\ stream[s0].db = stream[q].db /\ Disturbed(stream[q].db, stream)
    BY <1>4, <1>6 DEF Streams, Undisturbed, Taken, Disturbed
  <2> QED BY <1>1, <1>3, <1>4, <1>6, <2>1 DEF HitByLate, Lost, Streams
<1> QED BY <1>4, <1>5, <1>6 DEF Streams

(* Only a test that lost its lock finds a stream that is held in its place. *)
LEMMA OnlyLost ==
  ASSUME ClientInv, NEW t \in Tests, Uses(t), NEW q \in Streams,
         openConns[stream[test[t].stream].db] = q, q # test[t].stream, stream[q].held
  PROVE  /\ test[t].stream \in Streams /\ Lost(test[t].stream)
         /\ stream[test[t].stream].db = stream[q].db /\ ~Undisturbed(stream[q].db)
<1> DEFINE s == test[t].stream
<1>1. s \in Streams /\ stream[s].db \in Dbs /\ q # None
  BY ClientTypes DEF ClientInv, ClientTypeOK, StreamRec
<1>2. stream[q].db = stream[s].db /\ stream[q].body = "open"
  BY <1>1 DEF ClientInv, ClientSound, MapHasOpenBodies
<1>3. test[t].at = "using" => Lost(s)
  BY UserHolds
<1>4. test[t].at = "reading" => Lost(s)
  <2>1. test[t].at = "reading" /\ ~stream[s].taken => stream[s].held
    BY <1>1 DEF ClientInv, OwnStreams, OneHolder
  <2> QED BY <1>1, <1>2, <2>1 DEF Lost, ClientInv, OneHolder
<1>5. Lost(s)
  BY <1>3, <1>4 DEF Uses
<1>6. stream[s].taken => ~Undisturbed(stream[s].db)
  BY <1>1 DEF Undisturbed, Taken
<1>7. stream[s].by # None => ~Undisturbed(stream[s].db)
  BY <1>1 DEF ClientInv, ClientSound, OnlyLateCallsHit
<1> QED BY <1>1, <1>2, <1>5, <1>6, <1>7 DEF Lost

-----------------------------------------------------------------------------
LEMMA GrantKeeps ==
  ASSUME ClientInv, NEW t \in Tests, NEW d \in Dbs, ServerGrants(t, d)
  PROVE  ClientInv'
<1> USE DEF ClientInv, ClientSound
<1>t. /\ Len(stream) \in Nat /\ Streams = 1..Len(stream) /\ DOMAIN stream = 1..Len(stream)
      /\ \A s \in Streams : stream[s] \in StreamRec
      /\ openConns \in [Dbs -> Nat] /\ test \in [Tests -> TestRec]
      /\ None \notin Streams /\ stream \in Seq(StreamRec)
  BY ClientTypes DEF ClientTypeOK
<1>n. PICK n \in Nat : n = Len(stream)
  BY <1>t
<1>0. /\ closing = "no" /\ closing' = "no" /\ openConns' = openConns /\ test[t].at = "idle"
      /\ test' = [test EXCEPT ![t] = [at |-> "reading", stream |-> n + 1]]
      /\ \A s \in Streams : stream[s].db = d => ~stream[s].held
  BY <1>n DEF ServerGrants, Put, HolderOf
<1>1. PICK new \in StreamRec : /\ stream' = Append(stream, new)
                               /\ new.db = d /\ new.body = "open" /\ new.held /\ ~new.taken
                               /\ new.by = None
  <2> DEFINE r == [db |-> d, body |-> "open", held |-> TRUE, taken |-> FALSE, by |-> None]
  <2>1. r \in StreamRec /\ stream' = Append(stream, r)
    BY DEF ServerGrants, StreamRec, None
  <2>2. r.db = d /\ r.body = "open" /\ r.held /\ ~r.taken /\ r.by = None
    OBVIOUS
  <2> QED BY <2>1, <2>2
<1>2. /\ stream' \in Seq(StreamRec) /\ Streams' = 1..(n + 1) /\ Len(stream') = n + 1
      /\ \A s \in 1..n : stream'[s] = stream[s]
      /\ stream'[n + 1] = new
  BY <1>t, <1>n, <1>1, AppendProperties, LenProperties DEF Streams
<1>3. /\ \A s \in 1..n : Lost(s)' <=> Lost(s)
      /\ ~Lost(n + 1)' /\ Streams \subseteq Streams'
  BY <1>1, <1>2, <1>t, <1>n DEF Lost
<1>4. /\ \A u \in Tests \ {t} : test'[u] = test[u]
      /\ test'[t].at = "reading" /\ test'[t].stream = n + 1 /\ test' \in [Tests -> TestRec]
  BY <1>0, <1>t DEF TestRec
<1> HIDE DEF ClientInv, ClientSound
<1>5. ClientTypeOK'
  BY <1>0, <1>2, <1>4, <1>t, <1>n DEF ClientTypeOK, Uses, ClientInv, ClientSound
<1>6. OneHolder'
  <2>1. OneHolder
    BY DEF ClientInv
  <2>2. Streams = 1..n
    BY <1>t, <1>n
  <2>3. \A s \in Streams' : (s \in Streams /\ stream'[s] = stream[s]) \/ (s = n + 1 /\ stream'[s] = new)
    <3>1. ASSUME NEW s \in 1..(n + 1)
          PROVE  (s \in 1..n /\ stream'[s] = stream[s]) \/ (s = n + 1 /\ stream'[s] = new)
      <4>1. s \in 1..n \/ s = n + 1
        OBVIOUS
      <4>2. CASE s \in 1..n
        BY <1>2, <4>2
      <4>3. CASE s = n + 1
        BY <1>2, <4>3
      <4> QED BY <4>1, <4>2, <4>3
    <3> QED BY <1>2, <2>2, <3>1
  <2>4. \A s, q \in Streams' : stream'[s].held /\ stream'[q].held /\ stream'[s].db = stream'[q].db => s = q
    <3> SUFFICES ASSUME NEW s \in Streams', NEW q \in Streams', stream'[s].held, stream'[q].held,
                        stream'[s].db = stream'[q].db
                 PROVE  s = q
      OBVIOUS
    <3>1. CASE s \in Streams /\ q \in Streams /\ stream'[s] = stream[s] /\ stream'[q] = stream[q]
      BY <2>1, <3>1 DEF OneHolder
    <3>2. CASE s = n + 1 \/ q = n + 1
      BY <1>0, <1>1, <1>2, <2>3, <3>2
    <3> QED BY <2>3, <3>1, <3>2
  <2> QED BY <1>1, <2>1, <2>3, <2>4 DEF OneHolder
<1>7. OwnStreams'
  <2>1. \A e \in Dbs : openConns[e] # n + 1
    BY <1>t, <1>n DEF ClientInv, ClientTypeOK, None
  <2>2. \A u \in Tests : Uses(u) => u # t /\ test[u].stream \in 1..n
    BY <1>0, <1>t, <1>n DEF ClientInv, ClientTypeOK, Uses
  <2>3. /\ \A u, v \in Tests : Uses(u) /\ Uses(v) /\ test[u].stream = test[v].stream => u = v
        /\ \A u \in Tests : test[u].at = "reading" =>
             /\ stream[test[u].stream].body = "open"
             /\ \A e \in Dbs : openConns[e] # test[u].stream
    BY DEF ClientInv, OwnStreams
  <2>4. \A u \in Tests \ {t} : Uses(u)' => Uses(u) /\ test'[u] = test[u] /\ test[u].stream \in 1..n
    BY <1>4, <2>2 DEF Uses
  <2>5. \A u, v \in Tests : Uses(u)' /\ Uses(v)' /\ test'[u].stream = test'[v].stream => u = v
    BY <1>4, <1>n, <2>3, <2>4
  <2>6. ASSUME NEW u \in Tests, test'[u].at = "reading"
        PROVE  stream'[test'[u].stream].body = "open" /\ \A e \in Dbs : openConns'[e] # test'[u].stream
    <3>1. CASE u = t
      BY <1>0, <1>1, <1>2, <1>4, <2>1, <3>1
    <3>2. CASE u # t
      <4>1. /\ test[u].at = "reading" /\ test'[u] = test[u] /\ Uses(u)
        BY <1>4, <2>6, <3>2 DEF Uses
      <4>2. /\ test[u].stream \in 1..n /\ stream[test[u].stream].body = "open"
            /\ \A e \in Dbs : openConns[e] # test[u].stream
        BY <2>2, <2>3, <4>1
      <4> QED BY <1>0, <1>2, <4>1, <4>2
    <3> QED BY <3>1, <3>2
  <2> QED BY <2>5, <2>6 DEF OwnStreams
<1>8. Remembered'
  BY <1>0, <1>1, <1>2, <1>3, <1>4, <1>t, <1>n DEF Remembered, ClientInv, ClientSound
<1>9. MapHasOpenBodies'
  BY <1>0, <1>2, <1>t, <1>n DEF MapHasOpenBodies, ClientInv, ClientSound, ClientTypeOK
<1>10. OwnLock'
  BY <1>0, <1>2, <1>3, <1>4, <1>t, <1>n, UserHolds DEF OwnLock, ClientInv, ClientSound, ClientTypeOK, Uses
<1>11. OnlyLateCallsHit'
  <2>1. /\ \A s \in Streams : /\ stream'[s].db = stream[s].db
                              /\ stream[s].taken => stream'[s].taken
                              /\ stream'[s].by = stream[s].by
        /\ stream'[n + 1].by = None /\ Streams' = Streams \cup {n + 1}
    BY <1>1, <1>2, <1>t, <1>n
  <2> QED BY <1>3, <2>1, <1>t, LateHits
<1>12. AfterTests' /\ ClosedAll'
  BY <1>0 DEF AfterTests, ClosedAll
<1> QED BY <1>5, <1>6, <1>7, <1>8, <1>9, <1>10, <1>11, <1>12 DEF ClientInv, ClientSound

-----------------------------------------------------------------------------
(* Lock gives up: the one body that is closed is not in the map.            *)
LEMMA FailKeeps ==
  ASSUME ClientInv, NEW t \in Tests, LockFails(t)
  PROVE  ClientInv'
<1>t. /\ Len(stream) \in Nat /\ Streams = 1..Len(stream) /\ DOMAIN stream = 1..Len(stream)
      /\ \A s \in Streams : stream[s] \in StreamRec
      /\ openConns \in [Dbs -> Nat] /\ test \in [Tests -> TestRec]
      /\ None \notin Streams /\ stream \in Seq(StreamRec)
  BY ClientTypes DEF ClientTypeOK, ClientInv
<1>i. /\ ClientTypeOK /\ OneHolder /\ OwnStreams /\ Remembered /\ AfterTests
      /\ MapHasOpenBodies /\ OwnLock /\ ClosedAll
  BY DEF ClientInv, ClientSound
<1> DEFINE s0 == test[t].stream
<1>0. /\ test[t].at = "reading" /\ stream' = [stream EXCEPT ![s0].body = "closed"]
      /\ test' = [test EXCEPT ![t] = [at |-> "idle", stream |-> None]]
      /\ UNCHANGED <<openConns, closing>>
  BY DEF LockFails, Put
<1>1. s0 \in Streams /\ closing = "no" /\ \A d \in Dbs : openConns[d] # s0
  BY <1>i, <1>0 DEF ClientTypeOK, Uses, AfterTests, OwnStreams
<1>2. PICK new \in StreamRec : /\ stream' = [stream EXCEPT ![s0] = new] /\ new.body = "closed"
                               /\ new.db = stream[s0].db /\ new.held = stream[s0].held
                               /\ new.taken = stream[s0].taken /\ new.by = stream[s0].by
  <2>1. [stream[s0] EXCEPT !.body = "closed"] \in StreamRec
    BY <1>t, <1>1 DEF StreamRec
  <2> QED BY <1>t, <1>0, <1>1, <2>1 DEF StreamRec
<1>3. /\ stream' \in Seq(StreamRec) /\ Streams' = Streams /\ stream'[s0] = new
      /\ \A s \in Streams : s # s0 => stream'[s] = stream[s]
  BY <1>1, <1>2, OneChanges
<1>4. \A s \in Streams : Lost(s)' <=> Lost(s)
  BY <1>2, <1>3 DEF Lost
<1>5. /\ \A u \in Tests \ {t} : test'[u] = test[u]
      /\ test'[t].at = "idle" /\ test' \in [Tests -> TestRec]
  BY <1>t, <1>0 DEF TestRec, None
<1>6. ClientTypeOK'
  BY <1>i, <1>t, <1>0, <1>3, <1>5 DEF ClientTypeOK, Uses
<1>7. OneHolder'
  BY <1>i, <1>1, <1>2, <1>3 DEF OneHolder
<1>8. OwnStreams'
  BY <1>i, <1>0, <1>3, <1>5 DEF OwnStreams, Uses, ClientTypeOK
<1>9. Remembered'
  <2> SUFFICES ASSUME NEW s \in Streams, stream'[s].body = "open", ~Lost(s)'
               PROVE  \/ openConns'[stream'[s].db] = s
                      \/ \E u \in Tests : test'[u].at = "reading" /\ test'[u].stream = s
    BY <1>3 DEF Remembered
  <2>1. s # s0 /\ stream'[s] = stream[s] /\ ~Lost(s)
    BY <1>2, <1>3, <1>4
  <2>2. openConns[stream[s].db] = s \/ \E u \in Tests : test[u].at = "reading" /\ test[u].stream = s
    BY <1>i, <2>1 DEF Remembered
  <2> QED BY <1>0, <1>5, <2>1, <2>2
<1>10. MapHasOpenBodies'
  BY <1>i, <1>0, <1>1, <1>3 DEF MapHasOpenBodies, ClientTypeOK
<1>11. OwnLock'
  BY <1>i, <1>0, <1>1, <1>2, <1>3, <1>4, <1>5 DEF OwnLock, ClientTypeOK, Uses
<1>12. OnlyLateCallsHit'
  <2>1. \A s \in Streams : /\ stream'[s].db = stream[s].db
                           /\ stream[s].taken => stream'[s].taken
                           /\ stream'[s].by = stream[s].by
    BY <1>2, <1>3
  <2> QED BY <1>3, <2>1, <1>t, LateHits
<1>13. AfterTests' /\ ClosedAll'
  BY <1>0, <1>1 DEF AfterTests, ClosedAll
<1> QED BY <1>6, <1>7, <1>8, <1>9, <1>10, <1>11, <1>12, <1>13 DEF ClientInv, ClientSound

-----------------------------------------------------------------------------
(* Lock stores its body: that of a test that did not lose its lock meets    *)
(* none that is held, and one that is held and pushed out is lost by it.    *)
LEMMA StoreKeeps ==
  ASSUME ClientInv, NEW t \in Tests, Store(t)
  PROVE  ClientInv'
<1>t. /\ Len(stream) \in Nat /\ Streams = 1..Len(stream) /\ DOMAIN stream = 1..Len(stream)
      /\ \A s \in Streams : stream[s] \in StreamRec
      /\ openConns \in [Dbs -> Nat] /\ test \in [Tests -> TestRec]
      /\ None \notin Streams /\ stream \in Seq(StreamRec)
  BY ClientTypes DEF ClientTypeOK, ClientInv
<1>i. /\ ClientTypeOK /\ OneHolder /\ OwnStreams /\ Remembered /\ AfterTests
      /\ MapHasOpenBodies /\ OwnLock /\ ClosedAll /\ OnlyLateCallsHit
  BY DEF ClientInv, ClientSound
<1> DEFINE s0 == test[t].stream
           d0 == stream[s0].db
           q0 == openConns[d0]
<1>0. /\ test[t].at = "reading" /\ openConns' = [openConns EXCEPT ![d0] = s0]
      /\ test' = [test EXCEPT ![t] = [at |-> "using", stream |-> s0]]
      /\ closing' = closing
      /\ IF q0 = None THEN stream' = stream ELSE stream' = Hit(s0, q0, "open")
  BY DEF Store, Put
<1>1. /\ s0 \in Streams /\ closing = "no" /\ \A d \in Dbs : openConns[d] # s0
      /\ stream[s0].body = "open" /\ d0 \in Dbs /\ s0 \in Nat
  <2>1. s0 \in Streams /\ closing = "no" /\ \A d \in Dbs : openConns[d] # s0
    BY <1>i, <1>0 DEF ClientTypeOK, Uses, AfterTests, OwnStreams
  <2>2. stream[s0] \in StreamRec /\ stream[s0].body = "open"
    BY <1>i, <1>t, <1>0, <2>1 DEF OwnStreams
  <2> QED BY <1>t, <2>1, <2>2 DEF StreamRec
<1>2. q0 # None => /\ q0 \in Streams /\ q0 # s0 /\ stream[q0].body = "open" /\ stream[q0].db = d0
  BY <1>i, <1>1 DEF ClientTypeOK, MapHasOpenBodies
<1>q. q0 # None /\ stream[q0].held => Lost(s0) /\ ~Undisturbed(d0)
  BY <1>0, <1>2, OnlyLost DEF Uses
<1>5. test[t].stream = s0 /\ stream[s0].db = d0 /\ openConns[d0] = q0
  OBVIOUS
<1> HIDE DEF s0, d0, q0
<1>3. /\ stream' \in Seq(StreamRec) /\ Streams' = Streams
      /\ \A s \in Streams : /\ stream'[s].db = stream[s].db /\ stream'[s].body = stream[s].body
                            /\ stream'[s].held = stream[s].held /\ stream'[s].taken = stream[s].taken
      /\ \A s \in Streams : \/ stream'[s].by = stream[s].by
                            \/ s = q0 /\ s # None /\ stream[s].held /\ stream'[s].by = s0
      /\ q0 # None /\ stream[q0].held => stream'[q0].by = s0
  <2>1. CASE q0 = None
    BY <1>0, <1>t, <2>1 DEF Streams
  <2>2. CASE q0 # None
    <3>1. /\ stream' \in Seq(StreamRec) /\ Streams' = Streams
          /\ \A x \in Streams : x # q0 => stream'[x] = stream[x]
          /\ stream'[q0].db = stream[q0].db /\ stream'[q0].body = "open" /\ stream'[q0].held = stream[q0].held
          /\ stream'[q0].taken = stream[q0].taken
          /\ stream[q0].held => stream'[q0].by = s0
          /\ ~stream[q0].held => stream'[q0].by = stream[q0].by
      BY <1>0, <1>1, <1>2, <2>2, HitIs
    <3> QED BY <1>2, <2>2, <3>1
  <2> QED BY <2>1, <2>2
<1>4. /\ openConns' \in [Dbs -> Nat] /\ openConns'[d0] = s0
      /\ \A d \in Dbs \ {d0} : openConns'[d] = openConns[d]
  BY <1>t, <1>0, <1>1
<1>6. /\ \A u \in Tests \ {t} : test'[u] = test[u]
      /\ test'[t].at = "using" /\ test'[t].stream = s0 /\ test' \in [Tests -> TestRec]
  BY <1>t, <1>0, <1>1 DEF TestRec
<1>7. s0 # None /\ \A s \in Streams : Lost(s) => Lost(s)'
  BY <1>1, <1>3, <1>t DEF Lost
<1>8. ClientTypeOK'
  <2>1. \A d \in Dbs : openConns'[d] # None => openConns'[d] \in Streams
    BY <1>i, <1>1, <1>4 DEF ClientTypeOK
  <2>2. \A u \in Tests : Uses(u)' => test'[u].stream \in Streams
    BY <1>i, <1>1, <1>6 DEF ClientTypeOK, Uses
  <2>3. closing' \in {"no", "all", "exit"}
    BY <1>i, <1>0 DEF ClientTypeOK
  <2> QED BY <1>3, <1>4, <1>6, <2>1, <2>2, <2>3 DEF ClientTypeOK
<1>9. OneHolder'
  BY <1>i, <1>3 DEF OneHolder
<1>10. OwnStreams'
  <2>1. \A u, v \in Tests : Uses(u)' /\ Uses(v)' /\ test'[u].stream = test'[v].stream => u = v
    BY <1>i, <1>0, <1>5, <1>6 DEF OwnStreams, Uses
  <2>2. ASSUME NEW u \in Tests, test'[u].at = "reading"
        PROVE  stream'[test'[u].stream].body = "open" /\ \A e \in Dbs : openConns'[e] # test'[u].stream
    <3>1. u # t /\ test'[u] = test[u] /\ test[u].at = "reading"
      BY <1>6, <2>2
    <3>2. /\ test[u].stream \in Streams /\ stream[test[u].stream].body = "open"
          /\ \A e \in Dbs : openConns[e] # test[u].stream
      BY <1>i, <3>1 DEF OwnStreams, ClientTypeOK, Uses
    <3>3. test[u].stream # s0
      BY <1>i, <1>0, <1>5, <3>1 DEF OwnStreams, Uses
    <3> QED BY <1>3, <1>4, <3>1, <3>2, <3>3
  <2> QED BY <2>1, <2>2 DEF OwnStreams
<1>11. Remembered'
  <2> SUFFICES ASSUME NEW s \in Streams, stream[s].body = "open", ~Lost(s)'
               PROVE  \/ openConns'[stream[s].db] = s
                      \/ \E u \in Tests : test'[u].at = "reading" /\ test'[u].stream = s
    BY <1>3 DEF Remembered
  <2>1. openConns[stream[s].db] = s \/ \E u \in Tests : test[u].at = "reading" /\ test[u].stream = s
    BY <1>i, <1>7 DEF Remembered
  <2>2. stream[s].db \in Dbs /\ (stream[s].held \/ stream[s].taken)
    BY <1>i, <1>t DEF StreamRec, OneHolder
  <2>3. openConns[stream[s].db] = s /\ stream[s].db = d0 => FALSE
    <3> SUFFICES ASSUME openConns[d0] = s PROVE FALSE
      OBVIOUS
    <3>1. s = q0 /\ q0 # None
      BY <1>5, <1>t
    <3>2. stream[s].held => FALSE
      BY <1>3, <1>7, <3>1 DEF Lost
    <3>3. stream[s].taken => FALSE
      BY <1>3 DEF Lost
    <3> QED BY <2>2, <3>2, <3>3
  <2>4. CASE \E u \in Tests : test[u].at = "reading" /\ test[u].stream = s
    <3>1. PICK u \in Tests : test[u].at = "reading" /\ test[u].stream = s
      BY <2>4
    <3>2. CASE u = t
      BY <1>4, <1>5, <3>1, <3>2
    <3>3. CASE u # t
      BY <1>6, <3>1, <3>3
    <3> QED BY <3>2, <3>3
  <2>5. CASE openConns[stream[s].db] = s
    BY <1>4, <2>2, <2>3, <2>5
  <2> QED BY <2>1, <2>4, <2>5
<1>12. MapHasOpenBodies'
  <2>1. \A d \in Dbs \ {d0} : openConns[d] # None => openConns[d] \in Streams
    BY <1>i DEF ClientTypeOK
  <2> QED BY <1>i, <1>1, <1>3, <1>4, <1>5, <2>1 DEF MapHasOpenBodies
<1>13. OwnLock'
  <2> SUFFICES ASSUME NEW u \in Tests, test'[u].at = "using", ~(stream'[test'[u].stream].taken \/ stream'[test'[u].stream].by # None)
               PROVE  /\ stream'[test'[u].stream].held
                      /\ openConns'[stream'[test'[u].stream].db] = test'[u].stream
    BY DEF OwnLock, Lost
  <2>1. CASE u = t
    <3>1. ~stream[s0].taken /\ stream[s0].held
      BY <1>i, <1>1, <1>3, <1>6, <2>1 DEF Lost, OneHolder
    <3> QED BY <1>1, <1>3, <1>4, <1>5, <1>6, <2>1, <3>1
  <2>2. CASE u # t
    <3>1. test'[u] = test[u] /\ test[u].at = "using" /\ test[u].stream \in Streams
      BY <1>i, <1>6, <2>2 DEF ClientTypeOK, Uses
    <3>2. ~Lost(test[u].stream)
      BY <1>7, <3>1 DEF Lost
    <3>3. stream[test[u].stream].held /\ openConns[stream[test[u].stream].db] = test[u].stream
      BY <3>1, <3>2, UserHolds
    <3>4. stream[test[u].stream].db # d0
      <4> SUFFICES ASSUME stream[test[u].stream].db = d0 PROVE FALSE
        OBVIOUS
      <4>1. test[u].stream = q0 /\ q0 # None
        BY <1>5, <1>t, <3>1, <3>3
      <4> QED BY <1>3, <1>7, <3>1, <3>3, <4>1 DEF Lost
    <3>5. stream[test[u].stream].db \in Dbs
      BY <1>t, <3>1 DEF StreamRec
    <3> QED BY <1>3, <1>4, <3>1, <3>3, <3>4, <3>5
  <2> QED BY <2>1, <2>2
<1>14. OnlyLateCallsHit'
  <2>1. q0 # s0 /\ q0 \in Streams /\ stream[q0].held =>
          s0 \in Streams /\ Lost(s0) /\ stream[s0].db = stream[q0].db /\ ~Undisturbed(stream[q0].db)
    BY <1>1, <1>2, <1>5, <1>q, <1>t
  <2>2. \A s \in Streams : \/ stream'[s].by = stream[s].by
                           \/ s = q0 /\ s # s0 /\ s0 # None /\ stream[s].held /\ stream'[s].by = s0
    BY <1>2, <1>3, <1>7, <1>t
  <2>3. \A s \in Streams : stream'[s].db = stream[s].db /\ (stream[s].taken => stream'[s].taken)
    BY <1>3
  <2>4. /\ Streams \subseteq Streams' /\ \A s \in Streams' \ Streams : stream'[s].by = None
        /\ None \notin Streams
    BY <1>3, <1>t
  <2> QED BY ONLY ClientInv, <2>1, <2>2, <2>3, <2>4, LateHits
<1>15. AfterTests' /\ ClosedAll'
  BY <1>0, <1>1 DEF AfterTests, ClosedAll
<1> QED BY <1>8, <1>9, <1>10, <1>11, <1>12, <1>13, <1>14, <1>15 DEF ClientInv, ClientSound

-----------------------------------------------------------------------------
(* A test ends, perhaps with its lock.                                      *)
LEMMA EndKeeps ==
  ASSUME ClientInv, NEW t \in Tests, EndTest(t)
  PROVE  ClientInv'
<1>t. test \in [Tests -> TestRec]
  BY ClientTypes
<1>i. /\ ClientTypeOK /\ OneHolder /\ OwnStreams /\ Remembered /\ AfterTests
      /\ MapHasOpenBodies /\ OwnLock /\ ClosedAll /\ OnlyLateCallsHit
  BY DEF ClientInv, ClientSound
<1>0. /\ test[t].at \in {"idle", "using"}
      /\ test' = [test EXCEPT ![t] = [at |-> "done", stream |-> None]]
      /\ UNCHANGED <<stream, openConns, closing>>
  BY DEF EndTest, Put
<1>1. Streams' = Streams /\ (\A s : Lost(s)' <=> Lost(s)) /\ \A e : Undisturbed(e)' <=> Undisturbed(e)
  BY <1>0 DEF Streams, Lost, Undisturbed, Taken
<1>2. /\ \A u \in Tests \ {t} : test'[u] = test[u]
      /\ test'[t].at = "done" /\ test' \in [Tests -> TestRec]
  BY <1>t, <1>0 DEF TestRec, None
<1>3. ClientTypeOK' /\ OneHolder' /\ OwnStreams' /\ AfterTests'
  BY <1>i, <1>0, <1>1, <1>2 DEF ClientTypeOK, OneHolder, OwnStreams, Uses, AfterTests
<1>4. Remembered'
  BY <1>i, <1>0, <1>1, <1>2 DEF Remembered
<1>5. MapHasOpenBodies' /\ OwnLock' /\ ClosedAll'
  BY <1>i, <1>0, <1>1, <1>2 DEF MapHasOpenBodies, OwnLock, ClosedAll
<1>6. OnlyLateCallsHit'
  BY <1>i, <1>0, <1>1 DEF OnlyLateCallsHit
<1> QED BY <1>3, <1>4, <1>5, <1>6 DEF ClientInv, ClientSound

-----------------------------------------------------------------------------
(* Unlock closes the body that the map has, whoever put it there: the one   *)
(* of the test itself as long as it did not lose its lock.                  *)
LEMMA UnlockKeeps ==
  ASSUME ClientInv, NEW t \in Tests, Unlock(t)
  PROVE  ClientInv'
<1>t. /\ Len(stream) \in Nat /\ Streams = 1..Len(stream) /\ DOMAIN stream = 1..Len(stream)
      /\ \A s \in Streams : stream[s] \in StreamRec
      /\ openConns \in [Dbs -> Nat] /\ test \in [Tests -> TestRec]
      /\ None \notin Streams /\ stream \in Seq(StreamRec)
  BY ClientTypes DEF ClientTypeOK, ClientInv
<1>i. /\ ClientTypeOK /\ OneHolder /\ OwnStreams /\ Remembered /\ AfterTests
      /\ MapHasOpenBodies /\ OwnLock /\ ClosedAll /\ OnlyLateCallsHit
  BY DEF ClientInv, ClientSound
<1>0. /\ test[t].at = "using" /\ test[t].stream \in Streams /\ stream[test[t].stream].db \in Dbs
      /\ closing = "no" /\ closing' = "no"
  BY <1>i, <1>t DEF Unlock, ClientTypeOK, Uses, AfterTests, StreamRec
<1>d. PICK d \in Dbs, s0 \in Streams : s0 = test[t].stream /\ d = stream[s0].db
  BY <1>0
<1>1. PICK a \in {"idle", "done"} : test' = [test EXCEPT ![t] = [at |-> a, stream |-> None]]
  BY DEF Unlock, Put
<1>2. /\ \A u \in Tests \ {t} : test'[u] = test[u]
      /\ ~Uses(t)' /\ test'[t].at = a /\ test' \in [Tests -> TestRec]
  BY <1>t, <1>1 DEF TestRec, None, Uses
<1>3. CASE openConns[d] = None
  <2>1. UNCHANGED <<stream, openConns>>
    BY <1>d, <1>3 DEF Unlock
  <2>2. Streams' = Streams /\ (\A s : Lost(s)' <=> Lost(s)) /\ \A e : Undisturbed(e)' <=> Undisturbed(e)
    BY <2>1 DEF Streams, Lost, Undisturbed, Taken
  <2>3. ClientTypeOK' /\ OneHolder' /\ OwnStreams'
    BY <1>i, <1>0, <1>2, <2>1, <2>2 DEF ClientTypeOK, OneHolder, OwnStreams, Uses
  <2>4. Remembered'
    BY <1>i, <1>0, <1>2, <2>1, <2>2 DEF Remembered
  <2>5. MapHasOpenBodies' /\ OwnLock' /\ ClosedAll' /\ AfterTests'
    BY <1>i, <1>0, <1>2, <2>1, <2>2 DEF MapHasOpenBodies, OwnLock, ClosedAll, AfterTests, Uses
  <2>6. OnlyLateCallsHit'
    BY <1>i, <2>1, <2>2 DEF OnlyLateCallsHit
  <2> QED BY <2>3, <2>4, <2>5, <2>6 DEF ClientInv, ClientSound
<1>4. CASE openConns[d] # None
  <2>0. PICK q0 \in Streams : q0 = openConns[d]
    BY <1>i, <1>4 DEF ClientTypeOK
  <2>1. /\ stream' = Hit(s0, q0, "closed")
        /\ openConns' = [openConns EXCEPT ![d] = None]
    BY <1>d, <1>4, <2>0 DEF Unlock
  <2>2. stream[q0].body = "open" /\ stream[q0].db = d
    BY <1>i, <1>4, <2>0 DEF MapHasOpenBodies
  <2>3. /\ openConns' \in [Dbs -> Nat] /\ openConns'[d] = None
        /\ \A e \in Dbs \ {d} : openConns'[e] = openConns[e]
    BY <1>t, <2>1 DEF None
  <2>4. /\ stream' \in Seq(StreamRec) /\ Streams' = Streams
        /\ \A s \in Streams : /\ stream'[s].db = stream[s].db /\ stream'[s].held = stream[s].held
                              /\ stream'[s].taken = stream[s].taken
        /\ stream'[q0].body = "closed"
        /\ \A s \in Streams : s # q0 => stream'[s] = stream[s]
        /\ q0 # s0 /\ stream[q0].held => stream'[q0].by = s0
        /\ q0 = s0 \/ ~stream[q0].held => stream'[q0].by = stream[q0].by
    BY <2>0, <2>1, HitIs
  <2>5. q0 # s0 /\ stream[q0].held => Lost(s0) /\ stream[s0].db = d /\ ~Undisturbed(d)
    BY <1>d, <1>0, <2>0, <2>2, OnlyLost DEF Uses
  <2>6. s0 # None /\ \A s \in Streams : Lost(s) => Lost(s)'
    <3>1. \A s \in Streams : stream[s].by # None => stream'[s].by # None
      BY <1>t, <2>4
    <3> QED BY <1>t, <2>4, <3>1 DEF Lost
  <2>7. ClientTypeOK'
    BY <1>i, <1>0, <1>2, <2>3, <2>4 DEF ClientTypeOK, Uses
  <2>8. OneHolder'
    <3>1. \A s \in Streams : stream'[s].body = "open" => stream[s].body = "open"
      BY <2>4
    <3> QED BY <1>i, <2>4, <3>1 DEF OneHolder
  <2>9. OwnStreams'
    <3>1. \A u \in Tests : test[u].at = "reading" => test[u].stream # q0 /\ test[u].stream \in Streams
      BY <1>i, <2>0 DEF OwnStreams, ClientTypeOK, Uses
    <3>2. \A u \in Tests : test'[u].at = "reading" => u # t /\ test'[u] = test[u]
      BY <1>2 DEF Uses
    <3>3. \A u, v \in Tests : Uses(u)' /\ Uses(v)' /\ test'[u].stream = test'[v].stream => u = v
      BY <1>i, <1>2 DEF OwnStreams, Uses
    <3>4. ASSUME NEW u \in Tests, test'[u].at = "reading"
          PROVE  stream'[test'[u].stream].body = "open" /\ \A e \in Dbs : openConns'[e] # test'[u].stream
      <4>1. /\ test'[u] = test[u] /\ test[u].at = "reading" /\ test[u].stream \in Streams \ {q0}
        BY <3>1, <3>2, <3>4
      <4>2. /\ stream[test[u].stream].body = "open" /\ \A e \in Dbs : openConns[e] # test[u].stream
        BY <1>i, <4>1 DEF OwnStreams
      <4>3. stream'[test[u].stream].body = "open"
        BY <2>4, <4>1, <4>2
      <4> QED BY <1>t, <2>3, <4>1, <4>2, <4>3
    <3> QED BY <3>3, <3>4 DEF OwnStreams
  <2>10. Remembered'
    <3> SUFFICES ASSUME NEW s \in Streams, stream'[s].body = "open", ~Lost(s)'
                 PROVE  \/ openConns'[stream'[s].db] = s
                        \/ \E u \in Tests : test'[u].at = "reading" /\ test'[u].stream = s
      BY <2>4 DEF Remembered
    <3>1. s # q0 /\ stream'[s] = stream[s] /\ ~Lost(s)
      BY <2>4, <2>6
    <3>2. openConns[stream[s].db] = s \/ \E u \in Tests : test[u].at = "reading" /\ test[u].stream = s
      BY <1>i, <3>1 DEF Remembered
    <3>3. openConns[stream[s].db] = s => stream[s].db # d
      BY <2>0, <3>1
    <3>4. stream[s].db \in Dbs
      BY <1>t DEF StreamRec
    <3>5. \A u \in Tests : test[u].at = "reading" => test'[u] = test[u]
      BY <1>0, <1>2
    <3> QED BY <2>3, <3>1, <3>2, <3>3, <3>4, <3>5
  <2>11. MapHasOpenBodies'
    <3>1. \A e \in Dbs : openConns'[e] # None =>
             e # d /\ openConns'[e] = openConns[e] /\ openConns[e] \in Streams
      BY <1>i, <2>3 DEF ClientTypeOK
    <3>2. \A e \in Dbs \ {d} : openConns[e] # None => openConns[e] # q0
      BY <1>i, <2>0, <2>2 DEF MapHasOpenBodies
    <3> QED BY <1>i, <2>4, <3>1, <3>2 DEF MapHasOpenBodies
  <2>12. OwnLock'
    <3> SUFFICES ASSUME NEW u \in Tests, test'[u].at = "using", ~(stream'[test'[u].stream].taken \/ stream'[test'[u].stream].by # None)
                 PROVE  /\ stream'[test'[u].stream].held
                        /\ openConns'[stream'[test'[u].stream].db] = test'[u].stream
      BY DEF OwnLock, Lost
    <3>1. u # t /\ test'[u] = test[u] /\ test[u].at = "using" /\ test[u].stream \in Streams
      BY <1>i, <1>2 DEF ClientTypeOK, Uses
    <3>2. ~Lost(test[u].stream)
      BY <2>6, <3>1 DEF Lost
    <3>3. stream[test[u].stream].held /\ openConns[stream[test[u].stream].db] = test[u].stream
      BY <3>1, <3>2, UserHolds
    <3>4. stream[test[u].stream].db # d
      <4> SUFFICES ASSUME stream[test[u].stream].db = d PROVE FALSE
        OBVIOUS
      <4>1. test[u].stream = q0
        BY <2>0, <3>3
      <4>2. q0 # s0
        BY <1>i, <1>0, <1>d, <3>1, <4>1 DEF OwnStreams, Uses
      <4> QED BY <2>4, <2>6, <3>1, <3>3, <4>1, <4>2 DEF Lost
    <3>5. stream[test[u].stream].db \in Dbs
      BY <1>t, <3>1 DEF StreamRec
    <3> QED BY <2>3, <2>4, <3>1, <3>3, <3>4, <3>5
  <2>13. OnlyLateCallsHit'
    <3>1. \A s \in Streams : \/ stream'[s].by = stream[s].by
                             \/ s = q0 /\ s # s0 /\ stream[s].held /\ stream'[s].by = s0
      BY <2>4
    <3>2. q0 # s0 /\ q0 \in Streams /\ stream[q0].held =>
            s0 \in Streams /\ Lost(s0) /\ stream[s0].db = stream[q0].db /\ ~Undisturbed(stream[q0].db)
      BY <2>2, <2>5
    <3>3. \A s \in Streams : stream'[s].db = stream[s].db /\ (stream[s].taken => stream'[s].taken)
      BY <2>4
    <3>4. \A s \in Streams : \/ stream'[s].by = stream[s].by
                             \/ s = q0 /\ s # s0 /\ s0 # None /\ stream[s].held /\ stream'[s].by = s0
      BY <2>6, <3>1
    <3>5. /\ Streams \subseteq Streams' /\ \A s \in Streams' \ Streams : stream'[s].by = None
          /\ None \notin Streams
      BY <1>t, <2>4
    <3> QED BY ONLY ClientInv, <3>2, <3>3, <3>4, <3>5, LateHits
  <2>14. AfterTests' /\ ClosedAll'
    BY <1>0 DEF AfterTests, ClosedAll
  <2> QED BY <2>7, <2>8, <2>9, <2>10, <2>11, <2>12, <2>13, <2>14 DEF ClientInv, ClientSound
<1> QED BY <1>3, <1>4

-----------------------------------------------------------------------------
(* CloseAll and the end of the process: every test is done, so a body that  *)
(* is not lost is in the map and is closed with it.                         *)
LEMMA CloseAllKeeps ==
  ASSUME ClientInv, CloseAll
  PROVE  ClientInv'
<1>t. /\ Len(stream) \in Nat /\ Streams = 1..Len(stream) /\ DOMAIN stream = 1..Len(stream)
      /\ \A s \in Streams : stream[s] \in StreamRec
      /\ openConns \in [Dbs -> Nat] /\ test \in [Tests -> TestRec]
      /\ None \notin Streams /\ stream \in Seq(StreamRec)
  BY ClientTypes DEF ClientTypeOK, ClientInv
<1>i. /\ ClientTypeOK /\ OneHolder /\ OwnStreams /\ Remembered /\ AfterTests
      /\ MapHasOpenBodies /\ OwnLock /\ ClosedAll
  BY DEF ClientInv, ClientSound
<1>0. /\ \A t \in Tests : test[t].at = "done"
      /\ openConns' = [d \in Dbs |-> None] /\ closing' = "all" /\ test' = test
  BY DEF CloseAll
<1>n. PICK n \in Nat : n = Len(stream)
  BY <1>t
<1>1. stream' = [s \in 1..n |-> IF s = openConns[stream[s].db]
                                 THEN [stream[s] EXCEPT !.body = "closed"] ELSE stream[s]]
  BY <1>t, <1>n DEF CloseAll
<1>2. \A s \in Streams : /\ stream'[s] \in StreamRec
                          /\ stream'[s].db = stream[s].db /\ stream'[s].held = stream[s].held
                          /\ stream'[s].taken = stream[s].taken /\ stream'[s].by = stream[s].by
                          /\ (stream'[s].body = "open" => stream[s].body = "open" /\ s # openConns[stream[s].db])
  <2> SUFFICES ASSUME NEW s \in Streams
               PROVE  /\ stream'[s] \in StreamRec
                      /\ stream'[s].db = stream[s].db /\ stream'[s].held = stream[s].held
                      /\ stream'[s].taken = stream[s].taken /\ stream'[s].by = stream[s].by
                      /\ (stream'[s].body = "open" => stream[s].body = "open" /\ s # openConns[stream[s].db])
    OBVIOUS
  <2>1. stream[s] \in StreamRec /\ s \in 1..n
    BY <1>t, <1>n
  <2>2. CASE s = openConns[stream[s].db]
    <3>1. stream'[s] = [stream[s] EXCEPT !.body = "closed"]
      BY <1>1, <2>1, <2>2
    <3> QED BY <2>1, <3>1 DEF StreamRec
  <2>3. CASE s # openConns[stream[s].db]
    BY <1>1, <2>1, <2>3
  <2> QED BY <2>2, <2>3
<1>3. stream' \in Seq(StreamRec) /\ Streams' = Streams
  <2>1. stream' \in [1..n -> StreamRec]
    <3>1. DOMAIN stream' = 1..n /\ stream' = [s \in 1..n |-> stream'[s]]
      BY <1>1
    <3>2. \A s \in 1..n : stream'[s] \in StreamRec
      BY <1>2, <1>t, <1>n
    <3> QED BY <3>1, <3>2
  <2>2. stream' \in Seq(StreamRec) /\ DOMAIN stream' = 1..n
    BY <2>1, FunctionIsSeq
  <2> QED BY <1>t, <1>n, <2>2 DEF Streams
<1>4. \A s \in Streams : Lost(s) => Lost(s)'
  BY <1>2 DEF Lost
<1>5. ASSUME NEW s \in Streams, stream'[s].body = "open", ~Lost(s)'
      PROVE  FALSE
  <2>1. stream[s].body = "open" /\ ~Lost(s) /\ s # openConns[stream[s].db]
    BY <1>2, <1>4, <1>5
  <2> QED BY <1>0, <1>i, <2>1 DEF Remembered
<1>6. ClientTypeOK'
  BY <1>0, <1>3 DEF ClientTypeOK, Uses, None, TestRec, ClientInv
<1>7. OneHolder'
  BY <1>i, <1>2, <1>3 DEF OneHolder
<1>8. OwnStreams'
  BY <1>0 DEF OwnStreams, Uses
<1>9. Remembered' /\ ClosedAll'
  BY <1>3, <1>5 DEF Remembered, ClosedAll
<1>10. MapHasOpenBodies' /\ OwnLock' /\ AfterTests'
  BY <1>0 DEF MapHasOpenBodies, OwnLock, AfterTests
<1>11. OnlyLateCallsHit'
  BY <1>2, <1>3, ClientTypes, LateHits
<1> QED BY <1>6, <1>7, <1>8, <1>9, <1>10, <1>11 DEF ClientInv, ClientSound

LEMMA ExitKeeps ==
  ASSUME ClientInv, Exit
  PROVE  ClientInv'
<1>t. /\ Len(stream) \in Nat /\ Streams = 1..Len(stream)
      /\ \A s \in Streams : stream[s] \in StreamRec
      /\ openConns \in [Dbs -> Nat] /\ test \in [Tests -> TestRec]
  BY ClientTypes
<1>i. /\ ClientTypeOK /\ OneHolder /\ AfterTests
  BY DEF ClientInv
<1>n. PICK n \in Nat : n = Len(stream)
  BY <1>t
<1>0. /\ stream' = [s \in 1..n |-> [stream[s] EXCEPT !.body = "closed"]]
      /\ closing' = "exit" /\ openConns' = openConns /\ test' = test
      /\ \A t \in Tests : test[t].at = "done"
      /\ \A d \in Dbs : openConns[d] = None
  BY <1>t, <1>n, <1>i DEF Exit, AfterTests
<1>2. \A s \in Streams : /\ stream'[s] \in StreamRec /\ stream'[s].body = "closed"
                          /\ stream'[s].db = stream[s].db /\ stream'[s].held = stream[s].held
                          /\ stream'[s].taken = stream[s].taken /\ stream'[s].by = stream[s].by
  <2> SUFFICES ASSUME NEW s \in Streams
               PROVE  /\ stream'[s] \in StreamRec /\ stream'[s].body = "closed"
                      /\ stream'[s].db = stream[s].db /\ stream'[s].held = stream[s].held
                      /\ stream'[s].taken = stream[s].taken /\ stream'[s].by = stream[s].by
    OBVIOUS
  <2>1. stream'[s] = [stream[s] EXCEPT !.body = "closed"] /\ stream[s] \in StreamRec
    BY <1>0, <1>t, <1>n
  <2> QED BY <2>1 DEF StreamRec
<1>3. stream' \in Seq(StreamRec) /\ Streams' = Streams
  <2>1. stream' \in [1..n -> StreamRec]
    <3>1. DOMAIN stream' = 1..n /\ stream' = [s \in 1..n |-> stream'[s]]
      BY <1>0
    <3>2. \A s \in 1..n : stream'[s] \in StreamRec
      BY <1>2, <1>t, <1>n
    <3> QED BY <3>1, <3>2
  <2>2. stream' \in Seq(StreamRec) /\ DOMAIN stream' = 1..n
    BY <2>1, FunctionIsSeq
  <2> QED BY <1>t, <1>n, <2>2 DEF Streams
<1>6. ClientTypeOK'
  BY <1>0, <1>3, <1>t DEF ClientTypeOK, Uses, None
<1>7. OneHolder'
  BY <1>i, <1>2, <1>3 DEF OneHolder
<1>8. OwnStreams' /\ Remembered' /\ ClosedAll'
  BY <1>0, <1>2, <1>3 DEF OwnStreams, Uses, Remembered, ClosedAll
<1>9. MapHasOpenBodies' /\ OwnLock' /\ AfterTests'
  BY <1>0 DEF MapHasOpenBodies, OwnLock, AfterTests
<1>10. OnlyLateCallsHit'
  BY <1>2, <1>3, ClientTypes, LateHits
<1> QED BY <1>6, <1>7, <1>8, <1>9, <1>10 DEF ClientInv, ClientSound

(* The server lets go of a lock: because its client did, or to take it back. *)
LEMMA ServerEndsKeeps ==
  ASSUME ClientInv, NEW s0 \in Streams, ServerReleases(s0) \/ ServerRevokes(s0)
  PROVE  ClientInv'
<1>t. /\ Len(stream) \in Nat /\ Streams = 1..Len(stream) /\ DOMAIN stream = 1..Len(stream)
      /\ \A s \in Streams : stream[s] \in StreamRec
      /\ openConns \in [Dbs -> Nat] /\ test \in [Tests -> TestRec]
      /\ None \notin Streams /\ stream \in Seq(StreamRec)
  BY ClientTypes DEF ClientTypeOK, ClientInv
<1>i. /\ ClientTypeOK /\ OneHolder /\ OwnStreams /\ Remembered /\ AfterTests
      /\ MapHasOpenBodies /\ OwnLock /\ ClosedAll
  BY DEF ClientInv, ClientSound
<1>0. UNCHANGED <<openConns, test, closing>> /\ stream[s0].held
  BY DEF ServerReleases, ServerRevokes
<1>1. PICK new \in StreamRec : /\ stream' = [stream EXCEPT ![s0] = new]
                               /\ new.db = stream[s0].db /\ new.body = stream[s0].body /\ ~new.held
                               /\ new.by = stream[s0].by
                               /\ \/ new.body = "closed" /\ new.taken = stream[s0].taken
                                  \/ new.body = "open" /\ new.taken
  <2>0. stream[s0] \in StreamRec
    BY <1>t
  <2>1. CASE ServerReleases(s0)
    <3> DEFINE r == [stream[s0] EXCEPT !.held = FALSE]
    <3>1. /\ r \in StreamRec /\ r.db = stream[s0].db /\ r.body = stream[s0].body /\ ~r.held
          /\ r.taken = stream[s0].taken /\ r.by = stream[s0].by
      BY <2>0 DEF StreamRec
    <3>2. stream' = [stream EXCEPT ![s0] = r] /\ stream[s0].body = "closed"
      BY <2>1 DEF ServerReleases
    <3> HIDE DEF r
    <3> QED BY <3>1, <3>2
  <2>2. CASE ServerRevokes(s0)
    <3> DEFINE r == [stream[s0] EXCEPT !.held = FALSE, !.taken = TRUE]
    <3>1. /\ r \in StreamRec /\ r.db = stream[s0].db /\ r.body = stream[s0].body /\ ~r.held /\ r.taken
          /\ r.by = stream[s0].by
      BY <2>0 DEF StreamRec
    <3>2. stream' = [stream EXCEPT ![s0] = r] /\ stream[s0].body = "open"
      BY <2>2 DEF ServerRevokes
    <3> HIDE DEF r
    <3> QED BY <3>1, <3>2
  <2> QED BY <2>1, <2>2
<1>2. /\ stream' \in Seq(StreamRec) /\ Streams' = Streams /\ stream'[s0] = new
      /\ \A s \in Streams : s # s0 => stream'[s] = stream[s]
  BY <1>1, OneChanges
<1>3. /\ \A s \in Streams : stream'[s].db = stream[s].db /\ stream'[s].body = stream[s].body
      /\ \A s \in Streams : stream[s].taken => stream'[s].taken
      /\ \A s \in Streams : stream'[s].by = stream[s].by
  <2>1. stream[s0].taken => new.taken
    BY <1>1
  <2> QED BY <1>1, <1>2, <2>1
<1>4. \A s \in Streams : Lost(s) => Lost(s)'
  BY <1>3 DEF Lost
<1>5. ClientTypeOK'
  BY <1>i, <1>0, <1>2 DEF ClientTypeOK, Uses
<1>6. OneHolder'
  BY <1>i, <1>0, <1>1, <1>2 DEF OneHolder
<1>7. OwnStreams'
  <2>1. \A u \in Tests : test[u].at = "reading" => test[u].stream \in Streams
    BY <1>i DEF ClientTypeOK, Uses
  <2> QED BY <1>i, <1>0, <1>3, <2>1 DEF OwnStreams, Uses
<1>8. Remembered' /\ ClosedAll'
  BY <1>i, <1>0, <1>2, <1>3, <1>4 DEF Remembered, ClosedAll
<1>9. MapHasOpenBodies'
  BY <1>i, <1>0, <1>3 DEF MapHasOpenBodies, ClientTypeOK
<1>10. OwnLock'
  <2> SUFFICES ASSUME NEW u \in Tests, test[u].at = "using",
                      ~(stream'[test[u].stream].taken \/ stream'[test[u].stream].by # None)
               PROVE  /\ stream'[test[u].stream].held
                      /\ openConns[stream'[test[u].stream].db] = test[u].stream
    BY <1>0 DEF OwnLock, Lost
  <2>1. test[u].stream \in Streams /\ stream'[test[u].stream].db = stream[test[u].stream].db
    BY <1>i, <1>3 DEF ClientTypeOK, Uses
  <2>2. ~Lost(test[u].stream)
    BY <1>4, <2>1 DEF Lost
  <2>3. stream[test[u].stream].held /\ openConns[stream[test[u].stream].db] = test[u].stream
    BY <2>2, UserHolds
  <2>4. test[u].stream # s0
    <3> SUFFICES ASSUME test[u].stream = s0 PROVE FALSE
      OBVIOUS
    <3>1. stream[s0].body = "open"
      <4>1. stream[s0].db \in Dbs /\ openConns[stream[s0].db] = s0 /\ s0 # None
        BY <1>t, <2>3 DEF StreamRec
      <4> QED BY <1>i, <4>1 DEF MapHasOpenBodies
    <3>2. new.taken
      BY <1>1, <3>1
    <3>3. stream'[test[u].stream].taken
      BY <1>2, <3>2
    <3> QED BY <3>3
  <2>5. stream'[test[u].stream] = stream[test[u].stream]
    BY <1>2, <2>1, <2>4
  <2> QED BY <2>3, <2>5
<1>11. OnlyLateCallsHit'
  BY <1>2, <1>3, ClientTypes, LateHits
<1>12. AfterTests'
  BY <1>i, <1>0 DEF AfterTests
<1> QED BY <1>5, <1>6, <1>7, <1>8, <1>9, <1>10, <1>11, <1>12 DEF ClientInv, ClientSound

LEMMA ClientStep ==
  ASSUME ClientInv, [ClientNext]_libVars
  PROVE  ClientInv'
<1>1. CASE UNCHANGED libVars
  BY <1>1 DEF libVars, ClientInv, ClientSound, MapHasOpenBodies, OwnLock, ClosedAll, ClientTypeOK, OneHolder,
              OnlyLateCallsHit, OwnStreams, Remembered, AfterTests, Streams, Uses, Lost, Undisturbed, Taken
<1>2. CASE ClientNext
  BY <1>2, GrantKeeps, FailKeeps, StoreKeeps, EndKeeps, UnlockKeeps, CloseAllKeeps, ExitKeeps, ServerEndsKeeps
     DEF ClientNext, Releases
<1> QED BY <1>1, <1>2

(* The client's map stands for the locks it holds, for any number of tests, *)
(* databases, requests and takebacks: it has open bodies only, a test has   *)
(* the lock it uses unless that was taken back or a late call went for it,  *)
(* late calls are those of tests that had lost their own lock on the same   *)
(* database, and CloseAll leaves no other body open.                        *)
THEOREM ClientIsSound == ClientSpec => []ClientSound
<1>1. ClientInv => ClientSound
  BY DEF ClientInv
<1> QED BY <1>1, ClientBegins, ClientStep, PTL DEF ClientSpec

-----------------------------------------------------------------------------
(***************************************************************************)
(* Resets.  HeldIsFresh is not inductive: what a reset that nobody stopped  *)
(* has done so far, is said for every step, with the instance being up from *)
(* the drop on, so that no init script can make a database behind it.       *)
(***************************************************************************)
AfterDrop == {"create", "owner", "schema", "register", "held"}
AfterCreate == {"owner", "schema", "register", "held"}

ResetTypeOK ==
  /\ resetAt \in {"pool", "terminate", "drop"} \cup AfterDrop /\ returns \in Nat
SoFar ==
  ~hit => /\ (resetAt \in AfterDrop => pg = "up")
          /\ (resetAt = "create" => ~exists)
          /\ (resetAt \in AfterCreate => made /\ exists)
          /\ (resetAt \in {"schema", "register", "held"} => owner)
          /\ (resetAt \in {"register", "held"} => schema)
          /\ (resetAt \in {"owner", "schema", "register"} /\ marks => returns > 0 /\ stale)
ResetInv == ResetTypeOK /\ SoFar

LEMMA ResetKeeps ==
  /\ ResetInit => ResetInv
  /\ ResetInv /\ [ResetNext]_resetVars => ResetInv'
<1> USE DEF ResetInv, AfterDrop, AfterCreate
<1>1. ResetInit => ResetInv
  BY DEF ResetInit, ResetTypeOK, SoFar
<1>2. ResetInv /\ UNCHANGED resetVars => ResetInv'
  BY DEF resetVars, ResetTypeOK, SoFar
<1>3. ASSUME ResetInv, ResetNext PROVE ResetInv'
  <2> USE DEF Steps
  <2>1. ResetTypeOK'
    <3>1. CASE Take \/ Release \/ Return \/ StopPg \/ StartPg
      BY <1>3, <3>1 DEF Take, Release, Return, StopPg, StartPg, ResetTypeOK
    <3>2. CASE ResetStep
      BY <1>3, <3>2 DEF ResetStep, Terminate, Drop, Create, AlterOwner, AlterSchema, StepFails, Register,
                        ResetTypeOK
    <3> QED BY <1>3, <3>1, <3>2 DEF ResetNext
  <2>2. SoFar'
    <3>1. CASE Take \/ Release \/ Return \/ StopPg \/ StartPg
      BY <1>3, <3>1 DEF Take, Release, Return, StopPg, StartPg, ResetTypeOK, SoFar
    <3>2. CASE ResetStep
      BY <1>3, <3>2 DEF ResetStep, Terminate, Drop, Create, AlterOwner, AlterSchema, StepFails, Register,
                        ResetTypeOK, SoFar
    <3> QED BY <1>3, <3>1, <3>2 DEF ResetNext
  <2> QED BY <2>1, <2>2
<1> QED BY <1>1, <1>2, <1>3

(***************************************************************************)
(* Containers.  NoOrphans needs how far StopContainers has come, and that   *)
(* the start-up is over when it began; OwnContainers needs how far the      *)
(* start-up has come.                                                       *)
(***************************************************************************)
BootStages == {"stop", "rm", "run", "wait", "pg_isready", "locker", "failed", "died"}
Boxes == {"none", "booting", "inited", "ready", "bindError", "exited"}

DockerTypeOK ==
  /\ box \in [Instances -> Boxes] /\ boot \in [at : BootStages, i : Instances]
  /\ leaver \in [at : {"no", "stop", "gone"}, i : Instances]
  /\ ours \subseteq Instances /\ early \in BOOLEAN
StopsInTurn ==
  ~early => /\ (leaver.at # "no" => BootEnded)
            /\ (leaver.at = "stop" => \A j \in Instances : j < leaver.i => box[j] = "none")
            /\ NoOrphans
RunsInTurn ==
  /\ boot.at \in {"rm", "run"} => \A j \in Instances : j < boot.i => j \in ours
  /\ boot.at \in {"wait", "pg_isready", "locker"} => ours = Instances
DockerInv == DockerTypeOK /\ StopsInTurn /\ RunsInTurn

LEMMA DockerBegins == DockerInit => DockerInv
<1> SUFFICES ASSUME DockerInit PROVE DockerInv
  OBVIOUS
<1> USE DockerAssumption DEF Instances, Stage
<1>1. DockerTypeOK
  <2>1. box \in [Instances -> Boxes] /\ ours \subseteq Instances /\ early \in BOOLEAN /\ 1 \in Instances
    <3>1. box \in [Instances -> {"none", "ready", "exited"}] /\ ours = {} /\ early = FALSE
      BY DEF DockerInit
    <3>2. \A i \in Instances : box[i] \in Boxes
      BY <3>1 DEF Boxes
    <3>3. box = [i \in Instances |-> box[i]]
      BY <3>1
    <3>4. box \in [Instances -> Boxes]
      BY <3>2, <3>3
    <3>5. 1 \in Instances
      OBVIOUS
    <3> QED BY <3>1, <3>4, <3>5
  <2> QED BY <2>1 DEF DockerInit, DockerTypeOK, BootStages
<1>2. StopsInTurn /\ RunsInTurn
  BY DEF DockerInit, StopsInTurn, RunsInTurn, NoOrphans
<1> QED BY <1>1, <1>2 DEF DockerInv

LEMMA BootKeeps ==
  ASSUME DockerInv, BootSteps
  PROVE  DockerInv'
<1> USE DockerAssumption DEF Instances
<1>0. /\ DockerTypeOK /\ StopsInTurn /\ RunsInTurn
      /\ ~BootEnded /\ leaver' = leaver /\ early' = early /\ Working
  BY DEF DockerInv, BootSteps, BootStop, BootRemove, BootRun, Wait, PgIsReady, DeadlinePasses, BootEnded
<1>p. ASSUME NEW a \in BootStages, NEW b \in BootStages
      PROVE  /\ Past(a, b) \in [at : BootStages, i : Instances]
             /\ Past(a, b) = IF boot.i < NInstances THEN Stage(a, boot.i + 1) ELSE Stage(b, 1)
  BY <1>0 DEF DockerTypeOK, Past, Stage
<1>s. ASSUME NEW a \in BootStages, NEW j \in Instances
      PROVE  Stage(a, j) \in [at : BootStages, i : Instances]
  BY DEF Stage
<1>1. DockerTypeOK'
  <2>1. boot' \in [at : BootStages, i : Instances]
    <3>1. {"rm", "stop", "run", "wait", "pg_isready", "locker", "failed"} \subseteq BootStages
          /\ boot.i \in Instances /\ 1 \in Instances
      BY <1>0 DEF BootStages, DockerTypeOK
    <3>2. /\ Past("stop", "rm") \in [at : BootStages, i : Instances]
          /\ Past("rm", "wait") \in [at : BootStages, i : Instances]
          /\ Past("wait", "locker") \in [at : BootStages, i : Instances]
      BY <1>p, <3>1
    <3>3. /\ Stage("run", boot.i) \in [at : BootStages, i : Instances]
          /\ Stage("pg_isready", boot.i) \in [at : BootStages, i : Instances]
          /\ Stage("failed", 1) \in [at : BootStages, i : Instances]
      BY <1>s, <3>1
    <3>4. \/ boot' = boot
          \/ boot' \in {Past("stop", "rm"), Past("rm", "wait"), Past("wait", "locker")}
          \/ boot' \in {Stage("run", boot.i), Stage("pg_isready", boot.i), Stage("failed", 1)}
      BY DEF BootSteps, BootStop, BootRemove, BootRun, Wait, PgIsReady, DeadlinePasses
    <3> HIDE DEF Stage
    <3> QED BY <1>0, <3>2, <3>3, <3>4 DEF DockerTypeOK
  <2>2. box' \in [Instances -> Boxes] /\ ours' \subseteq Instances
    BY <1>0 DEF DockerTypeOK, BootSteps, BootStop, BootRemove, BootRun, Wait, PgIsReady, DeadlinePasses, Boxes
  <2> QED BY <1>0, <2>1, <2>2 DEF DockerTypeOK
<1>2. StopsInTurn'
  BY <1>0 DEF StopsInTurn, NoOrphans, Working, DockerTypeOK
<1>3. RunsInTurn'
  <2> USE DEF RunsInTurn, Past, Stage, DockerTypeOK
  <2>1. CASE BootStop \/ BootRemove
    BY <1>0, <2>1 DEF BootStop, BootRemove
  <2>2. CASE BootRun
    <3>1. CASE /\ boot.at = "run" /\ ours' = ours \cup {boot.i}
               /\ boot' = IF boot.i < NInstances THEN Stage("rm", boot.i + 1) ELSE Stage("wait", 1)
      <4>1. \A j \in Instances : j < boot.i => j \in ours
        BY <1>0, <3>1
      <4>2. boot.i \in 1..NInstances /\ \A j \in Instances : j < boot.i + 1 => j \in ours'
        BY <1>0, <3>1, <4>1
      <4>3. CASE boot.i < NInstances
        <5>1. boot'.at = "rm" /\ boot'.i = boot.i + 1
          BY <3>1, <4>3
        <5> QED BY <4>2, <5>1
      <4>4. CASE ~(boot.i < NInstances)
        <5>1. boot'.at = "wait" /\ boot.i = NInstances
          BY <3>1, <4>2, <4>4
        <5>2. Instances \subseteq ours'
          BY <4>2, <5>1
        <5>3. ours' \subseteq Instances
          BY <1>0, <3>1
        <5> QED BY <5>1, <5>2, <5>3
      <4> QED BY <4>3, <4>4
    <3>2. CASE boot' = Stage("failed", 1)
      BY <3>2
    <3> QED BY <2>2, <3>1, <3>2 DEF BootRun
  <2>3. CASE Wait \/ PgIsReady \/ DeadlinePasses
    BY <1>0, <2>3 DEF Wait, PgIsReady, DeadlinePasses
  <2> QED BY <2>1, <2>2, <2>3 DEF BootSteps
<1> QED BY <1>1, <1>2, <1>3 DEF DockerInv

LEMMA DockerStep ==
  ASSUME DockerInv, [DockerNext]_dockerVars
  PROVE  DockerInv'
<1> USE DockerAssumption DEF Instances
<1>0. DockerTypeOK /\ StopsInTurn /\ RunsInTurn
  BY DEF DockerInv
<1>1. CASE UNCHANGED dockerVars
  BY <1>0, <1>1 DEF dockerVars, DockerInv, DockerTypeOK, StopsInTurn, RunsInTurn, NoOrphans, BootEnded
<1>2. ASSUME NEW i \in Instances, Container(i) PROVE DockerInv'
  <2>1. /\ UNCHANGED <<boot, patience, leaver, refused, ours, early>>
        /\ box' \in [Instances -> Boxes] /\ box[i] # "none"
        /\ \A j \in Instances : box[j] = "none" => box'[j] = "none"
    BY <1>0, <1>2 DEF Container, DockerTypeOK, Boxes, Alive
  <2> QED BY <1>0, <2>1 DEF DockerInv, DockerTypeOK, StopsInTurn, RunsInTurn, NoOrphans, BootEnded
<1>3. CASE QuitKey
  <2>1. DockerTypeOK'
    BY <1>0, <1>3 DEF QuitKey, DockerTypeOK, Stage
  <2>2. StopsInTurn'
    <3>1. /\ leaver.at = "no" /\ leaver'.at = "stop" /\ leaver'.i = 1 /\ boot' = boot /\ box' = box
          /\ early' = (early \/ ~BootEnded)
      BY <1>3 DEF QuitKey, Stage
    <3>2. BootEnded' = BootEnded
      BY <3>1 DEF BootEnded
    <3>3. NoOrphans'
      BY <3>1 DEF NoOrphans
    <3>4. \A j \in Instances : ~(j < 1)
      OBVIOUS
    <3> QED BY <3>1, <3>2, <3>3, <3>4 DEF StopsInTurn
  <2>3. RunsInTurn'
    BY <1>0, <1>3 DEF QuitKey, RunsInTurn
  <2> QED BY <2>1, <2>2, <2>3 DEF DockerInv
<1>4. CASE LeaveStop
  <2>1. DockerTypeOK'
    <3>1. leaver' \in [at : {"no", "stop", "gone"}, i : Instances]
      BY <1>0, <1>4 DEF LeaveStop, DockerTypeOK, Stage
    <3>2. box' \in [Instances -> Boxes] /\ early' \in BOOLEAN /\ ours' = ours
      BY <1>0, <1>4 DEF LeaveStop, DockerTypeOK, Boxes
    <3>3. boot' \in [at : BootStages, i : Instances]
      BY <1>0, <1>4 DEF LeaveStop, DockerTypeOK, Stage, BootStages
    <3> QED BY <1>0, <3>1, <3>2, <3>3 DEF DockerTypeOK
  <2>2. StopsInTurn'
    BY <1>0, <1>4 DEF LeaveStop, DockerTypeOK, Stage, StopsInTurn, NoOrphans, BootEnded
  <2>3. RunsInTurn'
    BY <1>0, <1>4 DEF LeaveStop, RunsInTurn, Stage
  <2> QED BY <2>1, <2>2, <2>3 DEF DockerInv
<1> QED BY <1>1, <1>2, <1>3, <1>4, BootKeeps DEF DockerNext

(* However often psql and docker fail, and whoever stops the containers, a  *)
(* database that is handed out is fresh and empty, and its containers are   *)
(* made by this start-up and gone after it.                                 *)
THEOREM DatabasesAreSound == ResetSpec /\ DockerSpec => []DatabasesSound
<1>1. ResetInv => HeldIsFresh /\ HeldIsEmpty
  BY DEF ResetInv, SoFar, HeldIsFresh, HeldIsEmpty, AfterCreate
<1>2. ASSUME DockerInv PROVE NoOrphans /\ OwnContainers
  BY <1>2 DEF DockerInv, StopsInTurn, RunsInTurn, OwnContainers, NoOrphans
<1>3. ResetSpec => []ResetInv
  BY ResetKeeps, PTL DEF ResetSpec
<1>4. DockerSpec => []DockerInv
  BY DockerBegins, DockerStep, PTL DEF DockerSpec
<1>5. ResetInv /\ DockerInv => DatabasesSound
  BY <1>1, <1>2 DEF DatabasesSound
<1> QED BY <1>3, <1>4, <1>5, PTL

-----------------------------------------------------------------------------
(***************************************************************************)
(* The jobs behind the loading screens.  What PanelSound says of callers    *)
(* is not inductive: it needs that the channel of a job ends with what      *)
(* became of the job (JobsTell), that of all the jobs only the last can     *)
(* still be heard and is heard once (EarlierDone, ScreenTells), and that    *)
(* the pending caller is the last job's (CallersKnown).  The last three     *)
(* hold as long as no job is begun behind another one's loading screen.     *)
(***************************************************************************)
LastJob == job[Len(job)]
JobRec == [kind : {"startup", "restart", "shutdown"},
           at : {"stop", "run", "wait", "locker", "containers", "ready", "end"},
           out : Seq({"busy", "ready", "failed"}), by : Callers \cup {NoCaller},
           failed : BOOLEAN]
ControlTypes ==
  /\ job \in Seq(JobRec) /\ Len(job) >= 1 /\ progressOf = Len(job)
  /\ \A j \in Jobs : Len(job[j].out) <= ProgressCap
  /\ mixed \in BOOLEAN /\ crossed \in BOOLEAN /\ showingLoading \in BOOLEAN
  /\ errListening \in BOOLEAN /\ quitting \in BOOLEAN
  /\ mode \in {"startup", "restart", "shutdown"}
  /\ progress \in {"busy", "ready", "holding", "failed"}
  /\ confirm \in {"none", "quit", "restart", "died"}
  /\ pending \in Callers \cup {NoCaller}
  /\ waits \in Seq(Nat) /\ \A i \in DOMAIN waits : waits[i] \in Jobs \cup {0}
  /\ progressMsgs \in Seq({"busy", "ready", "failed"})
  /\ Len(waits) + Len(progressMsgs) <= Len(job)
  /\ listeners \in Nat /\ requests \subseteq Callers /\ IsFiniteSet(requests)
  /\ caller \in [Callers -> {"idle", "waiting", "ok", "failed", "conflict"}]

(* A completed loading screen arms one listener, an accepted request uses    *)
(* one up, and a screen that shows will arm the next.                        *)
ListenersCounted ==
  /\ listeners + Cardinality(requests) + One(showingLoading) <= Len(job)
  /\ ~showingLoading /\ ~quitting => listeners + Cardinality(requests) >= 1

(* Behind the start-up nobody is listening.                                  *)
StartupAlone ==
  showingLoading /\ mode = "startup" =>
    /\ listeners = 0 /\ requests = {} /\ pending = NoCaller
    /\ \A c \in Callers : caller[c] \in {"idle", "conflict"}

(* Who has asked and has not been answered waits.                            *)
AskersWait ==
  /\ \A c \in requests : caller[c] = "waiting" /\ pending # c
  /\ pending # NoCaller => caller[pending] = "waiting"

(* What a job has said last is what became of it.                            *)
JobsTell ==
  \A j \in Jobs :
    /\ job[j].failed => ~Runs(j)
    /\ \A i \in DOMAIN job[j].out :
       job[j].out[i] # "busy" => /\ i = Len(job[j].out) /\ ~Runs(j)
                                 /\ job[j].out[i] = IF job[j].failed THEN "failed" ELSE "ready"

(* The message m says of the last job what has become of it.                 *)
Tells(m) ==
  /\ m \in {"ready", "holding"} => ~Runs(Len(job)) /\ ~LastJob.failed /\ LastJob.out = << >>
  /\ m = "failed" => ~Runs(Len(job)) /\ LastJob.failed /\ LastJob.out = << >>

(* Unless jobs cross, the earlier ones have succeeded and been heard out, ... *)
EarlierDone ==
  ~crossed => \A j \in Jobs : j < Len(job) => ~Runs(j) /\ ~job[j].failed /\ job[j].out = << >>

(* ... the end of the last one is told once, and the screen repeats it, ...   *)
ScreenTells ==
  ~crossed =>
    /\ Tells(progress) /\ (~showingLoading => progress = "holding")
    /\ \A i \in DOMAIN progressMsgs :
         /\ Tells(progressMsgs[i])
         /\ progressMsgs[i] # "busy" =>
             /\ progress = "busy"
             /\ \A k \in DOMAIN progressMsgs : k # i => progressMsgs[k] = "busy"

(* ... and the one who asked for it is the pending caller.                    *)
CallersKnown ==
  ~crossed =>
    /\ pending # NoCaller => showingLoading /\ progress # "failed" /\ pending = LastJob.by
    /\ \A c \in Callers : caller[c] = "waiting" => c \in requests \/ pending = c
    /\ \A c \in Callers : caller[c] = "ok" => \E j \in Jobs : job[j].by = c /\ ~Runs(j) /\ ~job[j].failed

ControlInv ==
  /\ ControlTypes /\ ListenersCounted /\ StartupAlone /\ AskersWait /\ JobsTell
  /\ EarlierDone /\ ScreenTells /\ CallersKnown

LEMMA ControlBegins == PGControlInit => ControlInv
<1> SUFFICES ASSUME PGControlInit PROVE ControlInv
  OBVIOUS
<1>1. NewJob("startup", NoCaller) \in JobRec
  BY EmptySeq DEF NewJob, JobRec
<1>2. /\ job \in Seq(JobRec) /\ Len(job) = 1 /\ DOMAIN job = {1} /\ job[1] = NewJob("startup", NoCaller)
  BY <1>1 DEF PGControlInit
<1>3. /\ waits \in Seq(Nat) /\ Len(waits) = 1 /\ DOMAIN waits = {1} /\ waits[1] = 0
      /\ progressMsgs \in Seq({"busy", "ready", "failed"}) /\ Len(progressMsgs) = 0
      /\ DOMAIN progressMsgs = {}
  BY EmptySeq DEF PGControlInit
<1>4. requests = {} /\ IsFiniteSet(requests) /\ Cardinality(requests) = 0
  BY FS_EmptySet DEF PGControlInit
<1>5. job[1].at = "stop" /\ job[1].out = << >> /\ ~job[1].failed /\ Len(job[1].out) = 0
      /\ DOMAIN job[1].out = {} /\ Jobs = {1}
  BY <1>2, EmptySeq DEF NewJob, Jobs
<1>6. ControlTypes
  <2>1. /\ mixed = FALSE /\ crossed = FALSE /\ showingLoading = TRUE /\ mode = "startup" /\ progress = "busy"
        /\ progressOf = 1 /\ confirm = "none" /\ pending = NoCaller /\ listeners = 0 /\ quitting = FALSE
        /\ errListening = FALSE /\ caller = [c \in Callers |-> "idle"]
    BY DEF PGControlInit
  <2>2. \A j \in Jobs : Len(job[j].out) <= ProgressCap
    BY <1>5, ControlAssumption
  <2>3. \A i \in DOMAIN waits : waits[i] \in Jobs \cup {0}
    BY <1>3
  <2>4. caller \in [Callers -> {"idle", "waiting", "ok", "failed", "conflict"}]
    BY <2>1
  <2>5. /\ listeners \in Nat /\ Len(waits) + Len(progressMsgs) <= Len(job)
        /\ progressOf = Len(job) /\ Len(job) >= 1 /\ requests \subseteq Callers
    BY <1>2, <1>3, <1>4, <2>1
  <2> QED BY <1>2, <1>3, <1>4, <2>1, <2>2, <2>3, <2>4, <2>5, Zenon DEF ControlTypes
<1>7. ListenersCounted /\ StartupAlone /\ AskersWait /\ JobsTell
  BY <1>2, <1>4, <1>5 DEF PGControlInit, ListenersCounted, StartupAlone, AskersWait, JobsTell, One
<1>8. EarlierDone /\ ScreenTells /\ CallersKnown
  BY <1>2, <1>3, <1>5 DEF PGControlInit, EarlierDone, ScreenTells, CallersKnown, Tells
<1> QED BY <1>6, <1>7, <1>8 DEF ControlInv

(* What ControlInv says of the jobs as functions of numbers.                 *)
LEMMA JobTypes ==
  ASSUME ControlInv
  PROVE  /\ Len(job) \in Nat \ {0} /\ Jobs = 1..Len(job) /\ DOMAIN job = 1..Len(job)
         /\ job \in [1..Len(job) -> JobRec] /\ Len(job) \in Jobs
         /\ \A j \in Jobs : /\ job[j] \in JobRec /\ job[j].out \in Seq({"busy", "ready", "failed"})
                            /\ job[j].failed \in BOOLEAN /\ job[j].by \in Callers \cup {NoCaller}
                            /\ Len(job[j].out) \in Nat /\ DOMAIN job[j].out = 1..Len(job[j].out)
         /\ Len(waits) \in Nat /\ DOMAIN waits = 1..Len(waits)
         /\ Len(progressMsgs) \in Nat /\ DOMAIN progressMsgs = 1..Len(progressMsgs)
         /\ \A i \in DOMAIN progressMsgs : progressMsgs[i] \in {"busy", "ready", "failed"}
         /\ Cardinality(requests) \in Nat
<1>1. /\ job \in Seq(JobRec) /\ Len(job) >= 1 /\ waits \in Seq(Nat)
      /\ progressMsgs \in Seq({"busy", "ready", "failed"}) /\ IsFiniteSet(requests)
  BY DEF ControlInv, ControlTypes
<1>2. /\ Len(job) \in Nat \ {0} /\ DOMAIN job = 1..Len(job) /\ job \in [1..Len(job) -> JobRec]
  BY <1>1, LenProperties
<1>3. \A j \in 1..Len(job) : job[j] \in JobRec
  BY <1>2
<1>4. \A r \in JobRec : /\ r.out \in Seq({"busy", "ready", "failed"})
                        /\ r.failed \in BOOLEAN /\ r.by \in Callers \cup {NoCaller}
                        /\ Len(r.out) \in Nat /\ DOMAIN r.out = 1..Len(r.out)
  <2> SUFFICES ASSUME NEW r \in JobRec
               PROVE  /\ r.out \in Seq({"busy", "ready", "failed"})
                      /\ r.failed \in BOOLEAN /\ r.by \in Callers \cup {NoCaller}
                      /\ Len(r.out) \in Nat /\ DOMAIN r.out = 1..Len(r.out)
    OBVIOUS
  <2>1. r.out \in Seq({"busy", "ready", "failed"}) /\ r.failed \in BOOLEAN /\ r.by \in Callers \cup {NoCaller}
    BY DEF JobRec
  <2> QED BY <2>1, LenProperties
<1>5. Len(waits) \in Nat /\ DOMAIN waits = 1..Len(waits)
  BY <1>1, LenProperties
<1>6. /\ Len(progressMsgs) \in Nat /\ DOMAIN progressMsgs = 1..Len(progressMsgs)
      /\ \A i \in DOMAIN progressMsgs : progressMsgs[i] \in {"busy", "ready", "failed"}
  BY <1>1, LenProperties, ElementOfSeq
<1>7. Cardinality(requests) \in Nat
  BY <1>1, FS_CardinalityType
<1> QED BY <1>2, <1>3, <1>4, <1>5, <1>6, <1>7 DEF Jobs

(* A step that leaves the jobs, the screen's history and the channel alone,  *)
(* and the callers: what is left is the screen.                              *)
LEMMA QuietSteps ==
  ASSUME ControlInv,
         \/ \E i \in DOMAIN waits : ReadChannel(i)
         \/ \E d \in {"quit", "restart"} : OpenDialog(d)
         \/ Hold \/ ServerDies \/ HandleLockerErr \/ QuitLoading \/ DismissDialog
         \/ ExecuteConfirmed /\ confirm = "died"
  PROVE  ControlInv'
<1>1. /\ UNCHANGED <<job, history, showingLoading, mode, progressOf, callVars, progressMsgs>>
      /\ progress' = progress \/ (progress = "ready" /\ progress' = "holding" /\ showingLoading)
      /\ quitting' \in BOOLEAN /\ errListening' \in BOOLEAN
      /\ confirm' \in {"none", "quit", "restart", "died"}
      /\ quitting => quitting'
  BY DEF ControlInv, ControlTypes, ReadChannel, OpenDialog, Hold, ServerDies, HandleLockerErr, QuitLoading, Leave,
         DismissDialog, ExecuteConfirmed, Begin, serverVars, screenVars, callVars, history
<1>2. waits' \in Seq(Nat) /\ (\A i \in DOMAIN waits' : waits'[i] \in Jobs \cup {0}) /\ Len(waits') = Len(waits)
  <2>1. CASE \E i \in DOMAIN waits : ReadChannel(i)
    <3>1. PICK i \in DOMAIN waits : ReadChannel(i)
      BY <2>1
    <3>2. waits' = [waits EXCEPT ![i] = progressOf] /\ progressOf \in Nat /\ progressOf \in Jobs /\ i \in 1..Len(waits)
      BY <3>1, JobTypes DEF ReadChannel, ControlInv, ControlTypes
    <3>3. waits' \in Seq(Nat) /\ Len(waits') = Len(waits)
      BY <3>2, ExceptSeq DEF ControlInv, ControlTypes
    <3>4. \A k \in DOMAIN waits' : k \in DOMAIN waits /\ (waits'[k] = waits[k] \/ waits'[k] = progressOf)
      BY <3>2
    <3> QED BY <3>2, <3>3, <3>4 DEF ControlInv, ControlTypes
  <2>2. CASE ~ \E i \in DOMAIN waits : ReadChannel(i)
    <3>1. waits' = waits
      BY <2>2 DEF OpenDialog, Hold, ServerDies, HandleLockerErr, QuitLoading, DismissDialog, ExecuteConfirmed, Begin
    <3> QED BY <3>1 DEF ControlInv, ControlTypes
  <2> QED BY <2>1, <2>2
<1>3. Jobs' = Jobs /\ crossed' = crossed /\ mixed' = mixed /\ LastJob' = LastJob /\ \A j : Runs(j)' <=> Runs(j)
  BY <1>1 DEF Jobs, history, LastJob, Runs
<1>4. ControlTypes'
  BY <1>1, <1>2, <1>3 DEF ControlInv, ControlTypes, callVars
<1>5. ListenersCounted' /\ StartupAlone' /\ AskersWait'
  BY <1>1 DEF ControlInv, ListenersCounted, StartupAlone, AskersWait, callVars
<1>6. JobsTell' /\ EarlierDone'
  BY <1>1, <1>3 DEF ControlInv, JobsTell, EarlierDone
<1>7. ScreenTells'
  <2> SUFFICES ASSUME ~crossed PROVE ScreenTells'
    BY <1>3 DEF ScreenTells
  <2>1. Tells(progress)' /\ (~showingLoading' => progress' = "holding")
    BY <1>1, <1>3 DEF ControlInv, ScreenTells, Tells
  <2>2. \A m : Tells(m) => (Tells(m))'
    BY <1>1, <1>3 DEF Tells
  <2> QED BY <1>1, <2>1, <2>2 DEF ControlInv, ScreenTells, Tells
<1>8. CallersKnown'
  BY <1>1, <1>3 DEF ControlInv, CallersKnown, callVars
<1> QED BY <1>4, <1>5, <1>6, <1>7, <1>8 DEF ControlInv

(* Another record for one job.                                               *)
LEMMA JobEdit ==
  ASSUME ControlInv, NEW j \in Jobs, NEW r \in JobRec, job' = [job EXCEPT ![j] = r]
  PROVE  /\ job' \in Seq(JobRec) /\ Len(job') = Len(job) /\ DOMAIN job' = 1..Len(job) /\ Jobs' = Jobs
         /\ job'[j] = r /\ \A k \in Jobs : k # j => job'[k] = job[k]
<1>1. j \in 1..Len(job) /\ Jobs = 1..Len(job) /\ DOMAIN job = 1..Len(job) /\ job \in Seq(JobRec)
  BY JobTypes DEF ControlInv, ControlTypes
<1>2. /\ job' \in Seq(JobRec) /\ Len(job') = Len(job)
      /\ \A k \in 1..Len(job) : job'[k] = IF k = j THEN r ELSE job[k]
  BY <1>1, ExceptSeq
<1> QED BY <1>1, <1>2 DEF Jobs

(* A job that runs has told nothing but that it is busy, and without         *)
(* crossing it is the last one and the screen waits for it.                  *)
LEMMA RunningJob ==
  ASSUME ControlInv, NEW j \in Jobs, Runs(j)
  PROVE  /\ ~job[j].failed /\ \A i \in DOMAIN job[j].out : job[j].out[i] = "busy"
         /\ ~crossed => /\ j = Len(job) /\ progress = "busy" /\ showingLoading
                        /\ \A i \in DOMAIN progressMsgs : progressMsgs[i] = "busy"
<1>1. ~job[j].failed /\ \A i \in DOMAIN job[j].out : job[j].out[i] = "busy"
  BY DEF ControlInv, JobsTell
<1>2. ASSUME ~crossed PROVE j = Len(job)
  BY <1>2, JobTypes DEF ControlInv, EarlierDone
<1>3. ASSUME ~crossed PROVE /\ progress = "busy" /\ showingLoading
                            /\ \A i \in DOMAIN progressMsgs : progressMsgs[i] = "busy"
  <2>1. progress \in {"busy", "ready", "holding", "failed"} /\ showingLoading \in BOOLEAN
    BY DEF ControlInv, ControlTypes
  <2> QED BY <1>2, <1>3, <2>1, JobTypes DEF ControlInv, ScreenTells, Tells
<1> QED BY <1>1, <1>2, <1>3

(* A step of job j that reports m.                                           *)
LEMMA JobReports ==
  ASSUME ControlInv, NEW j \in Jobs, NEW r \in JobRec, NEW m \in {"busy", "ready", "failed"},
         Runs(j), Len(job[j].out) < ProgressCap, job' = [job EXCEPT ![j] = r],
         r.out = Append(job[j].out, m), r.by = job[j].by, r.failed = (m = "failed"), m # "busy" => r.at = "end",
         UNCHANGED <<history, screenVars, confirm, callVars, waits, progressMsgs, errListening, quitting>>
  PROVE  ControlInv'
<1>1. /\ job' \in Seq(JobRec) /\ Len(job') = Len(job) /\ DOMAIN job' = 1..Len(job) /\ Jobs' = Jobs
      /\ job'[j] = r /\ \A k \in Jobs : k # j => job'[k] = job[k]
  BY JobEdit
<1>2. /\ mixed' = mixed /\ crossed' = crossed
      /\ UNCHANGED <<showingLoading, mode, progress, progressOf, pending, listeners, requests, caller>>
  BY DEF history, screenVars, callVars
<1>3. /\ Len(r.out) = Len(job[j].out) + 1 /\ DOMAIN r.out = 1..(Len(job[j].out) + 1)
      /\ r.out[Len(job[j].out) + 1] = m /\ Len(job[j].out) \in Nat /\ DOMAIN job[j].out = 1..Len(job[j].out)
      /\ \A i \in 1..Len(job[j].out) : r.out[i] = job[j].out[i]
  <2>1. job[j].out \in Seq({"busy", "ready", "failed"}) /\ r.out \in Seq({"busy", "ready", "failed"})
    BY JobTypes DEF JobRec
  <2> QED BY <2>1, AppendProperties, LenProperties
<1>4. ControlTypes'
  <2>1. \A k \in Jobs : Len(job'[k].out) <= ProgressCap
    BY <1>1, <1>3, ControlAssumption DEF ControlInv, ControlTypes
  <2> QED BY <1>1, <1>2, <2>1 DEF ControlInv, ControlTypes
<1>5. ListenersCounted' /\ StartupAlone' /\ AskersWait'
  BY <1>1, <1>2 DEF ControlInv, ListenersCounted, StartupAlone, AskersWait
<1>6. JobsTell'
  <2>1. \A i \in DOMAIN r.out : r.out[i] # "busy" => i = Len(r.out) /\ r.out[i] = m
    BY <1>3, RunningJob
  <2>2. /\ r.failed => r.at = "end"
        /\ \A i \in DOMAIN r.out :
             r.out[i] # "busy" => /\ i = Len(r.out) /\ r.at = "end"
                                  /\ r.out[i] = IF r.failed THEN "failed" ELSE "ready"
    BY <2>1
  <2> QED BY <1>1, <2>2 DEF ControlInv, JobsTell, Runs
<1>7. EarlierDone'
  BY <1>1, <1>2, RunningJob DEF ControlInv, EarlierDone, Runs
<1>8. ScreenTells'
  BY <1>1, <1>2, RunningJob DEF ControlInv, ScreenTells, Tells
<1>9. CallersKnown'
  <2> SUFFICES ASSUME ~crossed PROVE CallersKnown'
    BY <1>2 DEF CallersKnown
  <2>1. LastJob'.by = LastJob.by
    BY <1>1, RunningJob DEF LastJob
  <2>2. \A k \in Jobs : ~Runs(k) => k # j /\ job'[k] = job[k]
    BY <1>1
  <2>3. \A c \in Callers : caller[c] = "ok" => \E k \in Jobs : job'[k].by = c /\ job'[k].at = "end" /\ ~job'[k].failed
    BY <2>2 DEF ControlInv, CallersKnown, Runs
  <2> QED BY <1>1, <1>2, <2>1, <2>3 DEF ControlInv, CallersKnown, Runs
<1> QED BY <1>4, <1>5, <1>6, <1>7, <1>8, <1>9 DEF ControlInv

LEMMA JobSteps ==
  ASSUME ControlInv, NEW j \in Jobs, JobStep(j) \/ JobFails(j)
  PROVE  ControlInv'
<1>1. /\ job \in [1..Len(job) -> JobRec] /\ job[j] \in JobRec /\ Jobs = 1..Len(job)
      /\ job[j].out \in Seq({"busy", "ready", "failed"})
  BY JobTypes
<1>2. CASE JobStep(j)
  <2> DEFINE m == IF job[j].at = "ready" THEN "ready" ELSE "busy"
             r == [job[j] EXCEPT !.at = After(j), !.out = Append(@, m)]
  <2>1. Append(job[j].out, m) \in Seq({"busy", "ready", "failed"})
    BY <1>1, AppendProperties
  <2>2. After(j) \in {"stop", "run", "wait", "locker", "containers", "ready", "end"}
        /\ (m # "busy" => After(j) = "end")
    BY DEF After
  <2>3. r \in JobRec /\ r.out = Append(job[j].out, m) /\ r.by = job[j].by /\ r.at = After(j) /\ r.failed = job[j].failed
    BY <1>1, <2>1, <2>2 DEF JobRec
  <2>4. job' = [job EXCEPT ![j] = r] /\ Runs(j) /\ Len(job[j].out) < ProgressCap
    BY <1>1, <1>2 DEF JobStep
  <2>5. ~job[j].failed /\ m \in {"busy", "ready", "failed"} /\ r.failed = (m = "failed")
    <3>1. ~job[j].failed /\ job[j].failed \in BOOLEAN
      BY <2>4, RunningJob, JobTypes
    <3> QED BY <2>3, <3>1
  <2> HIDE DEF m, r
  <2> QED BY <1>2, <2>2, <2>3, <2>4, <2>5, JobReports DEF JobStep
<1>3. CASE JobFails(j)
  <2> DEFINE r == [job[j] EXCEPT !.at = "end", !.failed = TRUE, !.out = Append(@, "failed")]
  <2>1. Append(job[j].out, "failed") \in Seq({"busy", "ready", "failed"})
    BY <1>1, AppendProperties
  <2>2. r \in JobRec /\ r.out = Append(job[j].out, "failed") /\ r.by = job[j].by /\ r.at = "end" /\ r.failed = TRUE
    BY <1>1, <2>1 DEF JobRec
  <2>3. job' = [job EXCEPT ![j] = r] /\ Runs(j) /\ Len(job[j].out) < ProgressCap
    BY <1>1, <1>3 DEF JobFails
  <2> HIDE DEF r
  <2> QED BY <1>3, <2>2, <2>3, JobReports DEF JobFails, serverVars
<1> QED BY <1>2, <1>3

(* A command that has read what a job reports, or found the channel closed.  *)
LEMMA ReceiveSteps ==
  ASSUME ControlInv, NEW i \in DOMAIN waits, ReceiveProgress(i)
  PROVE  ControlInv'
<1>0. PICK j \in Jobs : j = waits[i]
  BY DEF ControlInv, ControlTypes, ReceiveProgress
<1>1. /\ job \in [1..Len(job) -> JobRec] /\ Jobs = 1..Len(job) /\ job[j] \in JobRec /\ job[j].out \in Seq({"busy", "ready", "failed"})
      /\ Len(job[j].out) \in Nat /\ DOMAIN job[j].out = 1..Len(job[j].out)
  BY JobTypes
<1>2. /\ mixed' = mixed /\ crossed' = crossed
      /\ UNCHANGED <<showingLoading, mode, progress, progressOf, pending, listeners, requests, caller,
                     confirm, errListening, quitting>>
  BY DEF ReceiveProgress, history, screenVars, callVars
<1>3. /\ waits' \in Seq(Nat) /\ Len(waits') = Len(waits) - 1
      /\ \A k \in DOMAIN waits' : waits'[k] \in Jobs \cup {0}
  <2>1. waits \in Seq(Nat) /\ waits' = DropAt(waits, i) /\ \A k \in DOMAIN waits : waits[k] \in Jobs \cup {0}
    BY DEF ControlInv, ControlTypes, ReceiveProgress
  <2>2. /\ waits' \in Seq(Nat) /\ Len(waits') = Len(waits) - 1
        /\ \A k \in DOMAIN waits' : \E n \in DOMAIN waits : waits'[k] = waits[n]
    <3>1. waits' = Dropped(waits, i)
      BY <2>1 DEF DropAt, Dropped
    <3> QED BY <2>1, <3>1, DropFacts
  <2> QED BY <2>1, <2>2
<1>4. CASE job[j].out = << >>
  <2>1. UNCHANGED <<job, progressMsgs>>
    BY <1>0, <1>4 DEF ReceiveProgress
  <2>2. Jobs' = Jobs /\ LastJob' = LastJob
    BY <2>1 DEF Jobs, LastJob
  <2>3. ControlTypes'
    BY <1>2, <1>3, <2>1, <2>2, JobTypes DEF ControlInv, ControlTypes
  <2>4. ListenersCounted' /\ StartupAlone' /\ AskersWait' /\ JobsTell' /\ EarlierDone'
    BY <1>2, <2>1, <2>2 DEF ControlInv, ListenersCounted, StartupAlone, AskersWait, JobsTell, EarlierDone, Runs
  <2>5. ScreenTells' /\ CallersKnown'
    BY <1>2, <2>1, <2>2 DEF ControlInv, ScreenTells, CallersKnown, Tells, Runs
  <2> QED BY <2>3, <2>4, <2>5 DEF ControlInv
<1>5. CASE job[j].out # << >>
  <2> DEFINE m == Head(job[j].out)
             r == [job[j] EXCEPT !.out = Tail(@)]
  <2>1. /\ job' = [job EXCEPT ![j] = r] /\ progressMsgs' = Append(progressMsgs, m)
    BY <1>0, <1>1, <1>5 DEF ReceiveProgress
  <2>2. /\ Tail(job[j].out) \in Seq({"busy", "ready", "failed"}) /\ m \in {"busy", "ready", "failed"}
        /\ m = job[j].out[1] /\ Len(job[j].out) \in Nat \ {0} /\ Len(Tail(job[j].out)) = Len(job[j].out) - 1
        /\ DOMAIN Tail(job[j].out) = 1..(Len(job[j].out) - 1)
        /\ \A k \in 1..(Len(job[j].out) - 1) : Tail(job[j].out)[k] = job[j].out[k + 1]
    BY <1>1, <1>5, HeadTailProperties, LenProperties, EmptySeq
  <2>3. /\ r \in JobRec /\ r.out = Tail(job[j].out) /\ r.by = job[j].by /\ r.at = job[j].at
        /\ r.failed = job[j].failed
    BY <1>1, <2>2 DEF JobRec
  <2> HIDE DEF m, r
  <2>4. /\ job' \in Seq(JobRec) /\ Len(job') = Len(job) /\ DOMAIN job' = 1..Len(job) /\ Jobs' = Jobs
        /\ job'[j] = r /\ \A k \in Jobs : k # j => job'[k] = job[k]
    BY <1>1, <2>1, <2>3, JobEdit
  <2>5. /\ progressMsgs' \in Seq({"busy", "ready", "failed"}) /\ Len(progressMsgs') = Len(progressMsgs) + 1
        /\ DOMAIN progressMsgs' = 1..(Len(progressMsgs) + 1) /\ progressMsgs'[Len(progressMsgs) + 1] = m
        /\ \A k \in 1..Len(progressMsgs) : progressMsgs'[k] = progressMsgs[k]
    BY <2>1, <2>2, AppendProperties, LenProperties DEF ControlInv, ControlTypes
  <2>6. \A k \in Jobs :  /\ ((Runs(k))' <=> Runs(k)) /\ job'[k].failed = job[k].failed /\ job'[k].by = job[k].by
                         /\ (job[k].out = << >> => job'[k].out = << >>)
    BY <1>5, <2>3, <2>4 DEF Runs
  <2>7. ControlTypes'
    <3>1. \A k \in Jobs : Len(job'[k].out) <= ProgressCap
      <4>1. \A k \in Jobs : Len(job[k].out) <= ProgressCap
        BY DEF ControlInv, ControlTypes
      <4>2. Len(job'[j].out) <= ProgressCap
        <5>1. Len(job'[j].out) = Len(job[j].out) - 1
          BY <2>2, <2>3, <2>4
        <5> QED BY <1>1, <4>1, <5>1, ControlAssumption
      <4> QED BY <2>4, <4>1, <4>2
    <3>2. Len(waits') + Len(progressMsgs') <= Len(job')
      BY <1>3, <2>4, <2>5, JobTypes DEF ControlInv, ControlTypes
    <3> QED BY <1>2, <1>3, <2>4, <2>5, <3>1, <3>2 DEF ControlInv, ControlTypes
  <2>8. ListenersCounted' /\ StartupAlone' /\ AskersWait'
    BY <1>2, <2>4 DEF ControlInv, ListenersCounted, StartupAlone, AskersWait
  <2>9. JobsTell'
    <3>1. \A k \in DOMAIN r.out : k + 1 \in DOMAIN job[j].out /\ r.out[k] = job[j].out[k + 1]
      BY <1>1, <2>2, <2>3
    <3>2. \A k \in DOMAIN r.out :
             r.out[k] # "busy" => /\ k = Len(r.out) /\ r.at = "end"
                                  /\ r.out[k] = IF r.failed THEN "failed" ELSE "ready"
      BY <1>1, <2>2, <2>3, <3>1 DEF ControlInv, JobsTell, Runs
    <3>3. ASSUME NEW k \in Jobs, k # j
          PROVE  /\ job'[k].failed => (~Runs(k))'
                 /\ \A n \in DOMAIN job'[k].out :
                     job'[k].out[n] # "busy" => /\ n = Len(job'[k].out) /\ (~Runs(k))'
                          /\ job'[k].out[n] = IF job'[k].failed THEN "failed" ELSE "ready"
      BY <2>4, <2>6, <3>3 DEF ControlInv, JobsTell
    <3>4. /\ job'[j].failed => (~Runs(j))'
          /\ \A n \in DOMAIN job'[j].out :
               job'[j].out[n] # "busy" => /\ n = Len(job'[j].out) /\ (~Runs(j))'
                          /\ job'[j].out[n] = IF job'[j].failed THEN "failed" ELSE "ready"
      <4>1. (Runs(j))' <=> r.at # "end"
        BY <2>4 DEF Runs
      <4>2. r.failed => r.at = "end"
        BY <2>3 DEF ControlInv, JobsTell, Runs
      <4> QED BY <2>4, <3>2, <4>1, <4>2
    <3> QED BY <2>4, <3>3, <3>4 DEF JobsTell
  <2>10. EarlierDone'
    <3>1. ASSUME ~crossed, NEW k \in Jobs, k < Len(job)
          PROVE  (~Runs(k))' /\ ~job'[k].failed /\ job'[k].out = << >>
      BY <2>6, <3>1 DEF ControlInv, EarlierDone
    <3> QED BY <1>2, <2>4, <3>1 DEF EarlierDone
  <2>11. ScreenTells'
    <3> SUFFICES ASSUME ~crossed PROVE ScreenTells'
      BY <1>2 DEF ScreenTells
    <3>0. \A k \in Jobs : k < Len(job) => job[k].out = << >>
      BY DEF ControlInv, EarlierDone
    <3>1. j = Len(job)
      <4>1. ~(j < Len(job))
        BY <1>5, <3>0
      <4> QED BY <4>1, JobTypes
    <3>2. progress = "busy" /\ showingLoading /\ \A k \in DOMAIN progressMsgs : progressMsgs[k] = "busy"
      <4>1. progress \in {"busy", "ready", "holding", "failed"} /\ showingLoading \in BOOLEAN
        BY DEF ControlInv, ControlTypes
      <4> QED BY <1>5, <3>1, <4>1, JobTypes DEF ControlInv, ScreenTells, Tells, LastJob
    <3>3. m # "busy" => /\ r.at = "end" /\ m = (IF r.failed THEN "failed" ELSE "ready") /\ r.out = << >>
      <4> SUFFICES ASSUME m # "busy"
                   PROVE  r.at = "end" /\ m = (IF r.failed THEN "failed" ELSE "ready") /\ r.out = << >>
        OBVIOUS
      <4>1. 1 \in DOMAIN job[j].out /\ 1 = Len(job[j].out) /\ ~Runs(j)
            /\ m = (IF job[j].failed THEN "failed" ELSE "ready")
        <5>1. 1 \in DOMAIN job[j].out
          BY <1>1, <2>2
        <5> QED BY <2>2, <5>1 DEF ControlInv, JobsTell
      <4>2. Len(r.out) = 0 /\ r.out \in Seq({"busy", "ready", "failed"})
        BY <2>2, <2>3, <4>1
      <4> QED BY <2>3, <4>1, <4>2, EmptySeq DEF Runs
    <3>4. LastJob' = r /\ ((Runs(Len(job)))' <=> r.at # "end") /\ Len(job)' = Len(job) /\ r.failed \in BOOLEAN
      BY <2>3, <2>4, <3>1 DEF LastJob, Runs, JobRec
    <3>5. m = "ready" => r.at = "end" /\ ~r.failed /\ r.out = << >>
      BY <3>3
    <3>6. m = "failed" => r.at = "end" /\ r.failed /\ r.out = << >>
      BY <3>3
    <3>7. Tells(progress)' /\ (~showingLoading)' = FALSE /\ progress' = "busy"
      BY <1>2, <3>2 DEF Tells
    <3>8. \A k \in DOMAIN progressMsgs' :
            IF k = Len(progressMsgs) + 1 THEN progressMsgs'[k] = m ELSE progressMsgs'[k] = "busy"
      BY <2>5, <3>2, JobTypes
    <3>9. ASSUME NEW k \in DOMAIN progressMsgs' PROVE Tells(progressMsgs[k])'
      <4>1. (progressMsgs'[k] = m \/ progressMsgs'[k] = "busy") /\ m # "holding"
        BY <2>2, <3>8
      <4> QED BY <2>4, <3>1, <3>4, <3>5, <3>6, <4>1 DEF Tells
    <3> QED BY <3>7, <3>8, <3>9 DEF ScreenTells
  <2>12. CallersKnown'
    <3>1. LastJob'.by = LastJob.by
      <4>1. Len(job) \in Jobs
        BY JobTypes
      <4>2. LastJob' = job'[Len(job)]
        BY <2>4 DEF LastJob
      <4> QED BY <2>6, <4>1, <4>2 DEF LastJob
    <3>2. ASSUME ~crossed, NEW c \in Callers, caller[c] = "ok"
          PROVE  \E k \in Jobs : job'[k].by = c /\ (~Runs(k))' /\ ~job'[k].failed
      BY <2>6, <3>2 DEF ControlInv, CallersKnown
    <3> QED BY <1>2, <2>4, <3>1, <3>2 DEF ControlInv, CallersKnown
  <2> QED BY <2>7, <2>8, <2>9, <2>10, <2>11, <2>12 DEF ControlInv
<1> QED BY <1>4, <1>5

(* The screen takes a message over.                                          *)
LEMMA HandleSteps ==
  ASSUME ControlInv, NEW i \in DOMAIN progressMsgs, HandleProgress(i)
  PROVE  ControlInv'
<1> DEFINE shows == IF progressMsgs[i] = "failed" \/ progress = "failed" THEN "failed"
                    ELSE IF progress = "holding" THEN "holding" ELSE progressMsgs[i]
<1>1. /\ mixed' = mixed /\ crossed' = crossed /\ Jobs' = Jobs /\ LastJob' = LastJob
      /\ \A k : (Runs(k))' <=> Runs(k)
      /\ UNCHANGED <<job, showingLoading, mode, progressOf, listeners, requests, confirm, errListening, quitting>>
  BY DEF HandleProgress, history, Jobs, LastJob, Runs
<1>2. /\ progressMsgs \in Seq({"busy", "ready", "failed"}) /\ progressMsgs' = Dropped(progressMsgs, i)
      /\ progressMsgs[i] \in {"busy", "ready", "failed"} /\ waits \in Seq(Nat)
      /\ \A k \in DOMAIN waits : waits[k] \in Jobs \cup {0}
      /\ progress \in {"busy", "ready", "holding", "failed"} /\ showingLoading \in BOOLEAN
      /\ pending \in Callers \cup {NoCaller}
      /\ caller \in [Callers -> {"idle", "waiting", "ok", "failed", "conflict"}]
  BY JobTypes DEF HandleProgress, ControlInv, ControlTypes, DropAt, Dropped
<1>3. /\ progressMsgs' \in Seq({"busy", "ready", "failed"}) /\ Len(progressMsgs') = Len(progressMsgs) - 1
      /\ \A k \in DOMAIN progressMsgs' : \E n \in DOMAIN progressMsgs : n # i /\ progressMsgs'[k] = progressMsgs[n]
  BY <1>2, DropFacts
<1>4. ASSUME NEW k \in DOMAIN progressMsgs', NEW l \in DOMAIN progressMsgs', k # l
      PROVE  \E n, o \in DOMAIN progressMsgs : n # o /\ progressMsgs'[k] = progressMsgs[n]
                                               /\ progressMsgs'[l] = progressMsgs[o]
  BY <1>2, <1>4, DropApart
<1>5. /\ progress' = shows
      /\ \/ shows = "failed" /\ waits' = waits /\ Answer(IF progressMsgs[i] = "failed" THEN "failed" ELSE "ok")
         \/ shows # "failed" /\ waits' = Append(waits, 0) /\ UNCHANGED <<pending, caller>>
  <2>1. progress' = shows
    BY DEF HandleProgress
  <2>2. CASE shows = "failed"
    BY <2>1, <2>2 DEF HandleProgress
  <2>3. CASE shows # "failed"
    BY <2>1, <2>3 DEF HandleProgress, BagPut
  <2> QED BY <2>1, <2>2, <2>3
<1>6. shows \in {"busy", "ready", "holding", "failed"}
  BY <1>2
<1> HIDE DEF shows
<1>7. /\ waits' \in Seq(Nat) /\ Len(waits') <= Len(waits) + 1
      /\ \A k \in DOMAIN waits' : waits'[k] \in Jobs \cup {0}
  <2>1. CASE waits' = waits
    BY <1>2, <2>1, JobTypes
  <2>2. CASE waits' = Append(waits, 0)
    <3>1. /\ waits' \in Seq(Nat) /\ Len(waits') = Len(waits) + 1 /\ DOMAIN waits' = 1..(Len(waits) + 1)
          /\ waits'[Len(waits) + 1] = 0 /\ \A k \in 1..Len(waits) : waits'[k] = waits[k]
      BY <1>2, <2>2, AppendProperties, LenProperties
    <3>2. DOMAIN waits = 1..Len(waits) /\ Len(waits) \in Nat
      BY JobTypes
    <3>3. \A k \in DOMAIN waits' : k \in DOMAIN waits \/ k = Len(waits) + 1
      BY <3>1, <3>2
    <3> QED BY <1>2, <3>1, <3>2, <3>3
  <2> QED BY <1>5, <2>1, <2>2
<1>8. /\ pending' \in {pending, NoCaller}
      /\ caller' \in [Callers -> {"idle", "waiting", "ok", "failed", "conflict"}]
      /\ \A c \in Callers : \/ caller'[c] = caller[c]
                            \/ c = pending /\ pending' = NoCaller /\ caller'[c] \in {"ok", "failed"}
  <2>1. CASE UNCHANGED <<pending, caller>>
    BY <1>2, <2>1
  <2>2. ASSUME NEW a \in {"ok", "failed"}, Answer(a)
        PROVE  /\ pending' \in {pending, NoCaller}
               /\ caller' \in [Callers -> {"idle", "waiting", "ok", "failed", "conflict"}]
               /\ \A c \in Callers : \/ caller'[c] = caller[c]
                                     \/ c = pending /\ pending' = NoCaller /\ caller'[c] \in {"ok", "failed"}
    BY <1>2, <2>2 DEF Answer
  <2> QED BY <1>5, <2>1, <2>2
<1>9. ControlTypes'
  <2>1. Len(waits') + Len(progressMsgs') <= Len(job) /\ progressOf' = Len(job') /\ Len(waits') \in Nat
    BY <1>1, <1>3, <1>7, JobTypes, LenProperties DEF ControlInv, ControlTypes
  <2> QED BY <1>1, <1>2, <1>3, <1>5, <1>6, <1>7, <1>8, <2>1 DEF ControlInv, ControlTypes
<1>10. ListenersCounted' /\ StartupAlone' /\ AskersWait'
  <2>1. ListenersCounted'
    BY <1>1 DEF ControlInv, ListenersCounted
  <2>2. StartupAlone'
    BY <1>1, <1>2, <1>8, ControlAssumption DEF ControlInv, StartupAlone
  <2>3. AskersWait'
    <3>1. requests \subseteq Callers
      BY DEF ControlInv, ControlTypes
    <3> QED BY <1>1, <1>2, <1>8, <3>1, ControlAssumption DEF ControlInv, AskersWait
  <2> QED BY <2>1, <2>2, <2>3
<1>11. JobsTell' /\ EarlierDone'
  BY <1>1 DEF ControlInv, JobsTell, EarlierDone
<1>12. \A m : Tells(m) => (Tells(m))'
  BY <1>1 DEF Tells
<1>13. ScreenTells'
  <2> SUFFICES ASSUME ~crossed PROVE ScreenTells'
    BY <1>1 DEF ScreenTells
  <2>1. /\ Tells(progress) /\ (~showingLoading => progress = "holding")
        /\ \A n \in DOMAIN progressMsgs :
             /\ Tells(progressMsgs[n])
             /\ (progressMsgs[n] # "busy" =>
                  /\ progress = "busy"
                  /\ \A k \in DOMAIN progressMsgs : k # n => progressMsgs[k] = "busy")
    BY DEF ControlInv, ScreenTells
  <2>2. ASSUME NEW k \in DOMAIN progressMsgs' PROVE Tells(progressMsgs[k])'
    <3>1. PICK n \in DOMAIN progressMsgs : progressMsgs'[k] = progressMsgs[n]
      BY <1>3
    <3> QED BY <1>1, <2>1, <3>1 DEF Tells
  <2>3. CASE progressMsgs[i] = "busy"
    <3>1. shows = (IF progress \in {"failed", "holding"} THEN progress ELSE "busy")
      BY <2>3 DEF shows
    <3>2. Tells(progress)' /\ (~showingLoading' => progress' = "holding")
      BY <1>1, <1>5, <2>1, <3>1 DEF Tells
    <3>3. ASSUME NEW k \in DOMAIN progressMsgs', progressMsgs'[k] # "busy" PROVE progress' = "busy"
      <4>1. PICK n \in DOMAIN progressMsgs : progressMsgs'[k] = progressMsgs[n]
        BY <1>3
      <4> QED BY <1>5, <2>1, <3>1, <3>3, <4>1
    <3>4. ASSUME NEW k \in DOMAIN progressMsgs', progressMsgs'[k] # "busy", NEW l \in DOMAIN progressMsgs', l # k
          PROVE  progressMsgs'[l] = "busy"
      BY <1>4, <2>1, <3>4
    <3> QED BY <2>2, <3>2, <3>3, <3>4 DEF ScreenTells
  <2>4. CASE progressMsgs[i] # "busy"
    <3>1. /\ progress = "busy" /\ shows = progressMsgs[i]
          /\ \A n \in DOMAIN progressMsgs : n # i => progressMsgs[n] = "busy"
      BY <2>1, <2>4 DEF shows
    <3>2. Tells(progress)' /\ showingLoading' /\ progress' = shows
      BY <1>1, <1>2, <1>5, <2>1, <3>1 DEF Tells
    <3>3. \A k \in DOMAIN progressMsgs' : progressMsgs'[k] = "busy"
      BY <1>3, <3>1
    <3> QED BY <2>2, <3>2, <3>3 DEF ScreenTells
  <2> QED BY <2>3, <2>4
<1>14. CallersKnown'
  <2> SUFFICES ASSUME ~crossed PROVE CallersKnown'
    BY <1>1 DEF CallersKnown
  <2>1. /\ pending # NoCaller => showingLoading /\ progress # "failed" /\ pending = LastJob.by
        /\ \A c \in Callers : caller[c] = "waiting" => c \in requests \/ pending = c
        /\ \A c \in Callers : caller[c] = "ok" => \E j \in Jobs : job[j].by = c /\ ~Runs(j) /\ ~job[j].failed
    BY DEF ControlInv, CallersKnown
  <2>2. \A c \in Callers : caller'[c] # caller[c] => c = pending /\ pending' = NoCaller /\ caller'[c] = "failed"
    <3>1. progress = "failed" => pending = NoCaller
      BY <2>1
    <3>2. shows = "failed" /\ pending # NoCaller => progressMsgs[i] = "failed"
      BY <3>1 DEF shows
    <3> QED BY <1>2, <1>5, <3>2 DEF Answer
  <2>3. \A c \in Callers : caller'[c] = "ok" => \E j \in Jobs : job[j].by = c /\ ~Runs(j) /\ ~job[j].failed
    BY <2>1, <2>2
  <2>4. \A c \in Callers : caller'[c] = "waiting" => c \in requests \/ pending' = c
    BY <1>5, <1>8, <2>1, <2>2 DEF Answer
  <2>5. pending' # NoCaller => showingLoading /\ progress' # "failed" /\ pending' = LastJob.by
    BY <1>5, <2>1 DEF Answer
  <2> QED BY <1>1, <2>3, <2>4, <2>5 DEF CallersKnown
<1> QED BY <1>9, <1>10, <1>11, <1>13, <1>14 DEF ControlInv

(* The loading screen is done: the pending caller hears it.                  *)
LEMMA CompleteSteps ==
  ASSUME ControlInv, LoadingComplete
  PROVE  ControlInv'
<1>1. /\ mixed' = mixed /\ crossed' = crossed /\ Jobs' = Jobs /\ LastJob' = LastJob
      /\ (\A k : (Runs(k))' <=> Runs(k)) /\ \A m : Tells(m)' <=> Tells(m)
      /\ UNCHANGED <<job, mode, progress, progressOf, requests, confirm, waits, progressMsgs>>
      /\ ~quitting /\ showingLoading /\ progress = "holding"
  BY DEF LoadingComplete, history, Jobs, LastJob, Runs, callVars, Tells
<1>2. CASE mode = "shutdown"
  <2>1. quitting' = TRUE /\ UNCHANGED <<showingLoading, pending, listeners, caller, errListening>>
    BY <1>2 DEF LoadingComplete, callVars
  <2>2. ControlTypes' /\ ListenersCounted'
    BY <1>1, <2>1 DEF ControlInv, ControlTypes, ListenersCounted
  <2>3. StartupAlone' /\ AskersWait' /\ JobsTell' /\ EarlierDone'
    BY <1>1, <2>1 DEF ControlInv, StartupAlone, AskersWait, JobsTell, EarlierDone
  <2>4. ScreenTells' /\ CallersKnown'
    BY <1>1, <2>1 DEF ControlInv, ScreenTells, CallersKnown, Tells
  <2> QED BY <2>2, <2>3, <2>4 DEF ControlInv
<1>3. CASE mode # "shutdown"
  <2>1. /\ showingLoading' = FALSE /\ listeners' = listeners + 1 /\ errListening' = TRUE /\ quitting' = quitting
        /\ pending' = NoCaller
        /\ caller' = IF pending = NoCaller THEN caller ELSE [caller EXCEPT ![pending] = "ok"]
    BY <1>3 DEF LoadingComplete, Answer
  <2>2. /\ pending \in Callers \cup {NoCaller} /\ requests \subseteq Callers /\ listeners \in Nat
        /\ caller \in [Callers -> {"idle", "waiting", "ok", "failed", "conflict"}]
    BY DEF ControlInv, ControlTypes
  <2>3. /\ caller' \in [Callers -> {"idle", "waiting", "ok", "failed", "conflict"}]
        /\ \A c \in Callers : IF c = pending THEN caller'[c] = "ok" ELSE caller'[c] = caller[c]
    BY <2>1, <2>2, ControlAssumption
  <2>4. ControlTypes'
    <3>1. showingLoading' \in BOOLEAN /\ errListening' \in BOOLEAN /\ pending' \in Callers \cup {NoCaller}
          /\ listeners' \in Nat /\ quitting' \in BOOLEAN
      <4>1. quitting \in BOOLEAN
        BY DEF ControlInv, ControlTypes
      <4>2. listeners' \in Nat
        BY <2>1, <2>2
      <4>3. showingLoading' \in BOOLEAN /\ errListening' \in BOOLEAN
        BY <2>1
      <4> QED BY <2>1, <4>1, <4>2, <4>3
    <3> QED BY <1>1, <2>3, <3>1 DEF ControlInv, ControlTypes
  <2>5. ListenersCounted'
    BY <1>1, <2>1, <2>2, JobTypes DEF ControlInv, ListenersCounted, One
  <2>6. StartupAlone' /\ AskersWait'
    <3>1. \A c \in requests : caller'[c] = "waiting"
      BY <2>2, <2>3 DEF ControlInv, AskersWait
    <3>2. \A c \in requests : c # NoCaller
      BY <2>2, ControlAssumption
    <3>3. AskersWait'
      BY <1>1, <2>1, <3>1, <3>2 DEF AskersWait
    <3> QED BY <2>1, <3>3 DEF StartupAlone
  <2>7. JobsTell' /\ EarlierDone' /\ ScreenTells'
    BY <1>1, <2>1 DEF ControlInv, JobsTell, EarlierDone, ScreenTells, Tells
  <2>8. CallersKnown'
    <3> SUFFICES ASSUME ~crossed PROVE CallersKnown'
      BY <1>1 DEF CallersKnown
    <3>1. /\ (pending # NoCaller => pending = LastJob.by)
          /\ \A c \in Callers : caller[c] = "waiting" => c \in requests \/ pending = c
          /\ \A c \in Callers : caller[c] = "ok" => \E j \in Jobs : job[j].by = c /\ ~Runs(j) /\ ~job[j].failed
      BY DEF ControlInv, CallersKnown
    <3>2. ~Runs(Len(job)) /\ ~job[Len(job)].failed /\ Len(job) \in Jobs
      BY <1>1, JobTypes DEF ControlInv, ScreenTells, Tells, LastJob
    <3>3. \A c \in Callers : caller'[c] = "ok" => \E j \in Jobs : job[j].by = c /\ ~Runs(j) /\ ~job[j].failed
      BY <2>3, <3>1, <3>2, ControlAssumption DEF LastJob
    <3>4. \A c \in Callers : caller'[c] = "waiting" => c \in requests
      BY <2>3, <3>1
    <3> QED BY <1>1, <2>1, <3>3, <3>4 DEF CallersKnown
  <2> QED BY <2>4, <2>5, <2>6, <2>7, <2>8 DEF ControlInv
<1> QED BY <1>2, <1>3

(* A restart or shutdown begins, asked for by key or by a caller.            *)
LEMMA BeginSteps ==
  ASSUME ControlInv, NEW kind \in {"restart", "shutdown"}, NEW by \in Callers \cup {NoCaller},
         Begin(kind, by), confirm' \in {"none", "quit", "restart", "died"}, UNCHANGED <<listeners, caller>>,
         \/ /\ by \in requests /\ requests' = requests \ {by} /\ pending' = by
         \/ /\ ~showingLoading /\ UNCHANGED <<requests, pending>>
  PROVE  ControlInv'
<1>1. /\ job' = Append(job, NewJob(kind, by)) /\ crossed' = (crossed \/ showingLoading) /\ mixed' \in BOOLEAN
      /\ showingLoading' = TRUE /\ mode' = kind /\ progress' = "busy" /\ progressOf' = Len(job')
      /\ waits' = Append(waits, 0) /\ UNCHANGED <<progressMsgs, errListening, quitting>>
  BY DEF Begin, BagPut, ControlInv, ControlTypes
<1> DEFINE r == NewJob(kind, by)
<1>2. /\ r \in JobRec /\ r.by = by /\ r.at # "end" /\ r.out = << >> /\ r.failed = FALSE
      /\ Len(r.out) = 0 /\ DOMAIN r.out = {}
  BY EmptySeq DEF NewJob, JobRec
<1> HIDE DEF r
<1>3. /\ job' \in Seq(JobRec) /\ Len(job') = Len(job) + 1 /\ DOMAIN job' = 1..(Len(job) + 1)
      /\ job'[Len(job) + 1] = r /\ \A k \in 1..Len(job) : job'[k] = job[k]
  <2>1. job \in Seq(JobRec) /\ job' = Append(job, r)
    BY <1>1 DEF ControlInv, ControlTypes, r
  <2> QED BY <1>2, <2>1, AppendProperties, LenProperties
<1>4. /\ Jobs = 1..Len(job) /\ Len(job) \in Nat \ {0} /\ Jobs' = 1..(Len(job) + 1)
      /\ \A k \in Jobs' : IF k = Len(job) + 1 THEN job'[k] = r ELSE k \in Jobs /\ job'[k] = job[k]
  BY <1>3, JobTypes DEF Jobs
<1>5. /\ waits' \in Seq(Nat) /\ Len(waits') = Len(waits) + 1
      /\ \A k \in DOMAIN waits' : waits'[k] \in Jobs' \cup {0}
  <2>1. waits \in Seq(Nat) /\ \A k \in DOMAIN waits : waits[k] \in Jobs \cup {0}
    BY DEF ControlInv, ControlTypes
  <2>2. /\ waits' \in Seq(Nat) /\ Len(waits') = Len(waits) + 1 /\ DOMAIN waits' = 1..(Len(waits) + 1)
        /\ waits'[Len(waits) + 1] = 0 /\ (\A k \in 1..Len(waits) : waits'[k] = waits[k])
        /\ DOMAIN waits = 1..Len(waits) /\ Len(waits) \in Nat
    BY <1>1, <2>1, AppendProperties, LenProperties
  <2>3. \A k \in DOMAIN waits' : k \in DOMAIN waits \/ k = Len(waits) + 1
    BY <2>2
  <2>4. Jobs \subseteq Jobs'
    BY <1>4
  <2> QED BY <2>1, <2>2, <2>3, <2>4
<1>6. /\ requests' \subseteq requests /\ IsFiniteSet(requests') /\ Cardinality(requests') <= Cardinality(requests)
      /\ Cardinality(requests') \in Nat /\ requests \subseteq Callers /\ IsFiniteSet(requests)
      /\ pending' \in Callers \cup {NoCaller}
  <2>1. requests' \subseteq requests /\ requests \subseteq Callers /\ IsFiniteSet(requests)
    BY DEF ControlInv, ControlTypes
  <2> QED BY <2>1, FS_Subset, FS_CardinalityType DEF ControlInv, ControlTypes
<1>7. ControlTypes'
  <2>1. ASSUME NEW k \in Jobs' PROVE Len(job'[k].out) <= ProgressCap
    <3>1. CASE k = Len(job) + 1
      <4>1. job'[k].out = << >>
        BY <1>2, <1>4, <3>1
      <4> QED BY <4>1, EmptySeq, ControlAssumption
    <3>2. CASE k # Len(job) + 1
      <4>1. k \in Jobs /\ job'[k] = job[k]
        BY <1>4, <3>2
      <4> QED BY <4>1 DEF ControlInv, ControlTypes
    <3> QED BY <3>1, <3>2
  <2>2. Len(waits') + Len(progressMsgs') <= Len(job') /\ progressOf' = Len(job') /\ Len(job') >= 1
    BY <1>1, <1>3, <1>4, <1>5, JobTypes DEF ControlInv, ControlTypes
  <2>3. mixed' \in BOOLEAN /\ crossed' \in BOOLEAN /\ showingLoading' \in BOOLEAN /\ mode' \in {"startup", "restart", "shutdown"}
        /\ progress' \in {"busy", "ready", "holding", "failed"}
    BY <1>1
  <2>4. requests' \subseteq Callers
    BY <1>6
  <2> QED BY <1>1, <1>3, <1>5, <1>6, <2>1, <2>2, <2>3, <2>4 DEF ControlInv, ControlTypes
<1>8. ListenersCounted'
  BY <1>1, <1>3, <1>4, <1>6, JobTypes DEF ControlInv, ControlTypes, ListenersCounted, One
<1>9. StartupAlone'
  BY <1>1 DEF StartupAlone
<1>10. AskersWait'
  BY <1>6, ControlAssumption DEF ControlInv, AskersWait
<1>11. JobsTell'
  <2>1. ASSUME NEW k \in Jobs', k # Len(job) + 1
        PROVE  /\ job'[k].failed => (~Runs(k))'
               /\ \A n \in DOMAIN job'[k].out :
                   job'[k].out[n] # "busy" => /\ n = Len(job'[k].out) /\ (~Runs(k))'
                        /\ job'[k].out[n] = IF job'[k].failed THEN "failed" ELSE "ready"
    BY <1>4, <2>1 DEF ControlInv, JobsTell, Runs
  <2>2. ~job'[Len(job) + 1].failed /\ DOMAIN job'[Len(job) + 1].out = {}
    BY <1>2, <1>3
  <2> QED BY <1>4, <2>1, <2>2 DEF JobsTell
<1>12. ASSUME ~crossed'
       PROVE  /\ ~crossed /\ ~showingLoading /\ progress = "holding" /\ pending = NoCaller
              /\ \A k \in Jobs : ~Runs(k) /\ ~job[k].failed /\ job[k].out = << >>
              /\ \A k \in DOMAIN progressMsgs : progressMsgs[k] = "busy"
  <2>1. ~crossed /\ ~showingLoading
    BY <1>1, <1>12
  <2>2. progress = "holding" /\ pending = NoCaller /\ Tells("holding")
    BY <2>1 DEF ControlInv, ScreenTells, CallersKnown
  <2>3. \A k \in Jobs : ~Runs(k) /\ ~job[k].failed /\ job[k].out = << >>
    <3> SUFFICES ASSUME NEW k \in Jobs PROVE ~Runs(k) /\ ~job[k].failed /\ job[k].out = << >>
      OBVIOUS
    <3>1. CASE k = Len(job)
      BY <2>2, <3>1 DEF Tells, LastJob
    <3>2. CASE k < Len(job)
      BY <2>1, <3>2 DEF ControlInv, EarlierDone
    <3> QED BY <1>4, <3>1, <3>2
  <2>4. \A k \in DOMAIN progressMsgs : progressMsgs[k] = "busy"
    BY <2>1, <2>2 DEF ControlInv, ScreenTells
  <2> QED BY <2>1, <2>2, <2>3, <2>4
<1>13. EarlierDone'
  <2> SUFFICES ASSUME ~crossed', NEW k \in Jobs', k < Len(job')
               PROVE  (~Runs(k))' /\ ~job'[k].failed /\ job'[k].out = << >>
    BY DEF EarlierDone
  <2>1. k \in Jobs /\ job'[k] = job[k]
    BY <1>3, <1>4
  <2> QED BY <1>12, <2>1 DEF Runs
<1>14. ScreenTells'
  BY <1>1, <1>12 DEF ScreenTells, Tells
<1>15. CallersKnown'
  <2> SUFFICES ASSUME ~crossed' PROVE CallersKnown'
    BY DEF CallersKnown
  <2>1. LastJob' = r
    BY <1>3 DEF LastJob
  <2>2. pending' # NoCaller => pending' = by
    BY <1>12
  <2>3. ASSUME NEW c \in Callers, caller[c] = "waiting" PROVE c \in requests' \/ pending' = c
    <3>1. c \in requests
      BY <1>12, <2>3, ControlAssumption DEF ControlInv, CallersKnown
    <3> QED BY <3>1
  <2>4. ASSUME NEW c \in Callers, caller[c] = "ok"
        PROVE  \E j \in Jobs' : job'[j].by = c /\ (~Runs(j))' /\ ~job'[j].failed
    <3>1. PICK j \in Jobs : job[j].by = c /\ ~Runs(j) /\ ~job[j].failed
      BY <1>12, <2>4 DEF ControlInv, CallersKnown
    <3>2. j \in Jobs' /\ job'[j] = job[j]
      BY <1>3, <1>4
    <3> QED BY <3>1, <3>2 DEF Runs
  <2> QED BY <1>1, <1>2, <2>1, <2>2, <2>3, <2>4 DEF CallersKnown
<1> QED BY <1>7, <1>8, <1>9, <1>10, <1>11, <1>13, <1>14, <1>15 DEF ControlInv

(* POST /restart is accepted if somebody listens.                            *)
LEMMA CallSteps ==
  ASSUME ControlInv, NEW c \in Callers, CallRestart(c)
  PROVE  ControlInv'
<1>1. /\ mixed' = mixed /\ crossed' = crossed /\ Jobs' = Jobs /\ LastJob' = LastJob
      /\ (\A k : (Runs(k))' <=> Runs(k))
      /\ UNCHANGED <<job, showingLoading, mode, progress, progressOf, confirm, pending, waits, progressMsgs,
                     errListening, quitting>>
      /\ caller[c] = "idle"
  BY DEF CallRestart, history, screenVars, Jobs, LastJob, Runs
<1>2. /\ pending \in Callers \cup {NoCaller} /\ requests \subseteq Callers /\ listeners \in Nat
      /\ caller \in [Callers -> {"idle", "waiting", "ok", "failed", "conflict"}]
      /\ IsFiniteSet(requests) /\ c \notin requests /\ c # pending
  BY <1>1, ControlAssumption DEF ControlInv, ControlTypes, AskersWait
<1>3. /\ listeners' \in Nat /\ requests' \subseteq Callers /\ IsFiniteSet(requests')
      /\ listeners' + Cardinality(requests') = listeners + Cardinality(requests)
      /\ \/ requests' = requests \cup {c} /\ listeners > 0 /\ caller' = [caller EXCEPT ![c] = "waiting"]
         \/ requests' = requests /\ listeners' = listeners /\ caller' = [caller EXCEPT ![c] = "conflict"]
  <2>1. CASE listeners > 0
    <3>1. /\ listeners' = listeners - 1 /\ requests' = requests \cup {c} /\ caller' = [caller EXCEPT ![c] = "waiting"]
      BY <2>1 DEF CallRestart
    <3>2. IsFiniteSet(requests') /\ Cardinality(requests') = Cardinality(requests) + 1
      BY <1>2, <3>1, FS_AddElement
    <3> QED BY <1>2, <2>1, <3>1, <3>2, JobTypes
  <2>2. CASE ~(listeners > 0)
    BY <1>2, <2>2 DEF CallRestart
  <2> QED BY <2>1, <2>2
<1>4. /\ caller' \in [Callers -> {"idle", "waiting", "ok", "failed", "conflict"}]
      /\ \A e \in Callers : e # c => caller'[e] = caller[e]
      /\ \/ requests' = requests \cup {c} /\ listeners > 0 /\ caller'[c] = "waiting"
         \/ requests' = requests /\ listeners' = listeners /\ caller'[c] = "conflict"
  BY <1>2, <1>3
<1>5. ControlTypes'
  BY <1>1, <1>2, <1>3, <1>4 DEF ControlInv, ControlTypes
<1>6. ListenersCounted'
  BY <1>1, <1>3 DEF ControlInv, ListenersCounted
<1>7. StartupAlone'
  BY <1>1, <1>4 DEF ControlInv, StartupAlone
<1>8. AskersWait'
  BY <1>1, <1>2, <1>4 DEF ControlInv, AskersWait
<1>9. JobsTell' /\ EarlierDone' /\ ScreenTells'
  BY <1>1 DEF ControlInv, JobsTell, EarlierDone, ScreenTells, Tells
<1>10. CallersKnown'
  BY <1>1, <1>2, <1>4 DEF ControlInv, CallersKnown
<1> QED BY <1>5, <1>6, <1>7, <1>8, <1>9, <1>10 DEF ControlInv

LEMMA ControlStep == ControlInv /\ [PGControlNext]_pgControlVars => ControlInv'
<1> SUFFICES ASSUME ControlInv, [PGControlNext]_pgControlVars PROVE ControlInv'
  OBVIOUS
<1>1. CASE \E j \in Jobs : JobStep(j) \/ JobFails(j)
  BY <1>1, JobSteps
<1>2. CASE \E i \in DOMAIN waits : ReadChannel(i)
  BY <1>2, QuietSteps
<1>3. CASE \E i \in DOMAIN waits : ReceiveProgress(i)
  BY <1>3, ReceiveSteps
<1>4. CASE \E i \in DOMAIN progressMsgs : HandleProgress(i)
  BY <1>4, HandleSteps
<1>5. CASE \E c \in Callers : CallRestart(c)
  BY <1>5, CallSteps
<1>6. CASE \E c \in Callers : HandleRequest(c)
  <2>1. PICK c \in Callers : HandleRequest(c)
    BY <1>6
  <2>2. confirm' \in {"none", "quit", "restart", "died"}
    BY <2>1 DEF HandleRequest, ControlInv, ControlTypes
  <2> QED BY <2>1, <2>2, BeginSteps DEF HandleRequest
<1>7. CASE \/ \E d \in {"quit", "restart"} : OpenDialog(d)
           \/ Hold \/ ServerDies \/ HandleLockerErr \/ QuitLoading \/ DismissDialog
  BY <1>7, QuietSteps
<1>8. CASE LoadingComplete
  BY <1>8, CompleteSteps
<1>9. CASE ExecuteConfirmed
  <2>1. CASE confirm = "died"
    BY <1>9, <2>1, QuietSteps
  <2>2. CASE confirm # "died"
    <3>1. /\ ~showingLoading /\ confirm' = "none" /\ UNCHANGED <<pending, listeners, requests, caller>>
          /\ Begin("shutdown", NoCaller) \/ Begin("restart", NoCaller)
      BY <1>9, <2>2 DEF ExecuteConfirmed, callVars
    <3> QED BY <3>1, BeginSteps
  <2> QED BY <2>1, <2>2
<1>10. CASE UNCHANGED pgControlVars
  <2>1. /\ UNCHANGED <<job, crossed, mixed, showingLoading, mode, progress, progressOf, confirm, pending, listeners,
                       requests, caller, waits, progressMsgs, errListening, quitting>>
    BY <1>10 DEF pgControlVars, history, serverVars, screenVars, callVars
  <2>2. ControlTypes' /\ ListenersCounted' /\ StartupAlone' /\ AskersWait'
    BY <2>1 DEF ControlInv, ControlTypes, ListenersCounted, StartupAlone, AskersWait, Jobs
  <2>3. JobsTell' /\ EarlierDone' /\ ScreenTells' /\ CallersKnown'
    BY <2>1 DEF ControlInv, JobsTell, EarlierDone, ScreenTells, CallersKnown, Jobs, Runs, Tells, LastJob
  <2> QED BY <2>2, <2>3 DEF ControlInv
<1> QED BY <1>1, <1>2, <1>3, <1>4, <1>5, <1>6, <1>7, <1>8, <1>9, <1>10 DEF PGControlNext

LEMMA ControlInvHolds == PGControlSpec => []ControlInv
BY ControlBegins, ControlStep, PTL DEF PGControlSpec

-----------------------------------------------------------------------------
(***************************************************************************)
(* The main view.  PanelInv adds to PanelSound that an open dialog whose    *)
(* list has not changed asks about the selected database.                   *)
(***************************************************************************)
DbSeq == Seq(1..NDbs)
PanelTypes ==
  /\ held \in DbSeq /\ shown \in DbSeq /\ feed \in Seq(DbSeq)
  /\ snaps \in Seq(DbSeq) /\ updates \in Seq(DbSeq)
  /\ selected \in Nat /\ scroll \in Nat /\ panelRows \in Nat \ {0}
  /\ showAll \in BOOLEAN /\ unfit \in BOOLEAN /\ slip \in BOOLEAN
  /\ dialog \in [db : 0..NDbs, steady : BOOLEAN]
AskedAbout == dialog.db # NoRow /\ dialog.steady => SelectedDb = dialog.db

PanelInv == PanelTypes /\ AskedAbout /\ SelectionOnScreen /\ ScreenFilled /\ ForcedAsAsked

(* adjustScrollOffset: the selected row is on the screen, and the screen is  *)
(* filled.                                                                   *)
LEMMA AdjustedShows ==
  ASSUME NEW at \in Nat, NEW off \in Nat, NEW n \in Nat, NEW r \in Nat \ {0},
         at < n \/ at = 0
  PROVE  /\ Adjusted(at, off, n, r) \in Nat
         /\ n > 0 => at \in Adjusted(at, off, n, r) .. (Adjusted(at, off, n, r) + r - 1)
         /\ Adjusted(at, off, n, r) = 0 \/ Adjusted(at, off, n, r) + r <= n
<1> DEFINE a == Adjusted(at, off, n, r)
<1>1. CASE n <= r
  <2>1. a = 0
    BY <1>1 DEF Adjusted
  <2> QED BY <1>1, <2>1
<1>2. CASE ~(n <= r)
  <2> DEFINE v == IF at < off THEN at ELSE IF at >= off + r THEN at - r + 1 ELSE off
  <2>1. v \in Nat /\ v <= at /\ at <= v + r - 1
    OBVIOUS
  <2>2. a = Greater(0, Lesser(v, n - r))
    BY <1>2 DEF Adjusted
  <2> HIDE DEF v, a
  <2>3. (a = v /\ v <= n - r) \/ (a = n - r /\ n - r <= v)
    BY <1>2, <2>1, <2>2 DEF Greater, Lesser
  <2> QED BY <1>2, <2>1, <2>3 DEF a
<1> QED BY <1>1, <1>2

LEMMA ShownType ==
  PanelTypes => /\ Shown \in DbSeq /\ Len(Shown) \in Nat /\ Len(All) = NDbs /\ Len(shown) \in Nat
<1>1. NDbs \in Nat /\ All \in [1..NDbs -> 1..NDbs]
  BY PanelAssumption DEF All
<1>2. All \in DbSeq /\ Len(All) = NDbs
  BY <1>1, FunctionIsSeq DEF DbSeq
<1> QED BY <1>1, <1>2, LenProperties DEF Shown, PanelTypes, DbSeq

LEMMA DropNthType ==
  ASSUME NEW S, NEW s \in Seq(S), NEW i \in DOMAIN s
  PROVE  DropNth(s, i) \in Seq(S)
<1>1. DropNth(s, i) = Dropped(s, i)
  BY DEF DropNth, Dropped
<1> QED BY <1>1, DropFacts

LEMMA PanelInitInv == PanelInit => PanelInv
<1> SUFFICES ASSUME PanelInit PROVE PanelInv
  OBVIOUS
<1>1. panelRows \in Nat \ {0} /\ 0 \in 0..NDbs
  BY PanelAssumption DEF PanelInit
<1>2. PanelTypes
  <2>1. \A S : << >> \in Seq(S)
    BY EmptySeq
  <2>2. dialog \in [db : 0..NDbs, steady : BOOLEAN]
    BY <1>1 DEF PanelInit, NoDialog, NoRow
  <2> QED BY <1>1, <2>1, <2>2 DEF PanelInit, PanelTypes, DbSeq
<1>3. AskedAbout /\ ForcedAsAsked
  BY DEF PanelInit, AskedAbout, ForcedAsAsked, NoDialog, NoRow
<1>4. SelectionOnScreen /\ ScreenFilled
  <2>1. Len(Shown) = 0 /\ selected = 0 /\ scroll = 0
    BY EmptySeq DEF PanelInit, Shown
  <2> QED BY <1>1, <2>1 DEF SelectionOnScreen, ScreenFilled, Greater
<1> QED BY <1>2, <1>3, <1>4 DEF PanelInv

(* Steps of the handlers and of the channel leave the view alone.            *)
LEMMA BehindView ==
  ASSUME PanelInv, PanelTypes', UNCHANGED <<shown, showAll, selected, scroll, panelRows, unfit>>,
         dialog' = dialog \/ dialog' = NoDialog, slip' = slip
  PROVE  PanelInv'
<1>1. Shown' = Shown /\ SelectedDb' = SelectedDb
  BY DEF Shown, SelectedDb
<1>2. AskedAbout'
  BY <1>1 DEF PanelInv, AskedAbout, NoDialog, NoRow
<1>3. SelectionOnScreen' /\ ScreenFilled' /\ ForcedAsAsked'
  BY <1>1 DEF PanelInv, SelectionOnScreen, ScreenFilled, ForcedAsAsked
<1> QED BY <1>2, <1>3 DEF PanelInv

LEMMA WithoutType ==
  ASSUME NEW s \in DbSeq, NEW d \in Listed(s)
  PROVE  Without(s, d) \in DbSeq
<1> DEFINE i == CHOOSE k \in DOMAIN s : s[k] = d
<1>1. i \in DOMAIN s
  BY DEF Listed
<1> QED BY <1>1, DropNthType DEF Without, DbSeq

LEMMA FeedSteps ==
  ASSUME PanelInv,
         \/ \E d \in 1..NDbs : LockDb(d) \/ UnlockDb(d)
         \/ GetState \/ WaitForStateUpdate
         \/ \E i \in DOMAIN snaps : SendStateUpdate(i)
  PROVE  PanelInv'
<1>1. PanelTypes
  BY DEF PanelInv
<1>2. CASE \E d \in 1..NDbs : LockDb(d)
  <2>1. PICK d \in 1..NDbs : LockDb(d)
    BY <1>2
  <2>2. Append(held, d) \in DbSeq
    BY <1>1, AppendProperties DEF PanelTypes, DbSeq
  <2>3. PanelTypes'
    BY <1>1, <2>1, <2>2 DEF PanelTypes, LockDb, Change, channelSide, viewSide
  <2> QED BY <2>1, <2>3, BehindView DEF LockDb, viewSide
<1>3. CASE \E d \in 1..NDbs : UnlockDb(d)
  <2>1. PICK d \in 1..NDbs : UnlockDb(d)
    BY <1>3
  <2>2. Without(held, d) \in DbSeq
    BY <1>1, <2>1, WithoutType DEF PanelTypes, UnlockDb
  <2>3. PanelTypes'
    BY <1>1, <2>1, <2>2 DEF PanelTypes, UnlockDb, Change, channelSide, viewSide
  <2> QED BY <2>1, <2>3, BehindView DEF UnlockDb, viewSide
<1>4. CASE GetState
  <2>1. Append(snaps, held) \in Seq(DbSeq)
    BY <1>1, AppendProperties DEF PanelTypes
  <2>2. PanelTypes'
    BY <1>1, <1>4, <2>1 DEF PanelTypes, GetState, channelSide, viewSide
  <2> QED BY <1>4, <2>2, BehindView DEF GetState, viewSide
<1>5. CASE WaitForStateUpdate
  <2>1. Tail(feed) \in Seq(DbSeq) /\ Append(updates, Head(feed)) \in Seq(DbSeq)
    BY <1>1, <1>5, HeadTailProperties, AppendProperties DEF PanelTypes, WaitForStateUpdate
  <2>2. PanelTypes'
    BY <1>1, <1>5, <2>1 DEF PanelTypes, WaitForStateUpdate, serverSide, viewSide
  <2> QED BY <1>5, <2>2, BehindView DEF WaitForStateUpdate, viewSide
<1>6. CASE \E i \in DOMAIN snaps : SendStateUpdate(i)
  <2>1. PICK i \in DOMAIN snaps : SendStateUpdate(i)
    BY <1>6
  <2>2. DropNth(snaps, i) \in Seq(DbSeq)
    BY <1>1, DropNthType DEF PanelTypes
  <2>3. snaps[i] \in DbSeq
    BY <1>1, ElementOfSeq, LenProperties DEF PanelTypes
  <2>4. Append(feed, snaps[i]) \in Seq(DbSeq)
    BY <1>1, <2>3, AppendProperties DEF PanelTypes
  <2>5. PanelTypes'
    BY <1>1, <2>1, <2>2, <2>4 DEF PanelTypes, SendStateUpdate, viewSide
  <2> QED BY <2>1, <2>5, BehindView DEF SendStateUpdate, viewSide
<1> QED BY <1>2, <1>3, <1>4, <1>5, <1>6

(* A new list: the dialog over the old one notices, and the selection is     *)
(* fitted.                                                                   *)
LEMMA ShowSteps ==
  ASSUME PanelInv, NEW s \in DbSeq, Show(s), UNCHANGED <<held, snaps, feed, showAll, panelRows, slip>>,
         updates' \in Seq(DbSeq)
  PROVE  PanelInv'
<1>1. PanelTypes /\ SelectionOnScreen /\ ScreenFilled /\ ForcedAsAsked /\ AskedAbout
  BY DEF PanelInv
<1>2. /\ shown' = s /\ dialog.db \in 0..NDbs /\ dialog.steady \in BOOLEAN
      /\ dialog' \in [db : 0..NDbs, steady : BOOLEAN] /\ dialog'.db = dialog.db
      /\ dialog'.steady => dialog.steady
      /\ dialog.db # NoRow /\ dialog'.steady => showAll \/ s = shown
  <2>1. dialog \in [db : 0..NDbs, steady : BOOLEAN]
    BY <1>1 DEF PanelTypes
  <2> QED BY <2>1 DEF Show, Replace
<1>3. CASE showAll
  <2>1. UNCHANGED <<selected, scroll, unfit>>
    BY <1>3 DEF Show
  <2>2. Shown' = Shown /\ SelectedDb' = SelectedDb
    BY <1>3, <2>1 DEF Shown, SelectedDb
  <2>3. PanelTypes'
    BY <1>1, <1>2, <2>1 DEF PanelTypes
  <2>4. AskedAbout'
    BY <1>1, <1>2, <2>2 DEF AskedAbout
  <2>5. SelectionOnScreen' /\ ScreenFilled' /\ ForcedAsAsked'
    BY <1>1, <2>1, <2>2 DEF SelectionOnScreen, ScreenFilled, ForcedAsAsked
  <2> QED BY <2>3, <2>4, <2>5 DEF PanelInv
<1>4. CASE ~showAll
  <2>1. Len(s) \in Nat /\ selected \in Nat /\ scroll \in Nat /\ panelRows \in Nat \ {0}
    BY <1>1, LenProperties DEF PanelTypes, DbSeq
  <2>2. /\ selected' = Lesser(selected, Greater(Len(s) - 1, 0))
        /\ scroll' = Adjusted(selected', scroll, Len(s), panelRows)
        /\ unfit' = FALSE
    BY <1>4 DEF Show
  <2>3. /\ selected' \in Nat /\ (selected' < Len(s) \/ selected' = 0)
        /\ selected < Len(s) => selected' = selected
        /\ selected' < Greater(Len(s), 1)
    BY <2>1, <2>2 DEF Lesser, Greater
  <2>4. /\ scroll' \in Nat
        /\ Len(s) > 0 => selected' \in scroll'..(scroll' + panelRows - 1)
        /\ scroll' = 0 \/ scroll' + panelRows <= Len(s)
    BY <2>1, <2>2, <2>3, AdjustedShows
  <2>5. Shown' = s
    BY <1>2, <1>4 DEF Shown
  <2>6. PanelTypes'
    BY <1>1, <1>2, <2>2, <2>3, <2>4 DEF PanelTypes
  <2>7. AskedAbout'
    <3> SUFFICES ASSUME dialog.db # NoRow, dialog'.steady PROVE SelectedDb' = dialog.db
      BY <1>2 DEF AskedAbout
    <3>1. SelectedDb = dialog.db /\ Shown = s
      BY <1>1, <1>2, <1>4 DEF AskedAbout, Shown
    <3>2. selected < Len(s)
      BY <3>1 DEF SelectedDb
    <3> QED BY <2>3, <2>5, <3>1, <3>2 DEF SelectedDb
  <2>8. SelectionOnScreen' /\ ScreenFilled' /\ ForcedAsAsked'
    BY <1>1, <2>3, <2>4, <2>5 DEF SelectionOnScreen, ScreenFilled, ForcedAsAsked
  <2> QED BY <2>6, <2>7, <2>8 DEF PanelInv
<1> QED BY <1>3, <1>4

LEMMA ViewSteps ==
  ASSUME PanelInv, Tick \/ RestartComplete \/ \E i \in DOMAIN updates : HandleStateUpdate(i)
  PROVE  PanelInv'
<1>1. PanelTypes
  BY DEF PanelInv
<1>2. CASE Tick
  BY <1>1, <1>2, ShowSteps DEF PanelTypes, Tick, serverSide, channelSide
<1>3. CASE \E i \in DOMAIN updates : HandleStateUpdate(i)
  <2>1. PICK i \in DOMAIN updates : HandleStateUpdate(i)
    BY <1>3
  <2>2. updates[i] \in DbSeq /\ DropNth(updates, i) \in Seq(DbSeq)
    BY <1>1, ElementOfSeq, LenProperties, DropNthType DEF PanelTypes
  <2> QED BY <2>1, <2>2, ShowSteps DEF HandleStateUpdate, serverSide
<1>4. CASE RestartComplete
  <2>1. /\ shown' = held /\ unfit' = TRUE
        /\ UNCHANGED <<held, snaps, feed, updates, showAll, selected, scroll, panelRows, slip>>
    BY <1>4 DEF RestartComplete, Replace, serverSide
  <2>2. /\ dialog' \in [db : 0..NDbs, steady : BOOLEAN] /\ dialog'.db = dialog.db
        /\ dialog'.steady => dialog.steady
        /\ dialog.db # NoRow /\ dialog'.steady => showAll \/ held = shown
    <3>1. dialog \in [db : 0..NDbs, steady : BOOLEAN]
      BY <1>1 DEF PanelTypes
    <3> QED BY <1>4, <3>1 DEF RestartComplete, Replace
  <2>3. PanelTypes'
    BY <1>1, <2>1, <2>2 DEF PanelTypes
  <2>4. AskedAbout'
    BY <2>1, <2>2 DEF PanelInv, AskedAbout, SelectedDb, Shown
  <2>5. SelectionOnScreen' /\ ScreenFilled' /\ ForcedAsAsked'
    BY <2>1 DEF PanelInv, SelectionOnScreen, ScreenFilled, ForcedAsAsked
  <2> QED BY <2>3, <2>4, <2>5 DEF PanelInv
<1> QED BY <1>2, <1>3, <1>4

LEMMA KeySteps ==
  ASSUME PanelInv,
         SelectUp \/ SelectDown \/ ToggleView \/ AskUnlock \/ Dismiss \/ Confirm
           \/ \E r \in PanelRows : WindowResized(r)
  PROVE  PanelInv'
<1>1. /\ PanelTypes /\ SelectionOnScreen /\ ScreenFilled /\ ForcedAsAsked /\ AskedAbout
      /\ Shown \in DbSeq /\ Len(Shown) \in Nat
      /\ selected \in Nat /\ scroll \in Nat /\ panelRows \in Nat \ {0}
      /\ dialog \in [db : 0..NDbs, steady : BOOLEAN]
  BY ShownType DEF PanelInv, PanelTypes
<1>2. ASSUME NEW i \in Nat, MoveTo(i), ~unfit => i < Len(Shown)
      PROVE  PanelInv'
  <2>1. /\ dialog.db = NoRow /\ selected' = i
        /\ scroll' = Adjusted(i, scroll, Len(Shown), panelRows)
        /\ UNCHANGED <<held, snaps, feed, updates, shown, showAll, panelRows, dialog, slip, unfit>>
    BY <1>2 DEF MoveTo, serverSide, channelSide
  <2>2. scroll' \in Nat
    <3>1. CASE Len(Shown) <= panelRows
      BY <2>1, <3>1 DEF Adjusted
    <3>2. CASE ~(Len(Shown) <= panelRows)
      BY <1>1, <2>1, <3>2 DEF Adjusted, Greater, Lesser
    <3> QED BY <3>1, <3>2
  <2>3. Shown' = Shown
    BY <2>1 DEF Shown
  <2>4. PanelTypes' /\ AskedAbout' /\ ForcedAsAsked'
    BY <1>1, <2>1, <2>2 DEF PanelTypes, AskedAbout, ForcedAsAsked
  <2>5. SelectionOnScreen' /\ ScreenFilled'
    <3> SUFFICES ASSUME ~unfit PROVE SelectionOnScreen' /\ ScreenFilled'
      BY <2>1 DEF SelectionOnScreen, ScreenFilled
    <3>1. i < Len(Shown) /\ i < Greater(Len(Shown), 1)
      BY <1>1, <1>2 DEF Greater
    <3>2. /\ i \in scroll'..(scroll' + panelRows - 1)
          /\ scroll' = 0 \/ scroll' + panelRows <= Len(Shown)
      BY <1>1, <2>1, <3>1, AdjustedShows
    <3>3. SelectionOnScreen'
      BY <2>1, <2>3, <3>1, <3>2 DEF SelectionOnScreen
    <3>4. ScreenFilled'
      BY <2>1, <2>3, <3>2 DEF ScreenFilled
    <3> QED BY <3>3, <3>4
  <2> QED BY <2>4, <2>5 DEF PanelInv
<1>3. CASE SelectUp
  <2>1. selected - 1 \in Nat /\ (~unfit => selected - 1 < Len(Shown))
    BY <1>1, <1>3 DEF SelectUp, SelectionOnScreen, Greater
  <2> QED BY <1>2, <1>3, <2>1 DEF SelectUp
<1>4. CASE SelectDown
  <2>1. selected + 1 \in Nat /\ selected + 1 < Len(Shown)
    BY <1>1, <1>4 DEF SelectDown
  <2> QED BY <1>2, <1>4, <2>1 DEF SelectDown
<1>5. CASE ToggleView
  <2>1. /\ dialog.db = NoRow /\ selected' = 0 /\ scroll' = 0 /\ showAll' = ~showAll
        /\ UNCHANGED <<held, snaps, feed, updates, shown, panelRows, dialog, slip>>
        /\ unfit' = FALSE
    BY <1>5 DEF ToggleView, serverSide, channelSide
  <2>2. PanelTypes'
    BY <1>1, <2>1 DEF PanelTypes
  <2>3. AskedAbout' /\ ForcedAsAsked'
    BY <1>1, <2>1 DEF AskedAbout, ForcedAsAsked
  <2>4. Len(Shown)' \in Nat
    BY <1>1, <2>1, LenProperties, ShownType DEF Shown, PanelTypes
  <2>5. SelectionOnScreen' /\ ScreenFilled'
    BY <1>1, <2>1, <2>4 DEF SelectionOnScreen, ScreenFilled, Greater
  <2> QED BY <2>2, <2>3, <2>5 DEF PanelInv
<1>6. CASE AskUnlock
  <2>1. /\ dialog' = [db |-> SelectedDb, steady |-> TRUE] /\ SelectedDb \in Listed(shown)
        /\ UNCHANGED <<held, snaps, feed, updates, shown, showAll, selected, scroll, panelRows,
                       slip, unfit>>
    BY <1>6 DEF AskUnlock, serverSide, channelSide
  <2>2. SelectedDb \in 0..NDbs
    <3>1. PICK i \in DOMAIN shown : SelectedDb = shown[i]
      BY <2>1 DEF Listed
    <3>2. shown \in Seq(1..NDbs) /\ DOMAIN shown = 1..Len(shown)
      BY <1>1, LenProperties DEF PanelTypes, DbSeq
    <3>3. shown[i] \in 1..NDbs
      BY <3>1, <3>2, ElementOfSeq
    <3> QED BY <3>1, <3>3, PanelAssumption
  <2>3. Shown' = Shown /\ SelectedDb' = SelectedDb
    BY <2>1 DEF Shown, SelectedDb
  <2>4. dialog' \in [db : 0..NDbs, steady : BOOLEAN] /\ dialog'.db = SelectedDb
    BY <2>1, <2>2
  <2>5. PanelTypes'
    BY <1>1, <2>1, <2>4 DEF PanelTypes
  <2>6. AskedAbout' /\ ForcedAsAsked' /\ SelectionOnScreen' /\ ScreenFilled'
    BY <1>1, <2>1, <2>3, <2>4 DEF AskedAbout, ForcedAsAsked, SelectionOnScreen, ScreenFilled
  <2> QED BY <2>5, <2>6 DEF PanelInv
<1>7. CASE Dismiss
  <2>1. PanelTypes'
    <3>1. dialog' \in [db : 0..NDbs, steady : BOOLEAN]
      BY <1>7, PanelAssumption DEF Dismiss, NoDialog, NoRow
    <3> QED BY <1>1, <1>7, <3>1 DEF Dismiss, PanelTypes, serverSide, channelSide
  <2> QED BY <1>7, <2>1, BehindView DEF Dismiss
<1>8. CASE Confirm
  <2>1. /\ dialog.db # NoRow /\ dialog' = NoDialog
        /\ UNCHANGED <<snaps, feed, updates, shown, showAll, selected, scroll, panelRows, unfit>>
    BY <1>8 DEF Confirm, channelSide
  <2>2. held' \in DbSeq /\ slip' = slip
    <3>1. CASE SelectedDb \in Listed(shown) /\ SelectedDb \in Listed(held)
      <4>1. held' = Without(held, SelectedDb)
            /\ slip' = (slip \/ (dialog.steady /\ SelectedDb # dialog.db))
        BY <1>8, <3>1 DEF Confirm, Change
      <4> QED BY <1>1, <2>1, <3>1, <4>1, WithoutType DEF PanelTypes, AskedAbout
    <3>2. CASE ~(SelectedDb \in Listed(shown) /\ SelectedDb \in Listed(held))
      BY <1>1, <1>8, <3>2 DEF Confirm, PanelTypes
    <3> QED BY <3>1, <3>2
  <2>3. PanelTypes'
    <3>1. dialog' \in [db : 0..NDbs, steady : BOOLEAN]
      BY <2>1, PanelAssumption DEF NoDialog, NoRow
    <3> QED BY <1>1, <2>1, <2>2, <3>1 DEF PanelTypes
  <2> QED BY <2>1, <2>2, <2>3, BehindView
<1>9. CASE \E r \in PanelRows : WindowResized(r)
  <2>1. PICK r \in PanelRows : WindowResized(r)
    BY <1>9
  <2>2. /\ panelRows' = r /\ r \in Nat \ {0}
        /\ scroll' = Adjusted(selected, scroll, Len(Shown), r)
        /\ UNCHANGED <<held, snaps, feed, updates, shown, showAll, selected, dialog, slip, unfit>>
    BY <2>1, PanelAssumption DEF WindowResized, serverSide, channelSide
  <2>3. scroll' \in Nat
    <3>1. CASE Len(Shown) <= r
      BY <2>2, <3>1 DEF Adjusted
    <3>2. CASE ~(Len(Shown) <= r)
      BY <1>1, <2>2, <3>2 DEF Adjusted, Greater, Lesser
    <3> QED BY <3>1, <3>2
  <2>4. Shown' = Shown /\ SelectedDb' = SelectedDb
    BY <2>2 DEF Shown, SelectedDb
  <2>5. PanelTypes' /\ AskedAbout' /\ ForcedAsAsked'
    BY <1>1, <2>2, <2>3, <2>4 DEF PanelTypes, AskedAbout, ForcedAsAsked
  <2>6. SelectionOnScreen' /\ ScreenFilled'
    <3> SUFFICES ASSUME ~unfit PROVE SelectionOnScreen' /\ ScreenFilled'
      BY <2>2 DEF SelectionOnScreen, ScreenFilled
    <3>1. selected < Len(Shown) \/ selected = 0
      BY <1>1 DEF SelectionOnScreen, Greater
    <3> QED BY <1>1, <2>2, <2>4, <3>1, AdjustedShows DEF SelectionOnScreen, ScreenFilled, Greater
  <2> QED BY <2>5, <2>6 DEF PanelInv
<1> QED BY <1>3, <1>4, <1>5, <1>6, <1>7, <1>8, <1>9

LEMMA PanelInvHolds == PanelSpec => []PanelInv
<1>1. PanelInv /\ [PanelNext]_panelVars => PanelInv'
  <2> SUFFICES ASSUME PanelInv, [PanelNext]_panelVars PROVE PanelInv'
    OBVIOUS
  <2>1. CASE UNCHANGED panelVars
    <3>1. PanelTypes'
      BY <2>1 DEF PanelInv, PanelTypes, panelVars
    <3> QED BY <2>1, <3>1, BehindView DEF panelVars
  <2> QED BY <2>1, FeedSteps, ViewSteps, KeySteps DEF PanelNext, FeedStep
<1> QED BY <1>1, PanelInitInv, PTL DEF PanelSpec

(* Whatever is pressed, requested and failing, a restart is offered in the   *)
(* main view and never before the start-up is over, a caller whose restart   *)
(* is the only one is told the end of it, and the main view keeps the        *)
(* selected database on the screen and unlocks none but the one asked about. *)
THEOREM PanelIsSound == PGControlSpec /\ PanelSpec => []PanelSound
<1>1. ControlInv => PGControlTypeOK /\ RestartAvailable /\ NotBeforeReady /\ CallersKept
  <2> SUFFICES ASSUME ControlInv PROVE PGControlTypeOK /\ RestartAvailable /\ NotBeforeReady /\ CallersKept
    OBVIOUS
  <2>1. PGControlTypeOK
    <3>1. \A j \in Jobs : job[j].kind \in {"startup", "restart", "shutdown"}
      BY JobTypes DEF JobRec
    <3>2. listeners \in 0..Len(job)
      BY JobTypes DEF ControlInv, ControlTypes, ListenersCounted, One
    <3>3. progressOf \in Jobs
      BY JobTypes DEF ControlInv, ControlTypes
    <3> QED BY <3>1, <3>2, <3>3 DEF PGControlTypeOK, ControlInv, ControlTypes
  <2>2. RestartAvailable /\ NotBeforeReady
    BY DEF ControlInv, ListenersCounted, StartupAlone, RestartAvailable, NotBeforeReady
  <2>3. CallersKept
    BY DEF ControlInv, CallersKnown, CallersKept
  <2> QED BY <2>1, <2>2, <2>3
<1>2. PanelInv => SelectionOnScreen /\ ScreenFilled /\ ForcedAsAsked
  BY DEF PanelInv
<1>3. ControlInv /\ PanelInv => PanelSound
  BY <1>1, <1>2 DEF PanelSound
<1> QED BY <1>3, ControlInvHolds, PanelInvHolds, PTL

-----------------------------------------------------------------------------
(* A step of pgflock around its locker is one of a part, and the others      *)
(* stutter.                                                                  *)
LEMMA PgflockParts ==
  PartsSpec => PGControlSpec /\ ClientSpec /\ ResetSpec /\ DockerSpec /\ PanelSpec
<1>1. PartsInit => PGControlInit /\ ClientInit /\ ResetInit /\ DockerInit /\ PanelInit
  BY DEF PartsInit
<1>2. ASSUME [PartsNext]_allVars
      PROVE  /\ [PGControlNext]_pgControlVars /\ [ClientNext]_libVars /\ [ResetNext]_resetVars
             /\ [DockerNext]_dockerVars /\ [PanelNext]_panelVars
  <2>1. CASE UNCHANGED allVars
    BY <2>1 DEF allVars, aroundVars
  <2>2. CASE PartsNext
    BY <2>2 DEF PartsNext, OfPool, OfControl, OfReset, OfDocker, OfPanel, Around, Only, aroundVars
  <2> QED BY <1>2, <2>1, <2>2
<1> QED BY <1>1, <1>2, PTL DEF PartsSpec, PGControlSpec, ClientSpec, ResetSpec, DockerSpec, PanelSpec

(* What the run of pgflock checks of the states of its parts around the      *)
(* locker, for every size of them.                                           *)
THEOREM PgflockIsSound == PartsSpec => [](ClientSound /\ DatabasesSound /\ PanelSound)
BY PgflockParts, ClientIsSound, DatabasesAreSound, PanelIsSound, PTL
=============================================================================
