--------------------------- MODULE ServicesProofs ---------------------------
(***************************************************************************)
(* Theorems about the services behind the control panel of cooper for      *)
(* every number of events, requests, servers, ports, calls, processes and  *)
(* places in the channels: the execution bridge, the host relay, the alert *)
(* sound, the runtime with its lock, the clipboard, the X11 bridge, the    *)
(* broker and the log files.                                               *)
(***************************************************************************)
EXTENDS MCCooperServices, SeqFacts, FiniteSetTheorems, SequenceTheorems, TLAPS

(***************************************************************************)
(* The execution bridge.  BridgeSound is not inductive.  GracefulEnd speaks *)
(* of the end alone; what leads to it is Swept: while the five seconds      *)
(* last, no handler runs on a server whose Shutdown has returned, and none  *)
(* was cut off.  QueueDrained needs that the forwarder ends after the close.*)
(***************************************************************************)
Swept ==
  ~timedOut => \A r \in Requests : /\ pc[r] # "aborted"
                                   /\ server[r] \in 1..(draining - 1) => ~Active(r)
ForwardsToTheEnd == ~forwarding => Closed

BridgeInv == BridgeSound /\ Swept /\ ForwardsToTheEnd

(* Where the report of a run is, counted. *)
LEMMA PlacesSum ==
  ASSUME BridgeTypeOK, NEW r \in Requests
  PROVE  /\ Cardinality(At(logCh, r)) \in Nat /\ Cardinality(At(bridgeFwd, r)) \in Nat
         /\ Places(r) = Cardinality(At(logCh, r)) + Cardinality(At(bridgeFwd, r)) + One(r \in seen)
<1>1. logCh \in Seq(Requests) /\ bridgeFwd \in Seq(Requests)
  BY DEF BridgeTypeOK
<1>2. Cardinality(At(logCh, r)) \in Nat /\ Cardinality(At(bridgeFwd, r)) \in Nat
  BY <1>1, CopiesNat
<1> QED BY <1>2 DEF Places, Count, At, One

LEMMA BridgeBegins == BridgeInit => BridgeInv
<1> SUFFICES ASSUME BridgeInit PROVE BridgeInv
  OBVIOUS
<1>1. BridgeTypeOK
  <2>1. << >> \in Seq(Requests) /\ Len(<< >>) = 0
    BY EmptySeq
  <2>2. LogCap \in Nat /\ FwdCap \in Nat /\ NumServers \in Nat
    BY BridgeAssumption
  <2>3. pc \in [Requests -> Phases] /\ server \in [Requests -> 0..NumServers]
    BY <2>2 DEF BridgeInit, Phases
  <2>4. /\ Len(logCh) <= LogCap /\ Len(bridgeFwd) <= FwdCap + 1
        /\ logCh \in Seq(Requests) /\ bridgeFwd \in Seq(Requests)
    BY <2>1, <2>2 DEF BridgeInit
  <2>5. \A r \in Requests : server[r] = 0 <=> pc[r] = "off"
    BY DEF BridgeInit
  <2>6. draining \in 0..(NumServers + 1)
    BY <2>2 DEF BridgeInit
  <2> QED BY <2>3, <2>4, <2>5, <2>6 DEF BridgeInit, BridgeTypeOK
<1>2. ReportedOnce
  BY <1>1, PlacesSum, CopiesEmpty DEF BridgeInit, ReportedOnce, One
<1>3. GracefulEnd /\ QueueDrained /\ ForwardsToTheEnd
  BY DEF BridgeInit, GracefulEnd, QueueDrained, ForwardsToTheEnd
<1>4. Swept
  BY DEF BridgeInit, Swept, Active
<1> QED BY <1>1, <1>2, <1>3, <1>4 DEF BridgeInv, BridgeSound

(* A handler that moves on without a report: it is not reported before and  *)
(* not after, and it was active, so its server is not swept.                *)
LEMMA QuietHandlersKeep ==
  ASSUME BridgeInv, NEW r \in Requests,
         \/ \E i \in Servers : Accept(r, i)
         \/ Lookup(r) \/ ListRoutes(r) \/ ScriptEnds(r) \/ Reply(r)
  PROVE  BridgeInv'
<1> USE DEF BridgeInv, BridgeSound
<1>0. UNCHANGED <<draining, timedOut, logCh, bridgeFwd, seen, forwarding, quitting>>
  BY DEF Accept, Lookup, ListRoutes, ScriptEnds, Reply, pipeline
<1>a. /\ pc \in [Requests -> Phases] /\ server \in [Requests -> 0..NumServers]
      /\ draining \in 0..(NumServers + 1) /\ NumServers \in Nat \ {0}
      /\ server[r] = 0 <=> pc[r] = "off"
  BY BridgeAssumption DEF BridgeTypeOK
<1>1. PICK next \in Phases \ {"off", "aborted"} :
        /\ pc' = [pc EXCEPT ![r] = next]
        /\ next \in {"logged", "ran"} <=> pc[r] \in {"logged", "ran"}
  BY <1>a DEF Accept, Lookup, ListRoutes, ScriptEnds, Reply, Goto, Phases
<1>2. /\ server' \in [Requests -> 0..NumServers] /\ server'[r] # 0
      /\ \A q \in Requests \ {r} : server'[q] = server[q]
      /\ server'[r] \in 1..(draining - 1) => server'[r] = server[r] /\ Active(r)
  <2>1. CASE \E i \in Servers : Accept(r, i)
    BY <1>a, <2>1 DEF Accept, Servers
  <2>2. CASE Lookup(r) \/ ListRoutes(r) \/ ScriptEnds(r) \/ Reply(r)
    BY <1>a, <2>2 DEF Lookup, ListRoutes, ScriptEnds, Reply, Active
  <2> QED BY <2>1, <2>2
<1>3. BridgeTypeOK'
  BY <1>0, <1>1, <1>2 DEF BridgeTypeOK
<1>4. ReportedOnce'
  <2>1. \A q \in Requests : Places(q)' = Places(q)
    BY <1>0 DEF Places, Count
  <2>2. \A q \in Requests : pc'[q] \in {"logged", "ran"} <=> pc[q] \in {"logged", "ran"}
    BY <1>1, <1>a
  <2> QED BY <2>1, <2>2 DEF ReportedOnce
<1>5. Swept'
  BY <1>0, <1>1, <1>2, <1>a DEF Swept, Active
<1>6. GracefulEnd'
  <2> SUFFICES ASSUME Closed, ~timedOut, NEW q \in Requests PROVE pc'[q] \in {"off", "done", "ran"}
    BY <1>0 DEF GracefulEnd, Closed
  <2>1. pc[q] \in {"off", "done", "ran"}
    BY DEF GracefulEnd
  <2>2. q # r
    <3>1. server'[r] \in 1..(draining - 1)
      BY <1>a, <1>2 DEF Closed
    <3> QED BY <3>1, <1>2, <2>1 DEF Swept
  <2> QED BY <1>1, <1>a, <2>1, <2>2
<1>7. QueueDrained' /\ ForwardsToTheEnd'
  BY <1>0 DEF QueueDrained, ForwardsToTheEnd, Closed
<1> QED BY <1>3, <1>4, <1>5, <1>6, <1>7

(* The report of a run goes into the channel, or the channel is closed:     *)
(* then the handler was still active, so the five seconds were over.        *)
LEMMA LogRunKeeps ==
  ASSUME BridgeInv, NEW r \in Requests, LogRun(r)
  PROVE  BridgeInv'
<1> USE DEF BridgeInv, BridgeSound, LogRun, Goto
<1>a. /\ pc \in [Requests -> Phases] /\ server \in [Requests -> 0..NumServers]
      /\ server[r] # 0 /\ NumServers \in Nat \ {0} /\ LogCap \in Nat
      /\ logCh \in Seq(Requests) /\ Len(logCh) <= LogCap
  BY BridgeAssumption DEF BridgeTypeOK
<1>1. CASE Closed
  <2>1. timedOut
    <3>1. server[r] \in 1..(draining - 1) /\ Active(r)
      BY <1>1, <1>a DEF Closed, Active
    <3> QED BY <3>1 DEF Swept
  <2>2. BridgeTypeOK'
    BY <1>a, <1>1 DEF BridgeTypeOK, Phases
  <2>3. ReportedOnce'
    BY <1>a, <1>1 DEF ReportedOnce, Places, Count
  <2> QED BY <1>1, <2>1, <2>2, <2>3 DEF Swept, GracefulEnd, QueueDrained, ForwardsToTheEnd, Closed
<1>2. CASE ~Closed
  <2>0. /\ logCh' = Append(logCh, r) /\ pc' = [pc EXCEPT ![r] = "logged"] /\ Len(logCh) < LogCap
        /\ UNCHANGED <<server, draining, timedOut, bridgeFwd, seen, forwarding, quitting>>
    BY <1>2
  <2>1. logCh' \in Seq(Requests) /\ Len(logCh') <= LogCap
    BY <1>a, <2>0, SendType
  <2>2. BridgeTypeOK'
    BY <1>a, <2>0, <2>1 DEF BridgeTypeOK, Phases
  <2>3. ReportedOnce'
    <3> SUFFICES ASSUME NEW q \in Requests
                 PROVE  Places(q)' = IF pc'[q] \in {"logged", "ran"} THEN 1 ELSE 0
      BY DEF ReportedOnce
    <3>1. /\ Cardinality(At(logCh, q)) \in Nat /\ Cardinality(At(bridgeFwd, q)) \in Nat
          /\ Places(q) = Cardinality(At(logCh, q)) + Cardinality(At(bridgeFwd, q)) + One(q \in seen)
      BY PlacesSum
    <3>2. Places(q)' = Cardinality(At(logCh', q)) + Cardinality(At(bridgeFwd, q)) + One(q \in seen)
      BY <2>0 DEF Places, Count, At, One
    <3>3. Cardinality(At(logCh', q)) = Cardinality(At(logCh, q)) + One(r = q)
      BY <1>a, <2>0, CopiesAppend
    <3>4. pc'[q] = IF q = r THEN "logged" ELSE pc[q]
      BY <1>a, <2>0
    <3>5. Places(q) = IF pc[q] \in {"logged", "ran"} THEN 1 ELSE 0
      BY DEF ReportedOnce
    <3> QED BY <3>1, <3>2, <3>3, <3>4, <3>5 DEF One
  <2>4. Swept'
    BY <1>a, <2>0 DEF Swept, Active
  <2> QED BY <1>2, <2>0, <2>2, <2>3, <2>4 DEF GracefulEnd, QueueDrained, ForwardsToTheEnd, Closed
<1> QED BY <1>1, <1>2

(* Stop and its timer.  A Shutdown that returns in time leaves no handler   *)
(* on its server; after the last one that is so on every server.            *)
LEMMA StopKeeps ==
  ASSUME BridgeInv, StopBegins \/ TimesOut \/ ShutdownReturns \/ ConfirmExit
  PROVE  BridgeInv'
<1> USE DEF BridgeInv, BridgeSound
<1>0. UNCHANGED <<pc, server, logCh, bridgeFwd, seen, forwarding>>
  BY DEF StopBegins, TimesOut, ShutdownReturns, ConfirmExit, pipeline
<1>a. /\ pc \in [Requests -> Phases] /\ server \in [Requests -> 0..NumServers]
      /\ draining \in 0..(NumServers + 1) /\ NumServers \in Nat \ {0}
      /\ \A r \in Requests : server[r] = 0 <=> pc[r] = "off"
  BY BridgeAssumption DEF BridgeTypeOK
<1>1. /\ draining' \in 0..(NumServers + 1) /\ timedOut' \in BOOLEAN /\ quitting' \in BOOLEAN
      /\ (Closed => Closed') /\ (timedOut => timedOut')
  <2>1. timedOut \in BOOLEAN /\ quitting \in BOOLEAN
    BY DEF BridgeTypeOK
  <2>2. CASE StopBegins
    BY <1>a, <2>1, <2>2 DEF StopBegins, Closed, pipeline
  <2>3. CASE TimesOut
    BY <1>a, <2>1, <2>3 DEF TimesOut, Closed, pipeline
  <2>4. CASE ShutdownReturns
    BY <1>a, <2>1, <2>4 DEF ShutdownReturns, Servers, Closed, pipeline
  <2>5. CASE ConfirmExit
    BY <1>a, <2>1, <2>5 DEF ConfirmExit, Closed
  <2> QED BY <2>2, <2>3, <2>4, <2>5
<1>2. BridgeTypeOK'
  BY <1>0, <1>1 DEF BridgeTypeOK
<1>3. ReportedOnce'
  BY <1>0 DEF ReportedOnce, Places, Count
<1>4. Swept'
  <2> SUFFICES ASSUME ~timedOut', NEW r \in Requests
               PROVE  /\ pc[r] # "aborted"
                      /\ server[r] \in 1..(draining' - 1) => ~Active(r)
    BY <1>0 DEF Swept, Active
  <2>1. ~timedOut
    BY <1>1 DEF BridgeTypeOK
  <2>2. draining' = draining \/ (draining = 0 /\ draining' = 1)
          \/ (draining' = draining + 1 /\ Drained(draining))
    BY <2>1 DEF StopBegins, TimesOut, ShutdownReturns, ConfirmExit
  <2>3. pc[r] # "aborted" /\ (server[r] \in 1..(draining - 1) => ~Active(r))
    BY <2>1 DEF Swept
  <2> QED BY <1>a, <2>2, <2>3 DEF Drained
<1>5. GracefulEnd'
  <2> SUFFICES ASSUME Closed', ~timedOut', NEW r \in Requests PROVE pc[r] \in {"off", "done", "ran"}
    BY <1>0 DEF GracefulEnd
  <2>1. server[r] \in 0..(draining' - 1) /\ server'[r] = server[r] /\ pc'[r] = pc[r]
    BY <1>a, <1>0 DEF Closed
  <2>2. pc[r] # "aborted" /\ (server[r] \in 1..(draining' - 1) => ~Active(r))
    BY <1>0, <1>4 DEF Swept, Active
  <2> QED BY <1>a, <2>1, <2>2 DEF Active
<1>6. QueueDrained' /\ ForwardsToTheEnd'
  BY <1>0, <1>1 DEF QueueDrained, ForwardsToTheEnd
<1> QED BY <1>2, <1>3, <1>4, <1>5, <1>6

(* The forwarder and the panel move the head of one queue on: it was not    *)
(* listed yet, for it is reported once.                                     *)
LEMMA ForwardingKeeps ==
  ASSUME BridgeInv, Forward \/ ForwarderEnds \/ ShowLog
  PROVE  BridgeInv'
<1> USE DEF BridgeInv, BridgeSound
<1>0. UNCHANGED <<pc, server, draining, timedOut, quitting>>
  BY DEF Forward, ForwarderEnds, ShowLog
<1>a. /\ logCh \in Seq(Requests) /\ Len(logCh) <= LogCap
      /\ bridgeFwd \in Seq(Requests) /\ Len(bridgeFwd) <= FwdCap + 1
      /\ seen \subseteq Requests /\ LogCap \in Nat /\ FwdCap \in Nat
  BY BridgeAssumption DEF BridgeTypeOK
<1>1. GracefulEnd' /\ Swept'
  BY <1>0 DEF GracefulEnd, Swept, Closed, Active
<1>2. CASE Forward
  <2>0. /\ logCh # << >> /\ bridgeFwd' = Append(bridgeFwd, Head(logCh)) /\ logCh' = Tail(logCh)
        /\ UNCHANGED <<seen, forwarding>>
    BY <1>2 DEF Forward
  <2>1. Head(logCh) \in Requests /\ logCh' \in Seq(Requests) /\ Len(logCh') <= LogCap
    BY <1>a, <2>0, ReceiveType
  <2>b. FwdCap + 1 \in Nat /\ Len(bridgeFwd) < FwdCap + 1
    BY <1>a, <1>2, LenProperties DEF Forward
  <2>2. bridgeFwd' \in Seq(Requests) /\ Len(bridgeFwd') <= FwdCap + 1
    BY <1>a, <2>b, <2>0, <2>1, SendType
  <2>3. BridgeTypeOK'
    BY <1>0, <2>0, <2>1, <2>2 DEF BridgeTypeOK
  <2>4. ReportedOnce'
    <3> SUFFICES ASSUME NEW q \in Requests PROVE Places(q)' = Places(q)
      BY <1>0 DEF ReportedOnce
    <3>1. /\ Cardinality(At(logCh, q)) \in Nat /\ Cardinality(At(bridgeFwd, q)) \in Nat
          /\ Places(q) = Cardinality(At(logCh, q)) + Cardinality(At(bridgeFwd, q)) + One(q \in seen)
      BY PlacesSum
    <3>2. Places(q)' = Cardinality(At(logCh', q)) + Cardinality(At(bridgeFwd', q)) + One(q \in seen)
      BY <2>0 DEF Places, Count, At, One
    <3>3. Cardinality(At(logCh, q)) = Cardinality(At(logCh', q)) + One(Head(logCh) = q)
      BY <1>a, <2>0, CopiesTail
    <3>4. Cardinality(At(bridgeFwd', q)) = Cardinality(At(bridgeFwd, q)) + One(Head(logCh) = q)
      BY <1>a, <2>0, <2>1, CopiesAppend
    <3>5. Cardinality(At(logCh', q)) \in Nat
      BY <2>1, CopiesNat
    <3> QED BY <3>1, <3>2, <3>3, <3>4, <3>5 DEF One
  <2>5. QueueDrained' /\ ForwardsToTheEnd'
    BY <1>0, <2>0 DEF QueueDrained, ForwardsToTheEnd, Closed
  <2> QED BY <1>1, <2>3, <2>4, <2>5
<1>3. CASE ForwarderEnds
  BY <1>0, <1>1, <1>3
     DEF ForwarderEnds, BridgeTypeOK, ReportedOnce, Places, Count, QueueDrained, ForwardsToTheEnd, Closed
<1>4. CASE ShowLog
  <2>0. /\ bridgeFwd # << >> /\ seen' = seen \cup {Head(bridgeFwd)} /\ bridgeFwd' = Tail(bridgeFwd)
        /\ UNCHANGED <<logCh, forwarding>>
    BY <1>4 DEF ShowLog
  <2>1. Head(bridgeFwd) \in Requests /\ bridgeFwd' \in Seq(Requests) /\ Len(bridgeFwd') <= FwdCap + 1
    BY <1>a, <2>0, ReceiveType
  <2>2. BridgeTypeOK'
    BY <1>0, <2>0, <2>1 DEF BridgeTypeOK
  <2>3. ReportedOnce'
    <3> SUFFICES ASSUME NEW q \in Requests PROVE Places(q)' = Places(q)
      BY <1>0 DEF ReportedOnce
    <3>1. /\ Cardinality(At(logCh, q)) \in Nat /\ Cardinality(At(bridgeFwd, q)) \in Nat
          /\ Places(q) = Cardinality(At(logCh, q)) + Cardinality(At(bridgeFwd, q)) + One(q \in seen)
      BY PlacesSum
    <3>2. Places(q)' = Cardinality(At(logCh, q)) + Cardinality(At(bridgeFwd', q)) + One(q \in seen')
      BY <2>0 DEF Places, Count, At, One
    <3>3. Cardinality(At(bridgeFwd, q)) = Cardinality(At(bridgeFwd', q)) + One(Head(bridgeFwd) = q)
      BY <1>a, <2>0, CopiesTail
    <3>4. Cardinality(At(bridgeFwd', q)) \in Nat
      BY <2>1, CopiesNat
    <3>5. Places(q) <= 1
      BY DEF ReportedOnce
    <3>6. One(q \in seen') = One(q \in seen) + One(Head(bridgeFwd) = q)
      BY <2>0, <3>1, <3>3, <3>4, <3>5 DEF One
    <3> QED BY <3>1, <3>2, <3>3, <3>4, <3>6 DEF One
  <2>4. QueueDrained' /\ ForwardsToTheEnd'
    BY <1>0, <2>0 DEF QueueDrained, ForwardsToTheEnd, Closed
  <2> QED BY <1>1, <2>2, <2>3, <2>4
<1> QED BY <1>2, <1>3, <1>4

LEMMA BridgeStepKeeps == BridgeInv /\ [BridgeNext]_bridgeVars => BridgeInv'
<1> SUFFICES ASSUME BridgeInv, [BridgeNext]_bridgeVars PROVE BridgeInv'
  OBVIOUS
<1>1. CASE UNCHANGED bridgeVars
  BY <1>1 DEF bridgeVars, BridgeInv, BridgeSound, BridgeTypeOK, GracefulEnd, ReportedOnce, QueueDrained,
              Swept, ForwardsToTheEnd, Closed, Active, Places, Count
<1>2. CASE BridgeNext
  BY <1>2, QuietHandlersKeep, LogRunKeeps, StopKeeps, ForwardingKeeps DEF BridgeNext, Handler
<1> QED BY <1>1, <1>2

(* Stop that was quick enough cut no handler off, a script that ran is      *)
(* reported to the panel once, and the forwarder leaves an empty queue      *)
(* (ServeHTTP and Stop of the bridge, wireChannels of cooper.go).           *)
THEOREM BridgeIsSound == BridgeSpec => []BridgeSound
<1>1. BridgeInv => BridgeSound
  BY DEF BridgeInv
<1> QED BY <1>1, BridgeBegins, BridgeStepKeeps, PTL DEF BridgeSpec
-----------------------------------------------------------------------------
(***************************************************************************)
(* The host relay.  What makes RelaySound inductive is that a connection is *)
(* dialled by one accept loop: those that dial or will tear down are no     *)
(* more than the connections that came.                                     *)
(***************************************************************************)
DialsCounted ==
  /\ conns \in 0..MaxConns
  /\ \A p \in Ports : /\ dialing[p] \in Nat /\ doomed[p] \in Nat
                      /\ dialing[p] + doomed[p] <= conns
RelayInv == RelaySound /\ DialsCounted

LEMMA RelayBegins == RelayInit => RelayInv
BY RelayAssumption
   DEF RelayInit, RelayInv, RelaySound, RelayTypeOK, ListenersTracked, DialsCounted, Idle

(* A scan replaces a relay by itself, by none, or, where none was, by one   *)
(* on every gateway: never is an open listener left out of the new map.     *)
LEMMA EndScanKeeps ==
  ASSUME RelayInv, NEW s \in Scanners, EndScan(s)
  PROVE  RelayInv'
<1> USE DEF RelayInv, RelaySound
<1>1. \A p \in Ports : Desired(scanning[s].copy, p) \in {{}, active[p], Gateways}
  BY DEF Desired
<1>2. \A p \in Ports : active[p] # {} => Desired(scanning[s].copy, p) \in {{}, active[p]}
  BY DEF Desired
<1>a. \A p \in Ports : active[p] \subseteq Gateways
  BY DEF RelayTypeOK
<1>3. /\ active' \in [Ports -> SUBSET Gateways] /\ open' \in [Ports -> SUBSET Gateways]
      /\ open' = active'
  <2> DEFINE d(p) == Desired(scanning[s].copy, p)
             o(p) == IF d(p) = {} THEN {} ELSE d(p) \cup open[p]
  <2>1. active' = [p \in Ports |-> d(p)] /\ open' = [p \in Ports |-> o(p)]
    BY DEF EndScan
  <2>2. \A p \in Ports : d(p) \in SUBSET Gateways /\ o(p) = d(p)
    <3> SUFFICES ASSUME NEW p \in Ports PROVE d(p) \in SUBSET Gateways /\ o(p) = d(p)
      OBVIOUS
    <3> HIDE DEF d
    <3>1. d(p) \in {{}, active[p], Gateways} /\ (active[p] # {} => d(p) \in {{}, active[p]})
      BY <1>1, <1>2 DEF d
    <3>2. open[p] = active[p]
      BY DEF ListenersTracked
    <3> QED BY <1>a, <3>1, <3>2
  <2> HIDE DEF d
  <2> QED BY <2>1, <2>2
<1>4. RelayTypeOK'
  BY <1>3 DEF EndScan, RelayTypeOK, Idle
<1> QED BY <1>3, <1>4 DEF EndScan, ListenersTracked, DialsCounted

(* An accept loop: the connection is counted once, before the dial, while   *)
(* it dials, and while it waits for mu to tear the relay down.              *)
LEMMA AcceptLoopKeeps ==
  ASSUME RelayInv, NEW p \in Ports, AcceptConn(p) \/ DialTarget(p) \/ TeardownPort(p)
  PROVE  RelayInv'
<1> USE DEF RelayInv, RelaySound
<1>a. /\ dialing \in [Ports -> 0..MaxConns] /\ doomed \in [Ports -> 0..MaxConns]
      /\ active \in [Ports -> SUBSET Gateways] /\ open = active
      /\ conns \in 0..MaxConns /\ MaxConns \in Nat
      /\ \A q \in Ports : /\ dialing[q] \in Nat /\ doomed[q] \in Nat
                          /\ dialing[q] + doomed[q] <= conns
  BY RelayAssumption DEF RelayTypeOK, ListenersTracked, DialsCounted
<1>1. /\ conns' \in 0..MaxConns /\ conns <= conns'
      /\ dialing' = [q \in Ports |-> dialing'[q]] /\ doomed' = [q \in Ports |-> doomed'[q]]
      /\ \A q \in Ports : /\ dialing'[q] \in Nat /\ doomed'[q] \in Nat
                          /\ dialing'[q] + doomed'[q] <= conns'
  <2> DEFINE Counted(c, d, t) == /\ c \in 0..MaxConns /\ conns <= c
                                 /\ d \in Nat /\ t \in Nat /\ d + t <= c
  <2>0. Counted(conns, dialing[p], doomed[p])
    BY <1>a
  <2>1. CASE AcceptConn(p)
    <3>1. /\ dialing' = [dialing EXCEPT ![p] = @ + 1] /\ doomed' = doomed
          /\ conns' = conns + 1 /\ conns < MaxConns
      BY <2>1 DEF AcceptConn
    <3>2. Counted(conns', dialing'[p], doomed'[p])
      BY <1>a, <3>1
    <3>3. \A q \in Ports \ {p} : Counted(conns', dialing'[q], doomed'[q])
      BY <1>a, <3>1
    <3> QED BY <1>a, <3>1, <3>2, <3>3
  <2>2. CASE DialTarget(p)
    <3>1. /\ dialing[p] > 0 /\ dialing' = [dialing EXCEPT ![p] = @ - 1] /\ conns' = conns
          /\ \/ doomed' = doomed
             \/ doomed' = [doomed EXCEPT ![p] = @ + 1]
      BY <2>2 DEF DialTarget
    <3>2. Counted(conns', dialing'[p], doomed'[p])
      BY <1>a, <3>1
    <3>3. \A q \in Ports \ {p} : Counted(conns', dialing'[q], doomed'[q])
      BY <1>a, <3>1
    <3> QED BY <1>a, <3>1, <3>2, <3>3
  <2>3. CASE TeardownPort(p)
    <3>1. /\ doomed[p] > 0 /\ doomed' = [doomed EXCEPT ![p] = @ - 1]
          /\ UNCHANGED <<dialing, conns>>
      BY <2>3 DEF TeardownPort
    <3>2. Counted(conns', dialing'[p], doomed'[p])
      BY <1>a, <3>1
    <3>3. \A q \in Ports \ {p} : Counted(conns', dialing'[q], doomed'[q])
      BY <1>a, <3>1
    <3> QED BY <1>a, <3>1, <3>2, <3>3
  <2> QED BY <2>1, <2>2, <2>3
<1>2. DialsCounted'
  BY <1>1 DEF DialsCounted
<1>3. dialing' \in [Ports -> 0..MaxConns] /\ doomed' \in [Ports -> 0..MaxConns]
  <2>1. \A q \in Ports : dialing'[q] \in 0..MaxConns /\ doomed'[q] \in 0..MaxConns
    BY <1>1, RelayAssumption
  <2> QED BY <1>1, <2>1
<1>4. active' \in [Ports -> SUBSET Gateways] /\ open' = active'
  BY <1>a DEF AcceptConn, DialTarget, TeardownPort
<1>5. UNCHANGED <<hostPorts, scanning, service>>
  BY DEF AcceptConn, DialTarget, TeardownPort
<1> QED BY <1>2, <1>3, <1>4, <1>5 DEF RelayTypeOK, ListenersTracked

LEMMA OtherRelayStepsKeep ==
  ASSUME RelayInv,
         \/ LoopScans \/ StopRelay \/ \E rules \in SUBSET Ports : UpdatePorts(rules)
         \/ \E p \in Ports, a \in Bindings : ServiceMoves(p, a)
  PROVE  RelayInv'
<1> USE DEF RelayInv, RelaySound, RelayTypeOK, ListenersTracked, DialsCounted
<1>1. CASE LoopScans
  BY <1>1 DEF LoopScans, BeginScan
<1>2. CASE StopRelay
  <2>1. /\ active' = [p \in Ports |-> {}] /\ open' = [p \in Ports |-> {}]
        /\ UNCHANGED <<hostPorts, scanning, service, dialing, doomed, conns>>
    BY <1>2 DEF StopRelay
  <2> QED BY <2>1
<1>3. CASE \E rules \in SUBSET Ports : UpdatePorts(rules)
  <2>1. PICK rules \in SUBSET Ports : UpdatePorts(rules)
    BY <1>3
  <2>2. /\ hostPorts' = rules
        /\ scanning' = [scanning EXCEPT !["update"] = [busy |-> TRUE, copy |-> rules]]
        /\ UNCHANGED <<active, open, service, dialing, doomed, conns>>
    BY <2>1 DEF UpdatePorts, BeginScan
  <2>3. scanning' \in [Scanners -> [busy : BOOLEAN, copy : SUBSET Ports]]
    BY <2>2
  <2> QED BY <2>2, <2>3
<1>4. CASE \E p \in Ports, a \in Bindings : ServiceMoves(p, a)
  BY <1>4 DEF ServiceMoves, Bindings
<1> QED BY <1>1, <1>2, <1>3, <1>4

LEMMA RelayStepKeeps == RelayInv /\ [RelayNext]_relayVars => RelayInv'
<1> SUFFICES ASSUME RelayInv, [RelayNext]_relayVars PROVE RelayInv'
  OBVIOUS
<1>1. CASE UNCHANGED relayVars
  BY <1>1 DEF relayVars, RelayInv, RelaySound, RelayTypeOK, ListenersTracked, DialsCounted
<1>2. CASE RelayNext
  BY <1>2, EndScanKeeps, AcceptLoopKeeps, OtherRelayStepsKeep DEF RelayNext, RelayStep
<1> QED BY <1>1, <1>2

(* The listeners that are open are those the map knows, through scans on    *)
(* old copies of the ports, accept loops that tear a younger relay down,    *)
(* and Stop (scan, teardownPort and Stop of hostrelay.go).                  *)
THEOREM RelayIsSound == RelaySpec => []RelaySound
<1>1. RelayInv => RelaySound
  BY DEF RelayInv
<1> QED BY <1>1, RelayBegins, RelayStepKeeps, PTL DEF RelaySpec

-----------------------------------------------------------------------------
(***************************************************************************)
(* The alert sound.  AlertKept is not inductive.  PlayersOK: at any time    *)
(* one player is not closed, that of the Controller or the one SetEnabled   *)
(* closes.  CallsOK: who plays did find the cooldown over, and no sound of  *)
(* the player came since.  HeardOK: a player counts its sounds and          *)
(* remembers the time of the last.                                          *)
(***************************************************************************)
PlayerRec == [closed : BOOLEAN, disabled : BOOLEAN, count : Nat, last : Nat]
CallRec == [at : {"idle", "fetched", "playing"}, player : Nat, since : Nat]
Sound == [player : Nat, at : Nat, phrase : {"home", "minor"}]

PlaysOf(p) == {i \in DOMAIN heard : heard[i].player = p}
Rested(since, last) == last = 0 \/ since - last >= Cooldown

PlayersOK ==
  /\ players \in Seq(PlayerRec)
  /\ enabled <=> player # Silent
  /\ switch # Silent => player = Silent
  /\ \A p \in DOMAIN players : players[p].closed \/ p = player \/ p = switch
CallsOK ==
  /\ call \in [Calls -> CallRec]
  /\ now \in Nat \ {0}
  /\ \A c \in Calls : call[c].at # "idle" => call[c].player \in DOMAIN players
  /\ \A c \in Calls : call[c].at = "playing" =>
       call[c].since # 0 /\ Rested(call[c].since, players[call[c].player].last)
HeardOK ==
  /\ heard \in Seq(Sound)
  /\ \A i \in DOMAIN heard : /\ heard[i].player \in DOMAIN players
                             /\ heard[i].at \in 1..players[heard[i].player].last
  /\ \A p \in DOMAIN players : players[p].count = Cardinality(PlaysOf(p))

AlertInv ==
  AlertTypeOK /\ OneSound /\ OffIsQuiet /\ PhrasesAlternate /\ PlayersOK /\ CallsOK /\ HeardOK
NewestPlays == {player, switch} \subseteq {Silent, Len(players)}

LEMMA AlertBegins == AlertInit => AlertInv
<1> SUFFICES ASSUME AlertInit PROVE AlertInv
  OBVIOUS
<1>1. players = << >> /\ heard = << >> /\ Len(players) = 0 /\ DOMAIN players = {} /\ DOMAIN heard = {}
  BY DEF AlertInit
<1>2. players \in Seq(PlayerRec) /\ heard \in Seq(Sound)
  BY <1>1, EmptySeq
<1>3. AlertTypeOK
  <2>1. player = 0 /\ switch = 0 /\ enabled = FALSE /\ \A c \in Calls : call[c].at = "idle"
    BY DEF AlertInit, Silent, Quiet
  <2>2. Len(players) = 0
    BY <1>1
  <2>3. player \in 0..Len(players) /\ switch \in 0..Len(players)
    BY <2>1, <2>2
  <2> QED BY <2>1, <2>3 DEF AlertTypeOK
<1>4. OneSound /\ OffIsQuiet
  BY DEF AlertInit, OneSound, OffIsQuiet, Quiet
<1>5. PhrasesAlternate /\ HeardOK
  BY <1>1, <1>2 DEF PhrasesAlternate, HeardOK
<1>6. PlayersOK
  BY <1>1, <1>2 DEF AlertInit, PlayersOK
<1>7. CallsOK
  BY DEF AlertInit, CallsOK, CallRec, Quiet, Silent
<1> QED BY <1>3, <1>4, <1>5, <1>6, <1>7 DEF AlertInv

(* The clock and a stutter move nothing that AlertInv speaks of.            *)
LEMMA SameAlert ==
  ASSUME AlertInv, UNCHANGED <<enabled, player, players, switch, call, heard>>,
         now' \in Nat \ {0}
  PROVE  AlertInv'
<1>1. AlertTypeOK' /\ OneSound' /\ OffIsQuiet'
  BY DEF AlertInv, AlertTypeOK, OneSound, OffIsQuiet
<1>2. PhrasesAlternate'
  BY DEF AlertInv, PhrasesAlternate, EarlierPlays
<1>3. PlayersOK'
  BY DEF AlertInv, PlayersOK
<1>4. CallsOK'
  BY DEF AlertInv, CallsOK
<1>5. HeardOK'
  BY DEF AlertInv, HeardOK, PlaysOf
<1> QED BY <1>1, <1>2, <1>3, <1>4, <1>5 DEF AlertInv

(* SetEnabled makes a player or takes the one it has.                       *)
LEMMA SwitchOnKeeps == AlertInv /\ SwitchOn => AlertInv'
<1> SUFFICES ASSUME AlertInv, SwitchOn PROVE AlertInv'
  OBVIOUS
<1> USE DEF AlertInv
<1>0. UNCHANGED <<switch, call, heard, now>> /\ switch = Silent
  BY DEF SwitchOn
<1>a. /\ players \in Seq(PlayerRec) /\ Len(players) \in Nat /\ DOMAIN players = 1..Len(players)
      /\ player \in 0..Len(players) /\ enabled \in BOOLEAN
      /\ enabled <=> player # Silent
  BY LenProperties DEF PlayersOK, AlertTypeOK
<1>1. CASE players' = players
  <2>1. player' = player /\ enabled' = enabled
    <3>1. CASE player # Silent
      BY <1>a, <3>1 DEF SwitchOn
    <3>2. CASE player = Silent
      <4>1. NewPlayer \in PlayerRec
        BY DEF NewPlayer, PlayerRec
      <4>2. Len(Append(players, NewPlayer)) = Len(players) + 1
        BY <1>a, <4>1, AppendProperties
      <4>3. players # Append(players, NewPlayer)
        <5> SUFFICES ASSUME players = Append(players, NewPlayer) PROVE FALSE
          OBVIOUS
        <5>1. Len(players) = Len(players) + 1
          BY <4>2, Zenon
        <5> QED BY <1>a, <5>1
      <4>4. enabled' = FALSE /\ player' = player
        BY <1>1, <3>2, <4>3 DEF SwitchOn
      <4> QED BY <1>a, <3>2, <4>4
    <3> QED BY <3>1, <3>2
  <2>2. now' \in Nat \ {0}
    BY <1>0 DEF CallsOK
  <2> QED BY <1>0, <1>1, <2>1, <2>2, SameAlert
<1>2. CASE players' # players
  <2>0. /\ players' = Append(players, NewPlayer) /\ player = Silent /\ ~enabled
        /\ player' = Len(players') /\ enabled' = TRUE
    BY <1>a, <1>2 DEF SwitchOn
  <2>1. NewPlayer \in PlayerRec
    BY DEF NewPlayer, PlayerRec
  <2>2. /\ players' \in Seq(PlayerRec) /\ Len(players') = Len(players) + 1
        /\ DOMAIN players' = 1..(Len(players) + 1)
        /\ \A p \in DOMAIN players : players'[p] = players[p]
        /\ players'[Len(players) + 1] = NewPlayer
    BY <1>a, <2>0, <2>1, AppendProperties, LenProperties
  <2>3. AlertTypeOK' /\ PlayersOK'
    BY <1>0, <1>a, <2>0, <2>2 DEF AlertTypeOK, PlayersOK, Silent
  <2>4. CallsOK'
    BY <1>0, <1>a, <2>2 DEF CallsOK, Rested
  <2>5. OneSound'
    <3>1. \A c \in Calls : call[c].at = "playing" => call[c].player \in DOMAIN players
      BY DEF CallsOK
    <3> QED BY <1>0, <2>2, <3>1 DEF OneSound
  <2>6. OffIsQuiet'
    BY <2>0 DEF OffIsQuiet
  <2>7. PhrasesAlternate'
    BY <1>0 DEF PhrasesAlternate, EarlierPlays
  <2>8. HeardOK'
    <3>1. \A p : PlaysOf(p)' = PlaysOf(p)
      BY <1>0 DEF PlaysOf
    <3>2. PlaysOf(Len(players) + 1) = {}
      BY <1>a DEF PlaysOf, HeardOK
    <3>3. NewPlayer.count = Cardinality(PlaysOf(Len(players) + 1))
      BY <3>2, FS_EmptySet DEF NewPlayer
    <3>4. \A p \in DOMAIN players' : players'[p].count = Cardinality(PlaysOf(p)')
      BY <1>a, <2>2, <3>1, <3>3 DEF HeardOK
    <3>5. \A i \in DOMAIN heard : /\ heard[i].player \in DOMAIN players'
                                  /\ heard[i].at \in 1..players'[heard[i].player].last
      BY <1>a, <2>2 DEF HeardOK
    <3> QED BY <1>0, <3>4, <3>5 DEF HeardOK
  <2> QED BY <2>3, <2>4, <2>5, <2>6, <2>7, <2>8
<1> QED BY <1>1, <1>2

(* SetEnabled(false): the player of the Controller becomes the one that is  *)
(* closed, once its sound is over.                                          *)
LEMMA SwitchOffKeeps == AlertInv /\ (SwitchOff \/ ClosePlayer) => AlertInv'
<1> SUFFICES ASSUME AlertInv, SwitchOff \/ ClosePlayer PROVE AlertInv'
  OBVIOUS
<1> USE DEF AlertInv
<1>0. UNCHANGED <<call, heard, now>>
  BY DEF SwitchOff, ClosePlayer
<1>a. /\ players \in Seq(PlayerRec) /\ Len(players) \in Nat /\ DOMAIN players = 1..Len(players)
      /\ player \in 0..Len(players) /\ switch \in 0..Len(players) /\ enabled \in BOOLEAN
      /\ enabled <=> player # Silent
      /\ switch # Silent => player = Silent
      /\ \A p \in DOMAIN players : players[p].closed \/ p = player \/ p = switch
  BY LenProperties DEF PlayersOK, AlertTypeOK
<1>1. PhrasesAlternate'
  BY <1>0 DEF PhrasesAlternate, EarlierPlays
<1>2. CASE SwitchOff
  <2>0. switch = Silent /\ enabled /\ ~enabled' /\ player' = Silent /\ switch' = player /\ players' = players
    BY <1>2 DEF SwitchOff
  <2>1. AlertTypeOK' /\ PlayersOK'
    BY <1>0, <1>2, <1>a, <2>0 DEF SwitchOff, AlertTypeOK, PlayersOK, Silent
  <2> QED BY <1>0, <1>1, <1>a, <2>0, <2>1
          DEF OneSound, OffIsQuiet, CallsOK, HeardOK, PlaysOf
<1>3. CASE ClosePlayer
  <2>0. /\ switch # Silent /\ ~Busy(switch) /\ switch' = Silent
        /\ players' = [players EXCEPT ![switch].closed = TRUE]
        /\ UNCHANGED <<enabled, player>>
    BY <1>3 DEF ClosePlayer
  <2>1. switch \in DOMAIN players
    BY <1>a, <2>0 DEF Silent
  <2>2. /\ players' \in Seq(PlayerRec) /\ Len(players') = Len(players) /\ DOMAIN players' = DOMAIN players
        /\ \A p \in DOMAIN players : /\ players'[p].closed = (players[p].closed \/ p = switch)
                                     /\ players'[p].count = players[p].count
                                     /\ players'[p].last = players[p].last
    <3>1. \A p \in DOMAIN players : players[p] \in PlayerRec
      BY <1>a, ElementOfSeq
    <3>2. [players[switch] EXCEPT !.closed = TRUE] \in PlayerRec
      BY <2>1, <3>1 DEF PlayerRec
    <3>3. players' = [players EXCEPT ![switch] = [players[switch] EXCEPT !.closed = TRUE]]
      BY <2>0
    <3>4. players' \in Seq(PlayerRec) /\ Len(players') = Len(players) /\ DOMAIN players' = DOMAIN players
      BY <1>a, <2>1, <3>2, <3>3, ExceptSeq
    <3> QED BY <2>1, <3>1, <3>3, <3>4 DEF PlayerRec
  <2>3. AlertTypeOK' /\ PlayersOK'
    BY <1>0, <1>a, <2>0, <2>2 DEF AlertTypeOK, PlayersOK, Silent
  <2>4. CallsOK'
    BY <1>0, <2>2 DEF CallsOK
  <2>5. \A c \in Calls : call[c].at = "playing" => call[c].player \in DOMAIN players /\ call[c].player # switch
    BY <2>0 DEF Busy, CallsOK
  <2>6. OneSound'
    BY <1>0, <2>2, <2>5 DEF OneSound
  <2>7. OffIsQuiet'
    <3> SUFFICES ASSUME ~enabled, NEW c \in Calls, call[c].at = "playing" PROVE FALSE
      BY <1>0, <2>0 DEF OffIsQuiet
    <3>1. player = Silent
      BY <1>a
    <3>2. ~players[call[c].player].closed
      BY DEF OneSound
    <3> QED BY <1>a, <2>5, <3>1, <3>2 DEF Silent
  <2>8. HeardOK'
    BY <1>0, <2>2 DEF HeardOK, PlaysOf
  <2> QED BY <1>1, <2>3, <2>4, <2>6, <2>7, <2>8
<1> QED BY <1>2, <1>3

(* A command fetches the player and starts to play: the player is not       *)
(* closed and nobody plays on it, and there is no second open one.          *)
LEMMA CallsBegin ==
  ASSUME AlertInv, NEW c \in Calls, Fetch(c) \/ Start(c)
  PROVE  AlertInv'
<1> USE DEF AlertInv
<1>0. UNCHANGED <<enabled, player, players, switch, heard>>
  BY DEF Fetch, Start
<1>a. /\ DOMAIN players = 1..Len(players) /\ Len(players) \in Nat
      /\ player \in 0..Len(players) /\ switch \in 0..Len(players)
      /\ enabled <=> player # Silent
      /\ switch # Silent => player = Silent
      /\ \A p \in DOMAIN players : players[p].closed \/ p = player \/ p = switch
      /\ call \in [Calls -> CallRec] /\ now \in Nat \ {0}
  BY LenProperties DEF PlayersOK, AlertTypeOK, CallsOK
<1>1. PhrasesAlternate' /\ PlayersOK' /\ HeardOK'
  BY <1>0 DEF PhrasesAlternate, EarlierPlays, PlayersOK, HeardOK, PlaysOf
<1>2. CASE UNCHANGED call
  <2>1. now' \in Nat \ {0}
    BY <1>a DEF Fetch, Start
  <2> QED BY <1>0, <1>1, <1>2, <2>1 DEF AlertTypeOK, OneSound, OffIsQuiet, CallsOK
<1>3. ASSUME \/ /\ Fetch(c) /\ call' = [call EXCEPT ![c] = [at |-> "fetched", player |-> player, since |-> 0]]
             \/ /\ Start(c) /\ call' = [call EXCEPT ![c] = Quiet]
      PROVE  AlertInv'
  <2>1. /\ call' \in [Calls -> CallRec] /\ call'[c].at \in {"idle", "fetched"}
        /\ call'[c].at # "idle" => call'[c].player \in DOMAIN players
        /\ \A d \in Calls \ {c} : call'[d] = call[d]
    <3>1. CASE Fetch(c)
      BY <1>3, <1>a, <3>1 DEF Fetch, CallRec, Silent, Quiet, Start
    <3>2. CASE Start(c) /\ call' = [call EXCEPT ![c] = Quiet]
      BY <1>a, <3>2 DEF CallRec, Quiet, Silent
    <3> QED BY <1>3, <3>1, <3>2
  <2>2. now' = now
    BY <1>3 DEF Fetch, Start
  <2>3. CallsOK'
    BY <1>0, <2>1, <2>2 DEF CallsOK
  <2>4. AlertTypeOK' /\ OneSound' /\ OffIsQuiet'
    BY <1>0, <2>1 DEF AlertTypeOK, OneSound, OffIsQuiet
  <2> QED BY <1>1, <2>3, <2>4
<1>4. ASSUME Start(c), call' = [call EXCEPT ![c] = [@ EXCEPT !.at = "playing", !.since = now]],
             ~players[call[c].player].closed, Cooled(call[c].player)
      PROVE  AlertInv'
  <2> DEFINE p == call[c].player
  <2>0. call[c].at = "fetched" /\ ~Busy(p) /\ now' = now
    BY <1>4 DEF Start
  <2>1. p \in DOMAIN players
    BY <2>0 DEF CallsOK
  <2>2. /\ call' \in [Calls -> CallRec]
        /\ call'[c].at = "playing" /\ call'[c].player = p /\ call'[c].since = now
        /\ \A d \in Calls \ {c} : call'[d] = call[d]
    BY <1>a, <1>4 DEF CallRec
  <2>3. CallsOK'
    BY <1>0, <1>4, <1>a, <2>0, <2>1, <2>2 DEF CallsOK, Rested, Cooled
  <2>4. \A d \in Calls : call[d].at # "playing"
    <3> SUFFICES ASSUME NEW d \in Calls, call[d].at = "playing" PROVE FALSE
      OBVIOUS
    <3>1. call[d].player # p
      BY <2>0 DEF Busy
    <3>2. call[d].player \in DOMAIN players /\ ~players[call[d].player].closed
      BY DEF CallsOK, OneSound
    <3> QED BY <1>4, <1>a, <2>1, <3>1, <3>2 DEF Silent
  <2>5. OneSound'
    BY <1>0, <1>4, <2>2, <2>4 DEF OneSound
  <2>6. OffIsQuiet'
    BY <1>0, <1>4, <1>a, <2>1 DEF OffIsQuiet, Silent
  <2>7. AlertTypeOK'
    BY <1>0, <2>2 DEF AlertTypeOK, CallRec
  <2> QED BY <1>1, <2>3, <2>5, <2>6, <2>7
<1> QED BY <1>2, <1>3, <1>4 DEF Fetch, Start

(* The sound is over: it is the next of its player, and a cooldown after    *)
(* the last one.                                                            *)
LEMMA FinishKeeps ==
  ASSUME AlertInv, NEW c \in Calls, Finish(c)
  PROVE  AlertInv'
<1> USE DEF AlertInv
<1> DEFINE p == call[c].player
           since == call[c].since
           h == [player |-> p, at |-> since, phrase |-> Phrase(players[p].count)]
<1>0. /\ call[c].at = "playing" /\ call' = [call EXCEPT ![c] = Quiet]
      /\ UNCHANGED <<enabled, player, switch, now>>
  BY DEF Finish
<1>a. /\ players \in Seq(PlayerRec) /\ Len(players) \in Nat /\ DOMAIN players = 1..Len(players)
      /\ call \in [Calls -> CallRec] /\ p \in DOMAIN players
      /\ since \in Nat \ {0} /\ p \in Nat /\ heard \in Seq(Sound)
      /\ Rested(since, players[p].last)
      /\ \A d \in Calls \ {c} : call[d].at # "playing"
  BY <1>0, LenProperties DEF PlayersOK, CallsOK, HeardOK, OneSound, CallRec
<1>b. \A q \in DOMAIN players : players[q] \in PlayerRec
  BY <1>a, ElementOfSeq
<1>1. /\ call' \in [Calls -> CallRec] /\ call'[c].at = "idle"
      /\ \A d \in Calls \ {c} : call'[d] = call[d] /\ call'[d].at # "playing"
  BY <1>0, <1>a DEF CallRec, Quiet, Silent
<1>2. PICK new \in PlayerRec :
        /\ players' = [players EXCEPT ![p] = new] /\ new.closed = players[p].closed
        /\ \/ /\ new.count = players[p].count + 1 /\ new.last = since
              /\ heard' = Append(heard, h)
           \/ /\ new.count = players[p].count /\ new.last = players[p].last
              /\ heard' = heard
  <2>1. CASE /\ players' = [players EXCEPT ![p].count = @ + 1, ![p].last = since]
             /\ heard' = Append(heard, h)
    <3> DEFINE new == [players[p] EXCEPT !.count = @ + 1, !.last = since]
    <3>1. players' = [players EXCEPT ![p] = new]
      BY <1>a, <1>b, <2>1
    <3>0. players[p] \in PlayerRec /\ since \in Nat /\ players[p].count + 1 \in Nat
      BY <1>a, <1>b DEF PlayerRec
    <3>2. new \in PlayerRec
      BY <3>0 DEF PlayerRec
    <3>3. new.closed = players[p].closed /\ new.count = players[p].count + 1 /\ new.last = since
      BY <3>0 DEF PlayerRec
    <3> QED BY <2>1, <3>1, <3>2, <3>3
  <2>2. CASE players' = [players EXCEPT ![p].disabled = TRUE] /\ heard' = heard
    <3> DEFINE new == [players[p] EXCEPT !.disabled = TRUE]
    <3>1. players' = [players EXCEPT ![p] = new]
      BY <1>a, <1>b, <2>2
    <3>2. new \in PlayerRec
      BY <1>a, <1>b DEF PlayerRec
    <3>3. new.closed = players[p].closed /\ new.count = players[p].count /\ new.last = players[p].last
      BY <1>a, <1>b DEF PlayerRec
    <3> QED BY <2>2, <3>1, <3>2, <3>3
  <2> QED BY <2>1, <2>2 DEF Finish
<1>3. /\ players' \in Seq(PlayerRec) /\ Len(players') = Len(players) /\ DOMAIN players' = DOMAIN players
      /\ players'[p] = new
      /\ \A q \in DOMAIN players \ {p} : players'[q] = players[q]
  BY <1>a, <1>2, ExceptSeq
<1>4. AlertTypeOK' /\ PlayersOK'
  <2>1. AlertTypeOK'
    BY <1>0, <1>1, <1>3 DEF AlertTypeOK, CallRec
  <2>2. \A q \in DOMAIN players' : players'[q].closed \/ q = player \/ q = switch
    BY <1>2, <1>3 DEF PlayersOK
  <2> QED BY <1>0, <1>3, <2>1, <2>2 DEF PlayersOK
<1>5. CallsOK'
  BY <1>0, <1>1, <1>3 DEF CallsOK
<1>6. OneSound' /\ OffIsQuiet'
  BY <1>1 DEF OneSound, OffIsQuiet
<1>7. CASE heard' = heard /\ new.count = players[p].count /\ new.last = players[p].last
  <2>1. PhrasesAlternate'
    BY <1>7 DEF PhrasesAlternate, EarlierPlays
  <2>2. HeardOK'
    BY <1>7, <1>3 DEF HeardOK, PlaysOf
  <2> QED BY <1>4, <1>5, <1>6, <2>1, <2>2
<1>8. CASE heard' = Append(heard, h) /\ new.count = players[p].count + 1 /\ new.last = since
  <2>n. PICK n \in Nat : n = Len(heard)
    BY <1>a, LenProperties
  <2>0. h \in Sound
    BY <1>a DEF Sound, Phrase
  <2> HIDE DEF h
  <2>1. /\ n \in Nat /\ DOMAIN heard = 1..n /\ heard' \in Seq(Sound) /\ DOMAIN heard' = 1..(n + 1)
        /\ \A i \in 1..n : heard'[i] = heard[i]
        /\ heard'[n + 1] = h
    BY <1>a, <1>8, <2>0, <2>n, AppendProperties, LenProperties
  <2>2. h.player = p /\ h.at = since /\ h.phrase = Phrase(players[p].count)
    BY DEF h
  <2> HIDE DEF p, since
  <2>3. \A i \in 1..n : EarlierPlays(i)' = EarlierPlays(i)
    BY <2>1 DEF EarlierPlays
  <2>4. EarlierPlays(n + 1)' = PlaysOf(p)
    <3>1. (n + 1) - 1 = n
      BY <2>1
    <3>2. EarlierPlays(n + 1)' = {j \in 1..n : heard'[j].player = heard'[n + 1].player}
      BY <3>1 DEF EarlierPlays
    <3>3. PlaysOf(p) = {j \in 1..n : heard[j].player = p}
      BY <2>1 DEF PlaysOf
    <3> QED BY <2>1, <2>2, <3>2, <3>3
  <2>5. \A i \in 1..n : heard[i].player = p => heard[i].at \in 1..players[p].last
    BY <2>1 DEF HeardOK
  <2>6. \A i \in PlaysOf(p) : since - heard[i].at >= Cooldown /\ heard[i].at \in 1..since
    <3> SUFFICES ASSUME NEW i \in PlaysOf(p)
                 PROVE  since - heard[i].at >= Cooldown /\ heard[i].at \in 1..since
      OBVIOUS
    <3>1. heard[i].at \in 1..players[p].last /\ players[p].last \in Nat
      BY <1>a, <1>b, <2>1, <2>5 DEF PlaysOf, PlayerRec
    <3>2. Rested(since, players[p].last)
      BY <1>a
    <3> QED BY <1>a, <3>1, <3>2, AlertAssumption DEF Rested
  <2>7. PhrasesAlternate'
    <3>1. ASSUME NEW i \in 1..n
          PROVE  /\ heard'[i].phrase = Phrase(Cardinality(EarlierPlays(i)'))
                 /\ \A j \in EarlierPlays(i)' : heard'[i].at - heard'[j].at >= Cooldown
      <4>1. \A j \in EarlierPlays(i) : j \in 1..n
        BY <2>1 DEF EarlierPlays
      <4> QED BY <2>1, <2>3, <4>1 DEF PhrasesAlternate
    <3>2. /\ heard'[n + 1].phrase = Phrase(Cardinality(EarlierPlays(n + 1)'))
          /\ \A j \in EarlierPlays(n + 1)' : heard'[n + 1].at - heard'[j].at >= Cooldown
      <4>1. players[p].count = Cardinality(PlaysOf(p))
        BY <1>a DEF HeardOK
      <4>2. \A j \in PlaysOf(p) : heard'[j] = heard[j]
        BY <2>1 DEF PlaysOf
      <4> QED BY <2>1, <2>2, <2>4, <2>6, <4>1, <4>2
    <3>3. \A i \in 1..(n + 1) : i \in 1..n \/ i = n + 1
      BY <2>1
    <3>4. \A i \in DOMAIN heard' :
            /\ heard'[i].phrase = Phrase(Cardinality(EarlierPlays(i)'))
            /\ \A j \in EarlierPlays(i)' : heard'[i].at - heard'[j].at >= Cooldown
      BY <2>1, <3>1, <3>2, <3>3
    <3> QED BY <3>4 DEF PhrasesAlternate
  <2>8. HeardOK'
    <3>1. \A i \in 1..n : heard'[i].player \in DOMAIN players /\ heard'[i].at \in 1..players'[heard'[i].player].last
      <4> SUFFICES ASSUME NEW i \in 1..n
                   PROVE  heard[i].player \in DOMAIN players /\ heard[i].at \in 1..players'[heard[i].player].last
        BY <2>1
      <4>1. heard[i].player \in DOMAIN players /\ heard[i].at \in 1..players[heard[i].player].last
        BY <2>1 DEF HeardOK
      <4>2. CASE heard[i].player = p
        BY <1>3, <1>8, <2>1, <2>6, <4>1, <4>2 DEF PlaysOf
      <4>3. CASE heard[i].player # p
        BY <1>3, <4>1, <4>3
      <4> QED BY <4>2, <4>3
    <3>2. h.player \in DOMAIN players /\ h.at \in 1..players'[h.player].last
      BY <1>a, <1>3, <1>8, <2>2
    <3>3. \A q : PlaysOf(q)' = IF q = p THEN PlaysOf(q) \cup {n + 1} ELSE PlaysOf(q)
      BY <2>1, <2>2 DEF PlaysOf
    <3>4. IsFiniteSet(PlaysOf(p)) /\ n + 1 \notin PlaysOf(p)
      <4>1. IsFiniteSet(1..n) /\ PlaysOf(p) \subseteq 1..n /\ n + 1 \notin 1..n
        BY <2>1, FS_Interval DEF PlaysOf
      <4> QED BY <4>1, FS_Subset
    <3>5. Cardinality(PlaysOf(p) \cup {n + 1}) = Cardinality(PlaysOf(p)) + 1
      BY <3>4, FS_AddElement
    <3>6. \A q \in DOMAIN players : players'[q].count = Cardinality(PlaysOf(q)')
      <4> SUFFICES ASSUME NEW q \in DOMAIN players PROVE players'[q].count = Cardinality(PlaysOf(q)')
        OBVIOUS
      <4>1. players[q].count = Cardinality(PlaysOf(q))
        BY DEF HeardOK
      <4>2. CASE q = p
        BY <1>3, <1>8, <3>3, <3>5, <4>1, <4>2
      <4>3. CASE q # p
        BY <1>3, <3>3, <4>1, <4>3
      <4> QED BY <4>2, <4>3
    <3>7. \A i \in 1..(n + 1) : i \in 1..n \/ i = n + 1
      BY <2>1
    <3> QED BY <1>3, <2>1, <3>1, <3>2, <3>6, <3>7 DEF HeardOK
  <2> QED BY <1>4, <1>5, <1>6, <2>7, <2>8
<1> QED BY <1>2, <1>7, <1>8

LEMMA AlertStepKeeps == AlertInv /\ [AlertNext]_alertVars => AlertInv'
<1> SUFFICES ASSUME AlertInv, [AlertNext]_alertVars PROVE AlertInv'
  OBVIOUS
<1>0. now \in Nat \ {0}
  BY DEF AlertInv, CallsOK
<1>1. CASE UNCHANGED alertVars
  BY <1>0, <1>1, SameAlert DEF alertVars
<1>2. CASE ClockTicks
  BY <1>0, <1>2, SameAlert DEF ClockTicks
<1>3. CASE AlertNext /\ ~ClockTicks
  BY <1>3, SwitchOnKeeps, SwitchOffKeeps, CallsBegin, FinishKeeps DEF AlertNext, AlertStep
<1> QED BY <1>1, <1>2, <1>3

(* The player that is open is the last one that was made, so what is heard   *)
(* comes from no earlier player than what was heard.                         *)
LEMMA NewestKept ==
  ASSUME AlertInv, AlertInv', NewestPlays, OldIsQuiet, [AlertNext]_alertVars
  PROVE  NewestPlays' /\ OldIsQuiet'
<1>1. /\ players \in Seq(PlayerRec) /\ Len(players) \in Nat /\ DOMAIN players = 1..Len(players)
      /\ heard \in Seq(Sound) /\ DOMAIN heard = 1..Len(heard) /\ Len(heard) \in Nat
      /\ \A i \in DOMAIN heard : heard[i].player \in DOMAIN players
  BY LenProperties DEF AlertInv, PlayersOK, HeardOK
<1>2. CASE SwitchOn
  <2>1. switch' = Silent /\ heard' = heard /\ (player' = Len(players') \/ UNCHANGED <<player, players>>)
    BY <1>2 DEF SwitchOn
  <2>2. NewestPlays'
    BY <2>1, Zenon DEF NewestPlays
  <2> QED BY <2>1, <2>2 DEF OldIsQuiet
<1>3. CASE UNCHANGED alertVars \/ ClockTicks \/ SwitchOff \/ \E c \in Calls : Fetch(c) \/ Start(c)
  <2>1. heard' = heard /\ players' = players /\ {player', switch'} \subseteq {Silent, player, switch}
    BY <1>3 DEF alertVars, ClockTicks, SwitchOff, Fetch, Start
  <2>2. NewestPlays'
    BY <2>1 DEF NewestPlays
  <2> QED BY <2>1, <2>2 DEF OldIsQuiet
<1>4. CASE ClosePlayer
  <2>1. heard' = heard /\ Len(players') = Len(players) /\ player' = player /\ switch' = Silent
    BY <1>1, <1>4 DEF ClosePlayer, AlertInv, AlertTypeOK
  <2>2. NewestPlays'
    BY <2>1 DEF NewestPlays
  <2> QED BY <2>1, <2>2 DEF OldIsQuiet
<1>5. CASE \E c \in Calls : Finish(c)
  <2>1. PICK c \in Calls : Finish(c)
    BY <1>5
  <2>2. DOMAIN players' = DOMAIN players /\ player' = player /\ switch' = switch /\ call[c].at = "playing"
    BY <1>1, <2>1 DEF Finish
  <2>3. Len(players') = Len(players)
    <3>1. players' \in Seq(PlayerRec) /\ DOMAIN players' = 1..Len(players') /\ Len(players') \in Nat
      BY LenProperties DEF AlertInv, PlayersOK
    <3> QED BY <1>1, <2>2, <3>1
  <2>4. NewestPlays'
    BY <2>2, <2>3 DEF NewestPlays
  <2>5. call[c].player = Len(players)
    <3>1. call[c].player \in DOMAIN players /\ ~players[call[c].player].closed
      BY <2>2 DEF AlertInv, CallsOK, OneSound
    <3>2. call[c].player = player \/ call[c].player = switch
      BY <3>1 DEF AlertInv, PlayersOK
    <3> QED BY <1>1, <3>1, <3>2 DEF NewestPlays, Silent
  <2>6. CASE heard' = heard
    BY <2>4, <2>6 DEF OldIsQuiet
  <2>7. CASE heard' # heard
    <3> DEFINE h == [player |-> call[c].player, at |-> call[c].since, phrase |-> Phrase(players[call[c].player].count)]
               n == Len(heard)
    <3>1. heard' = Append(heard, h) /\ h.player = Len(players)
      BY <2>1, <2>5, <2>7 DEF Finish
    <3>2. h \in Sound
      <4>1. call[c] \in CallRec
        BY DEF AlertInv, CallsOK
      <4> QED BY <4>1 DEF Sound, Phrase, CallRec
    <3> HIDE DEF h
    <3>3. /\ n \in Nat /\ DOMAIN heard' = 1..(n + 1) /\ heard'[n + 1] = h
          /\ \A i \in 1..n : heard'[i] = heard[i] /\ heard[i].player <= Len(players)
      BY <1>1, <3>1, <3>2, AppendProperties, LenProperties
    <3> HIDE DEF n
    <3>4. \A i, j \in 1..n : i < j => heard[i].player <= heard[j].player
      BY <1>1 DEF OldIsQuiet, n
    <3>5. ASSUME NEW i \in 1..(n + 1), NEW j \in 1..(n + 1), i < j
          PROVE  heard'[i].player <= heard'[j].player
      <4>1. i \in 1..n /\ (j \in 1..n \/ j = n + 1)
        BY <3>3, <3>5
      <4>2. CASE j \in 1..n
        BY <3>3, <3>4, <3>5, <4>1, <4>2
      <4>3. CASE j = n + 1
        BY <3>1, <3>3, <4>1, <4>3
      <4> QED BY <4>1, <4>2, <4>3
    <3> QED BY <2>4, <3>3, <3>5 DEF OldIsQuiet
  <2> QED BY <2>6, <2>7
<1> QED BY <1>2, <1>3, <1>4, <1>5 DEF AlertNext, AlertStep

(* One sound at a time and none of a closed player, quiet once the switch   *)
(* to off returned; the phrases in their order, a cooldown apart, since the *)
(* alert was last switched on, for each switch begins anew (SetEnabled of   *)
(* controller.go, Play and Close of player.go).                             *)
THEOREM AlertIsKept == AlertSpec => []AlertKept
<1>1. AlertInit => AlertInv /\ NewestPlays /\ OldIsQuiet
  <2>1. AlertInit => NewestPlays /\ OldIsQuiet
    BY DEF AlertInit, NewestPlays, OldIsQuiet
  <2> QED BY <2>1, AlertBegins
<1>2. AlertInv /\ NewestPlays /\ OldIsQuiet /\ [AlertNext]_alertVars => AlertInv' /\ NewestPlays' /\ OldIsQuiet'
  BY AlertStepKeeps, NewestKept
<1>3. AlertInv /\ OldIsQuiet => AlertKept
  BY DEF AlertInv, AlertKept
<1> QED BY <1>1, <1>2, <1>3, PTL DEF AlertSpec

-----------------------------------------------------------------------------
(***************************************************************************)
(* The runtime.  OneRuntime follows from LockHeld: who is past the lock     *)
(* holds the flock, also after somebody died.  OnlyOwnerSignalled follows   *)
(* from PidOwner.  The two properties of what is left behind follow from    *)
(* CleanSoFar: what a clean-up has removed stays away until it returns,     *)
(* unless docker refused it or something overtook it; BootOff says where a  *)
(* start-up goroutine may still be.  BarrelHasToken needs TokenBefore: a    *)
(* cli that starts its barrel has its token there.                          *)
(***************************************************************************)
UpPlaces == {"idle", "refused", "locked", "owner", "loading", "cancelled", "main",
             "barrels", "proxy", "release", "ended"}
DownPlaces == {"idle", "term", "waiting", "kill", "killed", "failed",
               "barrels", "proxy", "networks", "state", "release", "ended"}
CliPlaces == {"idle", "token", "run", "inside", "ended"}
PlacesOK ==
  /\ upAt \in [Ups -> UpPlaces] /\ downAt \in [Downs -> DownPlaces] /\ cliAt \in [Clis -> CliPlaces]
  /\ termed \in [Ups -> BOOLEAN]

LockHeld ==
  /\ \A u \in Ups : Alive(u) => flockHolder = u
  /\ \A d \in Downs : CleansUp(d) => flockHolder = d

BootOff == \A u \in Ups : boot[u] # "off" => upAt[u] \in {"loading", "cancelled", "release", "ended"}

PidOwner ==
  pidInFile # NoProc =>
    \/ pidInFile = flockHolder
    \/ /\ upAt[pidInFile] = "ended"
       /\ flockHolder = NoProc \/ (flockHolder \in Ups /\ upAt[flockHolder] = "locked")

CleanSoFar ==
  ~raced =>
    /\ \A d \in Downs :
         /\ downAt[d] \in {"proxy", "networks", "state", "release"} => ~barrel \/ "barrel" \in refused[d]
         /\ downAt[d] \in {"networks", "state", "release"} => proxy = "none" \/ "proxy" \in refused[d]
         /\ downAt[d] \in {"state", "release"} => ~networks \/ "networks" \in refused[d]
         /\ downAt[d] = "release" => ~token \/ "token" \in refused[d]
    /\ \A u \in Ups :
         /\ upAt[u] = "proxy" => ~barrel \/ "barrel" \in refused[u]
         /\ upAt[u] = "release" => proxy = "none" \/ "proxy" \in refused[u] \/ u \in late

TokenBefore ==
  ~raced => /\ \A c \in Clis : cliAt[c] = "run" => token
            /\ \A c, e \in Clis : cliAt[c] = "run" /\ cliAt[e] = "run" => c = e

RuntimeInv ==
  /\ RuntimeTypeOK /\ PlacesOK /\ LockHeld /\ PidOwner /\ BootOff
  /\ CleanSoFar /\ TokenBefore /\ BarrelHasToken

LEMMA RuntimeBegins == RuntimeInit => RuntimeInv
<1> SUFFICES ASSUME RuntimeInit PROVE RuntimeInv
  OBVIOUS
<1>1. RuntimeTypeOK
  BY DEF RuntimeInit, RuntimeTypeOK, Boots
<1>2. PlacesOK
  BY DEF RuntimeInit, PlacesOK, UpPlaces, DownPlaces, CliPlaces
<1>3. LockHeld /\ PidOwner /\ BootOff /\ CleanSoFar /\ TokenBefore /\ BarrelHasToken
  BY DEF RuntimeInit, LockHeld, PidOwner, BootOff, CleanSoFar, TokenBefore, BarrelHasToken, Alive, CleansUp
<1> QED BY <1>1, <1>2, <1>3 DEF RuntimeInv

(* Steps of cooper up and of its death that touch no container: they move   *)
(* the lock, and nobody is left at a place where a clean-up has done its     *)
(* part who was not there before.                                           *)
LEMMA UpKeepsAll ==
  ASSUME RuntimeInv, NEW u \in Ups,
         \/ AcquireUpLock(u) \/ WritePID(u) \/ CheckRuntime(u) \/ StartServices(u) \/ MainStarts(u)
         \/ CancelLoading(u) \/ LeaveMain(u) \/ SignalLeavesMain(u) \/ EndUp(u) \/ Crash(u)
  PROVE  RuntimeInv'
<1> USE RuntimeAssumption
    DEF RuntimeInv, AcquireUpLock, WritePID, CheckRuntime, StartServices, MainStarts, Cancels,
        CancelLoading, LeaveMain, SignalLeavesMain, EndUp, Crash, Release, Dies, UpGoes, BootGoes, Onward,
        BootKeeps, Booting, sharedVars
<1>1. RuntimeTypeOK'
  BY DEF RuntimeTypeOK, PlacesOK, Boots
<1>2. PlacesOK'
  BY DEF PlacesOK, UpPlaces
<1>3. LockHeld'
  BY DEF PlacesOK, LockHeld, RuntimeTypeOK, Alive, CleansUp, Loading
<1>4. PidOwner'
  BY DEF PlacesOK, LockHeld, PidOwner, RuntimeTypeOK, Alive, Loading
<1>5. BootOff'
  BY DEF PlacesOK, BootOff, RuntimeTypeOK, Alive, Loading
<1>6. /\ UNCHANGED <<proxy, networks, barrel, token, raced, refused, late, downAt, cliAt>>
      /\ \A v \in Ups : upAt'[v] \in {"proxy", "release"} => upAt'[v] = upAt[v]
  BY DEF PlacesOK, Loading
<1>7. CleanSoFar' /\ TokenBefore' /\ BarrelHasToken'
  BY <1>6 DEF CleanSoFar, TokenBefore, BarrelHasToken
<1> QED BY <1>1, <1>2, <1>3, <1>4, <1>5, <1>7

(* The goroutine of the loading screen, which may outlive it: who begins a  *)
(* docker run without the loading screen is late.  While cooper up lives it *)
(* has the lock, so no other process is in its clean-up.                    *)
LEMMA BootKeepsAll ==
  ASSUME RuntimeInv, NEW u \in Ups,
         EnsureNetworks(u) \/ PrepareProxy(u) \/ RunProxy(u) \/ ConnectProxy(u)
  PROVE  RuntimeInv'
<1> USE DEF RuntimeInv, EnsureNetworks, PrepareProxy, RunProxy, ConnectProxy, Booting, BootGoes, Onward, BootKeeps
<1>1. RuntimeTypeOK'
  BY DEF RuntimeTypeOK, Boots
<1>2. PlacesOK' /\ LockHeld' /\ PidOwner'
  BY DEF PlacesOK, LockHeld, PidOwner, Alive, CleansUp
<1>3. BootOff'
  BY DEF BootOff, RuntimeTypeOK, Loading
<1>4. Alive(u) => /\ \A d \in Downs : ~CleansUp(d)
                  /\ \A v \in Ups : Alive(v) => v = u
  BY RuntimeAssumption DEF LockHeld
<1>5. /\ Alive(u) \/ raced'
      /\ upAt[u] \in {"loading", "cancelled", "release", "ended"}
  BY DEF BootOff
<1>6. /\ UNCHANGED <<upAt, downAt, cliAt, barrel, token, refused>> /\ (raced => raced') /\ late \subseteq late'
      /\ (proxy = "none" => proxy' = "none" \/ upAt[u] # "release" \/ u \in late')
  BY DEF RuntimeTypeOK
<1>7. CleanSoFar'
  <2>1. CASE raced'
    BY <2>1 DEF CleanSoFar
  <2>2. CASE ~raced'
    <3>1. Alive(u) /\ ~raced
      BY <2>2, <1>5, <1>6
    <3>2. \A d \in Downs : downAt'[d] \notin {"barrels", "proxy", "networks", "state", "release"}
      BY <3>1, <1>4, <1>6 DEF CleansUp
    <3>3. \A v \in Ups : upAt[v] \in {"proxy", "release"} => v = u
      BY <3>1, <1>4 DEF Alive
    <3>4. upAt[u] = "release" => proxy = "none" \/ "proxy" \in refused[u] \/ u \in late
      BY <3>1 DEF CleanSoFar
    <3>5. upAt[u] = "release" => proxy' = "none" \/ "proxy" \in refused'[u] \/ u \in late'
      BY <3>4, <1>6
    <3> QED BY <3>2, <3>3, <3>5, <1>5, <1>6 DEF CleanSoFar
  <2> QED BY <2>1, <2>2
<1>8. TokenBefore' /\ BarrelHasToken'
  BY <1>6 DEF TokenBefore, BarrelHasToken
<1> QED BY <1>1, <1>2, <1>3, <1>7, <1>8

(* cooper up cleans up.                                                     *)
LEMMA UpCleansUp ==
  ASSUME RuntimeInv, NEW u \in Ups, CleanupServices(u) \/ StopBarrels(u) \/ StopProxy(u)
  PROVE  RuntimeInv'
<1> USE RuntimeAssumption
    DEF RuntimeInv, CleanupServices, StopBarrels, StopProxy, UpGoes, Obeyed, Refuses, Fails
<1>1. RuntimeTypeOK'
  <2>1. refused' \in [Ups \cup Downs -> SUBSET {"barrel", "proxy", "networks", "token"}]
    BY DEF RuntimeTypeOK
  <2>2. raced' \in BOOLEAN
    BY DEF RuntimeTypeOK, Overtakes
  <2> QED BY <2>1, <2>2 DEF RuntimeTypeOK
<1>2. PlacesOK'
  BY DEF PlacesOK, UpPlaces
<1>3. LockHeld' /\ PidOwner'
  BY DEF PlacesOK, LockHeld, PidOwner, Alive, CleansUp, RuntimeTypeOK
<1>4. BootOff'
  BY DEF PlacesOK, BootOff
<1>5. /\ UNCHANGED <<networks, downAt, cliAt, late>> /\ (raced => raced')
      /\ \A p \in Ups \cup Downs : refused[p] \subseteq refused'[p]
      /\ barrel' = FALSE \/ barrel' = barrel
      /\ proxy' = "none" \/ proxy' = proxy
      /\ token' => token
      /\ \A v \in Ups : v # u => upAt'[v] = upAt[v]
  BY DEF PlacesOK, RuntimeTypeOK, Overtakes
<1>6. CleanSoFar'
  <2>1. /\ upAt'[u] = "proxy" => ~barrel' \/ "barrel" \in refused'[u]
        /\ upAt'[u] = "release" => proxy' = "none" \/ "proxy" \in refused'[u]
    BY DEF PlacesOK, RuntimeTypeOK
  <2> QED BY <1>5, <2>1 DEF CleanSoFar
<1>7. /\ token' = token \/ raced' \/ \A c \in Clis : cliAt[c] # "run"
      /\ barrel' = FALSE \/ UNCHANGED <<barrel, token>>
  <2>1. CASE CleanupServices(u) \/ StopProxy(u)
    BY <2>1
  <2>2. CASE StopBarrels(u) /\ CliInFlight
    BY <2>2 DEF Overtakes
  <2>3. CASE StopBarrels(u) /\ ~CliInFlight
    BY <2>3 DEF Overtakes, CliInFlight
  <2> QED BY <2>1, <2>2, <2>3
<1>8. TokenBefore' /\ BarrelHasToken'
  BY <1>5, <1>7 DEF TokenBefore, BarrelHasToken
<1> QED BY <1>1, <1>2, <1>3, <1>4, <1>6, <1>8

(* cooper down takes the lock: nobody had it, so nobody is past it.         *)
LEMMA DownWaits ==
  ASSUME RuntimeInv, NEW d \in Downs,
         DownStarts(d) \/ SendTerm(d) \/ LockComesFree(d) \/ WaitTimesOut(d) \/ SendKill(d)
  PROVE  RuntimeInv'
<1> USE RuntimeAssumption
    DEF RuntimeInv, DownStarts, SendTerm, LockComesFree, WaitTimesOut, SendKill, TakeLock, DownGoes, DownKeeps,
        Dies, Cancels, UpGoes, BootGoes, sharedVars
<1>1. RuntimeTypeOK'
  BY DEF RuntimeTypeOK, Boots
<1>2. PlacesOK'
  BY DEF PlacesOK, UpPlaces, DownPlaces
<1>3. LockHeld'
  BY DEF PlacesOK, LockHeld, RuntimeTypeOK, Alive, CleansUp, Loading
<1>4. PidOwner'
  BY DEF PlacesOK, LockHeld, PidOwner, RuntimeTypeOK, Alive, Loading
<1>5. BootOff'
  BY DEF PlacesOK, BootOff, RuntimeTypeOK, Loading
<1>6. /\ UNCHANGED <<proxy, networks, barrel, token, raced, refused, late, cliAt>>
      /\ \A v \in Ups : upAt'[v] \in {"proxy", "release"} => upAt'[v] = upAt[v]
      /\ \A e \in Downs : /\ downAt'[e] \in {"proxy", "networks", "state", "release"} => downAt'[e] = downAt[e]
                          /\ downAt[e] \in {"release", "failed"} => downAt'[e] = downAt[e]
  BY DEF PlacesOK, Loading
<1>7. CleanSoFar' /\ TokenBefore' /\ BarrelHasToken'
  BY <1>6 DEF CleanSoFar, TokenBefore, BarrelHasToken
<1> QED BY <1>1, <1>2, <1>3, <1>4, <1>5, <1>7

(* cooper down cleans up.                                                   *)
LEMMA DownCleansUp ==
  ASSUME RuntimeInv, NEW d \in Downs,
         \/ DownStopsBarrels(d) \/ DownStopsProxy(d) \/ DownRemovesNetworks(d)
         \/ DownRemovesState(d) \/ DownEnds(d)
  PROVE  RuntimeInv'
<1> USE RuntimeAssumption
    DEF RuntimeInv, DownStopsBarrels, DownStopsProxy, DownRemovesNetworks, DownRemovesState, DownEnds,
        DownGoes, DownKeeps, Obeyed, Refuses, Fails
<1>1. RuntimeTypeOK'
  <2>1. refused' \in [Ups \cup Downs -> SUBSET {"barrel", "proxy", "networks", "token"}]
    BY DEF RuntimeTypeOK
  <2>2. raced' \in BOOLEAN
    BY DEF RuntimeTypeOK, Overtakes
  <2> QED BY <2>1, <2>2 DEF RuntimeTypeOK
<1>2. PlacesOK'
  BY DEF PlacesOK, DownPlaces
<1>3. LockHeld' /\ PidOwner'
  BY DEF PlacesOK, LockHeld, PidOwner, Alive, CleansUp, RuntimeTypeOK
<1>4. BootOff'
  BY DEF BootOff
<1>5. /\ UNCHANGED <<upAt, cliAt, late>> /\ (raced => raced')
      /\ \A p \in Ups \cup Downs : refused[p] \subseteq refused'[p]
      /\ barrel' = FALSE \/ barrel' = barrel
      /\ proxy' = "none" \/ proxy' = proxy
      /\ networks' = FALSE \/ networks' = networks
      /\ token' = FALSE \/ token' = token
      /\ \A e \in Downs : e # d => downAt'[e] = downAt[e]
  BY DEF PlacesOK, RuntimeTypeOK, Overtakes
<1>6. CleanSoFar'
  <2>1. ~raced =>
          /\ downAt'[d] \in {"proxy", "networks", "state", "release"} => ~barrel' \/ "barrel" \in refused'[d]
          /\ downAt'[d] \in {"networks", "state", "release"} => proxy' = "none" \/ "proxy" \in refused'[d]
          /\ downAt'[d] \in {"state", "release"} => ~networks' \/ "networks" \in refused'[d]
          /\ downAt'[d] = "release" => ~token' \/ "token" \in refused'[d]
    BY DEF PlacesOK, CleanSoFar, RuntimeTypeOK
  <2> QED BY <1>5, <2>1 DEF CleanSoFar
<1>7. TokenBefore'
  <2>1. token' = token \/ raced' \/ \A c \in Clis : cliAt[c] # "run"
    <3>1. CASE DownRemovesState(d) /\ CliInFlight
      BY <3>1 DEF Overtakes
    <3>2. CASE DownRemovesState(d) /\ ~CliInFlight
      BY <3>2 DEF Overtakes, CliInFlight
    <3> QED BY <3>1, <3>2
  <2> QED BY <1>5, <2>1 DEF TokenBefore
<1>8. BarrelHasToken'
  <2>1. DownRemovesState(d) => downAt'[d] = "release" /\ (~raced => ~barrel \/ "barrel" \in refused[d])
    BY DEF PlacesOK, CleanSoFar
  <2>2. downAt[d] \in {"release", "failed"} /\ "barrel" \in refused[d] => downAt'[d] \in {"release", "failed"}
    BY DEF PlacesOK
  <2>3. token' = token \/ DownRemovesState(d)
    OBVIOUS
  <2> SUFFICES ASSUME barrel', ~raced'
               PROVE  token' \/ \E e \in Downs : "barrel" \in refused'[e] /\ downAt'[e] \in {"release", "failed"}
    BY DEF BarrelHasToken
  <2>4. barrel /\ ~raced
    BY <1>5
  <2>5. CASE DownRemovesState(d)
    BY <1>5, <2>1, <2>4, <2>5
  <2>6. CASE token
    BY <2>3, <2>5, <2>6
  <2>7. CASE \E e \in Downs : "barrel" \in refused[e] /\ downAt[e] \in {"release", "failed"}
    <3> PICK e \in Downs : "barrel" \in refused[e] /\ downAt[e] \in {"release", "failed"}
      BY <2>7
    <3>1. "barrel" \in refused'[e] /\ downAt'[e] \in {"release", "failed"}
      BY <1>5, <2>2
    <3> QED BY <3>1
  <2> QED BY <2>4, <2>6, <2>7 DEF BarrelHasToken
<1> QED BY <1>1, <1>2, <1>3, <1>4, <1>6, <1>7, <1>8

(* cooper cli: what it does while somebody cleans up, or another cli starts *)
(* the same barrel, overtakes.                                              *)
LEMMA CliKeepsAll ==
  ASSUME RuntimeInv, NEW c \in Clis,
         CliChecks(c) \/ CliWritesToken(c) \/ CliStartsBarrel(c) \/ CliLeaves(c)
  PROVE  RuntimeInv'
<1> USE DEF RuntimeInv, CliChecks, CliWritesToken, CliStartsBarrel, CliLeaves, CliGoes, CliKeeps
<1>1. RuntimeTypeOK'
  BY DEF RuntimeTypeOK, BehindBack
<1>2. PlacesOK'
  BY DEF PlacesOK, CliPlaces
<1>3. LockHeld' /\ PidOwner' /\ BootOff'
  BY DEF LockHeld, PidOwner, BootOff, Alive, CleansUp
<1>4. CleanSoFar'
  <2>1. CASE CliChecks(c) \/ CliLeaves(c)
    BY <2>1 DEF CleanSoFar
  <2>2. CASE CliWritesToken(c) \/ CliStartsBarrel(c)
    <3>1. raced' \/ ~Cleaning
      BY <2>2 DEF BehindBack
    <3>2. UNCHANGED <<proxy, networks, upAt, downAt, refused, late>> /\ (raced => raced')
      BY <2>2 DEF BehindBack
    <3> QED BY <3>1, <3>2 DEF CleanSoFar, Cleaning, CleansUp
  <2> QED BY <2>1, <2>2
<1>5. TokenBefore'
  <2>1. CASE CliChecks(c) \/ CliLeaves(c)
    BY <2>1 DEF PlacesOK, TokenBefore
  <2>2. CASE CliWritesToken(c)
    BY <2>2 DEF PlacesOK, TokenBefore, BehindBack
  <2>3. CASE CliStartsBarrel(c)
    <3>1. /\ (raced => raced') /\ cliAt'[c] # "run"
          /\ \A other \in Clis \ {c} : cliAt'[other] = cliAt[other] /\ (cliAt[other] # "run" \/ raced')
      BY <2>3 DEF PlacesOK, BehindBack
    <3> QED BY <3>1 DEF TokenBefore
  <2> QED BY <2>1, <2>2, <2>3
<1>6. BarrelHasToken'
  BY DEF TokenBefore, BarrelHasToken, BehindBack
<1> QED BY <1>1, <1>2, <1>3, <1>4, <1>5, <1>6

LEMMA RuntimeStepKeeps == RuntimeInv /\ [RuntimeNext]_runtimeVars => RuntimeInv'
<1> SUFFICES ASSUME RuntimeInv, [RuntimeNext]_runtimeVars PROVE RuntimeInv'
  OBVIOUS
<1>1. CASE UNCHANGED runtimeVars
  BY <1>1 DEF runtimeVars, sharedVars, RuntimeInv, RuntimeTypeOK, PlacesOK, LockHeld, PidOwner, BootOff, CleanSoFar, TokenBefore,
              BarrelHasToken, Alive, CleansUp
<1>2. CASE RuntimeNext
  BY <1>2, UpKeepsAll, BootKeepsAll, UpCleansUp, DownWaits, DownCleansUp, CliKeepsAll
     DEF RuntimeNext, UpStep, DownStep
<1> QED BY <1>1, <1>2

(* One runtime at a time, whoever dies or is killed; a pid that is signalled *)
(* is the owner's or that of a process that ended; a barrel that runs has a  *)
(* token unless a down failed to stop it; a down that reports no error       *)
(* leaves nothing; and an up leaves containers only where docker refused it  *)
(* the stop or its own docker run was done after its clean-up (runUp,        *)
(* runDown and runCLI of main.go, runtime_lock.go).                          *)
THEOREM RuntimeIsSound == RuntimeSpec => RuntimeSound
<1>1. RuntimeInv => RuntimeTypeOK /\ OneRuntime /\ BarrelHasToken
  BY RuntimeAssumption DEF RuntimeInv, LockHeld, OneRuntime, Owning
<1>2. RuntimeInv /\ [RuntimeNext]_runtimeVars =>
        [\A d \in Downs : DownEnds(d) /\ downAt'[d] = "ended" /\ ~raced =>
           proxy = "none" /\ ~barrel /\ ~token /\ ~networks]_runtimeVars
  BY DEF RuntimeInv, CleanSoFar, DownEnds, DownGoes, PlacesOK
<1>3. RuntimeInv /\ [RuntimeNext]_runtimeVars =>
        [\A u \in Ups : ~raced =>
           /\ StopProxy(u) /\ barrel => "barrel" \in refused[u]
           /\ EndUp(u) /\ proxy # "none" => "proxy" \in refused[u] \/ u \in late]_runtimeVars
  BY DEF RuntimeInv, CleanSoFar, StopProxy, EndUp
<1>4. RuntimeInv /\ [RuntimeNext]_runtimeVars =>
        [\A d \in Downs : DownStarts(d) /\ downAt'[d] = "term" =>
           \/ victim'[d] = flockHolder
           \/ upAt[victim'[d]] = "ended" /\ flockHolder \in Ups /\ upAt[flockHolder] = "locked"]_runtimeVars
  BY DEF RuntimeInv, PidOwner, DownStarts, TakeLock, DownGoes, PlacesOK, RuntimeTypeOK
<1>5. RuntimeSpec => [](RuntimeTypeOK /\ OneRuntime /\ BarrelHasToken)
  BY <1>1, RuntimeBegins, RuntimeStepKeeps, PTL DEF RuntimeSpec
<1>6. RuntimeSpec => DownLeavesNothing
  BY <1>2, RuntimeBegins, RuntimeStepKeeps, PTL DEF RuntimeSpec, DownLeavesNothing
<1>7. RuntimeSpec => UpLeavesNothing
  BY <1>3, RuntimeBegins, RuntimeStepKeeps, PTL DEF RuntimeSpec, UpLeavesNothing
<1>8. RuntimeSpec => OnlyOwnerSignalled
  BY <1>4, RuntimeBegins, RuntimeStepKeeps, PTL DEF RuntimeSpec, OnlyOwnerSignalled
<1> QED BY <1>5, <1>6, <1>7, <1>8 DEF RuntimeSound

(***************************************************************************)
(* The clipboard.  A request that is let in was known when it began, since  *)
(* a token that was in no file then is in none later: the tokens that come  *)
(* are new ones (RequestsKnown).  Accesses are counted from nought, since   *)
(* nothing is delivered of a snapshot to come (Undelivered).  A barrel that *)
(* restarts or stops alone is in the state its operation needs (InOrder).   *)
(***************************************************************************)
RequestRec ==
  [at : {"idle", "asked", "matched", "admitted", "taken", "answered"}, barrel : Barrels \cup {"none"},
   token : Nat, known : BOOLEAN, snapshot : Nat, stale : BOOLEAN]
ImageTypes ==
  /\ stages \in 0..MaxStages /\ expired \in BOOLEAN /\ delivered \in [1..MaxStages -> Nat]
  /\ current \in [id : Nat, accesses : Nat] /\ current.id \in 0..stages
RequestTypes == request \in [Programs -> RequestRec]
BarrelTypes ==
  /\ tokens \in Nat /\ tokenFile \in [Barrels -> 0..tokens] /\ inside \in [Barrels -> 0..tokens]
  /\ restarting \subseteq Barrels /\ revoking \subseteq Barrels /\ crossed \subseteq Barrels
  /\ up \in [Barrels -> BOOLEAN]
RequestsKnown ==
  \A w \in Programs :
    /\ request[w].at = "asked" => request[w].token \in 1..tokens
    /\ request[w].at = "asked" /\ ~request[w].known => \A c \in Barrels : tokenFile[c] # request[w].token
    /\ request[w].at \in {"matched", "admitted", "taken"} => request[w].known
Undelivered ==
  /\ current.id = Nil => current = NoSnapshot
  /\ \A n \in (stages + 1)..MaxStages : delivered[n] = 0
  /\ \A w \in Programs : request[w].at = "taken" => request[w].snapshot \in 1..stages
InOrder ==
  \A b \in Barrels \ crossed :
    /\ up[b] => inside[b] # NoToken
    /\ b \in restarting => b \notin revoking /\ up[b] /\ tokenFile[b] = inside[b]
    /\ b \in revoking => ~up[b]

ClipboardInv ==
  /\ ImageTypes /\ RequestTypes /\ BarrelTypes /\ RequestsKnown /\ Undelivered /\ InOrder
  /\ AccessesCounted /\ OldTokensRefused /\ TokenFollowsBarrel

(* A request goes on to a place, or ends with an answer. *)
LEMMA RequestGoes ==
  ASSUME RequestTypes, NEW w \in Programs, NEW place \in {"matched", "admitted"}, Goes(w, place)
  PROVE  /\ RequestTypes' /\ \A q \in Programs \ {w} : request'[q] = request[q]
         /\ request'[w].at = place /\ request'[w].barrel = request[w].barrel /\ request'[w].token = request[w].token
         /\ request'[w].known = request[w].known /\ request'[w].snapshot = request[w].snapshot
<1>1. request[w] \in RequestRec
  BY DEF RequestTypes
<1> DEFINE r == [request[w] EXCEPT !.at = place]
<1>2. /\ r \in RequestRec /\ r.at = place /\ r.barrel = request[w].barrel /\ r.token = request[w].token
      /\ r.known = request[w].known /\ r.snapshot = request[w].snapshot
  BY <1>1 DEF RequestRec
<1>3. request' = [request EXCEPT ![w] = r]
  BY DEF Goes
<1> HIDE DEF r
<1> QED BY <1>2, <1>3 DEF RequestTypes

LEMMA RequestEnds ==
  ASSUME RequestTypes, NEW w \in Programs, Answer(w)
  PROVE  RequestTypes' /\ request'[w].at = "answered" /\ \A q \in Programs \ {w} : request'[q] = request[q]
<1> DEFINE r == [NoRequest EXCEPT !.at = "answered"]
<1>1. r \in RequestRec /\ r.at = "answered"
  BY DEF RequestRec, NoRequest, NoToken, Nil
<1>2. request' = [request EXCEPT ![w] = r]
  BY DEF Answer
<1> HIDE DEF r
<1> QED BY <1>1, <1>2 DEF RequestTypes

(* handleImage takes the snapshot that is current, or answers without one. *)
LEMMA SnapshotTaken ==
  ASSUME ImageTypes, RequestTypes, Undelivered, NEW w \in Programs, TakeSnapshot(w)
  PROVE  /\ RequestTypes' /\ request[w].at = "admitted" /\ \A q \in Programs \ {w} : request'[q] = request[q]
         /\ \/ request'[w].at = "answered"
            \/ /\ request'[w].at = "taken" /\ request'[w].snapshot = current.id /\ current.id # Nil
               /\ request'[w].known = request[w].known /\ request'[w].barrel = request[w].barrel
<1>1. request[w].at = "admitted"
  BY DEF TakeSnapshot
<1>2. CASE current = NoSnapshot \/ expired
  BY <1>1, <1>2, RequestEnds DEF TakeSnapshot
<1>3. CASE ~(current = NoSnapshot \/ expired)
  <2> DEFINE r == [request[w] EXCEPT !.at = "taken", !.snapshot = current.id]
  <2>1. request[w] \in RequestRec /\ current.id \in Nat
    BY DEF RequestTypes, ImageTypes
  <2>2. /\ r \in RequestRec /\ r.at = "taken" /\ r.snapshot = current.id
        /\ r.known = request[w].known /\ r.barrel = request[w].barrel
    BY <2>1 DEF RequestRec
  <2>3. request' = [request EXCEPT ![w] = r]
    BY <1>3 DEF TakeSnapshot
  <2>4. current.id # Nil
    BY <1>3 DEF Undelivered
  <2> HIDE DEF r
  <2> QED BY <1>1, <2>2, <2>3, <2>4 DEF RequestTypes
<1> QED BY <1>2, <1>3

(* Each request, operation and tick, one by one: types. *)
LEMMA KeptImageTypes == ASSUME ClipboardInv, ClipboardNext PROVE ImageTypes'
<1> USE DEF ClipboardInv, imageVars, barrelVars, NoSnapshot, NoRequest, Nil, NoToken
<1>1. ASSUME Clear PROVE ImageTypes'
  <2>1. /\ current' \in [id : Nat, accesses : Nat] /\ current'.id = 0
        /\ expired' \in BOOLEAN /\ UNCHANGED <<stages, delivered>>
    BY <1>1 DEF Clear
  <2> QED BY <2>1, ClipboardAssumption DEF ImageTypes
<1>2. ASSUME Expire PROVE ImageTypes'
  BY <1>2, ClipboardAssumption DEF Expire, ImageTypes
<1>3. ASSUME NEW image \in Images, NEW limit \in Limits, Stage(image, limit) PROVE ImageTypes'
  <2>1. stages \in Nat /\ stages' = stages + 1 /\ stages < MaxStages
    BY <1>3, ClipboardAssumption DEF Stage, ImageTypes
  <2>2. current' \in [id : Nat, accesses : Nat] /\ current'.id = stages'
    BY <1>3, <2>1 DEF Stage
  <2>3. expired' \in BOOLEAN /\ UNCHANGED delivered
    BY <1>3 DEF Stage
  <2> QED BY <2>1, <2>2, <2>3, ClipboardAssumption DEF ImageTypes
<1>4. ASSUME NEW w \in Programs, NEW b \in Barrels, Ask(w, b) PROVE ImageTypes'
  BY <1>4, ClipboardAssumption DEF Ask, ImageTypes
<1>5. ASSUME NEW w \in Programs, MatchToken(w) PROVE ImageTypes'
  BY <1>5, ClipboardAssumption DEF MatchToken, Answer, Goes, ImageTypes
<1>6. ASSUME NEW w \in Programs, InspectContainer(w) PROVE ImageTypes'
  BY <1>6, ClipboardAssumption DEF InspectContainer, Answer, Goes, ImageTypes
<1>7. ASSUME NEW w \in Programs, OtherEndpoint(w) PROVE ImageTypes'
  BY <1>7, ClipboardAssumption DEF OtherEndpoint, Answer, ImageTypes
<1>8. ASSUME NEW w \in Programs, TakeSnapshot(w) PROVE ImageTypes'
  BY <1>8, ClipboardAssumption DEF TakeSnapshot, Answer, ImageTypes
<1>9. ASSUME NEW w \in Programs, Touch(w) PROVE ImageTypes'
  <2>1. /\ current' = IF current.id = request[w].snapshot THEN [current EXCEPT !.accesses = @ + 1] ELSE current
        /\ delivered' = [delivered EXCEPT ![request[w].snapshot] = @ + 1] /\ UNCHANGED <<expired, stages>>
    BY <1>9 DEF Touch
  <2>2. current' \in [id : Nat, accesses : Nat] /\ current'.id = current.id
    BY <2>1 DEF ImageTypes
  <2>3. delivered' \in [1..MaxStages -> Nat]
    <3>1. \A n \in 1..MaxStages : delivered[n] \in Nat /\ delivered[n] + 1 \in Nat
      BY DEF ImageTypes
    <3> QED BY <2>1, <3>1 DEF ImageTypes
  <2> QED BY <2>1, <2>2, <2>3 DEF ImageTypes
<1>10. ASSUME NEW b \in Barrels, StartBarrel(b) PROVE ImageTypes'
  BY <1>10, ClipboardAssumption DEF StartBarrel, Crosses, NewToken, ImageTypes
<1>11. ASSUME NEW b \in Barrels, RestartBarrel(b) PROVE ImageTypes'
  BY <1>11, ClipboardAssumption DEF RestartBarrel, Crosses, ImageTypes
<1>12. ASSUME NEW b \in Barrels, RotateToken(b) PROVE ImageTypes'
  BY <1>12, ClipboardAssumption DEF RotateToken, NewToken, ImageTypes
<1>13. ASSUME NEW b \in Barrels, StopBarrel(b) PROVE ImageTypes'
  BY <1>13, ClipboardAssumption DEF StopBarrel, Crosses, ImageTypes
<1>14. ASSUME NEW b \in Barrels, RevokeToken(b) PROVE ImageTypes'
  BY <1>14, ClipboardAssumption DEF RevokeToken, ImageTypes
<1> QED BY <1>1, <1>2, <1>3, <1>4, <1>5, <1>6, <1>7, <1>8, <1>9, <1>10, <1>11, <1>12, <1>13, <1>14 DEF ClipboardNext, RequestStep

LEMMA KeptRequestTypes == ASSUME ClipboardInv, ClipboardNext PROVE RequestTypes'
<1> USE DEF ClipboardInv, imageVars, barrelVars, NoSnapshot, NoRequest, Nil, NoToken
<1>1. ASSUME Clear PROVE RequestTypes'
  BY <1>1 DEF Clear, RequestTypes, RequestRec, ImageTypes, BarrelTypes
<1>2. ASSUME Expire PROVE RequestTypes'
  BY <1>2 DEF Expire, RequestTypes, RequestRec, ImageTypes, BarrelTypes
<1>3. ASSUME NEW image \in Images, NEW limit \in Limits, Stage(image, limit) PROVE RequestTypes'
  BY <1>3 DEF Stage, RequestTypes, RequestRec, ImageTypes, BarrelTypes
<1>4. ASSUME NEW w \in Programs, NEW b \in Barrels, Ask(w, b) PROVE RequestTypes'
  <2> DEFINE r == [NoRequest EXCEPT !.at = "asked", !.barrel = b, !.token = inside[b],
                                    !.known = \E c \in Barrels : tokenFile[c] = inside[b]]
  <2>1. inside[b] \in Nat
    BY DEF BarrelTypes
  <2>2. r \in RequestRec
    BY <2>1 DEF RequestRec
  <2>3. request' = [request EXCEPT ![w] = r]
    BY <1>4 DEF Ask
  <2> HIDE DEF r
  <2> QED BY <2>2, <2>3 DEF RequestTypes
<1>5. ASSUME NEW w \in Programs, MatchToken(w) PROVE RequestTypes'
  <2>1. Answer(w) \/ (Goes(w, "matched") /\ \E c \in Barrels : tokenFile[c] = request[w].token)
    BY <1>5 DEF MatchToken
  <2>2. UNCHANGED <<imageVars, barrelVars>> /\ request[w].at = "asked"
    BY <1>5 DEF MatchToken
  <2> QED BY <2>1, <2>2, RequestGoes, RequestEnds DEF RequestTypes
<1>6. ASSUME NEW w \in Programs, InspectContainer(w) PROVE RequestTypes'
  <2>1. Answer(w) \/ (Goes(w, "admitted") /\ request[w].barrel \notin off)
    BY <1>6 DEF InspectContainer
  <2>2. UNCHANGED <<imageVars, barrelVars>> /\ request[w].at = "matched"
    BY <1>6 DEF InspectContainer
  <2> QED BY <2>1, <2>2, RequestGoes, RequestEnds DEF RequestTypes
<1>7. ASSUME NEW w \in Programs, OtherEndpoint(w) PROVE RequestTypes'
  BY <1>7 DEF OtherEndpoint, Answer, RequestTypes, RequestRec, ImageTypes, BarrelTypes
<1>8. ASSUME NEW w \in Programs, TakeSnapshot(w) PROVE RequestTypes'
  <2> QED BY <1>8, SnapshotTaken
<1>9. ASSUME NEW w \in Programs, Touch(w) PROVE RequestTypes'
  BY <1>9 DEF Touch, Answer, RequestTypes, RequestRec, ImageTypes, BarrelTypes
<1>10. ASSUME NEW b \in Barrels, StartBarrel(b) PROVE RequestTypes'
  BY <1>10 DEF StartBarrel, Crosses, NewToken, RequestTypes, RequestRec, ImageTypes, BarrelTypes
<1>11. ASSUME NEW b \in Barrels, RestartBarrel(b) PROVE RequestTypes'
  BY <1>11 DEF RestartBarrel, Crosses, RequestTypes, RequestRec, ImageTypes, BarrelTypes
<1>12. ASSUME NEW b \in Barrels, RotateToken(b) PROVE RequestTypes'
  BY <1>12 DEF RotateToken, NewToken, RequestTypes, RequestRec, ImageTypes, BarrelTypes
<1>13. ASSUME NEW b \in Barrels, StopBarrel(b) PROVE RequestTypes'
  BY <1>13 DEF StopBarrel, Crosses, RequestTypes, RequestRec, ImageTypes, BarrelTypes
<1>14. ASSUME NEW b \in Barrels, RevokeToken(b) PROVE RequestTypes'
  BY <1>14 DEF RevokeToken, RequestTypes, RequestRec, ImageTypes, BarrelTypes
<1> QED BY <1>1, <1>2, <1>3, <1>4, <1>5, <1>6, <1>7, <1>8, <1>9, <1>10, <1>11, <1>12, <1>13, <1>14 DEF ClipboardNext, RequestStep

LEMMA KeptBarrelTypes == ASSUME ClipboardInv, ClipboardNext PROVE BarrelTypes'
<1> USE DEF ClipboardInv, imageVars, barrelVars, NoSnapshot, NoRequest, Nil, NoToken
<1>1. ASSUME Clear PROVE BarrelTypes'
  BY <1>1 DEF Clear, BarrelTypes
<1>2. ASSUME Expire PROVE BarrelTypes'
  BY <1>2 DEF Expire, BarrelTypes
<1>3. ASSUME NEW image \in Images, NEW limit \in Limits, Stage(image, limit) PROVE BarrelTypes'
  BY <1>3 DEF Stage, BarrelTypes
<1>4. ASSUME NEW w \in Programs, NEW b \in Barrels, Ask(w, b) PROVE BarrelTypes'
  BY <1>4 DEF Ask, BarrelTypes
<1>5. ASSUME NEW w \in Programs, MatchToken(w) PROVE BarrelTypes'
  BY <1>5 DEF MatchToken, Answer, Goes, BarrelTypes
<1>6. ASSUME NEW w \in Programs, InspectContainer(w) PROVE BarrelTypes'
  BY <1>6 DEF InspectContainer, Answer, Goes, BarrelTypes
<1>7. ASSUME NEW w \in Programs, OtherEndpoint(w) PROVE BarrelTypes'
  BY <1>7 DEF OtherEndpoint, Answer, BarrelTypes
<1>8. ASSUME NEW w \in Programs, TakeSnapshot(w) PROVE BarrelTypes'
  BY <1>8 DEF TakeSnapshot, Answer, BarrelTypes
<1>9. ASSUME NEW w \in Programs, Touch(w) PROVE BarrelTypes'
  BY <1>9 DEF Touch, Answer, BarrelTypes
<1>10. ASSUME NEW b \in Barrels, StartBarrel(b) PROVE BarrelTypes'
  BY <1>10 DEF StartBarrel, Crosses, NewToken, BarrelTypes
<1>11. ASSUME NEW b \in Barrels, RestartBarrel(b) PROVE BarrelTypes'
  BY <1>11 DEF RestartBarrel, Crosses, BarrelTypes
<1>12. ASSUME NEW b \in Barrels, RotateToken(b) PROVE BarrelTypes'
  BY <1>12 DEF RotateToken, NewToken, BarrelTypes
<1>13. ASSUME NEW b \in Barrels, StopBarrel(b) PROVE BarrelTypes'
  BY <1>13 DEF StopBarrel, Crosses, BarrelTypes
<1>14. ASSUME NEW b \in Barrels, RevokeToken(b) PROVE BarrelTypes'
  BY <1>14 DEF RevokeToken, BarrelTypes
<1> QED BY <1>1, <1>2, <1>3, <1>4, <1>5, <1>6, <1>7, <1>8, <1>9, <1>10, <1>11, <1>12, <1>13, <1>14 DEF ClipboardNext, RequestStep

(* A token that comes is not one that was asked with, and none is nought. *)
LEMMA KeptRequestsKnown == ASSUME ClipboardInv, ClipboardNext PROVE RequestsKnown'
<1> USE DEF ClipboardInv, imageVars, barrelVars, NoSnapshot, NoRequest, Nil, NoToken
<1>1. ASSUME Clear PROVE RequestsKnown'
  BY <1>1 DEF Clear, RequestsKnown, RequestTypes, RequestRec, BarrelTypes
<1>2. ASSUME Expire PROVE RequestsKnown'
  BY <1>2 DEF Expire, RequestsKnown, RequestTypes, RequestRec, BarrelTypes
<1>3. ASSUME NEW image \in Images, NEW limit \in Limits, Stage(image, limit) PROVE RequestsKnown'
  BY <1>3 DEF Stage, RequestsKnown, RequestTypes, RequestRec, BarrelTypes
<1>4. ASSUME NEW w \in Programs, NEW b \in Barrels, Ask(w, b) PROVE RequestsKnown'
  BY <1>4 DEF Ask, RequestsKnown, RequestTypes, RequestRec, BarrelTypes
<1>5. ASSUME NEW w \in Programs, MatchToken(w) PROVE RequestsKnown'
  <2>1. Answer(w) \/ (Goes(w, "matched") /\ \E c \in Barrels : tokenFile[c] = request[w].token)
    BY <1>5 DEF MatchToken
  <2>2. UNCHANGED <<imageVars, barrelVars>> /\ request[w].at = "asked"
    BY <1>5 DEF MatchToken
  <2> QED BY <2>1, <2>2, RequestGoes, RequestEnds DEF RequestsKnown, BarrelTypes
<1>6. ASSUME NEW w \in Programs, InspectContainer(w) PROVE RequestsKnown'
  <2>1. Answer(w) \/ (Goes(w, "admitted") /\ request[w].barrel \notin off)
    BY <1>6 DEF InspectContainer
  <2>2. UNCHANGED <<imageVars, barrelVars>> /\ request[w].at = "matched"
    BY <1>6 DEF InspectContainer
  <2> QED BY <2>1, <2>2, RequestGoes, RequestEnds DEF RequestsKnown, BarrelTypes
<1>7. ASSUME NEW w \in Programs, OtherEndpoint(w) PROVE RequestsKnown'
  BY <1>7 DEF OtherEndpoint, Answer, RequestsKnown, RequestTypes, RequestRec, BarrelTypes
<1>8. ASSUME NEW w \in Programs, TakeSnapshot(w) PROVE RequestsKnown'
  <2> QED BY <1>8, SnapshotTaken DEF RequestsKnown, BarrelTypes, TakeSnapshot
<1>9. ASSUME NEW w \in Programs, Touch(w) PROVE RequestsKnown'
  BY <1>9 DEF Touch, Answer, RequestsKnown, RequestTypes, RequestRec, BarrelTypes
<1>10. ASSUME NEW b \in Barrels, StartBarrel(b) PROVE RequestsKnown'
  BY <1>10 DEF StartBarrel, Crosses, NewToken, RequestsKnown, RequestTypes, RequestRec, BarrelTypes
<1>11. ASSUME NEW b \in Barrels, RestartBarrel(b) PROVE RequestsKnown'
  BY <1>11 DEF RestartBarrel, Crosses, RequestsKnown, RequestTypes, RequestRec, BarrelTypes
<1>12. ASSUME NEW b \in Barrels, RotateToken(b) PROVE RequestsKnown'
  BY <1>12 DEF RotateToken, NewToken, RequestsKnown, RequestTypes, RequestRec, BarrelTypes
<1>13. ASSUME NEW b \in Barrels, StopBarrel(b) PROVE RequestsKnown'
  BY <1>13 DEF StopBarrel, Crosses, RequestsKnown, RequestTypes, RequestRec, BarrelTypes
<1>14. ASSUME NEW b \in Barrels, RevokeToken(b) PROVE RequestsKnown'
  BY <1>14 DEF RevokeToken, RequestsKnown, RequestTypes, RequestRec, BarrelTypes
<1> QED BY <1>1, <1>2, <1>3, <1>4, <1>5, <1>6, <1>7, <1>8, <1>9, <1>10, <1>11, <1>12, <1>13, <1>14 DEF ClipboardNext, RequestStep

(* A new snapshot has the next number; only a taken one is delivered. *)
LEMMA KeptUndelivered == ASSUME ClipboardInv, ClipboardNext PROVE Undelivered'
<1> USE DEF ClipboardInv, imageVars, barrelVars, NoSnapshot, NoRequest, Nil, NoToken
<1>1. ASSUME Clear PROVE Undelivered'
  BY <1>1, ClipboardAssumption DEF Clear, Undelivered, ImageTypes, RequestTypes, RequestRec
<1>2. ASSUME Expire PROVE Undelivered'
  BY <1>2, ClipboardAssumption DEF Expire, Undelivered, ImageTypes, RequestTypes, RequestRec
<1>3. ASSUME NEW image \in Images, NEW limit \in Limits, Stage(image, limit) PROVE Undelivered'
  BY <1>3, ClipboardAssumption DEF Stage, Undelivered, ImageTypes, RequestTypes, RequestRec
<1>4. ASSUME NEW w \in Programs, NEW b \in Barrels, Ask(w, b) PROVE Undelivered'
  BY <1>4, ClipboardAssumption DEF Ask, Undelivered, ImageTypes, RequestTypes, RequestRec
<1>5. ASSUME NEW w \in Programs, MatchToken(w) PROVE Undelivered'
  <2>1. Answer(w) \/ (Goes(w, "matched") /\ \E c \in Barrels : tokenFile[c] = request[w].token)
    BY <1>5 DEF MatchToken
  <2>2. UNCHANGED <<imageVars, barrelVars>> /\ request[w].at = "asked"
    BY <1>5 DEF MatchToken
  <2> QED BY <2>1, <2>2, RequestGoes, RequestEnds DEF Undelivered, ImageTypes
<1>6. ASSUME NEW w \in Programs, InspectContainer(w) PROVE Undelivered'
  <2>1. Answer(w) \/ (Goes(w, "admitted") /\ request[w].barrel \notin off)
    BY <1>6 DEF InspectContainer
  <2>2. UNCHANGED <<imageVars, barrelVars>> /\ request[w].at = "matched"
    BY <1>6 DEF InspectContainer
  <2> QED BY <2>1, <2>2, RequestGoes, RequestEnds DEF Undelivered, ImageTypes
<1>7. ASSUME NEW w \in Programs, OtherEndpoint(w) PROVE Undelivered'
  BY <1>7, ClipboardAssumption DEF OtherEndpoint, Answer, Undelivered, ImageTypes, RequestTypes, RequestRec
<1>8. ASSUME NEW w \in Programs, TakeSnapshot(w) PROVE Undelivered'
  <2>1. UNCHANGED <<current, stages, delivered>>
    BY <1>8 DEF TakeSnapshot
  <2>2. current.id # Nil => current.id \in 1..stages
    BY ClipboardAssumption DEF ImageTypes
  <2>3. \A q \in Programs : request'[q].at = "taken" => request'[q].snapshot \in 1..stages
    BY <1>8, <2>2, SnapshotTaken DEF Undelivered
  <2> QED BY <2>1, <2>3 DEF Undelivered
<1>9. ASSUME NEW w \in Programs, Touch(w) PROVE Undelivered'
  BY <1>9, ClipboardAssumption DEF Touch, Answer, Undelivered, ImageTypes, RequestTypes, RequestRec
<1>10. ASSUME NEW b \in Barrels, StartBarrel(b) PROVE Undelivered'
  BY <1>10, ClipboardAssumption DEF StartBarrel, Crosses, NewToken, Undelivered, ImageTypes, RequestTypes, RequestRec
<1>11. ASSUME NEW b \in Barrels, RestartBarrel(b) PROVE Undelivered'
  BY <1>11, ClipboardAssumption DEF RestartBarrel, Crosses, Undelivered, ImageTypes, RequestTypes, RequestRec
<1>12. ASSUME NEW b \in Barrels, RotateToken(b) PROVE Undelivered'
  BY <1>12, ClipboardAssumption DEF RotateToken, NewToken, Undelivered, ImageTypes, RequestTypes, RequestRec
<1>13. ASSUME NEW b \in Barrels, StopBarrel(b) PROVE Undelivered'
  BY <1>13, ClipboardAssumption DEF StopBarrel, Crosses, Undelivered, ImageTypes, RequestTypes, RequestRec
<1>14. ASSUME NEW b \in Barrels, RevokeToken(b) PROVE Undelivered'
  BY <1>14, ClipboardAssumption DEF RevokeToken, Undelivered, ImageTypes, RequestTypes, RequestRec
<1> QED BY <1>1, <1>2, <1>3, <1>4, <1>5, <1>6, <1>7, <1>8, <1>9, <1>10, <1>11, <1>12, <1>13, <1>14 DEF ClipboardNext, RequestStep

(* A start or a stop that meets a restart or a stop is crossed. *)
LEMMA KeptInOrder == ASSUME ClipboardInv, ClipboardNext PROVE InOrder'
<1> USE DEF ClipboardInv, imageVars, barrelVars, NoSnapshot, NoRequest, Nil, NoToken
<1>1. ASSUME Clear PROVE InOrder'
  BY <1>1 DEF Clear, InOrder, BarrelTypes, TokenFollowsBarrel
<1>2. ASSUME Expire PROVE InOrder'
  BY <1>2 DEF Expire, InOrder, BarrelTypes, TokenFollowsBarrel
<1>3. ASSUME NEW image \in Images, NEW limit \in Limits, Stage(image, limit) PROVE InOrder'
  BY <1>3 DEF Stage, InOrder, BarrelTypes, TokenFollowsBarrel
<1>4. ASSUME NEW w \in Programs, NEW b \in Barrels, Ask(w, b) PROVE InOrder'
  BY <1>4 DEF Ask, InOrder, BarrelTypes, TokenFollowsBarrel
<1>5. ASSUME NEW w \in Programs, MatchToken(w) PROVE InOrder'
  BY <1>5 DEF MatchToken, Answer, Goes, InOrder, BarrelTypes, TokenFollowsBarrel
<1>6. ASSUME NEW w \in Programs, InspectContainer(w) PROVE InOrder'
  BY <1>6 DEF InspectContainer, Answer, Goes, InOrder, BarrelTypes, TokenFollowsBarrel
<1>7. ASSUME NEW w \in Programs, OtherEndpoint(w) PROVE InOrder'
  BY <1>7 DEF OtherEndpoint, Answer, InOrder, BarrelTypes, TokenFollowsBarrel
<1>8. ASSUME NEW w \in Programs, TakeSnapshot(w) PROVE InOrder'
  BY <1>8 DEF TakeSnapshot, Answer, InOrder, BarrelTypes, TokenFollowsBarrel
<1>9. ASSUME NEW w \in Programs, Touch(w) PROVE InOrder'
  BY <1>9 DEF Touch, Answer, InOrder, BarrelTypes, TokenFollowsBarrel
<1>10. ASSUME NEW b \in Barrels, StartBarrel(b) PROVE InOrder'
  BY <1>10 DEF StartBarrel, Crosses, NewToken, InOrder, BarrelTypes, TokenFollowsBarrel
<1>11. ASSUME NEW b \in Barrels, RestartBarrel(b) PROVE InOrder'
  BY <1>11 DEF RestartBarrel, Crosses, InOrder, BarrelTypes, TokenFollowsBarrel
<1>12. ASSUME NEW b \in Barrels, RotateToken(b) PROVE InOrder'
  BY <1>12 DEF RotateToken, NewToken, InOrder, BarrelTypes, TokenFollowsBarrel
<1>13. ASSUME NEW b \in Barrels, StopBarrel(b) PROVE InOrder'
  BY <1>13 DEF StopBarrel, Crosses, InOrder, BarrelTypes, TokenFollowsBarrel
<1>14. ASSUME NEW b \in Barrels, RevokeToken(b) PROVE InOrder'
  BY <1>14 DEF RevokeToken, InOrder, BarrelTypes, TokenFollowsBarrel
<1> QED BY <1>1, <1>2, <1>3, <1>4, <1>5, <1>6, <1>7, <1>8, <1>9, <1>10, <1>11, <1>12, <1>13, <1>14 DEF ClipboardNext, RequestStep

(* Touch counts for the snapshot it delivers, and for no other. *)
LEMMA KeptAccessesCounted == ASSUME ClipboardInv, ClipboardNext PROVE AccessesCounted'
<1> USE DEF ClipboardInv, imageVars, barrelVars, NoSnapshot, NoRequest, Nil, NoToken
<1>1. ASSUME Clear PROVE AccessesCounted'
  BY <1>1, ClipboardAssumption DEF Clear, AccessesCounted, ImageTypes, RequestTypes, RequestRec, Undelivered
<1>2. ASSUME Expire PROVE AccessesCounted'
  BY <1>2, ClipboardAssumption DEF Expire, AccessesCounted, ImageTypes, RequestTypes, RequestRec, Undelivered
<1>3. ASSUME NEW image \in Images, NEW limit \in Limits, Stage(image, limit) PROVE AccessesCounted'
  BY <1>3, ClipboardAssumption DEF Stage, AccessesCounted, ImageTypes, RequestTypes, RequestRec, Undelivered
<1>4. ASSUME NEW w \in Programs, NEW b \in Barrels, Ask(w, b) PROVE AccessesCounted'
  BY <1>4, ClipboardAssumption DEF Ask, AccessesCounted, ImageTypes, RequestTypes, RequestRec, Undelivered
<1>5. ASSUME NEW w \in Programs, MatchToken(w) PROVE AccessesCounted'
  BY <1>5, ClipboardAssumption DEF MatchToken, Answer, Goes, AccessesCounted, ImageTypes, RequestTypes, RequestRec, Undelivered
<1>6. ASSUME NEW w \in Programs, InspectContainer(w) PROVE AccessesCounted'
  BY <1>6, ClipboardAssumption DEF InspectContainer, Answer, Goes, AccessesCounted, ImageTypes, RequestTypes, RequestRec, Undelivered
<1>7. ASSUME NEW w \in Programs, OtherEndpoint(w) PROVE AccessesCounted'
  BY <1>7, ClipboardAssumption DEF OtherEndpoint, Answer, AccessesCounted, ImageTypes, RequestTypes, RequestRec, Undelivered
<1>8. ASSUME NEW w \in Programs, TakeSnapshot(w) PROVE AccessesCounted'
  BY <1>8, ClipboardAssumption DEF TakeSnapshot, Answer, AccessesCounted, ImageTypes, RequestTypes, RequestRec, Undelivered
<1>9. ASSUME NEW w \in Programs, Touch(w) PROVE AccessesCounted'
  BY <1>9, ClipboardAssumption DEF Touch, Answer, AccessesCounted, ImageTypes, RequestTypes, RequestRec, Undelivered
<1>10. ASSUME NEW b \in Barrels, StartBarrel(b) PROVE AccessesCounted'
  BY <1>10, ClipboardAssumption DEF StartBarrel, Crosses, NewToken, AccessesCounted, ImageTypes, RequestTypes, RequestRec, Undelivered
<1>11. ASSUME NEW b \in Barrels, RestartBarrel(b) PROVE AccessesCounted'
  BY <1>11, ClipboardAssumption DEF RestartBarrel, Crosses, AccessesCounted, ImageTypes, RequestTypes, RequestRec, Undelivered
<1>12. ASSUME NEW b \in Barrels, RotateToken(b) PROVE AccessesCounted'
  BY <1>12, ClipboardAssumption DEF RotateToken, NewToken, AccessesCounted, ImageTypes, RequestTypes, RequestRec, Undelivered
<1>13. ASSUME NEW b \in Barrels, StopBarrel(b) PROVE AccessesCounted'
  BY <1>13, ClipboardAssumption DEF StopBarrel, Crosses, AccessesCounted, ImageTypes, RequestTypes, RequestRec, Undelivered
<1>14. ASSUME NEW b \in Barrels, RevokeToken(b) PROVE AccessesCounted'
  BY <1>14, ClipboardAssumption DEF RevokeToken, AccessesCounted, ImageTypes, RequestTypes, RequestRec, Undelivered
<1> QED BY <1>1, <1>2, <1>3, <1>4, <1>5, <1>6, <1>7, <1>8, <1>9, <1>10, <1>11, <1>12, <1>13, <1>14 DEF ClipboardNext, RequestStep

(* The container is looked at after its token was found. *)
LEMMA KeptOldTokensRefused == ASSUME ClipboardInv, ClipboardNext PROVE OldTokensRefused'
<1> USE DEF ClipboardInv, imageVars, barrelVars, NoSnapshot, NoRequest, Nil, NoToken
<1>1. ASSUME Clear PROVE OldTokensRefused'
  BY <1>1 DEF Clear, OldTokensRefused, RequestTypes, RequestRec, RequestsKnown
<1>2. ASSUME Expire PROVE OldTokensRefused'
  BY <1>2 DEF Expire, OldTokensRefused, RequestTypes, RequestRec, RequestsKnown
<1>3. ASSUME NEW image \in Images, NEW limit \in Limits, Stage(image, limit) PROVE OldTokensRefused'
  BY <1>3 DEF Stage, OldTokensRefused, RequestTypes, RequestRec, RequestsKnown
<1>4. ASSUME NEW w \in Programs, NEW b \in Barrels, Ask(w, b) PROVE OldTokensRefused'
  BY <1>4 DEF Ask, OldTokensRefused, RequestTypes, RequestRec, RequestsKnown
<1>5. ASSUME NEW w \in Programs, MatchToken(w) PROVE OldTokensRefused'
  <2>1. Answer(w) \/ (Goes(w, "matched") /\ \E c \in Barrels : tokenFile[c] = request[w].token)
    BY <1>5 DEF MatchToken
  <2>2. UNCHANGED <<imageVars, barrelVars>> /\ request[w].at = "asked"
    BY <1>5 DEF MatchToken
  <2> QED BY <2>1, <2>2, RequestGoes, RequestEnds DEF OldTokensRefused, RequestsKnown
<1>6. ASSUME NEW w \in Programs, InspectContainer(w) PROVE OldTokensRefused'
  <2>1. Answer(w) \/ (Goes(w, "admitted") /\ request[w].barrel \notin off)
    BY <1>6 DEF InspectContainer
  <2>2. UNCHANGED <<imageVars, barrelVars>> /\ request[w].at = "matched"
    BY <1>6 DEF InspectContainer
  <2> QED BY <2>1, <2>2, RequestGoes, RequestEnds DEF OldTokensRefused, RequestsKnown
<1>7. ASSUME NEW w \in Programs, OtherEndpoint(w) PROVE OldTokensRefused'
  BY <1>7 DEF OtherEndpoint, Answer, OldTokensRefused, RequestTypes, RequestRec, RequestsKnown
<1>8. ASSUME NEW w \in Programs, TakeSnapshot(w) PROVE OldTokensRefused'
  <2> QED BY <1>8, SnapshotTaken DEF OldTokensRefused, RequestsKnown, TakeSnapshot
<1>9. ASSUME NEW w \in Programs, Touch(w) PROVE OldTokensRefused'
  BY <1>9 DEF Touch, Answer, OldTokensRefused, RequestTypes, RequestRec, RequestsKnown
<1>10. ASSUME NEW b \in Barrels, StartBarrel(b) PROVE OldTokensRefused'
  BY <1>10 DEF StartBarrel, Crosses, NewToken, OldTokensRefused, RequestTypes, RequestRec, RequestsKnown
<1>11. ASSUME NEW b \in Barrels, RestartBarrel(b) PROVE OldTokensRefused'
  BY <1>11 DEF RestartBarrel, Crosses, OldTokensRefused, RequestTypes, RequestRec, RequestsKnown
<1>12. ASSUME NEW b \in Barrels, RotateToken(b) PROVE OldTokensRefused'
  BY <1>12 DEF RotateToken, NewToken, OldTokensRefused, RequestTypes, RequestRec, RequestsKnown
<1>13. ASSUME NEW b \in Barrels, StopBarrel(b) PROVE OldTokensRefused'
  BY <1>13 DEF StopBarrel, Crosses, OldTokensRefused, RequestTypes, RequestRec, RequestsKnown
<1>14. ASSUME NEW b \in Barrels, RevokeToken(b) PROVE OldTokensRefused'
  BY <1>14 DEF RevokeToken, OldTokensRefused, RequestTypes, RequestRec, RequestsKnown
<1> QED BY <1>1, <1>2, <1>3, <1>4, <1>5, <1>6, <1>7, <1>8, <1>9, <1>10, <1>11, <1>12, <1>13, <1>14 DEF ClipboardNext, RequestStep

(* Two files at each operation: the mount and the directory of tokens. *)
LEMMA KeptTokenFollowsBarrel == ASSUME ClipboardInv, ClipboardNext PROVE TokenFollowsBarrel'
<1> USE DEF ClipboardInv, imageVars, barrelVars, NoSnapshot, NoRequest, Nil, NoToken
<1>1. ASSUME Clear PROVE TokenFollowsBarrel'
  BY <1>1 DEF Clear, TokenFollowsBarrel, BarrelTypes, InOrder
<1>2. ASSUME Expire PROVE TokenFollowsBarrel'
  BY <1>2 DEF Expire, TokenFollowsBarrel, BarrelTypes, InOrder
<1>3. ASSUME NEW image \in Images, NEW limit \in Limits, Stage(image, limit) PROVE TokenFollowsBarrel'
  BY <1>3 DEF Stage, TokenFollowsBarrel, BarrelTypes, InOrder
<1>4. ASSUME NEW w \in Programs, NEW b \in Barrels, Ask(w, b) PROVE TokenFollowsBarrel'
  BY <1>4 DEF Ask, TokenFollowsBarrel, BarrelTypes, InOrder
<1>5. ASSUME NEW w \in Programs, MatchToken(w) PROVE TokenFollowsBarrel'
  BY <1>5 DEF MatchToken, Answer, Goes, TokenFollowsBarrel, BarrelTypes, InOrder
<1>6. ASSUME NEW w \in Programs, InspectContainer(w) PROVE TokenFollowsBarrel'
  BY <1>6 DEF InspectContainer, Answer, Goes, TokenFollowsBarrel, BarrelTypes, InOrder
<1>7. ASSUME NEW w \in Programs, OtherEndpoint(w) PROVE TokenFollowsBarrel'
  BY <1>7 DEF OtherEndpoint, Answer, TokenFollowsBarrel, BarrelTypes, InOrder
<1>8. ASSUME NEW w \in Programs, TakeSnapshot(w) PROVE TokenFollowsBarrel'
  BY <1>8 DEF TakeSnapshot, Answer, TokenFollowsBarrel, BarrelTypes, InOrder
<1>9. ASSUME NEW w \in Programs, Touch(w) PROVE TokenFollowsBarrel'
  BY <1>9 DEF Touch, Answer, TokenFollowsBarrel, BarrelTypes, InOrder
<1>10. ASSUME NEW b \in Barrels, StartBarrel(b) PROVE TokenFollowsBarrel'
  BY <1>10 DEF StartBarrel, Crosses, NewToken, TokenFollowsBarrel, BarrelTypes, InOrder
<1>11. ASSUME NEW b \in Barrels, RestartBarrel(b) PROVE TokenFollowsBarrel'
  BY <1>11 DEF RestartBarrel, Crosses, TokenFollowsBarrel, BarrelTypes, InOrder
<1>12. ASSUME NEW b \in Barrels, RotateToken(b) PROVE TokenFollowsBarrel'
  BY <1>12 DEF RotateToken, NewToken, TokenFollowsBarrel, BarrelTypes, InOrder
<1>13. ASSUME NEW b \in Barrels, StopBarrel(b) PROVE TokenFollowsBarrel'
  BY <1>13 DEF StopBarrel, Crosses, TokenFollowsBarrel, BarrelTypes, InOrder
<1>14. ASSUME NEW b \in Barrels, RevokeToken(b) PROVE TokenFollowsBarrel'
  BY <1>14 DEF RevokeToken, TokenFollowsBarrel, BarrelTypes, InOrder
<1> QED BY <1>1, <1>2, <1>3, <1>4, <1>5, <1>6, <1>7, <1>8, <1>9, <1>10, <1>11, <1>12, <1>13, <1>14 DEF ClipboardNext, RequestStep

LEMMA ClipboardBegins == ClipboardInit => ClipboardInv
<1> SUFFICES ASSUME ClipboardInit PROVE ClipboardInv
  OBVIOUS
<1>1. /\ stages = 0 /\ expired = FALSE /\ current = NoSnapshot /\ delivered = [n \in 1..MaxStages |-> 0] /\ tokens = 0
      /\ \A w \in Programs : request[w] = NoRequest
      /\ request = [w \in Programs |-> NoRequest] /\ NoRequest \in RequestRec /\ NoRequest.at = "idle"
      /\ NoSnapshot \in [id : Nat, accesses : Nat] /\ NoSnapshot.id = 0
  BY DEF ClipboardInit, NoRequest, RequestRec, NoSnapshot, Nil, NoToken
<1>2. ImageTypes
  <2>1. stages \in 0..MaxStages /\ delivered \in [1..MaxStages -> Nat]
    BY <1>1, ClipboardAssumption
  <2>2. current \in [id : Nat, accesses : Nat] /\ current.id = 0
    BY <1>1
  <2>3. 0 \in 0..stages
    BY <1>1
  <2>4. expired \in BOOLEAN
    BY <1>1, Zenon
  <2> QED BY <2>1, <2>2, <2>3, <2>4 DEF ImageTypes
<1>3. RequestTypes /\ RequestsKnown /\ OldTokensRefused
  BY <1>1 DEF RequestTypes, RequestsKnown, OldTokensRefused
<1>4. BarrelTypes /\ InOrder /\ TokenFollowsBarrel
  BY DEF ClipboardInit, BarrelTypes, InOrder, TokenFollowsBarrel, NoToken
<1>5. Undelivered /\ AccessesCounted
  BY <1>1, ClipboardAssumption DEF Undelivered, AccessesCounted, Nil
<1> QED BY <1>2, <1>3, <1>4, <1>5 DEF ClipboardInv

LEMMA ClipboardStep == ClipboardInv /\ [ClipboardNext]_clipboardVars => ClipboardInv'
<1> SUFFICES ASSUME ClipboardInv, [ClipboardNext]_clipboardVars PROVE ClipboardInv'
  OBVIOUS
<1>1. CASE ClipboardNext
  BY <1>1, KeptImageTypes, KeptRequestTypes, KeptBarrelTypes, KeptRequestsKnown, KeptUndelivered, KeptInOrder,
    KeptAccessesCounted, KeptOldTokensRefused, KeptTokenFollowsBarrel DEF ClipboardInv
<1>2. CASE UNCHANGED clipboardVars
  <2> USE <1>2 DEF ClipboardInv, clipboardVars, imageVars, barrelVars
  <2>1. ImageTypes' /\ RequestTypes' /\ BarrelTypes'
    BY DEF ImageTypes, RequestTypes, RequestRec, BarrelTypes
  <2>2. RequestsKnown' /\ Undelivered' /\ InOrder'
    BY DEF RequestsKnown, Undelivered, InOrder
  <2>3. AccessesCounted' /\ OldTokensRefused' /\ TokenFollowsBarrel'
    BY DEF AccessesCounted, OldTokensRefused, TokenFollowsBarrel
  <2> QED BY <2>1, <2>2, <2>3
<1> QED BY <1>1, <1>2

(* A snapshot is current until it is cleared or another takes its place, and *)
(* a late Touch does not bring back the one it took (Manager.Touch).         *)
LEMMA GoneAtEachStep ==
  ASSUME ImageTypes, Undelivered, ClipboardNext
  PROVE  /\ current'.id \in {current.id, Nil} \/ current'.id > stages
         /\ current'.id = current.id /\ expired => expired'
<1> USE DEF imageVars, NoSnapshot, Nil
<1>1. ASSUME Clear \/ Expire PROVE current'.id \in {current.id, Nil} /\ (current'.id = current.id /\ expired => expired')
  BY <1>1 DEF Clear, Expire, Undelivered
<1>2. ASSUME NEW image \in Images, NEW limit \in Limits, Stage(image, limit)
      PROVE  (current' = current /\ expired' = expired) \/ (current'.id > stages /\ current'.id # current.id)
  BY <1>2 DEF Stage, ImageTypes
<1>3. ASSUME NEW w \in Programs, Touch(w) PROVE current'.id = current.id /\ expired' = expired
  BY <1>3 DEF Touch, ImageTypes
<1>4. ASSUME NEW w \in Programs, \/ MatchToken(w) \/ InspectContainer(w) \/ OtherEndpoint(w) \/ TakeSnapshot(w)
                                 \/ \E b \in Barrels : Ask(w, b)
      PROVE  current' = current /\ expired' = expired
  BY <1>4 DEF MatchToken, InspectContainer, OtherEndpoint, TakeSnapshot, Ask
<1>5. ASSUME NEW b \in Barrels, \/ StartBarrel(b) \/ RestartBarrel(b) \/ RotateToken(b) \/ StopBarrel(b) \/ RevokeToken(b)
      PROVE  current' = current /\ expired' = expired
  BY <1>5 DEF StartBarrel, RestartBarrel, RotateToken, StopBarrel, RevokeToken
<1> QED BY <1>1, <1>2, <1>3, <1>4, <1>5 DEF ClipboardNext, RequestStep

(***************************************************************************)
(* The X11 bridge.  What a program has read and what is in its property     *)
(* tell how far its transfer is (Place); that holds since the bridge writes *)
(* the next chunk for a delete alone, and there is never a second delete of *)
(* the same window on the way, nor a second request (OneEach).              *)
(***************************************************************************)
EventRec == [event : {"request", "delete", "clear"}, window : Windows \cup {None}, target : Targets \cup {None}]
Queued(w, kind) == {i \in DOMAIN xq : xq[i].event = kind /\ xq[i].window = w}
QueueTypes ==
  /\ xq \in Seq(EventRec)
  /\ \A i \in DOMAIN xq : xq[i].event \in {"request", "delete"} => xq[i].window \in Windows
TransferTypes ==
  /\ transfer \in [window : Windows \cup {None}, written : 0..(NChunks - 1)]
  /\ finishing \in {None} \cup Windows /\ subscribed \subseteq Windows
  /\ finishing # None => transfer.window = None
PropertyTypes ==
  /\ property \in [Windows -> [is : {None, "value", "incr", "chunk", "end"}, n : 0..NChunks]]
  /\ owned \in BOOLEAN
ProgramTypes ==
  /\ pasting \in [Windows -> {"idle", "asked", "reading", "done", "refused", "dead"}]
  /\ notified \in [Windows -> {None, "refused", "ready"}] /\ pieces \in [Windows -> Seq(Nat)]
OneEach(w) ==
  /\ \A i, j \in Queued(w, "request") : i = j
  /\ transfer.window = w /\ pasting[w] # "dead" => \A i, j \in Queued(w, "delete") : i = j
Off(w) == transfer.window # w /\ finishing # w
AtRest(w) ==
  /\ pasting[w] = "idle" => /\ pieces[w] = << >> /\ property[w].is = None /\ notified[w] = None
                            /\ Off(w) /\ Queued(w, "request") = {} /\ Queued(w, "delete") = {}
  /\ pasting[w] \in {"done", "refused"} => Off(w) /\ Queued(w, "request") = {}
  /\ pasting[w] = "done" => Len(pieces[w]) \in {0, NChunks - 1, NChunks}
AsAsked(w) ==
  pasting[w] = "asked" =>
    /\ pieces[w] = << >> /\ Queued(w, "delete") = {}
    /\ \/ notified[w] = None /\ property[w].is = None /\ Off(w)
       \/ notified[w] = "refused" /\ Off(w) /\ Queued(w, "request") = {}
       \/ notified[w] = "ready" /\ property[w].is = "value" /\ Off(w) /\ Queued(w, "request") = {}
       \/ /\ notified[w] = "ready" /\ property[w].is = "incr" /\ Queued(w, "request") = {}
          /\ transfer.window = w /\ transfer.written = 0 /\ finishing # w
AsRead(w) ==
  pasting[w] = "reading" =>
    /\ Queued(w, "request") = {}
    /\ \/ /\ transfer.window = w /\ transfer.written = Len(pieces[w]) /\ finishing # w /\ property[w].is = None
       \/ /\ transfer.window = w /\ transfer.written = Len(pieces[w]) + 1 /\ finishing # w
          /\ property[w].is = "chunk" /\ property[w].n = Len(pieces[w]) + 1 /\ Queued(w, "delete") = {}
       \/ finishing = w /\ property[w].is = "chunk" /\ property[w].n = NChunks /\ Len(pieces[w]) = NChunks - 1
       \/ finishing = w /\ property[w].is = None /\ Len(pieces[w]) = NChunks
       \/ Off(w) /\ property[w].is = "end" /\ Len(pieces[w]) \in {NChunks - 1, NChunks}
Ordered(w) == \A i \in DOMAIN pieces[w] : pieces[w][i] = i
InPlace(w) == OneEach(w) /\ AtRest(w) /\ AsAsked(w) /\ AsRead(w) /\ Ordered(w)

X11Inv ==
  /\ QueueTypes /\ TransferTypes /\ PropertyTypes /\ ProgramTypes
  /\ \A w \in Windows : InPlace(w)

(* An event comes to the end of the queue. *)
LEMMA EventComes ==
  ASSUME QueueTypes, NEW e \in EventRec, xq' = Append(xq, e),
         e.event \in {"request", "delete"} => e.window \in Windows
  PROVE  /\ QueueTypes'
         /\ \A w \in Windows, kind \in {"request", "delete"} :
              /\ ~(e.event = kind /\ e.window = w) => Queued(w, kind)' = Queued(w, kind)
              /\ Queued(w, kind) = {} => \A i, j \in Queued(w, kind)' : i = j
<1>1. /\ xq \in Seq(EventRec) /\ Len(xq) \in Nat /\ DOMAIN xq = 1..Len(xq)
      /\ xq' \in Seq(EventRec) /\ Len(xq') = Len(xq) + 1 /\ DOMAIN xq' = 1..(Len(xq) + 1)
      /\ xq'[Len(xq) + 1] = e /\ \A i \in 1..Len(xq) : xq'[i] = xq[i]
  BY AppendProperties, LenProperties DEF QueueTypes
<1>2. QueueTypes'
  BY <1>1 DEF QueueTypes
<1>3. ASSUME NEW w \in Windows, NEW kind \in {"request", "delete"}, ~(e.event = kind /\ e.window = w)
      PROVE  Queued(w, kind)' = Queued(w, kind)
  BY <1>1, <1>3 DEF Queued
<1>4. ASSUME NEW w \in Windows, NEW kind \in {"request", "delete"}, Queued(w, kind) = {}
      PROVE  \A i, j \in Queued(w, kind)' : i = j
  BY <1>1, <1>4 DEF Queued
<1> QED BY <1>2, <1>3, <1>4

(* The bridge takes the first event. *)
LEMMA EventGoes ==
  ASSUME QueueTypes, xq # << >>, xq' = Tail(xq)
  PROVE  /\ QueueTypes' /\ Head(xq) \in EventRec
         /\ Head(xq).event \in {"request", "delete"} =>
              Head(xq).window \in Windows /\ Queued(Head(xq).window, Head(xq).event) # {}
         /\ \A w \in Windows, kind \in {"request", "delete"} :
              /\ Queued(w, kind) = {} => Queued(w, kind)' = {}
              /\ (\A i, j \in Queued(w, kind) : i = j) =>
                   /\ \A i, j \in Queued(w, kind)' : i = j
                   /\ Head(xq).event = kind /\ Head(xq).window = w => Queued(w, kind)' = {}
<1>1. /\ xq \in Seq(EventRec) /\ Len(xq) \in Nat \ {0} /\ DOMAIN xq = 1..Len(xq) /\ Head(xq) = xq[1]
      /\ xq' \in Seq(EventRec) /\ DOMAIN xq' = 1..(Len(xq) - 1) /\ \A i \in DOMAIN xq' : xq'[i] = xq[i + 1]
  BY HeadTailProperties, LenProperties, EmptySeq DEF QueueTypes
<1>2. QueueTypes' /\ Head(xq) \in EventRec
  BY <1>1 DEF QueueTypes
<1>3. Head(xq).event \in {"request", "delete"} =>
        Head(xq).window \in Windows /\ 1 \in Queued(Head(xq).window, Head(xq).event)
  BY <1>1 DEF QueueTypes, Queued
<1>4. ASSUME NEW w \in Windows, NEW kind \in {"request", "delete"}
      PROVE  /\ \A i \in Queued(w, kind)' : i + 1 \in Queued(w, kind) /\ i \in Nat \ {0}
             /\ Head(xq).event = kind /\ Head(xq).window = w => 1 \in Queued(w, kind)
  BY <1>1 DEF Queued
<1>5. ASSUME NEW w \in Windows, NEW kind \in {"request", "delete"}, \A i, j \in Queued(w, kind) : i = j
      PROVE  /\ \A i, j \in Queued(w, kind)' : i = j
             /\ Head(xq).event = kind /\ Head(xq).window = w => Queued(w, kind)' = {}
  <2>1. ASSUME NEW i \in Queued(w, kind)', NEW j \in Queued(w, kind)' PROVE i = j
    BY <1>4, <1>5, <2>1
  <2>2. ASSUME Head(xq).event = kind, Head(xq).window = w, NEW i \in Queued(w, kind)' PROVE FALSE
    BY <1>4, <1>5, <2>2
  <2> QED BY <2>1, <2>2
<1> QED BY <1>2, <1>3, <1>4, <1>5
(* What is written to a property, by its fields. *)
LEMMA WrittenTypes ==
  /\ \A what \in {None, "value", "incr", "end"} :
       /\ Plain(what) \in [is : {None, "value", "incr", "chunk", "end"}, n : 0..NChunks]
       /\ Plain(what).is = what
  /\ \A n \in 1..NChunks :
       /\ Chunk(n) \in [is : {None, "value", "incr", "chunk", "end"}, n : 0..NChunks]
       /\ Chunk(n).is = "chunk" /\ Chunk(n).n = n
BY X11Assumption DEF Plain, Chunk

(* Write: a window that is gone is skipped, the others are left alone. *)
LEMMA Writes ==
  ASSUME PropertyTypes, NEW w \in Windows, UNCHANGED owned,
         NEW what \in [is : {None, "value", "incr", "chunk", "end"}, n : 0..NChunks], Write(w, what)
  PROVE  /\ PropertyTypes' /\ \A v \in Windows \ {w} : property'[v] = property[v]
         /\ property'[w] = IF pasting[w] = "dead" THEN property[w] ELSE what
BY DEF Write, PropertyTypes

(* Take: the property is empty and a delete of it may be on the way. *)
LEMMA Takes ==
  ASSUME QueueTypes, PropertyTypes, NEW w \in Windows, Take(w), UNCHANGED owned
  PROVE  /\ QueueTypes' /\ PropertyTypes' /\ property'[w].is = None
         /\ \A v \in Windows \ {w} : property'[v] = property[v]
         /\ \A v \in Windows, kind \in {"request", "delete"} :
              /\ ~(kind = "delete" /\ v = w) => Queued(v, kind)' = Queued(v, kind)
              /\ Queued(v, kind) = {} => \A i, j \in Queued(v, kind)' : i = j
<1>1. property' = [property EXCEPT ![w] = Plain(None)]
  BY DEF Take
<1>2. PropertyTypes' /\ property'[w].is = None /\ \A v \in Windows \ {w} : property'[v] = property[v]
  BY <1>1, WrittenTypes DEF PropertyTypes
<1> DEFINE e == [event |-> "delete", window |-> w, target |-> None]
<1>3. e \in EventRec /\ e.event = "delete" /\ e.window = w
  BY DEF EventRec
<1>4. xq' = Append(xq, e) \/ xq' = xq
  BY DEF Take
<1> HIDE DEF e
<1>5. CASE xq' = Append(xq, e)
  BY <1>2, <1>3, <1>5, EventComes
<1>6. CASE xq' = xq
  <2>1. QueueTypes' /\ \A v \in Windows, kind \in {"request", "delete"} : Queued(v, kind)' = Queued(v, kind)
    BY <1>6 DEF QueueTypes, Queued
  <2> QED BY <1>2, <2>1
<1> QED BY <1>4, <1>5, <1>6

(* A window that a step does not touch stays in its place, whatever is     *)
(* written elsewhere and however the queue advances.                        *)
LEMMA OthersInPlace ==
  ASSUME NEW v \in Windows, InPlace(v), pasting'[v] = pasting[v], pieces'[v] = pieces[v],
         notified'[v] = notified[v], property'[v] = property[v],
         transfer'.window = v <=> transfer.window = v,
         transfer.window = v => transfer'.written = transfer.written,
         finishing' = v <=> finishing = v,
         \A kind \in {"request", "delete"} :
           /\ Queued(v, kind) = {} => Queued(v, kind)' = {}
           /\ (\A i, j \in Queued(v, kind) : i = j) => \A i, j \in Queued(v, kind)' : i = j
  PROVE  InPlace(v)'
<1> USE DEF InPlace
<1>1. OneEach(v)'
  BY DEF OneEach
<1>2. AtRest(v)'
  BY DEF AtRest, Off
<1>3. AsAsked(v)'
  BY DEF AsAsked, Off
<1>4. AsRead(v)'
  BY DEF AsRead, Off
<1>5. Ordered(v)'
  BY DEF Ordered
<1> QED BY <1>1, <1>2, <1>3, <1>4, <1>5

(* A program that has died reads nothing more. *)
LEMMA DeadInPlace ==
  ASSUME NEW v \in Windows, InPlace(v), pasting'[v] = "dead", pieces'[v] = pieces[v],
         (\A i, j \in Queued(v, "request") : i = j) => \A i, j \in Queued(v, "request")' : i = j
  PROVE  InPlace(v)'
BY DEF InPlace, OneEach, AtRest, AsAsked, AsRead, Ordered

LEMMA KeptBySelectionRequest == X11Inv /\ HandleSelectionRequest => X11Inv'
<1> SUFFICES ASSUME X11Inv, HandleSelectionRequest PROVE X11Inv'
  OBVIOUS
<1> PICK w : w = Head(xq).window
  OBVIOUS
<1>1. /\ finishing = None /\ xq # << >> /\ Head(xq).event = "request" /\ xq' = Tail(xq)
      /\ UNCHANGED <<finishing, pasting, pieces, owned, takes>>
  BY DEF HandleSelectionRequest, Handling
<1>2. /\ QueueTypes' /\ w \in Windows /\ Queued(w, "request") # {} /\ Queued(w, "request")' = {}
      /\ \A v \in Windows, kind \in {"request", "delete"} :
           /\ Queued(v, kind) = {} => Queued(v, kind)' = {}
           /\ (\A i, j \in Queued(v, kind) : i = j) => \A i, j \in Queued(v, kind)' : i = j
  BY <1>1, EventGoes DEF X11Inv, InPlace, OneEach
<1>3. \/ AnswerDirectly(w) \/ Refuse(w) \/ StartINCR(w)
  BY DEF HandleSelectionRequest
<1>4. (pasting[w] = "asked" /\ pieces[w] = << >> /\ Off(w) /\ Queued(w, "delete") = {}) \/ pasting[w] = "dead"
  BY <1>2 DEF X11Inv, ProgramTypes, InPlace, AtRest, AsAsked, AsRead
<1>5. /\ PropertyTypes' /\ ProgramTypes' /\ TransferTypes'
      /\ \A v \in Windows \ {w} : property'[v] = property[v] /\ notified'[v] = notified[v]
      /\ \/ UNCHANGED transfer
         \/ transfer.window = None /\ transfer'.window = w /\ transfer'.written = 0
      /\ pasting[w] = "asked" =>
           \/ notified'[w] = "refused" /\ UNCHANGED transfer
           \/ notified'[w] = "ready" /\ property'[w].is = "value" /\ UNCHANGED transfer
           \/ notified'[w] = "ready" /\ property'[w].is = "incr" /\ transfer'.window = w /\ transfer'.written = 0
  <2>1. CASE Refuse(w)
    BY <1>1, <1>2, <2>1 DEF Refuse, Notify, X11Inv, PropertyTypes, ProgramTypes, TransferTypes
  <2>2. CASE AnswerDirectly(w)
    <3>1. Write(w, Plain("value")) /\ notified' = [notified EXCEPT ![w] = "ready"] /\ UNCHANGED <<transfer, subscribed>>
      BY <2>2 DEF AnswerDirectly, Notify
    <3>2. /\ PropertyTypes' /\ \A v \in Windows \ {w} : property'[v] = property[v]
          /\ pasting[w] = "asked" => property'[w].is = "value"
      BY <1>1, <1>2, <3>1, Writes, WrittenTypes DEF X11Inv
    <3>3. ProgramTypes' /\ TransferTypes'
      BY <1>1, <3>1 DEF X11Inv, ProgramTypes, TransferTypes
    <3> QED BY <1>2, <3>1, <3>2, <3>3 DEF X11Inv, ProgramTypes
  <2>3. CASE StartINCR(w)
    <3>1. /\ transfer = NoTransfer /\ transfer' = [window |-> w, written |-> 0] /\ subscribed' = subscribed \cup {w}
          /\ Write(w, Plain("incr")) /\ notified' = [notified EXCEPT ![w] = "ready"]
      BY <2>3 DEF StartINCR, Notify
    <3>2. /\ PropertyTypes' /\ \A v \in Windows \ {w} : property'[v] = property[v]
          /\ pasting[w] = "asked" => property'[w].is = "incr"
      BY <1>1, <1>2, <3>1, Writes, WrittenTypes DEF X11Inv
    <3>3. ProgramTypes'
      BY <1>1, <3>1 DEF X11Inv, ProgramTypes
    <3>4. transfer.window = None /\ TransferTypes'
      BY <1>1, <1>2, <3>1, X11Assumption DEF X11Inv, TransferTypes, NoTransfer
    <3> QED BY <1>2, <3>1, <3>2, <3>3, <3>4 DEF X11Inv, ProgramTypes
  <2> QED BY <1>3, <2>1, <2>2, <2>3
<1>6. ASSUME NEW v \in Windows \ {w} PROVE InPlace(v)'
  BY <1>1, <1>2, <1>5, OthersInPlace, X11Assumption DEF X11Inv
<1>7. InPlace(w)'
  <2>1. CASE pasting[w] = "dead"
    BY <1>1, <1>2, <2>1, DeadInPlace DEF X11Inv
  <2>2. CASE pasting[w] = "asked"
    <3>1. AsAsked(w)' /\ OneEach(w)'
      BY <1>1, <1>2, <1>4, <1>5, <2>2 DEF AsAsked, OneEach, Off
    <3>2. AtRest(w)' /\ AsRead(w)' /\ Ordered(w)'
      BY <1>1, <1>2, <2>2 DEF AtRest, AsRead, Ordered, X11Inv, InPlace
    <3> QED BY <3>1, <3>2 DEF InPlace
  <2> QED BY <1>4, <2>1, <2>2
<1> QED BY <1>2, <1>5, <1>6, <1>7 DEF X11Inv

LEMMA KeptByPropertyDelete == X11Inv /\ HandlePropertyDelete => X11Inv'
<1> SUFFICES ASSUME X11Inv, HandlePropertyDelete PROVE X11Inv'
  OBVIOUS
<1> PICK w : w = Head(xq).window
  OBVIOUS
<1>1. /\ finishing = None /\ xq # << >> /\ Head(xq).event = "delete" /\ xq' = Tail(xq)
      /\ UNCHANGED <<subscribed, pasting, notified, pieces, owned, takes>>
  BY DEF HandlePropertyDelete, Handling
<1>2. /\ QueueTypes' /\ w \in Windows /\ Queued(w, "delete") # {}
      /\ \A v \in Windows, kind \in {"request", "delete"} :
           /\ Queued(v, kind) = {} => Queued(v, kind)' = {}
           /\ (\A i, j \in Queued(v, kind) : i = j) => \A i, j \in Queued(v, kind)' : i = j
      /\ (\A i, j \in Queued(w, "delete") : i = j) => Queued(w, "delete")' = {}
  BY <1>1, EventGoes DEF X11Inv
<1>3. ProgramTypes'
  BY <1>1 DEF X11Inv, ProgramTypes
<1>4. CASE transfer.window # w
  <2>1. UNCHANGED <<property, transfer, finishing>>
    BY <1>4 DEF HandlePropertyDelete
  <2>2. PropertyTypes' /\ TransferTypes'
    BY <1>1, <2>1 DEF X11Inv, PropertyTypes, TransferTypes
  <2>3. ASSUME NEW v \in Windows PROVE InPlace(v)'
    BY <1>1, <1>2, <2>1, OthersInPlace DEF X11Inv
  <2> QED BY <1>2, <1>3, <2>2, <2>3 DEF X11Inv
<1>5. CASE transfer.window = w
  <2>1. PICK n \in 1..NChunks : n = transfer.written + 1
    BY X11Assumption DEF X11Inv, TransferTypes
  <2>2. Write(w, Chunk(n)) /\ IF n = NChunks THEN transfer' = NoTransfer /\ finishing' = w
                              ELSE transfer' = [transfer EXCEPT !.written = @ + 1] /\ UNCHANGED finishing
    BY <1>5, <2>1 DEF HandlePropertyDelete
  <2>3. /\ PropertyTypes' /\ \A v \in Windows \ {w} : property'[v] = property[v]
        /\ pasting[w] # "dead" => property'[w].is = "chunk" /\ property'[w].n = n
    BY <1>1, <1>2, <2>2, Writes, WrittenTypes DEF X11Inv
  <2>4. /\ TransferTypes'
        /\ IF n = NChunks THEN transfer'.window = None /\ finishing' = w
                          ELSE transfer'.window = w /\ transfer'.written = n /\ finishing' = None
    BY <1>1, <1>2, <1>5, <2>1, <2>2, X11Assumption DEF X11Inv, TransferTypes, NoTransfer
  <2>5. ASSUME NEW v \in Windows \ {w} PROVE InPlace(v)'
    BY <1>1, <1>2, <1>5, <2>3, <2>4, OthersInPlace, X11Assumption DEF X11Inv
  <2>6. InPlace(w)'
    <3>1. CASE pasting[w] = "dead"
      BY <1>1, <1>2, <3>1, DeadInPlace DEF X11Inv
    <3>2. CASE pasting[w] # "dead"
      <4>1. pasting[w] = "reading" /\ Queued(w, "request") = {}
        BY <1>2, <1>5, <3>2, X11Assumption DEF X11Inv, ProgramTypes, InPlace, AtRest, AsAsked, AsRead, Off
      <4>2. transfer.written = Len(pieces[w]) /\ Queued(w, "delete")' = {}
        BY <1>1, <1>2, <1>5, <3>2, <4>1, X11Assumption DEF X11Inv, InPlace, OneEach, AsRead, Off
      <4>3. AsRead(w)'
        BY <1>1, <1>2, <2>1, <2>3, <2>4, <3>2, <4>1, <4>2, X11Assumption DEF AsRead
      <4>4. OneEach(w)' /\ AtRest(w)' /\ AsAsked(w)'
        BY <1>1, <1>2, <4>1, <4>2 DEF OneEach, AtRest, AsAsked
      <4>5. Ordered(w)'
        BY <1>1, <1>2 DEF Ordered, X11Inv, InPlace
      <4> QED BY <4>3, <4>4, <4>5 DEF InPlace
    <3> QED BY <3>1, <3>2
  <2> QED BY <1>2, <1>3, <2>3, <2>4, <2>5, <2>6 DEF X11Inv
<1> QED BY <1>4, <1>5

(* The end marker. *)
LEMMA KeptByEnd == X11Inv /\ WriteEnd => X11Inv'
<1> SUFFICES ASSUME X11Inv, WriteEnd PROVE X11Inv'
  OBVIOUS
<1> PICK w : w = finishing
  OBVIOUS
<1>1. /\ w \in Windows /\ transfer.window = None /\ Write(w, Plain("end")) /\ finishing' = None
      /\ UNCHANGED <<xq, transfer, subscribed, pasting, notified, pieces, owned, takes>>
  BY DEF WriteEnd, X11Inv, TransferTypes
<1>2. QueueTypes' /\ \A v \in Windows, kind \in {"request", "delete"} : Queued(v, kind)' = Queued(v, kind)
  BY <1>1 DEF X11Inv, QueueTypes, Queued
<1>3. /\ PropertyTypes' /\ \A v \in Windows \ {w} : property'[v] = property[v]
      /\ pasting[w] # "dead" => property'[w].is = "end"
  BY <1>1, Writes, WrittenTypes DEF X11Inv
<1>4. ProgramTypes' /\ TransferTypes'
  BY <1>1 DEF X11Inv, ProgramTypes, TransferTypes
<1>5. ASSUME NEW v \in Windows \ {w} PROVE InPlace(v)'
  BY <1>1, <1>2, <1>3, <1>5, OthersInPlace, X11Assumption DEF X11Inv
<1>6. InPlace(w)'
  <2>1. CASE pasting[w] = "dead"
    BY <1>1, <1>2, <2>1, DeadInPlace DEF X11Inv
  <2>2. CASE pasting[w] # "dead"
    <3>1. pasting[w] = "reading"
      BY <1>1, <2>2, X11Assumption DEF X11Inv, ProgramTypes, InPlace, AtRest, AsAsked, Off
    <3>2. AsRead(w)'
      BY <1>1, <1>2, <1>3, <2>2, <3>1, X11Assumption DEF X11Inv, InPlace, AsRead, Off
    <3>3. OneEach(w)' /\ AtRest(w)' /\ AsAsked(w)' /\ Ordered(w)'
      BY <1>1, <1>2, <3>1, X11Assumption DEF X11Inv, InPlace, OneEach, AtRest, AsAsked, Ordered
    <3> QED BY <3>2, <3>3 DEF InPlace
  <2> QED BY <2>1, <2>2
<1> QED BY <1>2, <1>3, <1>4, <1>5, <1>6 DEF X11Inv

LEMMA KeptBySelectionClear == X11Inv /\ HandleSelectionClear => X11Inv'
<1> SUFFICES ASSUME X11Inv, HandleSelectionClear PROVE X11Inv'
  OBVIOUS
<1>1. /\ xq # << >> /\ xq' = Tail(xq) /\ owned' = TRUE
      /\ UNCHANGED <<transfer, finishing, property, subscribed, pasting, notified, pieces, takes>>
  BY DEF HandleSelectionClear, Handling
<1>2. /\ QueueTypes'
      /\ \A v \in Windows, kind \in {"request", "delete"} :
           /\ Queued(v, kind) = {} => Queued(v, kind)' = {}
           /\ (\A i, j \in Queued(v, kind) : i = j) => \A i, j \in Queued(v, kind)' : i = j
  BY <1>1, EventGoes DEF X11Inv
<1>3. PropertyTypes' /\ ProgramTypes' /\ TransferTypes'
  BY <1>1 DEF X11Inv, PropertyTypes, ProgramTypes, TransferTypes
<1>4. ASSUME NEW v \in Windows PROVE InPlace(v)'
  BY <1>1, <1>2, <1>4, OthersInPlace DEF X11Inv
<1> QED BY <1>2, <1>3, <1>4 DEF X11Inv

LEMMA KeptByConvert ==
  ASSUME X11Inv, NEW w \in Windows, NEW target \in Targets, Convert(w, target) PROVE X11Inv'
<1>1. /\ pasting[w] = "idle" /\ pasting' = [pasting EXCEPT ![w] = "asked"]
      /\ xq' = Append(xq, [event |-> "request", window |-> w, target |-> target])
      /\ UNCHANGED <<transfer, finishing, property, subscribed, notified, pieces, owned, takes>>
  BY DEF Convert
<1>2. /\ QueueTypes'
      /\ \A v \in Windows, kind \in {"request", "delete"} :
           /\ ~(kind = "request" /\ v = w) => Queued(v, kind)' = Queued(v, kind)
           /\ Queued(v, kind) = {} => \A i, j \in Queued(v, kind)' : i = j
  <2> DEFINE e == [event |-> "request", window |-> w, target |-> target]
  <2>1. e \in EventRec /\ e.event = "request" /\ e.window = w /\ xq' = Append(xq, e)
    BY <1>1 DEF EventRec
  <2> HIDE DEF e
  <2> QED BY <2>1, EventComes DEF X11Inv
<1>3. PropertyTypes' /\ ProgramTypes' /\ TransferTypes'
  BY <1>1 DEF X11Inv, PropertyTypes, ProgramTypes, TransferTypes
<1>4. ASSUME NEW v \in Windows \ {w} PROVE InPlace(v)'
  <2>1. pasting'[v] = pasting[v]
    BY <1>1 DEF X11Inv, ProgramTypes
  <2> QED BY <1>1, <1>2, <2>1, OthersInPlace DEF X11Inv
<1>5. InPlace(w)'
  <2>1. pasting'[w] = "asked"
    BY <1>1 DEF X11Inv, ProgramTypes
  <2>2. /\ pieces[w] = << >> /\ property[w].is = None /\ notified[w] = None /\ Off(w)
        /\ Queued(w, "request") = {} /\ Queued(w, "delete") = {}
    BY <1>1 DEF X11Inv, InPlace, AtRest
  <2>3. OneEach(w)' /\ AsAsked(w)'
    BY <1>1, <1>2, <2>2 DEF OneEach, AsAsked, Off
  <2>4. AtRest(w)' /\ AsRead(w)' /\ Ordered(w)'
    BY <1>1, <2>1 DEF AtRest, AsRead, Ordered, X11Inv, InPlace
  <2> QED BY <2>3, <2>4 DEF InPlace
<1> QED BY <1>2, <1>3, <1>4, <1>5 DEF X11Inv

(* A program that sees the answer takes what is there. *)
LEMMA KeptByAnswered == ASSUME X11Inv, NEW w \in Windows, Answered(w) PROVE X11Inv'
<1>1. /\ pasting[w] = "asked" /\ notified[w] # None /\ notified' = [notified EXCEPT ![w] = None]
      /\ UNCHANGED <<transfer, finishing, subscribed, pieces, owned, takes>>
  BY DEF Answered, Notify
<1>2. TransferTypes'
  BY <1>1 DEF X11Inv, TransferTypes
<1>3. pieces[w] = << >> /\ Queued(w, "delete") = {} /\ Queued(w, "request") = {} /\ finishing # w
  BY <1>1 DEF X11Inv, InPlace, AsAsked, Off
<1>4. CASE notified[w] = "refused"
  <2>1. pasting' = [pasting EXCEPT ![w] = "refused"] /\ UNCHANGED <<property, xq>>
    BY <1>4 DEF Answered
  <2>2. QueueTypes' /\ \A v \in Windows, kind \in {"request", "delete"} : Queued(v, kind)' = Queued(v, kind)
    BY <2>1 DEF X11Inv, QueueTypes, Queued
  <2>3. PropertyTypes' /\ ProgramTypes'
    BY <1>1, <2>1 DEF X11Inv, PropertyTypes, ProgramTypes
  <2>4. ASSUME NEW v \in Windows \ {w} PROVE InPlace(v)'
    <3>1. pasting'[v] = pasting[v] /\ notified'[v] = notified[v]
      BY <1>1, <2>1 DEF X11Inv, ProgramTypes
    <3> QED BY <1>1, <2>1, <2>2, <3>1, OthersInPlace DEF X11Inv
  <2>5. InPlace(w)'
    <3>1. pasting'[w] = "refused"
      BY <2>1 DEF X11Inv, ProgramTypes
    <3>2. Off(w)
      BY <1>1, <1>4 DEF X11Inv, InPlace, AsAsked
    <3>3. OneEach(w)' /\ AtRest(w)'
      BY <1>1, <1>3, <2>2, <3>1, <3>2 DEF OneEach, AtRest, Off
    <3>4. AsAsked(w)' /\ AsRead(w)' /\ Ordered(w)'
      BY <1>1, <3>1 DEF AsAsked, AsRead, Ordered, X11Inv, InPlace
    <3> QED BY <3>3, <3>4 DEF InPlace
  <2> QED BY <1>2, <2>2, <2>3, <2>4, <2>5 DEF X11Inv
<1>5. CASE notified[w] = "ready"
  <2>1. /\ pasting' = [pasting EXCEPT ![w] = IF property[w].is = "incr" THEN "reading" ELSE "done"]
        /\ Take(w)
    BY <1>1, <1>5 DEF Answered
  <2>2. /\ QueueTypes' /\ PropertyTypes' /\ property'[w].is = None
        /\ \A v \in Windows \ {w} : property'[v] = property[v]
        /\ \A v \in Windows, kind \in {"request", "delete"} :
             /\ ~(kind = "delete" /\ v = w) => Queued(v, kind)' = Queued(v, kind)
             /\ Queued(v, kind) = {} => \A i, j \in Queued(v, kind)' : i = j
    BY <1>1, <2>1, Takes DEF X11Inv
  <2>3. ProgramTypes'
    BY <1>1, <2>1 DEF X11Inv, ProgramTypes
  <2>4. ASSUME NEW v \in Windows \ {w} PROVE InPlace(v)'
    <3>1. pasting'[v] = pasting[v] /\ notified'[v] = notified[v]
      BY <1>1, <2>1 DEF X11Inv, ProgramTypes
    <3> QED BY <1>1, <2>2, <3>1, OthersInPlace DEF X11Inv
  <2>5. InPlace(w)'
    <3>1. pasting'[w] = IF property[w].is = "incr" THEN "reading" ELSE "done"
      BY <2>1 DEF X11Inv, ProgramTypes
    <3>2. IF property[w].is = "incr" THEN transfer.window = w /\ transfer.written = 0 ELSE Off(w)
      BY <1>1, <1>5, X11Assumption DEF X11Inv, InPlace, AsAsked
    <3>3. OneEach(w)' /\ Ordered(w)' /\ AsAsked(w)'
      BY <1>1, <1>3, <2>2, <3>1 DEF OneEach, Ordered, AsAsked, X11Inv, InPlace
    <3>4. Len(pieces'[w]) = 0
      BY <1>1, <1>3
    <3>5. AtRest(w)' /\ AsRead(w)'
      BY <1>1, <1>3, <2>2, <3>1, <3>2, <3>4 DEF AtRest, AsRead, Off
    <3> QED BY <3>3, <3>5 DEF InPlace
  <2> QED BY <1>2, <2>2, <2>3, <2>4, <2>5 DEF X11Inv
<1> QED BY <1>1, <1>4, <1>5 DEF X11Inv, ProgramTypes

LEMMA KeptByReadChunk == ASSUME X11Inv, NEW w \in Windows, ReadChunk(w) PROVE X11Inv'
<1> DEFINE n == property[w].n
<1>1. /\ pasting[w] = "reading" /\ property[w].is = "chunk" /\ Take(w)
      /\ pieces' = [pieces EXCEPT ![w] = Append(@, n)]
      /\ UNCHANGED <<transfer, finishing, subscribed, pasting, notified, owned, takes>>
  BY DEF ReadChunk
<1>2. /\ QueueTypes' /\ PropertyTypes' /\ property'[w].is = None
      /\ \A v \in Windows \ {w} : property'[v] = property[v]
      /\ \A v \in Windows, kind \in {"request", "delete"} :
           /\ ~(kind = "delete" /\ v = w) => Queued(v, kind)' = Queued(v, kind)
           /\ Queued(v, kind) = {} => \A i, j \in Queued(v, kind)' : i = j
  BY <1>1, Takes DEF X11Inv
<1>3. /\ pieces[w] \in Seq(Nat) /\ n \in Nat /\ pieces'[w] = Append(pieces[w], n)
      /\ \A v \in Windows \ {w} : pieces'[v] = pieces[v]
  BY <1>1, X11Assumption DEF X11Inv, ProgramTypes, PropertyTypes
<1>4. /\ pieces'[w] \in Seq(Nat) /\ Len(pieces[w]) \in Nat /\ Len(pieces'[w]) = Len(pieces[w]) + 1
      /\ DOMAIN pieces'[w] = 1..(Len(pieces[w]) + 1) /\ pieces'[w][Len(pieces[w]) + 1] = n
      /\ \A i \in 1..Len(pieces[w]) : pieces'[w][i] = pieces[w][i]
      /\ DOMAIN pieces[w] = 1..Len(pieces[w])
  BY <1>3, AppendProperties, LenProperties
<1>5. TransferTypes' /\ ProgramTypes'
  <2>1. pieces' \in [Windows -> Seq(Nat)]
    BY <1>1, <1>3, <1>4 DEF X11Inv, ProgramTypes
  <2> QED BY <1>1, <2>1 DEF X11Inv, TransferTypes, ProgramTypes
<1>6. ASSUME NEW v \in Windows \ {w} PROVE InPlace(v)'
  BY <1>1, <1>2, <1>3, <1>6, OthersInPlace DEF X11Inv
<1>7. /\ n = Len(pieces[w]) + 1 /\ Queued(w, "request") = {}
      /\ \/ /\ transfer.window = w /\ transfer.written = n /\ finishing # w /\ Queued(w, "delete") = {}
         \/ finishing = w /\ n = NChunks
  <2>1. AsRead(w) /\ property[w].is # None
    BY <1>1 DEF X11Inv, InPlace, None
  <2> QED BY <1>1, <1>4, <2>1, X11Assumption DEF AsRead, Off
<1> HIDE DEF n
<1>8. Ordered(w)'
  <2>1. \A i \in 1..Len(pieces[w]) : pieces[w][i] = i
    BY <1>4 DEF X11Inv, InPlace, Ordered
  <2> QED BY <1>4, <1>7, <2>1 DEF Ordered
<1>9. AsRead(w)'
  BY <1>1, <1>2, <1>4, <1>7 DEF AsRead
<1>10. OneEach(w)'
  BY <1>1, <1>2, <1>7, X11Assumption DEF OneEach, X11Inv, TransferTypes
<1>11. AtRest(w)' /\ AsAsked(w)'
  BY <1>1 DEF AtRest, AsAsked
<1>12. InPlace(w)'
  BY <1>8, <1>9, <1>10, <1>11 DEF InPlace
<1> QED BY <1>2, <1>5, <1>6, <1>12 DEF X11Inv

LEMMA KeptByReadEnd == ASSUME X11Inv, NEW w \in Windows, ReadEnd(w) PROVE X11Inv'
<1>1. /\ pasting[w] = "reading" /\ property[w].is = "end" /\ Take(w)
      /\ pasting' = [pasting EXCEPT ![w] = "done"]
      /\ UNCHANGED <<transfer, finishing, subscribed, notified, pieces, owned, takes>>
  BY DEF ReadEnd
<1>2. /\ QueueTypes' /\ PropertyTypes'
      /\ \A v \in Windows \ {w} : property'[v] = property[v]
      /\ \A v \in Windows, kind \in {"request", "delete"} :
           ~(kind = "delete" /\ v = w) => Queued(v, kind)' = Queued(v, kind)
  BY <1>1, Takes DEF X11Inv
<1>3. TransferTypes' /\ ProgramTypes'
  BY <1>1 DEF X11Inv, TransferTypes, ProgramTypes
<1>4. /\ pasting'[w] = "done" /\ \A v \in Windows \ {w} : pasting'[v] = pasting[v]
  BY <1>1 DEF X11Inv, ProgramTypes
<1>5. ASSUME NEW v \in Windows \ {w} PROVE InPlace(v)'
  BY <1>1, <1>2, <1>4, <1>5, OthersInPlace DEF X11Inv
<1>6. Off(w) /\ Len(pieces[w]) \in {NChunks - 1, NChunks} /\ Queued(w, "request") = {}
  <2>1. AsRead(w) /\ property[w].is # None
    BY <1>1 DEF X11Inv, InPlace, None
  <2> QED BY <1>1, <2>1, X11Assumption DEF AsRead
<1>7. OneEach(w)' /\ AtRest(w)'
  BY <1>1, <1>2, <1>4, <1>6 DEF OneEach, AtRest, Off
<1>8. AsAsked(w)' /\ AsRead(w)' /\ Ordered(w)'
  BY <1>1, <1>4 DEF AsAsked, AsRead, Ordered, X11Inv, InPlace
<1> QED BY <1>2, <1>3, <1>5, <1>7, <1>8 DEF X11Inv, InPlace

LEMMA KeptByDeath == ASSUME X11Inv, NEW w \in Windows, ProgramDies(w) PROVE X11Inv'
<1>1. /\ pasting' = [pasting EXCEPT ![w] = "dead"] /\ property' = [property EXCEPT ![w] = Plain(None)]
      /\ notified' = [notified EXCEPT ![w] = None] /\ subscribed' = subscribed \ {w}
      /\ UNCHANGED <<xq, transfer, finishing, pieces, owned, takes>>
  BY DEF ProgramDies, Notify
<1>2. QueueTypes' /\ \A v \in Windows, kind \in {"request", "delete"} : Queued(v, kind)' = Queued(v, kind)
  BY <1>1 DEF X11Inv, QueueTypes, Queued
<1>3. PropertyTypes' /\ ProgramTypes' /\ TransferTypes'
  BY <1>1, WrittenTypes DEF X11Inv, PropertyTypes, ProgramTypes, TransferTypes
<1>4. /\ pasting'[w] = "dead"
      /\ \A v \in Windows \ {w} : pasting'[v] = pasting[v] /\ notified'[v] = notified[v] /\ property'[v] = property[v]
  BY <1>1 DEF X11Inv, PropertyTypes, ProgramTypes
<1>5. ASSUME NEW v \in Windows \ {w} PROVE InPlace(v)'
  BY <1>1, <1>2, <1>4, <1>5, OthersInPlace DEF X11Inv
<1>6. InPlace(w)'
  BY <1>1, <1>2, <1>4, DeadInPlace DEF X11Inv
<1> QED BY <1>2, <1>3, <1>5, <1>6 DEF X11Inv

LEMMA KeptByOthers == X11Inv /\ OtherTakes => X11Inv'
<1> SUFFICES ASSUME X11Inv, OtherTakes PROVE X11Inv'
  OBVIOUS
<1>1. /\ xq' = Append(xq, [event |-> "clear", window |-> None, target |-> None]) /\ owned' = FALSE
      /\ UNCHANGED <<transfer, finishing, property, subscribed, pasting, notified, pieces>>
  BY DEF OtherTakes
<1>2. QueueTypes' /\ \A v \in Windows, kind \in {"request", "delete"} : Queued(v, kind)' = Queued(v, kind)
  <2> DEFINE e == [event |-> "clear", window |-> None, target |-> None]
  <2>1. e \in EventRec /\ e.event = "clear" /\ xq' = Append(xq, e)
    BY <1>1 DEF EventRec
  <2> HIDE DEF e
  <2> QED BY <2>1, EventComes DEF X11Inv
<1>3. PropertyTypes' /\ ProgramTypes' /\ TransferTypes'
  BY <1>1 DEF X11Inv, PropertyTypes, ProgramTypes, TransferTypes
<1>4. ASSUME NEW v \in Windows PROVE InPlace(v)'
  BY <1>1, <1>2, <1>4, OthersInPlace DEF X11Inv
<1> QED BY <1>2, <1>3, <1>4 DEF X11Inv

LEMMA X11Begins == X11Init => X11Inv
<1> SUFFICES ASSUME X11Init PROVE X11Inv
  OBVIOUS
<1>1. /\ xq = << >> /\ xq \in Seq(EventRec) /\ DOMAIN xq = {} /\ << >> \in Seq(Nat) /\ DOMAIN << >> = {}
  BY EmptySeq DEF X11Init
<1>2. QueueTypes /\ PropertyTypes /\ ProgramTypes /\ TransferTypes
  BY <1>1, WrittenTypes, X11Assumption
  DEF X11Init, QueueTypes, PropertyTypes, ProgramTypes, TransferTypes, NoTransfer
<1>3. ASSUME NEW w \in Windows PROVE InPlace(w)
  <2>1. /\ Queued(w, "request") = {} /\ Queued(w, "delete") = {} /\ pasting[w] = "idle" /\ pieces[w] = << >>
        /\ notified[w] = None /\ property[w].is = None /\ Off(w)
    BY <1>1, WrittenTypes, X11Assumption DEF X11Init, Queued, Off, NoTransfer
  <2> QED BY <1>1, <2>1 DEF InPlace, OneEach, AtRest, AsAsked, AsRead, Ordered
<1> QED BY <1>2, <1>3 DEF X11Inv

LEMMA X11Step == X11Inv /\ [X11Next]_x11Vars => X11Inv'
<1> SUFFICES ASSUME X11Inv, [X11Next]_x11Vars PROVE X11Inv'
  OBVIOUS
<1>1. CASE X11Next
  BY <1>1, KeptBySelectionRequest, KeptByPropertyDelete, KeptByEnd, KeptBySelectionClear, KeptByConvert, KeptByAnswered,
    KeptByReadChunk, KeptByReadEnd, KeptByDeath, KeptByOthers DEF X11Next, BridgeStep, ProgramStep
<1>2. CASE UNCHANGED x11Vars
  <2>1. QueueTypes' /\ \A v \in Windows, kind \in {"request", "delete"} : Queued(v, kind)' = Queued(v, kind)
    BY <1>2 DEF x11Vars, X11Inv, QueueTypes, Queued
  <2>2. PropertyTypes' /\ ProgramTypes' /\ TransferTypes'
    BY <1>2 DEF x11Vars, X11Inv, PropertyTypes, ProgramTypes, TransferTypes
  <2>3. ASSUME NEW v \in Windows PROVE InPlace(v)'
    BY <1>2, <2>1, <2>3, OthersInPlace DEF X11Inv, x11Vars
  <2> QED BY <2>1, <2>2, <2>3 DEF X11Inv
<1> QED BY <1>1, <1>2

LEMMA X11Tells == X11Inv => X11TypeOK /\ ChunksInOrder
<1> SUFFICES ASSUME X11Inv PROVE X11TypeOK /\ ChunksInOrder
  OBVIOUS
<1>1. X11TypeOK
  BY LenProperties DEF X11Inv, X11TypeOK, QueueTypes, PropertyTypes, ProgramTypes, TransferTypes
<1>2. ASSUME NEW w \in Windows
      PROVE  /\ pieces[w] = [i \in DOMAIN pieces[w] |-> i]
             /\ pasting[w] = "done" => Len(pieces[w]) \in {0, NChunks - 1, NChunks}
  <2>1. pieces[w] = [i \in DOMAIN pieces[w] |-> pieces[w][i]]
    BY DEF X11Inv, ProgramTypes
  <2> QED BY <2>1 DEF X11Inv, InPlace, Ordered, AtRest
<1> QED BY <1>1, <1>2 DEF ChunksInOrder

(* A picture that was cleared or ran out stays so, accesses are counted for  *)
(* their own picture, old tokens open nothing, and each program reads the    *)
(* chunks of its paste in order (internal/clipboard and cooper-x11-bridge),  *)
(* for every number of barrels, requests, windows and chunks.                *)
THEOREM ClipboardIsSound == ClipboardSpec /\ X11Spec => ClipboardSound
<1>1. ClipboardSpec => []ClipboardInv
  BY ClipboardBegins, ClipboardStep, PTL DEF ClipboardSpec
<1>2. X11Spec => []X11Inv
  BY X11Begins, X11Step, PTL DEF X11Spec
<1>3. ClipboardInv => ClipboardTypeOK /\ AccessesCounted /\ OldTokensRefused /\ TokenFollowsBarrel
  BY DEF ClipboardInv, ClipboardTypeOK, ImageTypes, BarrelTypes
<1>4. ClipboardInv /\ [ClipboardNext]_clipboardVars
      => [/\ current'.id \in {current.id, Nil} \/ current'.id > stages
          /\ current'.id = current.id /\ expired => expired']_clipboardVars
  BY GoneAtEachStep DEF ClipboardInv
<1> QED BY <1>1, <1>2, <1>3, <1>4, X11Tells, PTL DEF ClipboardSpec, GoneStaysGone, ClipboardSound

(***************************************************************************)
(* The broker.  BrokerSound is not inductive: what makes it so is           *)
(* OwedIsPublished (an event that nobody published yet is owed to nobody),  *)
(* MapIsOpen (a registered subscription is open unless the writer waits for *)
(* its end) and WriterAlone.                                                *)
(***************************************************************************)
(* An event is owed only once its Publish has begun. *)
OwedIsPublished == \A s \in Subs : owed[s] \cap unpublished = {}

(* What the map holds is open, but for the one the writer is ending; what   *)
(* is open has its bridge goroutine and is in the map.                      *)
MapIsOpen ==
  /\ \A s \in subs : inOpen[s] \/ s = waiting
  /\ \A s \in Subs : inOpen[s] => running[s]
  /\ waiting # NoSub => waiting \in subs /\ ~inOpen[waiting]

(* mu: no publisher is in its loop while a writer holds it. *)
WriterAlone == writer # "none" => \A p \in Publishers : ~Publishing(p)

BrokerInv == BrokerSound /\ OwedIsPublished /\ MapIsOpen /\ WriterAlone
(* The publishers whose loop still has to reach s with e. *)
Carriers(s, e) == {p \in Publishers : event[p] = e /\ s \in todo[p]}

LEMMA TimesAt == \A q, e : Times(q, e) = Cardinality(At(q, e))
BY DEF Times, At

(* The copies of an event are counted by natural numbers. *)
LEMMA CopiesSum ==
  ASSUME BrokerTypeOK, NEW s \in Subs, NEW e \in Events
  PROVE  /\ Times(in[s], e) \in Nat /\ Times(buf[s], e) \in Nat /\ Times(got[s], e) \in Nat
         /\ IsFiniteSet(Carriers(s, e)) /\ Cardinality(Carriers(s, e)) \in Nat
         /\ Copies(s, e) = Times(in[s], e) + Times(buf[s], e) + Times(got[s], e)
                             + One(e \in overflow[s]) + Cardinality(Carriers(s, e))
<1>1. in[s] \in Seq(Events) /\ buf[s] \in Seq(Events) /\ got[s] \in Seq(Events)
  BY DEF BrokerTypeOK
<1>2. /\ Cardinality(At(in[s], e)) \in Nat /\ Cardinality(At(buf[s], e)) \in Nat
      /\ Cardinality(At(got[s], e)) \in Nat
  BY <1>1, CopiesNat
<1>3. IsFiniteSet(Carriers(s, e)) /\ Cardinality(Carriers(s, e)) \in Nat
  BY BrokerAssumption, FS_Subset, FS_CardinalityType DEF Carriers
<1> QED BY <1>2, <1>3 DEF Copies, Times, At, Carriers, One

(* Where no copy is made or lost ExactlyOnce stays. *)
LEMMA SameCopies ==
  ASSUME ExactlyOnce, owed' = owed,
         \A s \in Subs, e \in Events : Copies(s, e)' = Copies(s, e),
         \A s \in Subs : inOpen'[s] => inOpen[s] \/ owed[s] = {}
  PROVE  ExactlyOnce'
BY DEF ExactlyOnce

LEMMA FrameCopies ==
  ASSUME UNCHANGED <<channels, event, todo>>
  PROVE  \A s \in Subs, e \in Events : Copies(s, e)' = Copies(s, e)
BY DEF channels, Copies, Times

LEMMA BrokerBegins == BrokerInit => BrokerInv
<1> SUFFICES ASSUME BrokerInit PROVE BrokerInv
  OBVIOUS
<1>1. BrokerTypeOK
  <2>1. << >> \in Seq(Events) /\ Len(<< >>) = 0
    BY EmptySeq
  <2>2. /\ in \in [Subs -> Seq(Events)] /\ \A s \in Subs : Len(in[s]) <= InCap
        /\ buf \in [Subs -> Seq(Events)] /\ got \in [Subs -> Seq(Events)]
    BY <2>1, BrokerAssumption DEF BrokerInit
  <2>3. \A p \in Publishers : todo[p] # {} <=> Publishing(p)
    BY DEF BrokerInit, Publishing
  <2> QED BY <2>2, <2>3 DEF BrokerInit, BrokerTypeOK
<1>2. ExactlyOnce
  <2> SUFFICES ASSUME NEW s \in Subs, NEW e \in Events PROVE Copies(s, e) = 0 /\ ~inOpen[s]
    BY DEF ExactlyOnce
  <2>0. Copies(s, e) = Times(in[s], e) + Times(buf[s], e) + Times(got[s], e)
                         + One(e \in overflow[s]) + Cardinality(Carriers(s, e))
    BY <1>1, CopiesSum
  <2>1. /\ in[s] = << >> /\ buf[s] = << >> /\ got[s] = << >> /\ overflow[s] = {}
        /\ Carriers(s, e) = {} /\ ~inOpen[s]
    BY DEF BrokerInit, Carriers
  <2>2. Times(<< >>, e) = 0 /\ Cardinality(Carriers(s, e)) = 0
    BY <2>1, CopiesEmpty, FS_EmptySet DEF Times, At
  <2> QED BY <2>0, <2>1, <2>2 DEF One
<1>3. PublishSeesOpen /\ NoBridgeLeak /\ OwedIsPublished /\ WriterAlone
  BY DEF BrokerInit, PublishSeesOpen, NoBridgeLeak, OwedIsPublished, WriterAlone
<1>4. MapIsOpen
  BY DEF BrokerInit, MapIsOpen
<1> QED BY <1>1, <1>2, <1>3, <1>4 DEF BrokerInv, BrokerSound

(* Subscribe, Unsubscribe, Close and the end of a subscription: no event    *)
(* moves.                                                                   *)
LEMMA WritersKeep ==
  ASSUME BrokerInv,
         \/ \E s \in Subs : Subscribe(s) \/ Unsubscribe(s) \/ CloseNext(s)
         \/ Close \/ SubDone
  PROVE  BrokerInv'
<1> USE DEF BrokerInv, BrokerSound
<1>0. UNCHANGED <<channels, event, todo, owed, unpublished>>
  BY DEF Subscribe, Unsubscribe, CloseNext, Close, SubDone
<1>1. \A s \in Subs : inOpen'[s] => inOpen[s] \/ owed[s] = {}
  BY DEF Subscribe, Unsubscribe, CloseNext, Close, SubDone, CloseIn, NeverMade, BrokerTypeOK
<1>2. ExactlyOnce'
  BY <1>0, <1>1, FrameCopies, SameCopies
<1>3. OwedIsPublished'
  BY <1>0 DEF OwedIsPublished
<1>4. ASSUME NEW s \in Subs, Subscribe(s)
      PROVE  BrokerTypeOK' /\ PublishSeesOpen' /\ NoBridgeLeak' /\ MapIsOpen' /\ WriterAlone'
  <2> USE <1>4 DEF Subscribe, BrokerTypeOK
  <2>1. BrokerTypeOK'
    BY DEF channels, Publishing
  <2>2. PublishSeesOpen' /\ NoBridgeLeak' /\ WriterAlone'
    BY DEF PublishSeesOpen, NoBridgeLeak, WriterAlone, Publishing
  <2>3. /\ inOpen' = [t \in Subs |-> t = s \/ inOpen[t]]
        /\ running' = [t \in Subs |-> t = s \/ running[t]]
        /\ subs' = subs \cup {s} /\ s \notin subs /\ waiting' = waiting
    BY DEF NeverMade
  <2>4. MapIsOpen'
    BY <2>3 DEF MapIsOpen
  <2> QED BY <2>1, <2>2, <2>4
<1>5. ASSUME NEW s \in Subs, Unsubscribe(s) \/ CloseNext(s)
      PROVE  BrokerTypeOK' /\ PublishSeesOpen' /\ NoBridgeLeak' /\ MapIsOpen' /\ WriterAlone'
  <2> USE <1>5 DEF Unsubscribe, CloseNext, CloseIn, BrokerTypeOK
  <2>0. \A p \in Publishers : ~Publishing(p)
    BY DEF LockFree, WriterAlone
  <2>1. BrokerTypeOK'
    BY BrokerAssumption DEF channels, Publishing
  <2>2. PublishSeesOpen' /\ NoBridgeLeak' /\ WriterAlone'
    BY <2>0 DEF PublishSeesOpen, NoBridgeLeak, WriterAlone, Publishing
  <2>3. waiting = NoSub
    BY DEF LockFree
  <2>4. MapIsOpen'
    BY <2>3, BrokerAssumption DEF MapIsOpen
  <2> QED BY <2>1, <2>2, <2>4
<1>6. ASSUME Close
      PROVE  BrokerTypeOK' /\ PublishSeesOpen' /\ NoBridgeLeak' /\ MapIsOpen' /\ WriterAlone'
  BY <1>6 DEF Close, BrokerTypeOK, channels, Publishing, LockFree, PublishSeesOpen,
              NoBridgeLeak, MapIsOpen, WriterAlone
<1>7. ASSUME SubDone
      PROVE  BrokerTypeOK' /\ PublishSeesOpen' /\ NoBridgeLeak' /\ MapIsOpen' /\ WriterAlone'
  <2> USE <1>7 DEF SubDone, BrokerTypeOK
  <2>1. BrokerTypeOK'
    BY DEF channels, Publishing
  <2>2. PublishSeesOpen' /\ NoBridgeLeak'
    BY DEF PublishSeesOpen, NoBridgeLeak
  <2>3. WriterAlone'
    BY DEF WriterAlone, Publishing
  <2>4. MapIsOpen'
    BY DEF MapIsOpen
  <2> QED BY <2>1, <2>2, <2>3, <2>4
<1> QED BY <1>2, <1>3, <1>4, <1>5, <1>6, <1>7

(* Publish takes the lock: each subscription in the map is owed the event,  *)
(* which is new to it, and its one copy is the loop's.                      *)
LEMMA BeginPublishKeeps ==
  ASSUME BrokerInv, NEW p \in Publishers, NEW e \in Events, BeginPublish(p, e)
  PROVE  BrokerInv'
<1> USE DEF BrokerInv, BrokerSound, BeginPublish
<1>0. /\ event[p] = NoEvent /\ todo[p] = {} /\ NoEvent \notin Events
      /\ waiting = NoSub /\ \A s \in subs : inOpen[s] /\ running[s] /\ s \in Subs
  BY BrokerAssumption DEF BrokerTypeOK, Publishing, MapIsOpen
<1>1. BrokerTypeOK'
  BY <1>0, BrokerAssumption DEF BrokerTypeOK, channels, Publishing
<1>2. ASSUME NEW s \in Subs, NEW x \in Events
      PROVE  Copies(s, x)' = Copies(s, x) + One(s \in subs /\ x = e)
  <2>1. /\ Copies(s, x) = Times(in[s], x) + Times(buf[s], x) + Times(got[s], x)
                             + One(x \in overflow[s]) + Cardinality(Carriers(s, x))
        /\ Times(in[s], x) \in Nat /\ Times(buf[s], x) \in Nat /\ Times(got[s], x) \in Nat
        /\ IsFiniteSet(Carriers(s, x)) /\ Cardinality(Carriers(s, x)) \in Nat
    BY CopiesSum
  <2>2. Copies(s, x)' = Times(in[s], x) + Times(buf[s], x) + Times(got[s], x)
                          + One(x \in overflow[s]) + Cardinality(Carriers(s, x)')
    BY <1>1 DEF Copies, Times, Carriers, channels, One
  <2>3. p \notin Carriers(s, x)
    BY <1>0 DEF Carriers
  <2>4. Carriers(s, x)' = IF s \in subs /\ x = e THEN Carriers(s, x) \cup {p} ELSE Carriers(s, x)
    BY <1>0 DEF Carriers, BrokerTypeOK
  <2>5. Cardinality(Carriers(s, x)') = Cardinality(Carriers(s, x)) + One(s \in subs /\ x = e)
    <3>1. CASE s \in subs /\ x = e
      BY <3>1, <2>1, <2>3, <2>4, FS_AddElement DEF One
    <3>2. CASE ~(s \in subs /\ x = e)
      BY <3>2, <2>1, <2>4 DEF One
    <3> QED BY <3>1, <3>2
  <2> QED BY <2>1, <2>2, <2>5 DEF One
<1>3. ExactlyOnce'
  <2> SUFFICES ASSUME NEW s \in Subs, NEW x \in Events
               PROVE  /\ Copies(s, x)' <= 1
                      /\ Copies(s, x)' = 1 => x \in owed'[s]
                      /\ inOpen'[s] /\ x \in owed'[s] => Copies(s, x)' = 1
    BY DEF ExactlyOnce
  <2>1. Copies(s, x) \in Nat
    BY CopiesSum DEF One
  <2>2. /\ Copies(s, x) <= 1 /\ (Copies(s, x) = 1 => x \in owed[s])
        /\ inOpen[s] /\ x \in owed[s] => Copies(s, x) = 1
    BY DEF ExactlyOnce
  <2>3. x = e => x \notin owed[s]
    BY DEF OwedIsPublished
  <2>4. /\ owed'[s] = IF s \in subs THEN owed[s] \cup {e} ELSE owed[s]
        /\ inOpen'[s] = inOpen[s]
    BY DEF BrokerTypeOK
  <2> QED BY <1>2, <2>1, <2>2, <2>3, <2>4 DEF One
<1>4. PublishSeesOpen' /\ NoBridgeLeak' /\ WriterAlone'
  BY <1>0 DEF PublishSeesOpen, NoBridgeLeak, WriterAlone, BrokerTypeOK
<1>5. OwedIsPublished' /\ MapIsOpen'
  BY DEF OwedIsPublished, MapIsOpen, BrokerTypeOK
<1> QED BY <1>1, <1>3, <1>4, <1>5

(* What a step that leaves the map and mu alone must show. *)
LEMMA MapFrame ==
  ASSUME BrokerInv,
         UNCHANGED <<closed, subs, writer, waiting, unpublished, inOpen, owed>>
  PROVE  /\ OwedIsPublished'
         /\ running' = running => MapIsOpen' /\ NoBridgeLeak'
         /\ event' = event => WriterAlone'
BY DEF BrokerInv, BrokerSound, OwedIsPublished, MapIsOpen, NoBridgeLeak, WriterAlone, Publishing

(* The loop reaches a subscription: its copy goes to the channel or to a    *)
(* goroutine of its own, which no other event of that name has.             *)
LEMMA SendToKeeps ==
  ASSUME BrokerInv, NEW p \in Publishers, NEW s \in Subs, SendTo(p, s)
  PROVE  BrokerInv'
<1> USE DEF BrokerInv, BrokerSound
<1> DEFINE e == event[p]
<1>0. /\ e \in Events /\ todo[p] \in SUBSET Subs /\ s \in todo[p]
      /\ UNCHANGED <<closed, subs, writer, waiting, unpublished, inOpen, buf, running, owed, got>>
  BY DEF SendTo, BrokerTypeOK, Publishing
<1>1. /\ todo' = [todo EXCEPT ![p] = @ \ {s}]
      /\ event' = [event EXCEPT ![p] = IF todo[p] = {s} THEN NoEvent ELSE @]
  BY DEF SendTo, Reached
<1>a. \/ /\ Len(in[s]) < InCap
         /\ in' = [in EXCEPT ![s] = Append(in[s], e)] /\ overflow' = overflow
      \/ /\ ~(Len(in[s]) < InCap)
         /\ in' = in /\ overflow' = [overflow EXCEPT ![s] = overflow[s] \cup {e}]
  <2>1. Len(in[s]) \in Nat /\ InCap \in Nat
    BY BrokerAssumption, LenProperties DEF BrokerTypeOK
  <2> QED BY <2>1 DEF SendTo
<1>b. /\ in \in [Subs -> Seq(Events)] /\ \A t \in Subs : Len(in[t]) <= InCap
      /\ overflow \in [Subs -> SUBSET Events]
  BY DEF BrokerTypeOK
<1> HIDE DEF e
<1>2. /\ in[s] \in Seq(Events) /\ InCap \in Nat
      /\ Len(in[s]) < InCap => /\ Append(in[s], e) \in Seq(Events)
                                /\ Len(Append(in[s], e)) <= InCap
  BY <1>0, <1>b, BrokerAssumption, SendType
<1>3. BrokerTypeOK'
  <2>1. in' \in [Subs -> Seq(Events)] /\ \A t \in Subs : Len(in'[t]) <= InCap
    BY <1>2, <1>a, <1>b
  <2>2. overflow' \in [Subs -> SUBSET Events]
    BY <1>0, <1>a, <1>b
  <2>3. /\ todo' \in [Publishers -> SUBSET Subs]
        /\ event' \in [Publishers -> Events \cup {NoEvent}]
        /\ \A q \in Publishers : todo'[q] # {} <=> event'[q] # NoEvent
    BY <1>0, <1>1, BrokerAssumption DEF BrokerTypeOK, Publishing
  <2> QED BY <1>0, <2>1, <2>2, <2>3 DEF BrokerTypeOK, Publishing
<1>4. ASSUME NEW t \in Subs, NEW x \in Events
      PROVE  Copies(t, x)' = Copies(t, x)
  <2>1. /\ Copies(t, x) = Times(in[t], x) + Times(buf[t], x) + Times(got[t], x)
                             + One(x \in overflow[t]) + Cardinality(Carriers(t, x))
        /\ Times(in[t], x) \in Nat /\ Times(buf[t], x) \in Nat /\ Times(got[t], x) \in Nat
        /\ IsFiniteSet(Carriers(t, x)) /\ Cardinality(Carriers(t, x)) \in Nat
    BY CopiesSum
  <2>2. Copies(t, x)' = Times(in'[t], x) + Times(buf[t], x) + Times(got[t], x)
                          + One(x \in overflow'[t]) + Cardinality(Carriers(t, x)')
    BY <1>0 DEF Copies, Times, Carriers, One
  <2>3. CASE t = s /\ x = e
    <3>1. p \in Carriers(t, x) /\ Carriers(t, x)' = Carriers(t, x) \ {p}
      BY <1>0, <1>1, <2>3, BrokerAssumption DEF Carriers, BrokerTypeOK, e
    <3>2. Cardinality(Carriers(t, x)') = Cardinality(Carriers(t, x)) - 1
      BY <2>1, <3>1, FS_RemoveElement
    <3>3. Cardinality(Carriers(t, x)) > 0
      BY <2>1, <3>1, FS_EmptySet
    <3>4. Copies(t, x) <= 1
      BY DEF ExactlyOnce
    <3>5. x \notin overflow[t]
      BY <2>1, <3>3, <3>4 DEF One
    <3>6. CASE Len(in[s]) < InCap
      <4>1. in'[t] = Append(in[t], x) /\ overflow'[t] = overflow[t]
        BY <2>3, <3>6, <1>a, <1>b
      <4>2. Times(in'[t], x) = Times(in[t], x) + 1
        BY <1>0, <4>1, <1>2, <2>1, <2>3, CopiesAppend, TimesAt DEF One
      <4>3. One(x \in overflow'[t]) = One(x \in overflow[t]) /\ One(x \in overflow[t]) \in Nat
        BY <4>1 DEF One
      <4> QED BY <2>1, <2>2, <3>2, <4>2, <4>3
    <3>7. CASE ~(Len(in[s]) < InCap)
      <4>1. in' = in /\ overflow'[t] = overflow[t] \cup {x}
        BY <2>3, <3>7, <1>a, <1>b
      <4> QED BY <2>1, <2>2, <3>2, <3>5, <4>1 DEF One
    <3> QED BY <3>6, <3>7
  <2>4. CASE t = s /\ x # e
    <3>1. Carriers(t, x)' = Carriers(t, x)
      BY <1>0, <1>1, <2>4, BrokerAssumption DEF Carriers, BrokerTypeOK, e
    <3>2. Times(in'[t], x) = Times(in[t], x)
      <4>1. in'[t] \in {in[t], Append(in[t], e)}
        BY <2>4, <1>a, <1>b
      <4>2. Times(Append(in[t], e), x) = Times(in[t], x)
        BY <1>0, <1>2, <2>1, <2>4, CopiesAppend, TimesAt DEF One
      <4> QED BY <4>1, <4>2
    <3>3. x \in overflow'[t] <=> x \in overflow[t]
      BY <2>4, <1>a, <1>b
    <3> QED BY <2>1, <2>2, <3>1, <3>2, <3>3 DEF One
  <2>5. CASE t # s
    <3>1. Carriers(t, x)' = Carriers(t, x)
      BY <1>0, <1>1, <2>5, BrokerAssumption DEF Carriers, BrokerTypeOK
    <3>2. in'[t] = in[t] /\ overflow'[t] = overflow[t]
      BY <2>5, <1>a, <1>b
    <3> QED BY <2>1, <2>2, <3>1, <3>2
  <2> QED BY <2>3, <2>4, <2>5
<1>5. ExactlyOnce'
  BY <1>0, <1>4, SameCopies
<1>6. PublishSeesOpen'
  BY <1>0, <1>1 DEF PublishSeesOpen, BrokerTypeOK
<1>7. WriterAlone'
  BY <1>0, <1>1 DEF WriterAlone, BrokerTypeOK, Publishing
<1>8. OwedIsPublished' /\ MapIsOpen' /\ NoBridgeLeak'
  BY <1>0, MapFrame
<1> QED BY <1>3, <1>5, <1>6, <1>7, <1>8

(* A waiting goroutine finds room, or the channel closed. *)
LEMMA OverflowSendKeeps ==
  ASSUME BrokerInv, NEW s \in Subs, NEW e \in Events, OverflowSend(s, e)
  PROVE  BrokerInv'
<1> USE DEF BrokerInv, BrokerSound
<1>0. /\ e \in overflow[s] /\ overflow' = [overflow EXCEPT ![s] = @ \ {e}]
      /\ UNCHANGED <<closed, subs, writer, waiting, event, todo, unpublished, inOpen, buf,
                     running, owed, got>>
  BY DEF OverflowSend
<1>1. /\ in[s] \in Seq(Events) /\ InCap \in Nat
      /\ Len(in[s]) < InCap => /\ Append(in[s], e) \in Seq(Events)
                                /\ Len(Append(in[s], e)) <= InCap
  BY BrokerAssumption, SendType DEF BrokerTypeOK
<1>2. BrokerTypeOK'
  <2>1. in' \in [Subs -> Seq(Events)] /\ \A t \in Subs : Len(in'[t]) <= InCap
    BY <1>1 DEF OverflowSend, BrokerTypeOK
  <2>2. overflow' \in [Subs -> SUBSET Events]
    BY <1>0 DEF BrokerTypeOK
  <2> QED BY <1>0, <2>1, <2>2 DEF BrokerTypeOK, Publishing
<1>3. ASSUME NEW t \in Subs, NEW x \in Events
      PROVE  /\ Copies(t, x) \in Nat
             /\ IF t = s /\ x = e /\ ~inOpen[s] THEN Copies(t, x)' = Copies(t, x) - 1
                ELSE Copies(t, x)' = Copies(t, x)
  <2>1. /\ Copies(t, x) = Times(in[t], x) + Times(buf[t], x) + Times(got[t], x)
                             + One(x \in overflow[t]) + Cardinality(Carriers(t, x))
        /\ Times(in[t], x) \in Nat /\ Times(buf[t], x) \in Nat /\ Times(got[t], x) \in Nat
        /\ Cardinality(Carriers(t, x)) \in Nat
    BY CopiesSum
  <2>2. Copies(t, x)' = Times(in'[t], x) + Times(buf[t], x) + Times(got[t], x)
                          + One(x \in overflow'[t]) + Cardinality(Carriers(t, x))
    BY <1>0 DEF Copies, Times, Carriers, One
  <2>3. One(x \in overflow'[t]) = One(x \in overflow[t]) - One(t = s /\ x = e)
    BY <1>0 DEF BrokerTypeOK, One
  <2>4. Times(in'[t], x) = Times(in[t], x) + One(t = s /\ x = e /\ inOpen[s])
    <3>1. CASE t # s \/ ~inOpen[s]
      <4>1. in'[t] = in[t]
        BY <3>1 DEF OverflowSend, BrokerTypeOK
      <4> QED BY <2>1, <3>1, <4>1 DEF One
    <3>2. CASE t = s /\ inOpen[s]
      <4>1. in'[t] = Append(in[t], e)
        BY <3>2 DEF OverflowSend, BrokerTypeOK
      <4>2. Cardinality(At(Append(in[t], e), x)) = Cardinality(At(in[t], x)) + One(e = x)
        BY <1>1, <3>2, CopiesAppend
      <4> QED BY <2>1, <3>2, <4>1, <4>2, TimesAt DEF One
    <3> QED BY <3>1, <3>2
  <2> QED BY <2>1, <2>2, <2>3, <2>4 DEF One
<1>4. ExactlyOnce'
  <2> SUFFICES ASSUME NEW t \in Subs, NEW x \in Events
               PROVE  /\ Copies(t, x)' <= 1
                      /\ Copies(t, x)' = 1 => x \in owed'[t]
                      /\ inOpen'[t] /\ x \in owed'[t] => Copies(t, x)' = 1
    BY DEF ExactlyOnce
  <2>1. /\ Copies(t, x) <= 1 /\ (Copies(t, x) = 1 => x \in owed[t])
        /\ inOpen[t] /\ x \in owed[t] => Copies(t, x) = 1
    BY DEF ExactlyOnce
  <2>2. CASE t = s /\ x = e /\ ~inOpen[s]
    BY <1>0, <1>3, <2>1, <2>2
  <2>3. CASE ~(t = s /\ x = e /\ ~inOpen[s])
    BY <1>0, <1>3, <2>1, <2>3
  <2> QED BY <2>2, <2>3
<1>5. PublishSeesOpen'
  BY <1>0 DEF PublishSeesOpen
<1>6. OwedIsPublished' /\ MapIsOpen' /\ NoBridgeLeak' /\ WriterAlone'
  BY <1>0, MapFrame
<1> QED BY <1>2, <1>4, <1>5, <1>6

(* The bridge goroutine and the subscriber move the head of one queue to    *)
(* the end of the next.                                                     *)
LEMMA MovesKeep ==
  ASSUME BrokerInv, NEW s \in Subs, BridgeReceive(s) \/ Deliver(s)
  PROVE  BrokerInv'
<1> USE DEF BrokerInv, BrokerSound
<1>0. UNCHANGED <<closed, subs, writer, waiting, event, todo, unpublished, inOpen,
                  overflow, running, owed>>
  BY DEF BridgeReceive, Deliver
<1>1. /\ in[s] \in Seq(Events) /\ buf[s] \in Seq(Events) /\ got[s] \in Seq(Events)
      /\ InCap \in Nat /\ Len(in[s]) <= InCap
  BY BrokerAssumption DEF BrokerTypeOK
<1>2. BrokerTypeOK'
  <2>1. CASE BridgeReceive(s)
    <3>1. /\ Head(in[s]) \in Events /\ Tail(in[s]) \in Seq(Events) /\ Len(Tail(in[s])) <= InCap
      BY <1>1, <2>1, ReceiveType DEF BridgeReceive
    <3>2. Append(buf[s], Head(in[s])) \in Seq(Events)
      BY <1>1, <3>1, AppendProperties
    <3> QED BY <1>0, <2>1, <3>1, <3>2 DEF BridgeReceive, BrokerTypeOK, Publishing
  <2>2. CASE Deliver(s)
    <3>1. Head(buf[s]) \in Events /\ Tail(buf[s]) \in Seq(Events)
      BY <1>1, <2>2, TailFacts DEF Deliver
    <3>2. Append(got[s], Head(buf[s])) \in Seq(Events)
      BY <1>1, <3>1, AppendProperties
    <3> QED BY <1>0, <2>2, <3>1, <3>2 DEF Deliver, BrokerTypeOK, Publishing
  <2> QED BY <2>1, <2>2
<1>3. ASSUME NEW t \in Subs, NEW x \in Events
      PROVE  Copies(t, x)' = Copies(t, x)
  <2>1. /\ Copies(t, x) = Times(in[t], x) + Times(buf[t], x) + Times(got[t], x)
                             + One(x \in overflow[t]) + Cardinality(Carriers(t, x))
        /\ Times(in[t], x) \in Nat /\ Times(buf[t], x) \in Nat /\ Times(got[t], x) \in Nat
        /\ Cardinality(Carriers(t, x)) \in Nat
    BY CopiesSum
  <2>2. Copies(t, x)' = Times(in'[t], x) + Times(buf'[t], x) + Times(got'[t], x)
                          + One(x \in overflow[t]) + Cardinality(Carriers(t, x))
    BY <1>0 DEF Copies, Times, Carriers, One
  <2>3. CASE t # s
    <3>1. in'[t] = in[t] /\ buf'[t] = buf[t] /\ got'[t] = got[t]
      BY <2>3 DEF BridgeReceive, Deliver, BrokerTypeOK
    <3> QED BY <2>1, <2>2, <3>1
  <2>4. CASE t = s /\ BridgeReceive(s)
    <3>1. /\ in[s] # << >> /\ in'[t] = Tail(in[s]) /\ buf'[t] = Append(buf[s], Head(in[s]))
          /\ got'[t] = got[t] /\ Head(in[s]) \in Events
      BY <2>4, <1>1, TailFacts DEF BridgeReceive, BrokerTypeOK
    <3>2. Cardinality(At(in[s], x)) = Cardinality(At(Tail(in[s]), x)) + One(Head(in[s]) = x)
      BY <1>1, <3>1, CopiesTail
    <3>3. Cardinality(At(Append(buf[s], Head(in[s])), x)) = Cardinality(At(buf[s], x)) + One(Head(in[s]) = x)
      BY <1>1, <3>1, CopiesAppend
    <3>4. Cardinality(At(Tail(in[s]), x)) \in Nat
      BY <1>1, <3>1, TailFacts, CopiesNat
    <3> QED BY <2>1, <2>2, <2>4, <3>1, <3>2, <3>3, <3>4, TimesAt DEF One
  <2>5. CASE t = s /\ Deliver(s)
    <3>1. /\ buf[s] # << >> /\ buf'[t] = Tail(buf[s]) /\ got'[t] = Append(got[s], Head(buf[s]))
          /\ in'[t] = in[t] /\ Head(buf[s]) \in Events
      BY <2>5, <1>1, TailFacts DEF Deliver, BrokerTypeOK
    <3>2. Cardinality(At(buf[s], x)) = Cardinality(At(Tail(buf[s]), x)) + One(Head(buf[s]) = x)
      BY <1>1, <3>1, CopiesTail
    <3>3. Cardinality(At(Append(got[s], Head(buf[s])), x)) = Cardinality(At(got[s], x)) + One(Head(buf[s]) = x)
      BY <1>1, <3>1, CopiesAppend
    <3>4. Cardinality(At(Tail(buf[s]), x)) \in Nat
      BY <1>1, <3>1, TailFacts, CopiesNat
    <3> QED BY <2>1, <2>2, <2>5, <3>1, <3>2, <3>3, <3>4, TimesAt DEF One
  <2> QED BY <2>3, <2>4, <2>5
<1>4. ExactlyOnce'
  BY <1>0, <1>3, SameCopies
<1>5. PublishSeesOpen'
  BY <1>0 DEF PublishSeesOpen
<1>6. OwedIsPublished' /\ MapIsOpen' /\ NoBridgeLeak' /\ WriterAlone'
  BY <1>0, MapFrame
<1> QED BY <1>2, <1>4, <1>5, <1>6

(* The bridge goroutine ends: what its slice holds is lost, which only a    *)
(* closed channel permits.                                                  *)
LEMMA BridgeEndsKeeps ==
  ASSUME BrokerInv, NEW s \in Subs, BridgeEnds(s)
  PROVE  BrokerInv'
<1> USE DEF BrokerInv, BrokerSound
<1>0. /\ ~inOpen[s] /\ running' = [running EXCEPT ![s] = FALSE]
      /\ buf' = [buf EXCEPT ![s] = << >>]
      /\ UNCHANGED <<closed, subs, writer, waiting, event, todo, unpublished, in, inOpen,
                     overflow, owed, got>>
  BY DEF BridgeEnds
<1>1. BrokerTypeOK'
  <2>1. buf' \in [Subs -> Seq(Events)] /\ running' \in [Subs -> BOOLEAN]
    BY <1>0, EmptySeq DEF BrokerTypeOK
  <2> QED BY <1>0, <2>1 DEF BrokerTypeOK, Publishing
<1>2. ASSUME NEW t \in Subs, NEW x \in Events
      PROVE  /\ Copies(t, x) \in Nat /\ Copies(t, x)' \in Nat /\ Copies(t, x)' <= Copies(t, x)
             /\ t # s => Copies(t, x)' = Copies(t, x)
  <2>1. /\ Copies(t, x) = Times(in[t], x) + Times(buf[t], x) + Times(got[t], x)
                             + One(x \in overflow[t]) + Cardinality(Carriers(t, x))
        /\ Times(in[t], x) \in Nat /\ Times(buf[t], x) \in Nat /\ Times(got[t], x) \in Nat
        /\ Cardinality(Carriers(t, x)) \in Nat
    BY CopiesSum
  <2>2. Copies(t, x)' = Times(in[t], x) + Times(buf'[t], x) + Times(got[t], x)
                          + One(x \in overflow[t]) + Cardinality(Carriers(t, x))
    BY <1>0 DEF Copies, Times, Carriers, One
  <2>3. buf'[t] = IF t = s THEN << >> ELSE buf[t]
    BY <1>0 DEF BrokerTypeOK
  <2>4. Times(<< >>, x) = 0
    BY CopiesEmpty DEF Times, At
  <2> QED BY <2>1, <2>2, <2>3, <2>4 DEF One
<1>3. ExactlyOnce'
  <2> SUFFICES ASSUME NEW t \in Subs, NEW x \in Events
               PROVE  /\ Copies(t, x)' <= 1
                      /\ Copies(t, x)' = 1 => x \in owed'[t]
                      /\ inOpen'[t] /\ x \in owed'[t] => Copies(t, x)' = 1
    BY DEF ExactlyOnce
  <2>1. /\ Copies(t, x) <= 1 /\ (Copies(t, x) = 1 => x \in owed[t])
        /\ inOpen[t] /\ x \in owed[t] => Copies(t, x) = 1
    BY DEF ExactlyOnce
  <2> QED BY <1>0, <1>2, <2>1
<1>4. PublishSeesOpen'
  BY <1>0 DEF PublishSeesOpen, BrokerTypeOK
<1>5. NoBridgeLeak' /\ MapIsOpen'
  BY <1>0 DEF NoBridgeLeak, MapIsOpen, BrokerTypeOK
<1>6. OwedIsPublished' /\ WriterAlone'
  BY <1>0, MapFrame
<1> QED BY <1>1, <1>3, <1>4, <1>5, <1>6

LEMMA BrokerStep == BrokerInv /\ [BrokerNext]_brokerVars => BrokerInv'
<1> SUFFICES ASSUME BrokerInv, [BrokerNext]_brokerVars PROVE BrokerInv'
  OBVIOUS
<1>1. CASE UNCHANGED brokerVars
  <2>1. UNCHANGED <<closed, subs, writer, waiting, unpublished, inOpen, owed, running, event,
                    todo, channels, in, overflow, buf, got>>
    BY <1>1 DEF brokerVars, channels
  <2>2. ExactlyOnce'
    BY <2>1, FrameCopies, SameCopies DEF BrokerInv, BrokerSound
  <2>3. BrokerTypeOK' /\ PublishSeesOpen'
    BY <2>1 DEF BrokerInv, BrokerSound, BrokerTypeOK, PublishSeesOpen, Publishing
  <2> QED BY <2>1, <2>2, <2>3, MapFrame DEF BrokerInv, BrokerSound
<1>2. CASE BrokerNext
  <2>1. CASE \/ \E s \in Subs : Subscribe(s) \/ Unsubscribe(s) \/ CloseNext(s)
             \/ Close \/ SubDone
    BY <2>1, WritersKeep
  <2>2. CASE \E s \in Subs : BridgeReceive(s) \/ Deliver(s)
    BY <2>2, MovesKeep
  <2>3. CASE \E s \in Subs : BridgeEnds(s)
    BY <2>3, BridgeEndsKeeps
  <2>4. CASE \E s \in Subs, e \in Events : OverflowSend(s, e)
    BY <2>4, OverflowSendKeeps
  <2>5. CASE \E p \in Publishers, e \in Events : BeginPublish(p, e)
    BY <2>5, BeginPublishKeeps
  <2>6. CASE \E p \in Publishers, s \in Subs : SendTo(p, s)
    BY <2>6, SendToKeeps
  <2> QED BY <1>2, <2>1, <2>2, <2>3, <2>4, <2>5, <2>6 DEF BrokerNext, Goroutine
<1> QED BY <1>1, <1>2

(* Exactly-once delivery while subscribed, publishers that never send on a  *)
(* closed channel, and no bridge goroutine without its subscription         *)
(* (Publish, Subscribe, Unsubscribe, Close and bridge of broker.go).        *)
THEOREM BrokerIsSound == BrokerSpec => []BrokerSound
<1>1. BrokerInv => BrokerSound
  BY DEF BrokerInv
<1> QED BY <1>1, BrokerBegins, BrokerStep, PTL DEF BrokerSpec

-----------------------------------------------------------------------------
(* The log files.  LoggerInv: the size that the Logger remembers is that of  *)
(* its file.  TailerInv: the lines that are shown lie in what the Tailer has *)
(* read, and it has read up to a line end or to where it tore a line.        *)
LoggerTypes ==
  /\ files \in [1..(MaxFiles + 1) -> Seq(Nat)] /\ written \in 0..MaxWritten
  /\ size \in Nat /\ opened \in BOOLEAN
Sized == opened => size = Len(files[1])
Fresh == written = 0 => files[1] = <<>>
LoggerInv == LoggerTypes /\ Sized /\ Fresh /\ LogIsSuffix /\ FilesBounded

Line == [first: Nat, last: Nat]
TailerTypes ==
  /\ squid \in Seq({"text", "end"}) /\ position \in 0..Len(squid)
  /\ {lines, received, piece} \subseteq Seq(Line) /\ Len(lines) <= ChanCap
  /\ tail \in {"waiting", "reading", "sending", "asleep", "ended"}
  /\ IF tail = "sending" THEN Len(piece) = 1 ELSE piece = <<>>
Read(s) == \A i \in 1..Len(s) : 1 <= s[i].first /\ s[i].first <= s[i].last /\ s[i].last <= position
InTurn(s) == \A i \in 1..Len(s) : i < Len(s) => s[i].last < s[i + 1].first
Covers(s) == ~stopping => \A p \in 1..position : squid[p] = "text" =>
               \E i \in 1..Len(s) : s[i].first <= p /\ p <= s[i].last
Whole(s) == \A i \in 1..Len(s) :
              /\ \A p \in s[i].first..s[i].last : squid[p] = "text"
              /\ Begins(s[i].first) \/ s[i].first - 1 \in torn
              /\ Ends(s[i].last) \/ s[i].last \in torn
AtBreak == position = 0 \/ squid[position] = "end" \/ position \in torn
Laid(s) == Read(s) /\ InTurn(s) /\ Covers(s) /\ Whole(s)
TailerInv == TailerTypes /\ AtBreak /\ Laid(Shown)

(* Rotated files follow each other when the current one is made anew.        *)
LEMMA LogFilesBegin ==
  LogFilesInit => LoggerInv /\ TailerInv
<1> SUFFICES ASSUME LogFilesInit PROVE LoggerInv /\ TailerInv
  OBVIOUS
<1> USE DEF LogFilesInit
<1>1. MaxFiles \in Nat /\ 1 \in 1..(MaxFiles + 1) /\ Capacity \in Nat /\ Longest \in Nat
      /\ Capacity > 0 /\ MaxWritten \in Nat /\ ChanCap \in Nat
  BY LogFilesAssumption
<1>2. LoggerTypes
  <2>1. <<>> \in Seq(Nat) /\ files = [n \in 1..(MaxFiles + 1) |-> <<>>]
    BY EmptySeq
  <2>2. files \in [1..(MaxFiles + 1) -> Seq(Nat)]
    BY <2>1
  <2>3. written = 0 /\ size = 0 /\ opened = FALSE
    OBVIOUS
  <2> HIDE DEF LogFilesInit
  <2>4. opened \in BOOLEAN
    BY <2>3
  <2>5. written \in 0..MaxWritten /\ size \in Nat
    BY <1>1, <2>3
  <2> QED BY <2>2, <2>4, <2>5 DEF LoggerTypes
<1>3. /\ \A n \in 1..(MaxFiles + 1) : files[n] = <<>> /\ Len(files[n]) = 0
  BY <1>1
<1>4. Sized /\ Fresh /\ FilesBounded
  BY <1>1, <1>3 DEF Sized, Fresh, FilesBounded
<1>5. LogIsSuffix
  <2>1. \A n \in 1..(MaxFiles + 1) : Consecutive(files[n]) /\ Empty(n)
    BY <1>3 DEF Consecutive, Empty
  <2>2. \A n \in 1..MaxFiles : n \in 1..(MaxFiles + 1) /\ n + 1 \in 1..(MaxFiles + 1)
    BY <1>1
  <2> QED BY <2>1, <2>2 DEF LogIsSuffix
<1>6. TailerTypes /\ AtBreak
  BY <1>1 DEF TailerTypes, AtBreak
<1>7. Shown = <<>> /\ Len(Shown) = 0
  BY DEF Shown
<1>8. Laid(Shown)
  BY <1>7 DEF Laid, Read, InTurn, Covers, Whole
<1> QED BY <1>2, <1>4, <1>5, <1>6, <1>8 DEF LoggerInv, TailerInv

(* The units of an entry follow what was written.                            *)
LEMMA EntryFacts ==
  ASSUME NEW length \in 1..Longest, LoggerTypes
  PROVE  /\ Entry(length) \in Seq(Nat) /\ Len(Entry(length)) = length
         /\ \A i \in 1..length : Entry(length)[i] = written + i
<1>1. Longest \in Nat /\ written \in Nat /\ length \in Nat
  BY LogFilesAssumption DEF LoggerTypes
<1>2. Entry(length) \in [1..length -> Nat]
  BY <1>1 DEF Entry
<1>3. Entry(length) \in Seq(Nat) /\ Len(Entry(length)) = length
  BY <1>1, <1>2, FunctionIsSeq
<1> QED BY <1>3 DEF Entry

(* The sequence new is old and the k numbers after w.                        *)
Continued(new, old, w, k) ==
  /\ Len(new) = Len(old) + k
  /\ \A i \in 1..(Len(old) + k) : new[i] = IF i <= Len(old) THEN old[i] ELSE w + (i - Len(old))

(* What is in order and is gone on with where it ends is in order.           *)
LEMMA GoesOn ==
  ASSUME NEW w \in Nat, NEW k \in Nat \ {0}, NEW old \in Seq(Nat), Consecutive(old),
         old # <<>> => old[1] >= 1 /\ old[Len(old)] = w,
         NEW new \in Seq(Nat), Continued(new, old, w, k)
  PROVE  /\ new # <<>> /\ Consecutive(new) /\ new[Len(new)] = w + k /\ new[1] >= 1
         /\ new[1] = IF old = <<>> THEN w + 1 ELSE old[1]
<1>1. Len(old) \in Nat /\ DOMAIN old = 1..Len(old) /\ (old = <<>> <=> Len(old) = 0)
  BY LenProperties, EmptySeq
<1> USE DEF Continued
<1>2. DOMAIN new = 1..(Len(old) + k) /\ new # <<>>
  BY <1>1, LenProperties, EmptySeq
<1>3. new[Len(new)] = w + k
  <2>1. Len(new) \in 1..(Len(old) + k) /\ ~(Len(new) <= Len(old)) /\ Len(new) - Len(old) = k
    BY <1>1
  <2> QED BY <2>1
<1>4. new[1] = IF old = <<>> THEN w + 1 ELSE old[1]
  <2>1. 1 \in 1..(Len(old) + k) /\ (1 <= Len(old) <=> old # <<>>) /\ (old = <<>> => 1 - Len(old) = 1)
    BY <1>1
  <2> QED BY <2>1
<1>5. new[1] >= 1
  BY <1>4
<1>6. Consecutive(new)
  <2> SUFFICES ASSUME NEW i \in 1..(Len(old) + k) PROVE new[i] = new[1] + i - 1
    BY <1>2 DEF Consecutive
  <2>1. CASE old = <<>>
    <3>1. Len(old) = 0 /\ new[1] = w + 1 /\ i \in 1..k
      BY <1>1, <1>4, <2>1
    <3>2. new[i] = w + i
      BY <3>1
    <3> QED BY <3>1, <3>2
  <2>2. CASE old # <<>>
    <3>1. Len(old) \in DOMAIN old /\ 1 \in DOMAIN old
      BY <1>1, <2>2
    <3>2. old[Len(old)] = old[1] + Len(old) - 1 /\ old[1] \in Nat
      BY <3>1, ElementOfSeq DEF Consecutive
    <3>3. i <= Len(old) => new[i] = old[1] + i - 1
      <4> SUFFICES ASSUME i <= Len(old) PROVE new[i] = old[1] + i - 1
        OBVIOUS
      <4>1. i \in DOMAIN old
        BY <1>1
      <4> QED BY <4>1 DEF Consecutive
    <3>4. new[1] = old[1] /\ w = old[1] + Len(old) - 1
      BY <1>4, <2>2, <3>2
    <3>5. ~(i <= Len(old)) => new[i] = old[1] + i - 1
      <4> SUFFICES ASSUME ~(i <= Len(old)) PROVE new[i] = old[1] + i - 1
        OBVIOUS
      <4>1. new[i] = w + (i - Len(old)) /\ i \in Int
        BY <1>1
      <4>2. w = old[1] + Len(old) - 1 /\ old[1] \in Int /\ Len(old) \in Int
        BY <1>1, <3>2, <3>4
      <4> DEFINE a == old[1]
                 n == Len(old)
                 x == new[i]
      <4>3. x = w + (i - n) /\ w = a + n - 1 /\ i \in Int /\ a \in Int /\ n \in Int
        BY <4>1, <4>2
      <4> HIDE DEF a, n, x
      <4>4. x = a + i - 1
        BY <4>3
      <4> QED BY <4>4 DEF a, x
    <3> QED BY <3>3, <3>4, <3>5
  <2> QED BY <2>1, <2>2
<1> QED BY <1>2, <1>3, <1>4, <1>5, <1>6

(* An entry after what is in order up to the last unit written is in order.  *)
LEMMA EntryFollows ==
  ASSUME NEW length \in 1..Longest, LoggerTypes, NEW old \in Seq(Nat), Consecutive(old),
         old # <<>> => old[1] >= 1 /\ old[Len(old)] = written,
         NEW new, new = old \o Entry(length)
  PROVE  /\ new \in Seq(Nat) /\ Len(new) = Len(old) + length /\ new # <<>> /\ Consecutive(new)
         /\ new[Len(new)] = written + length /\ new[1] >= 1
         /\ new[1] = IF old = <<>> THEN written + 1 ELSE old[1]
<1>1. /\ Entry(length) \in Seq(Nat) /\ Len(Entry(length)) = length
      /\ \A i \in 1..length : Entry(length)[i] = written + i
  BY EntryFacts
<1>2. Longest \in Nat /\ written \in Nat /\ length \in Nat \ {0} /\ Len(old) \in Nat
  BY LogFilesAssumption, LenProperties DEF LoggerTypes
<1> DEFINE e == Entry(length)
<1>3. e \in Seq(Nat) /\ Len(e) = length /\ new = old \o e /\ \A i \in 1..length : e[i] = written + i
  BY <1>1
<1> HIDE DEF e
<1>4. /\ old \o e \in Seq(Nat) /\ Len(old \o e) = Len(old) + Len(e)
      /\ \A i \in 1..(Len(old) + Len(e)) :
           (old \o e)[i] = IF i <= Len(old) THEN old[i] ELSE e[i - Len(old)]
  BY <1>3, ConcatProperties
<1>5. /\ new \in Seq(Nat) /\ Len(new) = Len(old) + length
      /\ \A i \in 1..(Len(old) + length) : new[i] = IF i <= Len(old) THEN old[i] ELSE e[i - Len(old)]
  BY <1>3, <1>4
<1>6. \A i \in 1..(Len(old) + length) : new[i] = IF i <= Len(old) THEN old[i] ELSE written + (i - Len(old))
  <2> SUFFICES ASSUME NEW i \in 1..(Len(old) + length), ~(i <= Len(old))
               PROVE  new[i] = written + (i - Len(old))
    BY <1>5
  <2>1. i - Len(old) \in 1..length
    BY <1>2
  <2>2. new[i] = e[i - Len(old)]
    BY <1>5
  <2> QED BY <1>3, <2>1, <2>2
<1>7. /\ new # <<>> /\ Consecutive(new) /\ new[Len(new)] = written + length /\ new[1] >= 1
      /\ new[1] = IF old = <<>> THEN written + 1 ELSE old[1]
  <2>1. written \in Nat /\ length \in Nat \ {0} /\ new \in Seq(Nat) /\ Len(new) = Len(old) + length
    BY <1>2, <1>5
  <2>2. Continued(new, old, written, length)
    BY <2>1, <1>6 DEF Continued
  <2>3. Consecutive(old) /\ (old # <<>> => old[1] >= 1 /\ old[Len(old)] = written)
    OBVIOUS
  <2> QED BY ONLY <2>1, <2>2, <2>3, GoesOn
<1> QED BY <1>5, <1>7

(* What Log makes of the files: the entry goes to the current one, which is  *)
(* a new one when the size is reached.                                       *)
LEMMA LogEffect ==
  ASSUME LoggerInv, NEW length \in 1..Longest, Log(length)
  PROVE  /\ SizeNow = Len(files[1]) /\ written' = written + length /\ written' \in 0..MaxWritten /\ opened' = TRUE
         /\ ~Full => /\ files' = [files EXCEPT ![1] = files[1] \o Entry(length)]
                     /\ size' = Len(files[1]) + length
         /\ Full => /\ \A u : u = <<>> \o Entry(length) =>
                         files' = [n \in 1..(MaxFiles + 1) |-> IF n = 1 THEN u ELSE files[n - 1]]
                    /\ size' = length
<1>1. SizeNow = Len(files[1])
  BY DEF LoggerInv, Sized, SizeNow
<1>2. written' = written + length /\ written' \in 0..MaxWritten /\ opened' = TRUE
  <2>1. length \in Nat /\ MaxWritten \in Nat /\ written \in Nat
    BY LogFilesAssumption DEF LoggerInv, LoggerTypes
  <2> QED BY <2>1 DEF Log, Logs
<1>3. ASSUME ~Full PROVE /\ files' = [files EXCEPT ![1] = files[1] \o Entry(length)]
                         /\ size' = Len(files[1]) + length
  BY <1>1, <1>3 DEF Log
<1>4. ASSUME Full PROVE size' = length
  <2>1. length \in Nat
    BY LogFilesAssumption
  <2> QED BY <1>4, <2>1 DEF Log
<1>5. ASSUME Full, NEW u, u = <<>> \o Entry(length)
      PROVE  files' = [n \in 1..(MaxFiles + 1) |-> IF n = 1 THEN u ELSE files[n - 1]]
  <2>1. DOMAIN files = 1..(MaxFiles + 1) /\ 1 \in 1..(MaxFiles + 1)
    BY LogFilesAssumption DEF LoggerInv, LoggerTypes
  <2>2. files' = [Shifted(files) EXCEPT ![1] = Shifted(files)[1] \o Entry(length)]
    BY <1>5 DEF Log
  <2>3. Shifted(files)[1] = <<>>
    BY <2>1 DEF Shifted
  <2>4. files' = [Shifted(files) EXCEPT ![1] = u]
    BY <1>5, <2>2, <2>3, Zenon
  <2>5. [Shifted(files) EXCEPT ![1] = u] = [n \in 1..(MaxFiles + 1) |-> IF n = 1 THEN u ELSE files[n - 1]]
    BY <2>1 DEF Shifted
  <2> QED BY <2>4, <2>5, Zenon
<1> QED BY <1>1, <1>2, <1>3, <1>4, <1>5

(* The files after an entry, by what is in each of them.                     *)
LEMMA LogContents ==
  ASSUME LoggerInv, NEW length \in 1..Longest, Log(length)
  PROVE  /\ files' \in [1..(MaxFiles + 1) -> Seq(Nat)] /\ size' = Len(files'[1])
         /\ Consecutive(files'[1]) /\ files'[1] # <<>> /\ files'[1][1] >= 1
         /\ files'[1][Len(files'[1])] = written + length
         /\ ~Full => /\ Len(files'[1]) = Len(files[1]) + length
                     /\ files'[1][1] = IF files[1] = <<>> THEN written + 1 ELSE files[1][1]
                     /\ \A n \in 2..(MaxFiles + 1) : files'[n] = files[n]
         /\ Full => /\ Len(files'[1]) = length /\ files'[1][1] = written + 1
                    /\ \A n \in 2..(MaxFiles + 1) : files'[n] = files[n - 1]
<1> DEFINE old == IF Full THEN <<>> ELSE files[1]
           new == old \o Entry(length)
<1>1. MaxFiles \in Nat /\ 1 \in 1..(MaxFiles + 1) /\ files \in [1..(MaxFiles + 1) -> Seq(Nat)] /\ LoggerTypes
  BY LogFilesAssumption DEF LoggerInv, LoggerTypes
<1>2. /\ files[1] \in Seq(Nat) /\ Consecutive(files[1])
      /\ files[1] # <<>> => files[1][1] >= 1 /\ files[1][Len(files[1])] = written
  <2>1. files[1] # <<>> => written > 0
    <3>1. written \in Nat /\ (written = 0 => files[1] = <<>>)
      BY DEF LoggerInv, Fresh, LoggerTypes
    <3> QED BY <3>1
  <2> QED BY <1>1, <2>1 DEF LoggerInv, LogIsSuffix, Empty
<1>3. /\ old \in Seq(Nat) /\ Consecutive(old)
      /\ old # <<>> => old[1] >= 1 /\ old[Len(old)] = written
  <2>1. <<>> \in Seq(Nat) /\ Consecutive(<<>>)
    BY EmptySeq DEF Consecutive
  <2> QED BY <1>2, <2>1
<1>4. new = old \o Entry(length)
  OBVIOUS
<1> HIDE DEF new, old
<1>5. /\ new \in Seq(Nat) /\ Len(new) = Len(old) + length /\ new # <<>> /\ Consecutive(new)
      /\ new[Len(new)] = written + length /\ new[1] >= 1
      /\ new[1] = IF old = <<>> THEN written + 1 ELSE old[1]
  BY <1>1, <1>3, <1>4, EntryFollows
<1>6. CASE ~Full
  <2>1. old = files[1]
    BY <1>6 DEF old
  <2>2. files' = [files EXCEPT ![1] = new] /\ size' = Len(files[1]) + length
    BY <1>4, <1>6, <2>1, LogEffect
  <2>3. files' \in [1..(MaxFiles + 1) -> Seq(Nat)] /\ files'[1] = new
        /\ \A n \in 2..(MaxFiles + 1) : files'[n] = files[n]
    BY <1>1, <1>5, <2>2
  <2>4. size' = Len(files'[1])
    BY <1>5, <2>1, <2>2, <2>3
  <2> QED BY <1>5, <1>6, <2>1, <2>3, <2>4
<1>7. CASE Full
  <2>1. old = <<>> /\ Len(old) = 0
    BY <1>7 DEF old
  <2>2. files' = [n \in 1..(MaxFiles + 1) |-> IF n = 1 THEN new ELSE files[n - 1]] /\ size' = length
    <3>1. new = <<>> \o Entry(length)
      BY <1>4, <2>1, Zenon
    <3>2. /\ \A u : u = <<>> \o Entry(length) =>
                  files' = [n \in 1..(MaxFiles + 1) |-> IF n = 1 THEN u ELSE files[n - 1]]
          /\ size' = length
      BY <1>7, LogEffect
    <3> QED BY <3>1, <3>2, Zenon
  <2>3. \A n \in 2..(MaxFiles + 1) : n - 1 \in 1..(MaxFiles + 1) /\ n \in 1..(MaxFiles + 1) /\ n # 1
    BY <1>1
  <2>4. files' \in [1..(MaxFiles + 1) -> Seq(Nat)] /\ files'[1] = new
        /\ \A n \in 2..(MaxFiles + 1) : files'[n] = files[n - 1]
    <3>1. \A n \in 1..(MaxFiles + 1) : n = 1 \/ n - 1 \in 1..(MaxFiles + 1)
      BY <1>1
    <3> QED BY <1>1, <1>5, <2>2, <2>3, <3>1
  <2>5. Len(new) = length
    <3>1. length \in Nat
      BY LogFilesAssumption
    <3> QED BY <1>5, <2>1, <3>1
  <2> QED BY <1>5, <1>7, <2>1, <2>2, <2>4, <2>5
<1> QED BY <1>6, <1>7

(* Rotation and reopening lose nothing but the oldest file, and a file       *)
(* outgrows its size by less than an entry.                                  *)
LEMMA LogKeeps ==
  ASSUME LoggerInv, NEW length \in 1..Longest, Log(length)
  PROVE  LoggerInv'
<1> USE DEF Empty
<1>1. /\ {Capacity, Longest, MaxFiles, length} \subseteq Nat \ {0} /\ length <= Longest
      /\ LoggerTypes /\ Fresh /\ LogIsSuffix /\ FilesBounded /\ written \in Nat
      /\ files \in [1..(MaxFiles + 1) -> Seq(Nat)]
  BY LogFilesAssumption DEF LoggerInv, LoggerTypes
<1>2. SizeNow = Len(files[1]) /\ written' = written + length /\ written' \in 0..MaxWritten /\ opened' = TRUE
  BY LogEffect
<1>3. /\ files' \in [1..(MaxFiles + 1) -> Seq(Nat)] /\ size' = Len(files'[1])
      /\ Consecutive(files'[1]) /\ files'[1] # <<>> /\ files'[1][1] >= 1
      /\ files'[1][Len(files'[1])] = written + length
  BY LogContents
<1>4. ASSUME ~Full PROVE /\ Len(files'[1]) = Len(files[1]) + length
                         /\ files'[1][1] = IF files[1] = <<>> THEN written + 1 ELSE files[1][1]
                         /\ \A n \in 2..(MaxFiles + 1) : files'[n] = files[n]
  BY <1>4, LogContents
<1>5. ASSUME Full PROVE /\ Len(files'[1]) = length /\ files'[1][1] = written + 1
                        /\ \A n \in 2..(MaxFiles + 1) : files'[n] = files[n - 1]
  BY <1>5, LogContents
<1>6. \A n \in 1..(MaxFiles + 1) : files[n] \in Seq(Nat) /\ Len(files[n]) \in Nat
  BY <1>1, LenProperties
<1>7. LoggerTypes' /\ Sized' /\ Fresh'
  <2>1. size' \in Nat /\ files'[1] \in Seq(Nat)
    BY <1>1, <1>3, LenProperties
  <2>2. LoggerTypes'
    BY <1>2, <1>3, <2>1 DEF LoggerTypes
  <2>3. Sized'
    BY <1>3 DEF Sized
  <2>4. written' # 0
    BY <1>1, <1>2
  <2> QED BY <2>2, <2>3, <2>4 DEF Fresh
<1>8. FilesBounded'
  <2> SUFFICES ASSUME NEW n \in 1..(MaxFiles + 1) PROVE Len(files'[n]) < Capacity + Longest
    BY DEF FilesBounded
  <2>1. Len(files[n]) < Capacity + Longest
    BY <1>1 DEF FilesBounded
  <2>2. CASE n = 1
    <3>1. CASE Full
      BY <1>1, <1>5, <2>2, <3>1
    <3>2. CASE ~Full
      <4>1. Len(files[1]) < Capacity /\ Len(files[1]) \in Nat
        <5>1. 1 \in 1..(MaxFiles + 1)
          BY <1>1
        <5> QED BY <1>1, <1>2, <1>6, <3>2, <5>1 DEF Full
      <4> QED BY <1>1, <1>4, <2>2, <3>2, <4>1
    <3> QED BY <3>1, <3>2
  <2>3. CASE n # 1
    <3>1. n \in 2..(MaxFiles + 1) /\ n - 1 \in 1..(MaxFiles + 1)
      BY <1>1, <2>3
    <3>2. Len(files[n - 1]) < Capacity + Longest
      BY <1>1, <3>1 DEF FilesBounded
    <3> QED BY <1>4, <1>5, <2>1, <3>1, <3>2
  <2> QED BY <2>2, <2>3
<1>9. LogIsSuffix'
  <2>1. ASSUME NEW n \in 1..(MaxFiles + 1) PROVE Consecutive(files[n]) /\ (files[n] # <<>> => files[n][1] >= 1)
    BY <1>1 DEF LogIsSuffix
  <2>2. ASSUME NEW n \in 1..(MaxFiles + 1)
        PROVE  Consecutive(files'[n]) /\ (files'[n] # <<>> => files'[n][1] >= 1)
    <3>1. CASE n = 1
      BY <1>3, <3>1
    <3>2. CASE n # 1
      <4>1. n \in 2..(MaxFiles + 1) /\ n - 1 \in 1..(MaxFiles + 1)
        BY <1>1, <3>2
      <4>2. Consecutive(files[n - 1]) /\ (files[n - 1] # <<>> => files[n - 1][1] >= 1)
        BY <2>1, <4>1
      <4> QED BY <1>4, <1>5, <2>1, <4>1, <4>2
    <3> QED BY <3>1, <3>2
  <2>3. written' > 0 => files'[1] # <<>> /\ files'[1][Len(files'[1])] = written'
    BY <1>2, <1>3
  <2>4. written > 0 => files[1] # <<>> /\ files[1][Len(files[1])] = written
    BY <1>1 DEF LogIsSuffix
  <2>5. ASSUME NEW n \in 1..MaxFiles
        PROVE  /\ files[n + 1] # <<>> => files[n] # <<>> /\ files[n][1] = files[n + 1][Len(files[n + 1])] + 1
               /\ files[n + 1] # <<>> => Len(files[n + 1]) >= Capacity
               /\ files[n] # <<>> /\ files[n][1] > 1 => files[n + 1] # <<>>
    BY <1>1 DEF LogIsSuffix
  <2>6. ASSUME NEW n \in 1..MaxFiles
        PROVE  /\ files'[n + 1] # <<>> => files'[n] # <<>> /\ files'[n][1] = files'[n + 1][Len(files'[n + 1])] + 1
               /\ files'[n + 1] # <<>> => Len(files'[n + 1]) >= Capacity
               /\ files'[n] # <<>> /\ files'[n][1] > 1 => files'[n + 1] # <<>>
    <3>1. n + 1 \in 2..(MaxFiles + 1) /\ (n + 1) - 1 = n
      BY <1>1
    <3>2. CASE ~Full /\ n # 1
      <4>1. n \in 2..(MaxFiles + 1)
        BY <1>1, <3>2
      <4>2. files'[n] = files[n] /\ files'[n + 1] = files[n + 1]
        BY <1>4, <3>1, <3>2, <4>1
      <4> QED BY <2>5, <4>2
    <3>3. CASE ~Full /\ n = 1
      <4>1. files'[n + 1] = files[n + 1]
        BY <1>4, <3>1, <3>3
      <4>2. CASE files[1] = <<>>
        <5>1. written = 0
          BY <1>1, <2>4, <4>2
        <5>2. files'[1][1] = 1 /\ files[n + 1] = <<>>
          <6>1. files'[1][1] = written + 1
            BY <1>4, <3>3, <4>2
          <6>2. files[n + 1] = <<>>
            BY <2>5, <3>3, <4>2
          <6> QED BY <5>1, <6>1, <6>2
        <5> QED BY <3>3, <4>1, <5>2
      <4>3. CASE files[1] # <<>>
        <5>1. files'[1][1] = files[1][1]
          BY <1>4, <3>3, <4>3
        <5> QED BY <1>3, <2>5, <3>3, <4>1, <4>3, <5>1
      <4> QED BY <4>2, <4>3
    <3>4. CASE Full /\ n # 1
      <4>1. n \in 2..(MaxFiles + 1) /\ n - 1 \in 1..MaxFiles /\ (n - 1) + 1 = n
        BY <1>1, <3>4
      <4>2. files'[n] = files[n - 1] /\ files'[n + 1] = files[n]
        BY <1>5, <3>1, <3>4, <4>1
      <4>3. /\ files[n] # <<>> => files[n - 1] # <<>> /\ files[n - 1][1] = files[n][Len(files[n])] + 1
            /\ files[n] # <<>> => Len(files[n]) >= Capacity
            /\ files[n - 1] # <<>> /\ files[n - 1][1] > 1 => files[n] # <<>>
        BY <2>5, <4>1
      <4> QED BY <4>2, <4>3
    <3>5. CASE Full /\ n = 1
      <4>1. files'[2] = files[1]
        <5>1. 2 \in 2..(MaxFiles + 1) /\ 2 - 1 = 1
          BY <1>1
        <5> QED BY <1>5, <3>5, <5>1
      <4>2. Len(files[1]) >= Capacity /\ files[1] # <<>>
        <5>1. Len(files[1]) >= Capacity
          BY <1>2, <3>5 DEF Full
        <5>2. 1 \in 1..(MaxFiles + 1)
          BY <1>1
        <5> QED BY <1>1, <1>6, <5>1, <5>2, EmptySeq
      <4>3. written > 0
        BY <1>1, <4>2 DEF Fresh
      <4>4. files'[1][1] = written + 1 /\ files[1][Len(files[1])] = written
        BY <1>5, <2>4, <3>5, <4>3
      <4> QED BY <1>3, <3>5, <4>1, <4>2, <4>4
    <3> QED BY <3>2, <3>3, <3>4, <3>5
  <2> HIDE DEF Empty
  <2> QED BY <2>2, <2>3, <2>6 DEF LogIsSuffix, Empty
<1> QED BY <1>7, <1>8, <1>9 DEF LoggerInv

LEMMA LoggerKept ==
  LoggerInv /\ (LoggerNext \/ UNCHANGED loggerVars) => LoggerInv'
<1> SUFFICES ASSUME LoggerInv, LoggerNext \/ UNCHANGED loggerVars PROVE LoggerInv'
  OBVIOUS
<1>1. CASE UNCHANGED <<files, size, written>> /\ opened' \in {opened, FALSE}
  <2>1. LoggerTypes' /\ Sized' /\ Fresh'
    <3>1. opened \in BOOLEAN
      BY DEF LoggerInv, LoggerTypes
    <3>2. opened' \in BOOLEAN /\ (opened' => opened)
      <4>1. opened' = opened \/ opened' = FALSE
        BY <1>1
      <4>2. CASE opened' = opened
        BY <3>1, <4>2, Zenon
      <4>3. CASE opened' = FALSE
        BY <4>3, Zenon
      <4> QED BY <4>1, <4>2, <4>3
    <3>3. LoggerTypes'
      <4>1. files' \in [1..(MaxFiles + 1) -> Seq(Nat)] /\ written' \in 0..MaxWritten /\ size' \in Nat
        BY <1>1 DEF LoggerInv, LoggerTypes
      <4> QED BY <3>2, <4>1, Zenon DEF LoggerTypes
    <3>4. Sized'
      BY <1>1, <3>2, Zenon DEF LoggerInv, Sized
    <3> QED BY <1>1, <3>3, <3>4 DEF LoggerInv, Fresh
  <2>2. LogIsSuffix' /\ FilesBounded'
    BY <1>1 DEF LoggerInv, LogIsSuffix, FilesBounded, Consecutive, Empty
  <2> QED BY <2>1, <2>2 DEF LoggerInv
<1>2. CASE UNCHANGED loggerVars
  BY <1>1, <1>2 DEF loggerVars
<1>3. CASE CloseLog
  BY <1>1, <1>3 DEF CloseLog
<1>4. CASE \E length \in 1..Longest : Log(length)
  BY <1>4, LogKeeps
<1> QED BY <1>2, <1>3, <1>4 DEF LoggerNext

-----------------------------------------------------------------------------
(* What is shown, as one sequence.                                           *)
LEMMA ShownType ==
  ASSUME TailerTypes
  PROVE  Shown \in Seq(Line) /\ Len(Shown) \in Nat
<1>1. received \in Seq(Line) /\ lines \in Seq(Line) /\ piece \in Seq(Line)
  BY DEF TailerTypes
<1>2. received \o lines \in Seq(Line)
  BY <1>1, ConcatProperties
<1>3. Shown \in Seq(Line)
  BY <1>1, <1>2, ConcatProperties DEF Shown
<1> QED BY <1>3, LenProperties

(* A line that goes on from the Tailer to the channel, or from there to the  *)
(* panel, is shown as before.                                                *)
LEMMA SendShows ==
  ASSUME TailerTypes, lines' = lines \o piece, piece' = <<>>, received' = received
  PROVE  Shown' = Shown
<1>1. received \in Seq(Line) /\ lines \in Seq(Line) /\ piece \in Seq(Line) /\ lines \o piece \in Seq(Line)
  BY ConcatProperties DEF TailerTypes
<1>2. (received \o lines) \o piece = received \o (lines \o piece)
  BY <1>1, ConcatAssociative
<1>3. received \o (lines \o piece) \in Seq(Line)
  BY <1>1, ConcatProperties
<1>4. (received \o (lines \o piece)) \o <<>> = received \o (lines \o piece)
  BY <1>3, ConcatEmptySeq
<1>5. Shown' = (received \o (lines \o piece)) \o <<>>
  BY Zenon DEF Shown
<1> QED BY <1>2, <1>4, <1>5, Zenon DEF Shown

LEMMA ReceiveShows ==
  ASSUME TailerTypes, Receive
  PROVE  Shown' = Shown
<1>1. received \in Seq(Line) /\ lines \in Seq(Line) /\ piece \in Seq(Line) /\ lines # <<>>
  BY DEF TailerTypes, Receive
<1> DEFINE a == Append(received, Head(lines))
           b == Tail(lines)
<1>2. /\ a \in Seq(Line) /\ Len(a) = Len(received) + 1
      /\ \A i \in 1..Len(received) : a[i] = received[i]
      /\ a[Len(received) + 1] = lines[1]
  BY <1>1, HeadTailProperties, AppendProperties
<1>3. /\ b \in Seq(Line) /\ Len(b) = Len(lines) - 1 /\ \A i \in 1..Len(b) : b[i] = lines[i + 1]
  BY <1>1, HeadTailProperties
<1>4. received' = a /\ lines' = b /\ piece' = piece
  BY DEF Receive
<1> HIDE DEF a, b
<1>5. a \o b = received \o lines
  <2>1. /\ a \o b \in Seq(Line) /\ Len(a \o b) = Len(a) + Len(b)
        /\ \A i \in 1..(Len(a) + Len(b)) : (a \o b)[i] = IF i <= Len(a) THEN a[i] ELSE b[i - Len(a)]
    BY <1>2, <1>3, ConcatProperties
  <2>2. /\ received \o lines \in Seq(Line) /\ Len(received \o lines) = Len(received) + Len(lines)
        /\ \A i \in 1..(Len(received) + Len(lines)) :
             (received \o lines)[i] = IF i <= Len(received) THEN received[i] ELSE lines[i - Len(received)]
    BY <1>1, ConcatProperties
  <2> DEFINE c == a \o b
             d == received \o lines
             m == Len(received)
             n == Len(lines)
  <2>3. m \in Nat /\ n \in Nat /\ n > 0
    BY <1>1, LenProperties, EmptySeq
  <2>4. c \in Seq(Line) /\ d \in Seq(Line) /\ Len(c) = m + n /\ Len(d) = m + n
    BY <1>2, <1>3, <2>1, <2>2, <2>3
  <2>5. \A i \in 1..(m + n) : c[i] = IF i <= m + 1 THEN a[i] ELSE b[i - (m + 1)]
    BY <1>2, <1>3, <2>1, <2>3
  <2>6. \A i \in 1..(m + n) : d[i] = IF i <= m THEN received[i] ELSE lines[i - m]
    BY <2>2
  <2>7. /\ \A i \in 1..m : a[i] = received[i]
        /\ a[m + 1] = lines[1] /\ \A i \in 1..(n - 1) : b[i] = lines[i + 1]
    BY <1>2, <1>3
  <2> HIDE DEF c, d, m, n
  <2>8. ASSUME NEW i \in 1..(m + n) PROVE c[i] = d[i]
    <3>1. CASE i <= m
      BY <2>3, <2>5, <2>6, <2>7, <3>1
    <3>2. CASE i = m + 1
      <4>1. c[i] = a[m + 1] /\ d[i] = lines[i - m] /\ i - m = 1
        BY <2>3, <2>5, <2>6, <3>2
      <4> QED BY <2>7, <4>1
    <3>3. CASE i > m + 1
      <4>1. c[i] = b[i - (m + 1)] /\ d[i] = lines[i - m]
        BY <2>3, <2>5, <2>6, <3>3
      <4>2. i - (m + 1) \in 1..(n - 1) /\ (i - (m + 1)) + 1 = i - m
        BY <2>3, <3>3
      <4> QED BY <2>7, <4>1, <4>2
    <3> QED BY <2>3, <3>1, <3>2, <3>3
  <2>9. c = d
    <3>1. Len(c) = Len(d) /\ \A i \in 1..Len(c) : c[i] = d[i]
      BY <2>4, <2>8
    <3> QED BY <2>4, <3>1, SeqEqual
  <2> QED BY <2>9 DEF c, d
<1>6. Shown' = (a \o b) \o piece
  BY <1>4, Zenon DEF Shown
<1> QED BY <1>5, <1>6, Zenon DEF Shown

(* What is laid out stays so while Squid writes more, and the Tailer only    *)
(* moves.                                                                    *)
LEMMA LaidStays ==
  ASSUME TailerInv, Shown' = Shown, position' = position, torn' = torn, stopping => stopping',
         Len(squid') >= Len(squid), Len(squid') \in Nat, \A p \in 1..Len(squid) : squid'[p] = squid[p]
  PROVE  AtBreak' /\ Laid(Shown)'
<1>1. /\ Shown \in Seq(Line) /\ Len(Shown) \in Nat /\ \A i \in 1..Len(Shown) : Shown[i] \in Line
      /\ Len(squid) \in Nat /\ position \in 0..Len(squid) /\ AtBreak /\ Laid(Shown)
  BY ShownType, ElementOfSeq, LenProperties DEF TailerInv, TailerTypes
<1> DEFINE s == Shown
<1>2. /\ s' = s /\ Len(s) \in Nat /\ Read(s) /\ InTurn(s) /\ Covers(s) /\ Whole(s)
      /\ \A i \in 1..Len(s) : s[i].first \in Nat /\ s[i].last \in Nat
  BY <1>1 DEF Laid, Line
<1> HIDE DEF s
<1>3. \A p \in 1..position : p \in 1..Len(squid) /\ squid'[p] = squid[p]
  BY <1>1
<1>4. AtBreak'
  <2>1. position # 0 => position \in 1..position
    BY <1>1
  <2> QED BY <1>1, <1>3, <2>1 DEF AtBreak
<1>5. Read(s)' /\ InTurn(s)'
  BY <1>2 DEF Read, InTurn
<1>6. Covers(s)'
  BY <1>2, <1>3 DEF Covers
<1>7. Whole(s)'
  <2> SUFFICES ASSUME NEW i \in 1..Len(s)
               PROVE  /\ \A p \in s[i].first..s[i].last : squid'[p] = "text"
                      /\ Begins(s[i].first)' \/ s[i].first - 1 \in torn
                      /\ Ends(s[i].last)' \/ s[i].last \in torn
    BY <1>2 DEF Whole
  <2>1. /\ \A p \in s[i].first..s[i].last : squid[p] = "text"
        /\ Begins(s[i].first) \/ s[i].first - 1 \in torn
        /\ Ends(s[i].last) \/ s[i].last \in torn
        /\ 1 <= s[i].first /\ s[i].first <= s[i].last /\ s[i].last <= position
        /\ s[i].first \in Nat /\ s[i].last \in Nat
    BY <1>2 DEF Whole, Read
  <2>2. \A p \in s[i].first..s[i].last : squid'[p] = "text"
    <3>1. \A p \in s[i].first..s[i].last : p \in 1..position
      BY <1>1, <2>1
    <3> QED BY <1>3, <2>1, <3>1
  <2>3. Begins(s[i].first) => Begins(s[i].first)'
    <3>1. s[i].first = 1 \/ s[i].first - 1 \in 1..position
      BY <1>1, <2>1
    <3>2. s'[i] = s[i]
      BY <1>2
    <3> QED BY <1>3, <3>1, <3>2 DEF Begins
  <2>4. Ends(s[i].last) => Ends(s[i].last)'
    <3>1. s[i].last < Len(squid) => s[i].last + 1 \in 1..Len(squid) /\ s[i].last < Len(squid')
      BY <1>1, <2>1
    <3>2. s'[i] = s[i]
      BY <1>2
    <3> QED BY <3>1, <3>2 DEF Ends
  <2> QED BY <2>1, <2>2, <2>3, <2>4
<1> QED BY <1>4, <1>5, <1>6, <1>7 DEF Laid, s

(* The next line end is the first one that is not read.                      *)
LEMMA NextEndFacts ==
  ASSUME TailerTypes, LineEnds # {}
  PROVE  /\ NextEnd \in Nat /\ position < NextEnd /\ NextEnd <= Len(squid) /\ squid[NextEnd] = "end"
         /\ \A p \in (position + 1)..(NextEnd - 1) : squid[p] # "end"
<1>1. position \in Nat /\ Len(squid) \in Nat /\ LineEnds \subseteq Nat
  BY LenProperties DEF TailerTypes, LineEnds
<1>2. \E p \in LineEnds : \A q \in LineEnds : p <= q
  BY <1>1, NatSetMin
<1>3. NextEnd \in LineEnds /\ \A q \in LineEnds : NextEnd <= q
  BY <1>2 DEF NextEnd
<1> DEFINE e == NextEnd
<1>4. e \in LineEnds /\ \A q \in LineEnds : e <= q
  BY <1>3
<1> HIDE DEF e
<1>5. e \in Nat /\ position < e /\ e <= Len(squid) /\ squid[e] = "end"
  BY <1>1, <1>4 DEF LineEnds
<1>6. ASSUME NEW p \in (position + 1)..(e - 1) PROVE squid[p] # "end"
  <2>1. p \in (position + 1)..Len(squid) /\ ~(e <= p)
    BY <1>1, <1>5
  <2> QED BY <1>4, <2>1 DEF LineEnds
<1> QED BY <1>5, <1>6 DEF e

(* What a read sends is the text between where it began and where it ends.   *)
LEMMA ReadEffect ==
  ASSUME TailerInv, ReadString
  PROVE  /\ position' \in 0..Len(squid) /\ position <= position'
         /\ torn \subseteq torn' /\ AtBreak'
         /\ \E last \in 0..position' :
              /\ piece' = Text(position + 1, last)
              /\ \A p \in (position + 1)..last : squid[p] = "text"
              /\ \A p \in (last + 1)..position' : squid[p] # "text"
              /\ position < last => Ends(last) \/ last \in torn'
         /\ tail' \in {"reading", "sending", "asleep"} /\ (tail' = "sending" <=> piece' # <<>>)
<1>1. /\ position \in 0..Len(squid) /\ Len(squid) \in Nat /\ TailerTypes /\ AtBreak /\ squid' = squid
      /\ \A p \in 1..Len(squid) : squid[p] \in {"text", "end"}
  BY LenProperties, ElementOfSeq DEF TailerInv, TailerTypes, ReadString
<1>2. CASE ReadLine
  <2>1. /\ NextEnd \in Nat /\ position < NextEnd /\ NextEnd <= Len(squid) /\ squid[NextEnd] = "end"
        /\ \A p \in (position + 1)..(NextEnd - 1) : squid[p] # "end"
    BY <1>1, <1>2, NextEndFacts DEF ReadLine
  <2>2. /\ position' = NextEnd /\ piece' = Text(position + 1, NextEnd - 1) /\ torn' = torn
        /\ tail' = (IF piece' = <<>> THEN "reading" ELSE "sending")
    BY <1>2 DEF ReadLine
  <2> DEFINE e == NextEnd
  <2>3. /\ e \in Nat /\ position < e /\ e <= Len(squid) /\ squid[e] = "end"
        /\ \A p \in (position + 1)..(e - 1) : squid[p] # "end"
        /\ position' = e /\ piece' = Text(position + 1, e - 1)
    BY <2>1, <2>2
  <2> HIDE DEF e
  <2>4. position' \in 0..Len(squid) /\ position <= position'
    BY <1>1, <2>3
  <2>5. AtBreak'
    BY <1>1, <2>3 DEF AtBreak
  <2>6. /\ e - 1 \in 0..position'
        /\ \A p \in (position + 1)..(e - 1) : squid[p] = "text"
        /\ \A p \in ((e - 1) + 1)..position' : squid[p] # "text"
        /\ position < e - 1 => Ends(e - 1)
    <3>1. \A p \in (position + 1)..(e - 1) : p \in 1..Len(squid)
      BY <1>1, <2>3
    <3>2. \A p \in ((e - 1) + 1)..position' : p = e
      BY <1>1, <2>3
    <3>3. Ends(e - 1)
      <4>1. e - 1 < Len(squid) /\ (e - 1) + 1 = e
        BY <1>1, <2>3
      <4> QED BY <2>3, <4>1 DEF Ends
    <3>4. e - 1 \in 0..position'
      BY <1>1, <2>3
    <3>5. \A p \in (position + 1)..(e - 1) : squid[p] = "text"
      BY <1>1, <2>3, <3>1
    <3>6. \A p \in ((e - 1) + 1)..position' : squid[p] # "text"
      BY <2>3, <3>2
    <3> QED BY <3>3, <3>4, <3>5, <3>6
  <2> QED BY <2>2, <2>3, <2>4, <2>5, <2>6
<1>3. CASE /\ LineEnds = {} /\ position' = Len(squid) /\ piece' = Text(position + 1, Len(squid))
           /\ tail' = (IF piece' = <<>> THEN "asleep" ELSE "sending")
           /\ torn' = torn \cup ({Len(squid)} \ {position})
  <2>1. position' \in 0..Len(squid) /\ position <= position' /\ torn \subseteq torn'
    BY <1>1, <1>3
  <2>2. AtBreak'
    BY <1>1, <1>3 DEF AtBreak
  <2>3. /\ \A p \in (position + 1)..Len(squid) : squid[p] = "text"
        /\ \A p \in (Len(squid) + 1)..position' : FALSE
    <3>1. \A p \in (position + 1)..Len(squid) : p \in 1..Len(squid) /\ squid[p] # "end"
      BY <1>1, <1>3 DEF LineEnds
    <3>2. \A p \in (Len(squid) + 1)..position' : FALSE
      BY <1>1, <1>3
    <3> QED BY <1>1, <3>1, <3>2
  <2>4. position < Len(squid) => Len(squid) \in torn'
    BY <1>1, <1>3
  <2>5. Len(squid) \in 0..position'
    BY <1>1, <1>3
  <2> QED BY <1>3, <2>1, <2>2, <2>3, <2>4, <2>5
<1> QED BY <1>2, <1>3 DEF ReadString

LEMMA ReadShows ==
  ASSUME TailerTypes, ReadString
  PROVE  Shown' = Shown \o piece'
<1>1. received \in Seq(Line) /\ lines \in Seq(Line) /\ piece = <<>> /\ received' = received /\ lines' = lines
  BY DEF TailerTypes, ReadString
<1>2. received \o lines \in Seq(Line)
  BY <1>1, ConcatProperties
<1>3. (received \o lines) \o <<>> = received \o lines
  BY <1>2, ConcatEmptySeq
<1>4. Shown = received \o lines
  BY <1>1, <1>3, Zenon DEF Shown
<1>5. Shown' = (received \o lines) \o piece'
  BY <1>1, Zenon DEF Shown
<1> QED BY <1>4, <1>5, Zenon

(* Nothing is passed over and no two lines are mixed by a read.              *)
LEMMA ReadKeeps ==
  ASSUME TailerInv, ReadString
  PROVE  TailerInv'
<1>1. /\ Shown \in Seq(Line) /\ Len(Shown) \in Nat /\ \A i \in 1..Len(Shown) : Shown[i] \in Line
      /\ Len(squid) \in Nat /\ position \in 0..Len(squid) /\ TailerTypes /\ AtBreak /\ Laid(Shown)
  BY ShownType, ElementOfSeq, LenProperties DEF TailerInv, TailerTypes
<1>2. squid' = squid /\ stopping' = stopping /\ lines' = lines /\ received' = received
  BY DEF ReadString
<1>3. /\ position' \in 0..Len(squid) /\ position <= position' /\ torn \subseteq torn' /\ AtBreak'
      /\ tail' \in {"reading", "sending", "asleep"} /\ (tail' = "sending" <=> piece' # <<>>)
  BY ReadEffect
<1>4. PICK last \in 0..position' :
        /\ piece' = Text(position + 1, last)
        /\ \A p \in (position + 1)..last : squid[p] = "text"
        /\ \A p \in (last + 1)..position' : squid[p] # "text"
        /\ position < last => Ends(last) \/ last \in torn'
  BY ReadEffect
<1>5. CASE ~(position < last)
  <2>1. piece' = <<>>
    BY <1>1, <1>3, <1>4, <1>5 DEF Text
  <2>2. Shown' = Shown
    <3>1. Shown' = Shown \o <<>>
      BY <1>1, <2>1, ReadShows, Zenon
    <3> QED BY <1>1, <3>1, ConcatEmptySeq, Zenon
  <2>3. TailerTypes'
    BY <1>1, <1>2, <1>3, <2>1 DEF TailerTypes
  <2> DEFINE s == Shown
  <2>4. /\ s' = s /\ Len(s) \in Nat /\ Read(s) /\ InTurn(s) /\ Covers(s) /\ Whole(s)
        /\ \A i \in 1..Len(s) : s[i].first \in Nat /\ s[i].last \in Nat
    BY <1>1, <2>2 DEF Laid, Line
  <2> HIDE DEF s
  <2>5. Read(s)' /\ InTurn(s)'
    <3>1. Read(s)'
      BY <1>1, <1>3, <2>4 DEF Read
    <3> QED BY <2>4, <3>1 DEF InTurn
  <2>6. Covers(s)'
    <3>1. \A p \in 1..position' : p \in 1..position \/ p \in (last + 1)..position'
      BY <1>1, <1>3, <1>5
    <3> QED BY <1>2, <1>4, <2>4, <3>1 DEF Covers
  <2>7. Whole(s)'
    BY <1>2, <1>3, <2>4 DEF Whole, Begins, Ends
  <2> QED BY <1>3, <2>3, <2>5, <2>6, <2>7 DEF TailerInv, Laid, s
<1>6. CASE position < last
  <2> DEFINE x == [first |-> position + 1, last |-> last]
             n == Len(Shown)
  <2>1. x \in Line /\ x.first = position + 1 /\ x.last = last /\ position \in Nat /\ last \in Nat
    BY <1>1, <1>3, <1>4 DEF Line
  <2>2. piece' = <<x>>
    BY <1>1, <1>4, <1>6, <2>1 DEF Text
  <2> HIDE DEF x
  <2>3. Shown' = Shown \o <<x>>
    BY <1>1, <2>2, ReadShows, Zenon
  <2>4. TailerTypes'
    <3>1. <<x>> \in Seq(Line) /\ Len(<<x>>) = 1 /\ <<x>> # <<>>
      BY <2>1
    <3>2. piece' \in Seq(Line) /\ Len(piece') = 1 /\ tail' = "sending"
      BY <1>3, <2>2, <3>1
    <3>3. /\ squid' \in Seq({"text", "end"}) /\ position' \in 0..Len(squid') /\ Len(lines') <= ChanCap
          /\ lines' \in Seq(Line) /\ received' \in Seq(Line)
      BY <1>1, <1>2, <1>3 DEF TailerTypes
    <3> QED BY <3>2, <3>3 DEF TailerTypes
  <2> DEFINE s == Shown
             t == Shown \o <<x>>
  <2>5. /\ Len(t) = n + 1 /\ \A i \in 1..n : t[i] = s[i]
        /\ t[n + 1] = x
    <3>1. t = Append(s, x)
      BY <1>1, <2>1, AppendIsConcat
    <3> QED BY <1>1, <2>1, <3>1, AppendProperties
  <2>6. /\ s' = t /\ n \in Nat /\ n = Len(s) /\ Read(s) /\ InTurn(s) /\ Covers(s) /\ Whole(s)
        /\ \A i \in 1..n : s[i].first \in Nat /\ s[i].last \in Nat
    BY <1>1, <2>3 DEF Laid, Line
  <2> HIDE DEF s, t, n
  <2>7. \A i \in 1..(n + 1) : i \in 1..n \/ i = n + 1
    BY <2>6
  <2>8. \A i \in 1..Len(t) : 1 <= t[i].first /\ t[i].first <= t[i].last /\ t[i].last <= position'
    <3>1. \A i \in 1..n : 1 <= t[i].first /\ t[i].first <= t[i].last /\ t[i].last <= position'
      BY <1>1, <1>3, <2>5, <2>6 DEF Read
    <3>2. 1 <= x.first /\ x.first <= x.last /\ x.last <= position'
      BY <1>4, <1>6, <2>1
    <3> QED BY <2>5, <2>7, <3>1, <3>2
  <2>9. \A i \in 1..Len(t) : i < Len(t) => t[i].last < t[i + 1].first
    <3> SUFFICES ASSUME NEW i \in 1..(n + 1), i < n + 1 PROVE t[i].last < t[i + 1].first
      BY <2>5
    <3>1. i \in 1..n /\ t[i] = s[i] /\ s[i].last <= position
      BY <2>5, <2>6 DEF Read
    <3>2. CASE i = n
      BY <2>1, <2>5, <2>6, <3>1, <3>2
    <3>3. CASE i # n
      <4>1. i + 1 \in 1..n /\ i < n
        BY <2>6, <3>1, <3>3
      <4> QED BY <2>5, <2>6, <3>1, <4>1 DEF InTurn
    <3> QED BY <3>2, <3>3
  <2>10. ~stopping => \A p \in 1..position' : squid[p] = "text" =>
           \E i \in 1..Len(t) : t[i].first <= p /\ p <= t[i].last
    <3> SUFFICES ASSUME ~stopping, NEW p \in 1..position', squid[p] = "text"
                 PROVE  \E i \in 1..Len(t) : t[i].first <= p /\ p <= t[i].last
      OBVIOUS
    <3>1. p \in 1..position \/ p \in (position + 1)..last
      BY <1>1, <1>3, <1>4
    <3>2. CASE p \in 1..position
      <4>1. PICK i \in 1..n : s[i].first <= p /\ p <= s[i].last
        BY <2>6, <3>2 DEF Covers
      <4>2. i \in 1..Len(t) /\ t[i] = s[i]
        BY <2>5, <2>6
      <4> QED BY <4>1, <4>2
    <3>3. CASE p \in (position + 1)..last
      <4>1. n + 1 \in 1..Len(t) /\ t[n + 1].first <= p /\ p <= t[n + 1].last
        BY <2>1, <2>5, <2>6, <3>3
      <4> QED BY <4>1
    <3> QED BY <3>1, <3>2, <3>3
  <2>11. \A i \in 1..Len(t) :
           /\ \A p \in t[i].first..t[i].last : squid[p] = "text"
           /\ Begins(t[i].first) \/ t[i].first - 1 \in torn'
           /\ Ends(t[i].last) \/ t[i].last \in torn'
    <3>1. ASSUME NEW i \in 1..n
          PROVE  /\ \A p \in t[i].first..t[i].last : squid[p] = "text"
                 /\ Begins(t[i].first) \/ t[i].first - 1 \in torn'
                 /\ Ends(t[i].last) \/ t[i].last \in torn'
      BY <1>3, <2>5, <2>6 DEF Whole
    <3>2. \A p \in x.first..x.last : squid[p] = "text"
      BY <1>4, <2>1
    <3>3. Begins(x.first) \/ x.first - 1 \in torn'
      <4>1. x.first = position + 1 /\ x.first - 1 = position
        BY <2>1
      <4> QED BY <1>1, <1>3, <4>1 DEF AtBreak, Begins
    <3>4. Ends(x.last) \/ x.last \in torn'
      BY <1>4, <1>6, <2>1
    <3> QED BY <2>5, <2>7, <3>1, <3>2, <3>3, <3>4
  <2>12. Read(s)' /\ InTurn(s)'
    BY <2>6, <2>8, <2>9 DEF Read, InTurn
  <2>13. Covers(s)'
    BY <1>2, <2>6, <2>10 DEF Covers
  <2>14. Whole(s)'
    BY <1>2, <2>6, <2>11 DEF Whole, Begins, Ends
  <2> QED BY <1>3, <2>4, <2>12, <2>13, <2>14 DEF TailerInv, Laid, s
<1> QED BY <1>5, <1>6

(* A line that is given up is the last one that is shown, and the Tailer is  *)
(* stopped.                                                                  *)
LEMMA GiveUpKeeps ==
  ASSUME TailerInv, GiveUp
  PROVE  TailerInv'
<1>1. /\ Shown \in Seq(Line) /\ Len(Shown) \in Nat /\ TailerTypes /\ AtBreak /\ Laid(Shown)
  BY ShownType DEF TailerInv
<1>2. /\ squid' = squid /\ position' = position /\ torn' = torn /\ stopping' /\ tail = "sending"
      /\ lines' = lines /\ received' = received /\ piece' = <<>>
  BY DEF GiveUp
<1> DEFINE r == received \o lines
           s == Shown
           t == Shown'
<1>3. r \in Seq(Line) /\ Len(r) \in Nat /\ piece \in Seq(Line) /\ Len(piece) = 1
  <2>1. received \in Seq(Line) /\ lines \in Seq(Line) /\ piece \in Seq(Line) /\ Len(piece) = 1
    BY <1>1, <1>2 DEF TailerTypes
  <2> QED BY <2>1, ConcatProperties, LenProperties
<1>4. s = r \o piece /\ t = r \o <<>>
  BY <1>2, Zenon DEF Shown
<1> HIDE DEF r, s, t
<1>5. t = r
  BY <1>3, <1>4, ConcatEmptySeq
<1>6. Len(s) = Len(r) + 1 /\ \A i \in 1..Len(r) : s[i] = r[i]
  <2>1. /\ Len(r \o piece) = Len(r) + Len(piece)
        /\ \A i \in 1..(Len(r) + Len(piece)) : (r \o piece)[i] = IF i <= Len(r) THEN r[i] ELSE piece[i - Len(r)]
    BY <1>3, ConcatProperties
  <2> QED BY <1>3, <1>4, <2>1
<1>7. /\ Read(s) /\ InTurn(s) /\ Whole(s)
  BY <1>1 DEF Laid, s
<1>8. Len(t) \in Nat /\ Len(s) = Len(t) + 1 /\ \A i \in 1..Len(t) : t[i] = s[i]
  BY <1>3, <1>5, <1>6
<1>9. \A i \in 1..Len(t) : i \in 1..Len(s) /\ (i < Len(t) => i + 1 \in 1..Len(t) /\ i < Len(s))
  BY <1>8
<1>10. \A i \in 1..Len(t) : 1 <= t[i].first /\ t[i].first <= t[i].last /\ t[i].last <= position
  BY <1>7, <1>8, <1>9 DEF Read
<1>11. \A i \in 1..Len(t) : i < Len(t) => t[i].last < t[i + 1].first
  BY <1>7, <1>8, <1>9 DEF InTurn
<1>12. \A i \in 1..Len(t) :
         /\ \A p \in t[i].first..t[i].last : squid[p] = "text"
         /\ Begins(t[i].first) \/ t[i].first - 1 \in torn
         /\ Ends(t[i].last) \/ t[i].last \in torn
  BY <1>7, <1>8, <1>9 DEF Whole
<1>13. Laid(Shown)'
  <2>1. s' = t
    BY DEF s, t
  <2>2. Read(s)' /\ InTurn(s)' /\ Covers(s)'
    BY <1>2, <1>10, <1>11, <2>1 DEF Read, InTurn, Covers
  <2>3. Whole(s)'
    BY <1>2, <1>12, <2>1 DEF Whole, Begins, Ends
  <2> QED BY <2>2, <2>3 DEF Laid, s
<1>14. TailerTypes'
  <2>1. tail' \in {"reading", "asleep"}
    BY DEF GiveUp, AfterSend
  <2>2. <<>> \in Seq(Line)
    BY EmptySeq
  <2> QED BY <1>1, <1>2, <2>1, <2>2 DEF TailerTypes
<1>15. AtBreak'
  BY <1>1, <1>2 DEF AtBreak
<1> QED BY <1>13, <1>14, <1>15 DEF TailerInv

(* Every other step leaves what is shown as it is.                           *)
LEMMA TailerKept ==
  TailerInv /\ (TailerNext \/ UNCHANGED tailVars) => TailerInv'
<1> SUFFICES ASSUME TailerInv, TailerNext \/ UNCHANGED tailVars PROVE TailerInv'
  OBVIOUS
<1>1. TailerTypes /\ Len(squid) \in Nat /\ position \in 0..Len(squid)
  BY LenProperties DEF TailerInv, TailerTypes
<1>2. ASSUME UNCHANGED <<squid, position, torn, lines, received, piece>>,
             stopping => stopping', tail' \in {"waiting", "reading", "asleep", "ended", tail},
             tail' = "sending" <=> tail = "sending"
      PROVE  TailerInv'
  <2>1. Shown' = Shown
    BY <1>2 DEF Shown
  <2>2. TailerTypes'
    BY <1>1, <1>2 DEF TailerTypes
  <2>3. /\ position' = position /\ torn' = torn /\ Len(squid') >= Len(squid)
        /\ Len(squid') \in Nat /\ \A p \in 1..Len(squid) : squid'[p] = squid[p]
    BY <1>1, <1>2
  <2>4. AtBreak' /\ Laid(Shown)'
    BY <1>2, <2>1, <2>3, LaidStays
  <2> QED BY <2>2, <2>4 DEF TailerInv
<1>3. CASE UNCHANGED tailVars
  BY <1>2, <1>3 DEF tailVars
<1>4. CASE CreateLog
  BY <1>2, <1>4 DEF CreateLog
<1>5. CASE OpenLog
  BY <1>2, <1>5 DEF OpenLog
<1>6. CASE Wake
  BY <1>2, <1>6 DEF Wake
<1>7. CASE ReadFails
  BY <1>2, <1>7 DEF ReadFails
<1>8. CASE StopTailer
  BY <1>2, <1>8 DEF StopTailer
<1>9. CASE \E part \in Flushes : SquidWrites(part)
  <2>1. PICK part \in Flushes : SquidWrites(part)
    BY <1>9
  <2>2. squid \in Seq({"text", "end"}) /\ part \in Seq({"text", "end"}) /\ squid' = squid \o part
    <3>1. {<<"text">>, <<"end">>, <<"text", "end">>} \subseteq Seq({"text", "end"})
      <4>1. <<"text">> \in Seq({"text", "end"})
        OBVIOUS
      <4>2. <<"end">> \in Seq({"text", "end"})
        OBVIOUS
      <4>3. <<"text", "end">> \in Seq({"text", "end"})
        OBVIOUS
      <4> QED BY <4>1, <4>2, <4>3, Zenon
    <3>2. part \in Seq({"text", "end"})
      BY <3>1, Zenon DEF Flushes
    <3>3. squid \in Seq({"text", "end"}) /\ squid' = squid \o part
      BY <1>1, <2>1 DEF TailerTypes, SquidWrites
    <3> QED BY <3>2, <3>3
  <2>3. /\ squid' \in Seq({"text", "end"}) /\ Len(squid') = Len(squid) + Len(part)
        /\ \A p \in 1..Len(squid) : squid'[p] = squid[p]
    <3>1. /\ squid \o part \in Seq({"text", "end"}) /\ Len(squid \o part) = Len(squid) + Len(part)
          /\ \A p \in 1..(Len(squid) + Len(part)) :
               (squid \o part)[p] = IF p <= Len(squid) THEN squid[p] ELSE part[p - Len(squid)]
      BY <2>2, ConcatProperties
    <3>2. Len(part) \in Nat
      BY <2>2, LenProperties
    <3> QED BY <1>1, <2>2, <3>1, <3>2
  <2>4. Len(squid') >= Len(squid) /\ Len(squid') \in Nat
    BY <1>1, <2>2, <2>3, LenProperties
  <2>5. UNCHANGED <<position, tail, piece, lines, received, torn, stopping>>
    BY <2>1 DEF SquidWrites
  <2>6. Shown' = Shown
    BY <2>5 DEF Shown
  <2>7. TailerTypes'
    <3>1. position' \in 0..Len(squid')
      BY <1>1, <2>4, <2>5
    <3> QED BY <1>1, <2>3, <2>5, <3>1 DEF TailerTypes
  <2>8. AtBreak' /\ Laid(Shown)'
    BY <2>3, <2>4, <2>5, <2>6, LaidStays
  <2> QED BY <2>7, <2>8 DEF TailerInv
<1>10. CASE ReadString
  BY <1>10, ReadKeeps
<1>11. CASE GiveUp
  BY <1>11, GiveUpKeeps
<1>12. CASE Send
  <2>1. /\ lines' = lines \o piece /\ piece' = <<>> /\ tail' \in {"reading", "asleep"} /\ tail = "sending"
        /\ Len(lines) < ChanCap
        /\ UNCHANGED <<squid, position, received, torn, stopping>>
    BY <1>12 DEF Send, AfterSend
  <2>2. Shown' = Shown
    BY <1>1, <2>1, SendShows
  <2>3. lines' \in Seq(Line) /\ Len(lines') <= ChanCap
    <3>1. lines \in Seq(Line) /\ piece \in Seq(Line) /\ Len(piece) = 1
      BY <1>1, <2>1 DEF TailerTypes
    <3>2. lines \o piece \in Seq(Line) /\ Len(lines \o piece) = Len(lines) + Len(piece)
      BY <3>1, ConcatProperties
    <3>3. Len(lines) \in Nat /\ ChanCap \in Nat
      BY <3>1, LenProperties, LogFilesAssumption
    <3> QED BY <2>1, <3>1, <3>2, <3>3
  <2>4. TailerTypes'
    <3>1. <<>> \in Seq(Line)
      BY EmptySeq
    <3> QED BY <1>1, <2>1, <2>3, <3>1 DEF TailerTypes
  <2>5. /\ Len(squid') >= Len(squid) /\ Len(squid') \in Nat /\ \A p \in 1..Len(squid) : squid'[p] = squid[p]
    BY <1>1, <2>1
  <2>6. AtBreak' /\ Laid(Shown)'
    BY <2>1, <2>2, <2>5, LaidStays
  <2> QED BY <2>4, <2>6 DEF TailerInv
<1>13. CASE Receive
  <2>1. Shown' = Shown
    BY <1>1, <1>13, ReceiveShows
  <2>2. UNCHANGED <<squid, position, tail, piece, torn, stopping>>
    BY <1>13 DEF Receive
  <2>3. TailerTypes'
    <3>1. lines \in Seq(Line) /\ received \in Seq(Line) /\ lines # <<>> /\ Len(lines) <= ChanCap
      BY <1>1, <1>13 DEF TailerTypes, Receive
    <3>2. Head(lines) \in Line /\ Tail(lines) \in Seq(Line) /\ Len(Tail(lines)) <= ChanCap
      BY <3>1, ReceiveType, LogFilesAssumption
    <3>3. Append(received, Head(lines)) \in Seq(Line)
      BY <3>1, <3>2, AppendProperties
    <3>4. lines' \in Seq(Line) /\ received' \in Seq(Line) /\ Len(lines') <= ChanCap
      BY <1>13, <3>2, <3>3 DEF Receive
    <3> QED BY <1>1, <2>2, <3>4 DEF TailerTypes
  <2>4. /\ Len(squid') >= Len(squid) /\ Len(squid') \in Nat /\ \A p \in 1..Len(squid) : squid'[p] = squid[p]
    BY <1>1, <2>2
  <2>5. AtBreak' /\ Laid(Shown)'
    BY <2>1, <2>2, <2>4, LaidStays
  <2> QED BY <2>3, <2>5 DEF TailerInv
<1> QED BY <1>3, <1>4, <1>5, <1>6, <1>7, <1>8, <1>9, <1>10, <1>11, <1>12, <1>13 DEF TailerNext, TailStep

(* The Logger's files hold the latest of what was logged in order and        *)
(* without a gap, each within one entry of its size, however often the log   *)
(* is closed and opened; until it is stopped or its disk fails the Tailer    *)
(* passes over nothing of its file, it mixes no two lines, and a line that   *)
(* it met unfinished is two lines (Log, rotate, run).                        *)
THEOREM LogFilesAreSound == LogFilesSpec => []LogFilesSound
<1>1. LogFilesInit => LoggerInv /\ TailerInv
  BY LogFilesBegin
<1>2. LoggerInv /\ TailerInv /\ [LogFilesNext]_logFileVars => LoggerInv' /\ TailerInv'
  <2> SUFFICES ASSUME LoggerInv, TailerInv, [LogFilesNext]_logFileVars PROVE LoggerInv' /\ TailerInv'
    OBVIOUS
  <2>1. CASE LoggerNext
    <3>1. UNCHANGED tailVars
      BY <2>1 DEF LoggerNext, CloseLog, Log, tailVars
    <3> QED BY <2>1, <3>1, LoggerKept, TailerKept
  <2>2. CASE TailerNext
    <3>1. UNCHANGED loggerVars
      BY <2>2 DEF TailerNext, TailStep, CreateLog, SquidWrites, OpenLog, ReadString, ReadFails, Send, GiveUp, Wake,
                  StopTailer, Receive
    <3> QED BY <2>2, <3>1, LoggerKept, TailerKept
  <2>3. CASE UNCHANGED logFileVars
    BY <2>3, LoggerKept, TailerKept DEF logFileVars
  <2> QED BY <2>1, <2>2, <2>3 DEF LogFilesNext
<1>3. LoggerInv /\ TailerInv => LogFilesSound
  <2> SUFFICES ASSUME LoggerInv, TailerInv PROVE LogFilesSound
    OBVIOUS
  <2>1. LogFilesTypeOK
    BY DEF LoggerInv, LoggerTypes, TailerInv, TailerTypes, LogFilesTypeOK
  <2>2. NothingSkipped /\ LinesKeptApart
    <3> DEFINE s == Shown
    <3>1. InTurn(s) /\ Covers(s) /\ Whole(s)
      BY DEF TailerInv, Laid
    <3> HIDE DEF s
    <3>2. /\ \A i \in 1..Len(s) : i < Len(s) => s[i].last < s[i + 1].first
          /\ ~stopping => \A p \in 1..position : squid[p] = "text" =>
               \E i \in 1..Len(s) : s[i].first <= p /\ p <= s[i].last
      BY <3>1 DEF InTurn, Covers
    <3>3. NothingSkipped
      BY <3>2 DEF NothingSkipped, s
    <3>4. LinesKeptApart
      BY <3>1 DEF Whole, LinesKeptApart, s
    <3> QED BY <3>3, <3>4
  <2> QED BY <2>1, <2>2 DEF LoggerInv, LogFilesSound
<1> QED BY <1>1, <1>2, <1>3, PTL DEF LogFilesSpec

-----------------------------------------------------------------------------
(* A step of the services is one of a part, and the others stutter.          *)
LEMMA ServicesParts ==
  Spec => /\ RuntimeSpec /\ RelaySpec /\ X11Spec /\ ClipboardSpec
          /\ LogFilesSpec /\ AlertSpec /\ BrokerSpec /\ BridgeSpec
<1>1. Init => /\ RuntimeInit /\ RelayInit /\ X11Init /\ ClipboardInit
              /\ LogFilesInit /\ AlertInit /\ BrokerInit /\ BridgeInit
  BY DEF Init
<1>2. ASSUME [Next]_vars
      PROVE  /\ [RuntimeNext]_runtimeVars /\ [RelayNext]_relayVars /\ [X11Next]_x11Vars
             /\ [ClipboardNext]_clipboardVars /\ [LogFilesNext]_logFileVars
             /\ [AlertNext]_alertVars /\ [BrokerNext]_brokerVars /\ [BridgeNext]_bridgeVars
  <2>1. CASE UNCHANGED vars
    BY <2>1 DEF vars
  <2>2. CASE OfLogs("logger", LoggerNext) \/ OfLogs("tailer", TailerNext)
    <3>1. LogFilesNext
      BY <2>2 DEF OfLogs, Only, LogFilesNext
    <3> QED BY <2>2, <3>1 DEF OfLogs
  <2>3. CASE \/ OfRuntime(RuntimeNext) \/ OfRelay(RelayNext) \/ OfX11(X11Next)
             \/ OfAlert(AlertNext) \/ OfBroker(BrokerNext) \/ OfBridge(BridgeNext)
             \/ /\ Only("clipboard", ClipboardNext)
                /\ UNCHANGED <<runtimeVars, relayVars, x11Vars, logFileVars, alertVars, brokerVars, bridgeVars>>
    BY <2>3 DEF OfRuntime, OfRelay, OfX11, OfAlert, OfBroker, OfBridge, Only
  <2> QED BY <1>2, <2>1, <2>2, <2>3 DEF Next
<1> QED BY <1>1, <1>2, PTL
   DEF Spec, RuntimeSpec, RelaySpec, X11Spec, ClipboardSpec, LogFilesSpec, AlertSpec, BrokerSpec, BridgeSpec

(* What the run of the services checks of its states and steps, for every    *)
(* size of it.                                                               *)
THEOREM ServicesAreSound ==
  Spec => /\ [](RelaySound /\ LogFilesSound /\ AlertKept /\ BrokerSound /\ BridgeSound)
          /\ RuntimeSound /\ ClipboardSound
BY ServicesParts, RelayIsSound, LogFilesAreSound, AlertIsKept, BrokerIsSound,
   BridgeIsSound, RuntimeIsSound, ClipboardIsSound, PTL
=============================================================================
