----------------------------- MODULE HostRelay -----------------------------
(* The lazy relays of a forwarded port (hostrelay.go): a scan loop, the      *)
(* rescan of UpdatePorts, and one accept loop per listener, over the ports   *)
(* and the active map that mu guards.  A service listens on loopback, on     *)
(* gateway addresses, or on both.                                            *)
EXTENDS Naturals

CONSTANTS Ports, Gateways,
          MaxUpdates,   \* bound on UpdatePorts
          MaxServices,  \* bound on services that start, stop or move
          MaxConns      \* bound on connections that a relay accepts
ASSUME RelayAssumption == MaxConns \in Nat

Scanners == {"loop", "update"}

VARIABLES
  hostPorts,  \* ports: what the rules expand to
  active,     \* active: the gateways of the relay of a port, {} for none
  open,       \* the listeners that are open
  scanning,   \* the ports a scan has copied, and that it is under way
  service,    \* the addresses a service listens on
  dialing,    \* accept loops between Accept and the answer of the dial
  doomed,     \* accept loops that will tear the relay of their port down
  halted,     \* stopCh is closed and Stop has passed mu
  updates, services, conns
relayVars == <<hostPorts, active, open, scanning, service, dialing, doomed, halted, updates, services, conns>>

Idle == [busy |-> FALSE, copy |-> {}]
RelayInit ==
  /\ hostPorts = Ports
  /\ active = [p \in Ports |-> {}] /\ open = active
  /\ scanning = [s \in Scanners |-> Idle]
  /\ service = [p \in Ports |-> {}]
  /\ dialing = [p \in Ports |-> 0] /\ doomed = [p \in Ports |-> 0]
  /\ halted = FALSE /\ updates = 0 /\ services = 0 /\ conns = 0

(* The first critical section of scan copies the ports ...                   *)
BeginScan(s, copied) ==
  /\ ~scanning[s].busy
  /\ scanning' = [scanning EXCEPT ![s] = [busy |-> TRUE, copy |-> copied]]
LoopScans ==
  /\ ~halted /\ BeginScan("loop", hostPorts)
  /\ UNCHANGED <<hostPorts, active, open, service, dialing, doomed, halted, updates, services, conns>>
(* UpdatePorts stores the new ports and scans at once.                       *)
UpdatePorts(rules) ==
  /\ updates < MaxUpdates /\ updates' = updates + 1
  /\ hostPorts' = rules /\ BeginScan("update", rules)
  /\ UNCHANGED <<active, open, service, dialing, doomed, halted, services, conns>>

(* Mutant: a relay whose rule is gone stays while its service answers. *)
DesiredKept(copied, p) ==
  IF "lo" \notin service[p] THEN {}
  ELSE IF active[p] # {} THEN active[p]
  ELSE IF p \notin copied \/ service[p] \cap Gateways # {} THEN {}
  ELSE Gateways
(* ... and the second acts on the copy.  A relay is kept while something     *)
(* answers on loopback; a new one needs that, and a gateway where nothing    *)
(* answers yet, on all of them (startRelay skips what it cannot bind, which  *)
(* is nothing then).                                                         *)
Desired(copied, p) ==
  IF p \notin copied \/ "lo" \notin service[p] THEN {}
  ELSE IF active[p] # {} THEN active[p]
  ELSE IF service[p] \cap Gateways # {} THEN {}
  ELSE Gateways
EndScan(s) ==
  /\ scanning[s].busy
  /\ active' = [p \in Ports |-> Desired(scanning[s].copy, p)]
  /\ open' = [p \in Ports |-> IF active'[p] = {} THEN {} ELSE active'[p] \cup open[p]]
  /\ scanning' = [scanning EXCEPT ![s] = Idle]
  /\ UNCHANGED <<hostPorts, service, dialing, doomed, halted, updates, services, conns>>

(* relayAcceptLoop: a connection, a dial, and when nobody answers the relay  *)
(* of the port, whichever that is by now, is torn down.                      *)
AcceptConn(p) ==
  /\ open[p] # {} /\ conns < MaxConns /\ conns' = conns + 1
  /\ dialing' = [dialing EXCEPT ![p] = @ + 1]
  /\ UNCHANGED <<hostPorts, active, open, scanning, service, doomed, halted, updates, services>>
DialTarget(p) ==
  /\ dialing[p] > 0
  /\ dialing' = [dialing EXCEPT ![p] = @ - 1]
  /\ doomed' = IF "lo" \in service[p] THEN doomed ELSE [doomed EXCEPT ![p] = @ + 1]
  /\ UNCHANGED <<hostPorts, active, open, scanning, service, halted, updates, services, conns>>
(* Mutant: the relay leaves the map with its listeners open. *)
TeardownForgets(p) ==
  /\ doomed[p] > 0
  /\ doomed' = [doomed EXCEPT ![p] = @ - 1]
  /\ active' = [active EXCEPT ![p] = {}]
  /\ UNCHANGED <<hostPorts, open, scanning, service, dialing, halted, updates, services, conns>>
TeardownPort(p) ==
  /\ doomed[p] > 0
  /\ doomed' = [doomed EXCEPT ![p] = @ - 1]
  /\ active' = [active EXCEPT ![p] = {}]
  /\ open' = [open EXCEPT ![p] = {}]
  /\ UNCHANGED <<hostPorts, scanning, service, dialing, halted, updates, services, conns>>

(* Stop closes stopCh and, under mu, every listener; a scan that is under    *)
(* way is not told.                                                          *)
StopRelay ==
  /\ ~halted /\ halted' = TRUE
  /\ active' = [p \in Ports |-> {}] /\ open' = [p \in Ports |-> {}]
  /\ UNCHANGED <<hostPorts, scanning, service, dialing, doomed, updates, services, conns>>

(* The host: a service binds what no relay holds (0.0.0.0 is all of it).     *)
ServiceMoves(p, addresses) ==
  /\ services < MaxServices /\ services' = services + 1
  /\ addresses # service[p] /\ addresses \cap open[p] = {}
  /\ service' = [service EXCEPT ![p] = addresses]
  /\ UNCHANGED <<hostPorts, active, open, scanning, dialing, doomed, halted, updates, conns>>

RelayStep == \/ \E s \in Scanners : EndScan(s)
             \/ \E p \in Ports : DialTarget(p) \/ TeardownPort(p)
Bindings == {{}, {"lo"}, Gateways, {"lo"} \cup Gateways}
RelayNext ==
  \/ RelayStep \/ LoopScans \/ StopRelay
  \/ \E rules \in SUBSET Ports : UpdatePorts(rules)
  \/ \E p \in Ports : AcceptConn(p) \/ \E a \in Bindings : ServiceMoves(p, a)
RelaySpec == RelayInit /\ [][RelayNext]_relayVars

-----------------------------------------------------------------------------
(* Properties *)

RelayTypeOK ==
  /\ hostPorts \subseteq Ports
  /\ active \in [Ports -> SUBSET Gateways] /\ open \in [Ports -> SUBSET Gateways]
  /\ scanning \in [Scanners -> [busy : BOOLEAN, copy : SUBSET Ports]]
  /\ service \in [Ports -> SUBSET ({"lo"} \cup Gateways)]
  /\ dialing \in [Ports -> 0..MaxConns] /\ doomed \in [Ports -> 0..MaxConns]

(* Nobody can close a listener that the map has forgotten: the open ones are *)
(* those of the map, through scans that replace relays, accept loops that    *)
(* tear younger ones down, and Stop.                                         *)
ListenersTracked == open = active

(* Every listener of the relay is one it knows and can close, also after a   *)
(* scan that overlaps a change of the ports (hostrelay.go).                  *)
RelaySound == RelayTypeOK /\ ListenersTracked

(* What was decided on an old copy of the rules or of the host does not      *)
(* last: in the end a loopback-only service of a forwarded port is relayed   *)
(* and nothing else is (unless the relays are stopped).                      *)
RelaysSettle ==
  <>[](halted \/ \A p \in Ports :
          /\ p \in hostPorts /\ service[p] = {"lo"} => active[p] # {}
          /\ active[p] # {} => p \in hostPorts /\ service[p] # {})
=============================================================================
