------------------------------- MODULE Broker -------------------------------
(***************************************************************************)
(* cooper/internal/pubsub/broker.go: publishers hand events to every       *)
(* subscription without waiting for the subscribers.  A subscription is a  *)
(* small buffered channel in, a bridge goroutine with an unbounded slice,  *)
(* and an unbuffered channel out; when in is full each event gets a        *)
(* goroutine of its own that waits for room.                               *)
(*                                                                         *)
(* Publish holds the read side of mu over its loop, Subscribe, Unsubscribe *)
(* and Close the write side, the last two also while they wait for a       *)
(* bridge goroutine to end.                                                *)
(***************************************************************************)
EXTENDS Naturals, Sequences, FiniteSets

CONSTANTS Publishers,  \* goroutines that publish
          Events,      \* each is published once
          Subs,        \* the subscriptions that are ever made
          InCap,       \* places of in (64)
          NoEvent, NoSub

ASSUME BrokerAssumption ==
  /\ IsFiniteSet(Publishers)
  /\ InCap \in Nat /\ NoEvent \notin Events /\ NoSub \notin Subs

VARIABLES
  closed,
  subs,       \* the keys of the map
  writer,     \* who holds mu for writing: "none", "unsubscribe", "close"
  waiting,    \* the subscription whose done the writer waits for
  event,      \* publisher -> the event of its running Publish, or NoEvent
  todo,       \* publisher -> the subscriptions its loop has not reached
  unpublished,
  in,         \* subscription -> contents of its channel
  inOpen,     \* in was made and not closed
  overflow,   \* subscription -> events whose goroutine waits for room in in
  buf,        \* subscription -> the slice of the bridge goroutine
  running,    \* its bridge goroutine runs and out is open
  owed,       \* the events whose Publish began while it was subscribed
  got         \* what the subscriber received

channels == <<in, overflow, buf, got>>
brokerVars == <<closed, subs, writer, waiting, event, todo, unpublished, in, inOpen,
          overflow, buf, running, owed, got>>

BrokerInit ==
  /\ closed = FALSE /\ subs = {}
  /\ writer = "none" /\ waiting = NoSub
  /\ event = [p \in Publishers |-> NoEvent]
  /\ todo = [p \in Publishers |-> {}]
  /\ unpublished = Events
  /\ in = [s \in Subs |-> << >>]
  /\ inOpen = [s \in Subs |-> FALSE]
  /\ overflow = [s \in Subs |-> {}]
  /\ buf = [s \in Subs |-> << >>]
  /\ running = [s \in Subs |-> FALSE]
  /\ owed = [s \in Subs |-> {}]
  /\ got = [s \in Subs |-> << >>]

Publishing(p) == event[p] # NoEvent
LockFree == writer = "none" /\ \A p \in Publishers : ~Publishing(p)

(* A subscription is made once; its history tells it was. *)
NeverMade(s) == s \notin subs /\ ~running[s] /\ owed[s] = {} /\ ~inOpen[s]

-----------------------------------------------------------------------------
(* On a closed broker Subscribe returns a closed channel and changes nothing. *)
Subscribe(s) ==
  /\ LockFree /\ ~closed /\ NeverMade(s)
  /\ subs' = subs \cup {s}
  /\ inOpen' = [inOpen EXCEPT ![s] = TRUE]
  /\ running' = [running EXCEPT ![s] = TRUE]
  /\ UNCHANGED <<closed, writer, waiting, event, todo, unpublished, channels, owed>>

CloseIn(s) == inOpen' = [inOpen EXCEPT ![s] = FALSE] /\ waiting' = s

(* Mutants: the channel is closed while publishers run; the subscription is *)
(* dropped from the map without closing its channel.                        *)
UnsubscribeUnlocked(s) ==
  /\ writer = "none" /\ s \in subs
  /\ writer' = "unsubscribe"
  /\ CloseIn(s)
  /\ UNCHANGED <<closed, subs, event, todo, unpublished, channels, running, owed>>
UnsubscribeForgets(s) ==
  /\ LockFree /\ s \in subs
  /\ subs' = subs \ {s}
  /\ UNCHANGED <<closed, writer, waiting, event, todo, unpublished, channels,
                 inOpen, running, owed>>

Unsubscribe(s) ==
  /\ LockFree /\ s \in subs
  /\ writer' = "unsubscribe"
  /\ CloseIn(s)
  /\ UNCHANGED <<closed, subs, event, todo, unpublished, channels, running, owed>>

Close ==
  /\ LockFree /\ ~closed
  /\ closed' = TRUE
  /\ writer' = IF subs = {} THEN "none" ELSE "close"
  /\ UNCHANGED <<subs, waiting, event, todo, unpublished, channels, inOpen, running, owed>>

CloseNext(s) ==
  /\ writer = "close" /\ waiting = NoSub /\ s \in subs
  /\ CloseIn(s)
  /\ UNCHANGED <<closed, subs, writer, event, todo, unpublished, channels, running, owed>>

(* The writer sees done closed, forgets the subscription and, when it was   *)
(* the last, returns.                                                       *)
SubDone ==
  /\ waiting # NoSub /\ ~running[waiting]
  /\ subs' = subs \ {waiting}
  /\ waiting' = NoSub
  /\ writer' = IF writer = "close" /\ subs' # {} THEN "close" ELSE "none"
  /\ UNCHANGED <<closed, event, todo, unpublished, channels, inOpen, running, owed>>

-----------------------------------------------------------------------------
BeginPublish(p, e) ==
  /\ writer = "none" /\ ~closed /\ ~Publishing(p) /\ e \in unpublished
  /\ unpublished' = unpublished \ {e}
  /\ event' = [event EXCEPT ![p] = IF subs = {} THEN NoEvent ELSE e]
  /\ todo' = [todo EXCEPT ![p] = subs]
  /\ owed' = [s \in Subs |-> IF s \in subs THEN owed[s] \cup {e} ELSE owed[s]]
  /\ UNCHANGED <<closed, subs, writer, waiting, channels, inOpen, running>>

(* After its last subscription the loop ends and the lock is released. *)
Reached(p, s) ==
  /\ todo' = [todo EXCEPT ![p] = @ \ {s}]
  /\ event' = [event EXCEPT ![p] = IF todo[p] = {s} THEN NoEvent ELSE @]

(* Mutants: the channel takes any number; an event that finds it full is    *)
(* dropped.                                                                 *)
SendUnbounded(p, s) ==
  /\ s \in todo[p]
  /\ in' = [in EXCEPT ![s] = Append(@, event[p])]
  /\ Reached(p, s)
  /\ UNCHANGED <<closed, subs, writer, waiting, unpublished, overflow, inOpen, buf,
                 running, owed, got>>
SendOrDrop(p, s) ==
  /\ s \in todo[p]
  /\ in' = IF Len(in[s]) < InCap THEN [in EXCEPT ![s] = Append(@, event[p])] ELSE in
  /\ Reached(p, s)
  /\ UNCHANGED <<closed, subs, writer, waiting, unpublished, overflow, inOpen, buf,
                 running, owed, got>>

SendTo(p, s) ==
  /\ s \in todo[p]
  /\ \/ /\ Len(in[s]) < InCap
        /\ in' = [in EXCEPT ![s] = Append(@, event[p])] /\ UNCHANGED overflow
     \/ /\ Len(in[s]) >= InCap
        /\ overflow' = [overflow EXCEPT ![s] = @ \cup {event[p]}] /\ UNCHANGED in
  /\ Reached(p, s)
  /\ UNCHANGED <<closed, subs, writer, waiting, unpublished, inOpen, buf, running,
                 owed, got>>

(* Mutant: on a closed channel the goroutine goes on waiting for room. *)
OverflowWhileOpen(s, e) ==
  /\ e \in overflow[s] /\ inOpen[s] /\ Len(in[s]) < InCap
  /\ in' = [in EXCEPT ![s] = Append(@, e)]
  /\ overflow' = [overflow EXCEPT ![s] = @ \ {e}]
  /\ UNCHANGED <<closed, subs, writer, waiting, event, todo, unpublished, inOpen,
                 buf, running, owed, got>>

(* The goroutine of an overflowing event: it waits for room; a send on the  *)
(* closed channel panics, which it recovers.                                *)
OverflowSend(s, e) ==
  /\ e \in overflow[s]
  /\ \/ inOpen[s] /\ Len(in[s]) < InCap /\ in' = [in EXCEPT ![s] = Append(@, e)]
     \/ ~inOpen[s] /\ UNCHANGED in
  /\ overflow' = [overflow EXCEPT ![s] = @ \ {e}]
  /\ UNCHANGED <<closed, subs, writer, waiting, event, todo, unpublished, inOpen,
                 buf, running, owed, got>>

-----------------------------------------------------------------------------
(* The bridge goroutine *)

BridgeReceive(s) ==
  /\ running[s] /\ in[s] # << >>
  /\ buf' = [buf EXCEPT ![s] = Append(@, Head(in[s]))]
  /\ in' = [in EXCEPT ![s] = Tail(@)]
  /\ UNCHANGED <<closed, subs, writer, waiting, event, todo, unpublished, inOpen,
                 overflow, running, owed, got>>

(* The subscriber reads out. *)
Deliver(s) ==
  /\ running[s] /\ buf[s] # << >>
  /\ got' = [got EXCEPT ![s] = Append(@, Head(buf[s]))]
  /\ buf' = [buf EXCEPT ![s] = Tail(@)]
  /\ UNCHANGED <<closed, subs, writer, waiting, event, todo, unpublished, in, inOpen,
                 overflow, running, owed>>

(* Mutant: the bridge waits for the subscriber to read the rest. *)
BridgeDrains(s) ==
  /\ running[s] /\ ~inOpen[s] /\ in[s] = << >> /\ buf[s] = << >>
  /\ running' = [running EXCEPT ![s] = FALSE]
  /\ UNCHANGED <<closed, subs, writer, waiting, event, todo, unpublished, in, inOpen,
                 overflow, buf, owed, got>>

(* in is closed and empty: the slice is dropped, out and done are closed. *)
BridgeEnds(s) ==
  /\ running[s] /\ ~inOpen[s] /\ in[s] = << >>
  /\ running' = [running EXCEPT ![s] = FALSE]
  /\ buf' = [buf EXCEPT ![s] = << >>]
  /\ UNCHANGED <<closed, subs, writer, waiting, event, todo, unpublished, in, inOpen,
                 overflow, owed, got>>

-----------------------------------------------------------------------------
Goroutine(s) == \/ BridgeReceive(s) \/ BridgeEnds(s)
                \/ \E e \in Events : OverflowSend(s, e)

BrokerNext ==
  \/ \E s \in Subs : \/ Subscribe(s) \/ Unsubscribe(s) \/ CloseNext(s)
                     \/ Deliver(s) \/ Goroutine(s)
  \/ Close \/ SubDone
  \/ \E p \in Publishers : \/ \E e \in Events : BeginPublish(p, e)
                           \/ \E s \in Subs : SendTo(p, s)

BrokerSpec == BrokerInit /\ [][BrokerNext]_brokerVars

(* What the goroutines of the broker do of themselves (subscribers need not  *)
(* read): they pass events on, and they end subscriptions.                   *)
PassEvents ==
  \E s \in Subs : \/ BridgeReceive(s) \/ \E e \in Events : OverflowSend(s, e)
                  \/ \E p \in Publishers : SendTo(p, s)
EndSubs == SubDone \/ \E s \in Subs : CloseNext(s) \/ BridgeEnds(s)

-----------------------------------------------------------------------------
(* Properties *)

BrokerTypeOK ==
  /\ closed \in BOOLEAN
  /\ subs \subseteq Subs
  /\ writer \in {"none", "unsubscribe", "close"}
  /\ waiting \in Subs \cup {NoSub}
  /\ writer = "none" => waiting = NoSub
  /\ event \in [Publishers -> Events \cup {NoEvent}]
  /\ todo \in [Publishers -> SUBSET Subs]
  /\ \A p \in Publishers : todo[p] # {} <=> Publishing(p)
  /\ unpublished \subseteq Events
  /\ in \in [Subs -> Seq(Events)] /\ \A s \in Subs : Len(in[s]) <= InCap
  /\ inOpen \in [Subs -> BOOLEAN]
  /\ overflow \in [Subs -> SUBSET Events]
  /\ buf \in [Subs -> Seq(Events)]
  /\ running \in [Subs -> BOOLEAN]
  /\ owed \in [Subs -> SUBSET Events]
  /\ got \in [Subs -> Seq(Events)]

Times(q, e) == Cardinality({i \in DOMAIN q : q[i] = e})

Copies(s, e) ==
  Times(in[s], e) + Times(buf[s], e) + Times(got[s], e)
    + (IF e \in overflow[s] THEN 1 ELSE 0)
    + Cardinality({p \in Publishers : event[p] = e /\ s \in todo[p]})

(* "Each subscriber receives every event published after it subscribed",    *)
(* once, however many publishers overflow its channel: as long as it is     *)
(* subscribed an owed event is in exactly one place on its way, and a       *)
(* subscription that ended gets none twice and none that is not its own.    *)
ExactlyOnce ==
  \A s \in Subs, e \in Events :
    /\ Copies(s, e) <= 1
    /\ Copies(s, e) = 1 => e \in owed[s]
    /\ inOpen[s] /\ e \in owed[s] => Copies(s, e) = 1

(* The loop of Publish never sends on a closed channel (only the overflow   *)
(* goroutines recover from that): Unsubscribe and Close stay out while any  *)
(* publisher still has the subscription before it.                          *)
PublishSeesOpen == \A p \in Publishers : \A s \in todo[p] : inOpen[s] /\ running[s]

(* A bridge goroutine runs only for a registered subscription: none leaks   *)
(* after Unsubscribe or Close returned.                                     *)
NoBridgeLeak == \A s \in Subs : running[s] => s \in subs

(* Unsubscribe and Close return although nobody reads the buffered events,  *)
(* which they wait for under the lock.                                      *)
WritersReturn == []<>(writer = "none")

(* No overflow goroutine waits for ever, whether or not anybody reads. *)
OverflowEnds == \A s \in Subs, e \in Events : []<>(e \notin overflow[s])

(* A subscriber gets each event at most once and none is lost while it reads, *)
(* the publisher never sends on a closed channel, and no bridge outlives its  *)
(* subscription (Publish, Unsubscribe and Close).                            *)
BrokerSound ==
  BrokerTypeOK /\ ExactlyOnce /\ PublishSeesOpen /\ NoBridgeLeak
=============================================================================
