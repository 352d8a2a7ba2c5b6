----------------------------- MODULE AlertSound -----------------------------
(* The sound for a new approval: the Controller that the settings switch on  *)
(* and off, its Player with the cooldown and the progression of phrases, and *)
(* the calls that Bubble Tea runs, one for each request.                     *)
EXTENDS Integers, Sequences, FiniteSets

CONSTANTS Calls,       \* commands that play the alert
          MaxPlayers,  \* bound on players that SetEnabled makes
          Cooldown,    \* proxyAlertCooldown
          Block,       \* plays of one phrase before the other
          MaxTime      \* bound on the clock
ASSUME AlertAssumption == Cooldown \in Nat

Silent == 0
Quiet == [at |-> "idle", player |-> Silent, since |-> 0]

VARIABLES
  enabled, \* Controller.enabled
  player,  \* Controller.player
  players, \* the players so far: closed, disabled, playCount, lastPlayAt
  switch,  \* SetEnabled on the goroutine of the screen: "idle", or the player it closes
  call,    \* the commands
  heard,   \* the phrases that were played: of which player, when, which one
  now
alertVars == <<enabled, player, players, switch, call, heard, now>>

NewPlayer == [closed |-> FALSE, disabled |-> FALSE, count |-> 0, last |-> 0]
AlertInit ==
  /\ enabled = FALSE /\ player = Silent /\ players = <<>> /\ switch = Silent
  /\ call = [c \in Calls |-> Quiet] /\ heard = <<>> /\ now = 1

(* The mutex of a player is held for as long as it plays.                    *)
Busy(p) == \E c \in Calls : call[c].at = "playing" /\ call[c].player = p

-----------------------------------------------------------------------------
(* SetEnabled *)

(* Without a backend the alert stays off.                                    *)
SwitchOn ==
  /\ switch = Silent
  /\ \/ player # Silent /\ enabled' = TRUE /\ UNCHANGED <<player, players>>
     \/ /\ player = Silent /\ Len(players) < MaxPlayers
        /\ \/ /\ players' = Append(players, NewPlayer)
              /\ player' = Len(players') /\ enabled' = TRUE
           \/ enabled' = FALSE /\ UNCHANGED <<player, players>>
  /\ UNCHANGED <<switch, call, heard, now>>
(* Off, and then Close, which waits for the sound that plays.                *)
SwitchOff ==
  /\ switch = Silent /\ enabled /\ enabled' = FALSE /\ player' = Silent
  /\ switch' = player
  /\ UNCHANGED <<players, call, heard, now>>
(* Mutant: Close does not wait. *)
CloseAtOnce ==
  /\ switch # Silent /\ switch' = Silent
  /\ players' = [players EXCEPT ![switch].closed = TRUE]
  /\ UNCHANGED <<enabled, player, call, heard, now>>
ClosePlayer ==
  /\ switch # Silent /\ ~Busy(switch) /\ switch' = Silent
  /\ players' = [players EXCEPT ![switch].closed = TRUE]
  /\ UNCHANGED <<enabled, player, call, heard, now>>

-----------------------------------------------------------------------------
(* PlayProxyApprovalNeeded *)

(* The Controller hands out its player and lets go of its lock.              *)
Fetch(c) ==
  /\ call[c].at = "idle" /\ enabled
  /\ call' = [call EXCEPT ![c] = [at |-> "fetched", player |-> player, since |-> 0]]
  /\ UNCHANGED <<enabled, player, players, switch, heard, now>>

Phrase(count) == IF (count \div Block) % 2 = 0 THEN "home" ELSE "minor"
Cooled(p) == players[p].last = 0 \/ now - players[p].last >= Cooldown
(* Mutant: the closed flag is not looked at. *)
StartClosed(c) ==
  LET p == call[c].player IN
  /\ call[c].at = "fetched" /\ ~Busy(p)
  /\ call' = [call EXCEPT ![c] = IF players[p].disabled \/ ~Cooled(p) THEN Quiet
                                 ELSE [@ EXCEPT !.at = "playing", !.since = now]]
  /\ UNCHANGED <<enabled, player, players, switch, heard, now>>
(* Mutant: the cooldown runs between calls, whether they play or not. *)
StartUncooled(c) ==
  LET p == call[c].player IN
  /\ call[c].at = "fetched" /\ ~Busy(p)
  /\ call' = [call EXCEPT ![c] = IF players[p].closed \/ players[p].disabled THEN Quiet
                                 ELSE [@ EXCEPT !.at = "playing", !.since = now]]
  /\ UNCHANGED <<enabled, player, players, switch, heard, now>>
Start(c) ==
  LET p == call[c].player IN
  /\ call[c].at = "fetched" /\ ~Busy(p)
  /\ call' = [call EXCEPT ![c] = IF players[p].closed \/ players[p].disabled \/ ~Cooled(p) THEN Quiet
                                 ELSE [@ EXCEPT !.at = "playing", !.since = now]]
  /\ UNCHANGED <<enabled, player, players, switch, heard, now>>

(* Mutant: a failed play does not give the mutex back. *)
FinishHolding(c) ==
  LET p == call[c].player IN
  /\ call[c].at = "playing" /\ ~players[p].disabled
  /\ \/ /\ call' = [call EXCEPT ![c] = Quiet]
        /\ players' = [players EXCEPT ![p].count = @ + 1, ![p].last = call[c].since]
        /\ heard' = Append(heard, [player |-> p, at |-> call[c].since, phrase |-> Phrase(players[p].count)])
     \/ /\ players' = [players EXCEPT ![p].disabled = TRUE]
        /\ UNCHANGED <<call, heard>>
  /\ UNCHANGED <<enabled, player, switch, now>>
(* The phrase is over, or the backend failed: then the player is disabled.   *)
Finish(c) ==
  LET p == call[c].player IN
  /\ call[c].at = "playing" /\ call' = [call EXCEPT ![c] = Quiet]
  /\ \/ /\ players' = [players EXCEPT ![p].count = @ + 1, ![p].last = call[c].since]
        /\ heard' = Append(heard, [player |-> p, at |-> call[c].since, phrase |-> Phrase(players[p].count)])
     \/ /\ players' = [players EXCEPT ![p].disabled = TRUE]
        /\ heard' = heard
  /\ UNCHANGED <<enabled, player, switch, now>>

ClockTicks == now < MaxTime /\ now' = now + 1 /\ UNCHANGED <<enabled, player, players, switch, call, heard>>

AlertStep == ClosePlayer \/ \E c \in Calls : Start(c) \/ Finish(c)
AlertNext == SwitchOn \/ SwitchOff \/ ClockTicks \/ AlertStep \/ \E c \in Calls : Fetch(c)
AlertSpec == AlertInit /\ [][AlertNext]_alertVars

-----------------------------------------------------------------------------
(* Properties *)

AlertTypeOK ==
  /\ enabled \in BOOLEAN /\ player \in 0..Len(players) /\ switch \in 0..Len(players)
  /\ \A c \in Calls : call[c].at \in {"idle", "fetched", "playing"}

(* One sound at a time, and none from a player that is closed: a call that   *)
(* fetched its player before the alert was switched off, finds that out.     *)
OneSound ==
  \A c, d \in Calls : call[c].at = "playing" =>
    /\ ~players[call[c].player].closed
    /\ call[d].at = "playing" => c = d

(* Once SetEnabled(false) has returned it is quiet.                          *)
OffIsQuiet == ~enabled /\ switch = Silent => \A c \in Calls : call[c].at # "playing"

(* REQUIREMENTS.md: "plays 1-8 use the home phrase, plays 9-16 use the       *)
(* transition phrase", "Suppressed alerts do not advance the progression     *)
(* state", and two phrases are a cooldown apart: since the alert was last    *)
(* switched on.  REQUIREMENTS.md says so of the whole session; in the code a *)
(* switch to off and on makes a new player, which begins again with the      *)
(* first phrase, at once.                                                    *)
EarlierPlays(i) == {j \in 1..(i - 1) : heard[j].player = heard[i].player}
PhrasesAlternate ==
  \A i \in DOMAIN heard :
    /\ heard[i].phrase = Phrase(Cardinality(EarlierPlays(i)))
    /\ \A j \in EarlierPlays(i) : heard[i].at - heard[j].at >= Cooldown

(* Nothing of an earlier player is heard once a later one was: what is heard *)
(* are stretches, one for each time that the alert was switched on.          *)
OldIsQuiet == \A i, j \in DOMAIN heard : i < j => heard[i].player <= heard[j].player

(* The screen, which waits in Close while a sound plays, comes back.         *)
SwitchReturns == []<>(switch = Silent)

(* One sound at a time, none after it was switched off, and the phrases      *)
(* follow each other in their order, which begins anew, without a cooldown,  *)
(* each time the alert is switched on (player.go and controller.go).         *)
AlertKept ==
  AlertTypeOK /\ OneSound /\ OffIsQuiet /\ PhrasesAlternate /\ OldIsQuiet
=============================================================================
