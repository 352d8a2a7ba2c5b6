------------------------------- MODULE PGReset --------------------------------
(***************************************************************************)
(* pgflock/internal/locker/reset.go as handleLock calls it: one database    *)
(* of the pool is taken, dropped and made again from the template, and      *)
(* handed out only when every step has succeeded.  Each step is a psql      *)
(* process of its own; the previous holder may still be connected, may      *)
(* connect again between two steps, and the containers may be restarted     *)
(* under the reset.                                                         *)
(***************************************************************************)
EXTENDS Naturals

CONSTANTS
  MaxFaults,  \* psql runs that fail for a reason of their own
  MaxReturns, \* connections a former holder opens
  MaxRestarts \* container restarts

ASSUME ResetAssumption == MaxFaults \in Nat /\ MaxReturns \in Nat /\ MaxRestarts \in Nat

VARIABLES
  resetAt, \* "pool", the psql step to run next, "register" or "held"
  exists, marks, \* the database is there; what a former holder wrote is in it
  owner, schema, \* it belongs to the configured user; so does its public schema
  stale,   \* a former holder is connected
  pg,      \* the instance: "up" or "down"
  made,    \* history: the database was created in the reset under way
  hit,     \* history: the containers were stopped since the database was taken
  faults, returns, restarts

resetVars == <<resetAt, exists, marks, owner, schema, stale, pg, made, hit, faults, returns, restarts>>

ResetInit ==
  /\ resetAt = "pool" /\ exists = TRUE /\ marks = FALSE /\ owner = TRUE /\ schema = TRUE
  /\ stale = FALSE /\ pg = "up" /\ made = FALSE /\ hit = FALSE
  /\ faults = 0 /\ returns = 0 /\ restarts = 0

Take ==
  /\ resetAt = "pool"
  /\ resetAt' = "terminate" /\ made' = FALSE /\ hit' = FALSE
  /\ UNCHANGED <<exists, marks, owner, schema, stale, pg, faults, returns, restarts>>

(* A failing terminate is logged and passed over. *)
Terminate ==
  /\ resetAt = "terminate" /\ resetAt' = "drop"
  /\ \/ pg = "up" /\ stale' = FALSE /\ UNCHANGED faults
     \/ faults < MaxFaults /\ faults' = faults + 1 /\ UNCHANGED stale
     \/ pg = "down" /\ UNCHANGED <<stale, faults>>
  /\ UNCHANGED <<exists, marks, owner, schema, pg, made, hit, returns, restarts>>

(* Mutant: DROP DATABASE without IF EXISTS. *)
DropExisting ==
  /\ resetAt = "drop" /\ pg = "up" /\ ~stale /\ exists
  /\ resetAt' = "create" /\ exists' = FALSE
  /\ UNCHANGED <<marks, owner, schema, stale, pg, made, hit, faults, returns, restarts>>

Drop ==
  /\ resetAt = "drop" /\ pg = "up" /\ ~stale
  /\ resetAt' = "create" /\ exists' = FALSE
  /\ UNCHANGED <<marks, owner, schema, stale, pg, made, hit, faults, returns, restarts>>

(* Mutant: the database is made again in place, with what it held. *)
CreateInPlace ==
  /\ resetAt = "create" /\ pg = "up" /\ ~exists
  /\ resetAt' = "owner" /\ exists' = TRUE /\ made' = TRUE
  /\ owner' = FALSE /\ schema' = FALSE
  /\ UNCHANGED <<marks, stale, pg, hit, faults, returns, restarts>>

(* CREATE DATABASE ... TEMPLATE=test_template: nothing of the old content,  *)
(* owned by the user psql connects as.                                      *)
Create ==
  /\ resetAt = "create" /\ pg = "up" /\ ~exists
  /\ resetAt' = "owner" /\ exists' = TRUE /\ marks' = FALSE /\ made' = TRUE
  /\ owner' = FALSE /\ schema' = FALSE
  /\ UNCHANGED <<stale, pg, hit, faults, returns, restarts>>

AlterOwner ==
  /\ resetAt = "owner" /\ pg = "up" /\ exists
  /\ resetAt' = "schema" /\ owner' = TRUE
  /\ UNCHANGED <<exists, marks, schema, stale, pg, made, hit, faults, returns, restarts>>

AlterSchema ==
  /\ resetAt = "schema" /\ pg = "up" /\ exists
  /\ resetAt' = "register" /\ schema' = TRUE
  /\ UNCHANGED <<exists, marks, owner, stale, pg, made, hit, faults, returns, restarts>>

Steps == {"drop", "create", "owner", "schema"}
CannotRun ==
  \/ pg = "down"
  \/ resetAt = "drop" /\ stale
  \/ resetAt = "create" /\ exists
  \/ resetAt \in {"owner", "schema"} /\ ~exists

(* Mutant: a failing step does not fail the reset. *)
StepFailsSoftly ==
  /\ resetAt \in Steps
  /\ \/ CannotRun /\ UNCHANGED faults
     \/ faults < MaxFaults /\ faults' = faults + 1
  /\ resetAt' = CASE resetAt = "drop" -> "create" [] resetAt = "create" -> "owner"
                   [] resetAt = "owner" -> "schema" [] resetAt = "schema" -> "register"
  /\ UNCHANGED <<exists, marks, owner, schema, stale, pg, made, hit, returns, restarts>>

(* Any other failing step is an error; handleLock puts the database back    *)
(* into the pool as it is.                                                  *)
StepFails ==
  /\ resetAt \in Steps
  /\ \/ CannotRun /\ UNCHANGED faults
     \/ faults < MaxFaults /\ faults' = faults + 1
  /\ resetAt' = "pool"
  /\ UNCHANGED <<exists, marks, owner, schema, stale, pg, made, hit, returns, restarts>>

Register ==
  /\ resetAt = "register" /\ resetAt' = "held"
  /\ UNCHANGED <<exists, marks, owner, schema, stale, pg, made, hit, faults, returns, restarts>>

(* The holder works in the database, unlocks, and may stay connected. *)
Release ==
  /\ resetAt = "held" /\ resetAt' = "pool"
  /\ marks' \in {marks, exists} /\ stale' \in {stale, exists /\ pg = "up"}
  /\ UNCHANGED <<exists, owner, schema, pg, made, hit, faults, returns, restarts>>

(* The connection pool of a former holder connects again and writes. *)
Return ==
  /\ resetAt \notin {"held", "register"} /\ pg = "up" /\ exists /\ owner /\ returns < MaxReturns
  /\ stale' = TRUE /\ marks' = TRUE /\ returns' = returns + 1
  /\ UNCHANGED <<resetAt, exists, owner, schema, pg, made, hit, faults, restarts>>

(* StopContainers throws the tmpfs away; UnlockAll ends a registered lock   *)
(* and misses one that is being reset.                                      *)
StopPg ==
  /\ pg = "up" /\ restarts < MaxRestarts
  /\ pg' = "down" /\ restarts' = restarts + 1 /\ hit' = TRUE
  /\ exists' = FALSE /\ marks' = FALSE /\ owner' = FALSE /\ schema' = FALSE /\ stale' = FALSE
  /\ resetAt' = IF resetAt = "held" THEN "pool" ELSE resetAt
  /\ UNCHANGED <<made, faults, returns>>

(* The init script of the image makes the databases. *)
StartPg ==
  /\ pg = "down" /\ pg' = "up"
  /\ exists' = TRUE /\ owner' = TRUE /\ schema' = TRUE
  /\ UNCHANGED <<resetAt, marks, stale, made, hit, faults, returns, restarts>>

ResetStep == Terminate \/ Drop \/ Create \/ AlterOwner \/ AlterSchema \/ StepFails \/ Register
ResetNext == Take \/ ResetStep \/ Release \/ Return \/ StopPg \/ StartPg

ResetSpec == ResetInit /\ [][ResetNext]_resetVars

-----------------------------------------------------------------------------
(* Properties *)

(* Unless the containers were stopped under the reset, a lock is given only *)
(* on a database that this very reset created and finished: an earlier      *)
(* reset that failed half way cannot show through.                          *)
HeldIsFresh == resetAt \in {"register", "held"} /\ ~hit => made /\ exists /\ owner /\ schema

(* ... and it holds nothing of a former holder who did not come back after  *)
(* the database was made.                                                   *)
HeldIsEmpty == resetAt = "register" /\ ~hit /\ marks => returns > 0 /\ stale
=============================================================================
