----------------------------- MODULE Clipboard -----------------------------
(* The clipboard of cooper up: the image that is captured, normalized and    *)
(* staged (normalize.go, Manager), the HTTP requests of the barrels that     *)
(* read it (http.go), and the token files that tell one barrel's requests    *)
(* from another's (token.go, StopContainer, RestartContainer).               *)
EXTENDS Naturals, FiniteSets

CONSTANTS Barrels,    \* containers
          Programs,   \* requests of programs inside them, one each
          Limits,     \* values of clipboard_max_bytes
          MaxStages,  \* bound on snapshots
          MaxTokens   \* bound on tokens

ASSUME ClipboardAssumption == MaxStages \in Nat

Nil == 0
NoToken == 0
NoSnapshot == [id |-> Nil, accesses |-> 0]
NoRequest == [at |-> "idle", barrel |-> "none", token |-> NoToken, known |-> FALSE, snapshot |-> Nil, stale |-> FALSE]
Formats == {"png", "raster", "uncommon", "unknown"}
(* What can be on a clipboard or in a file; a PNG is passed through, others  *)
(* are converted, which may fail.                                            *)
Images == [raw : 1..2, png : 1..2, format : Formats, decodes : BOOLEAN]

VARIABLES
  current,    \* Manager.current: id and AccessCount; id Nil for nil
  expired,    \* the current snapshot is past its ExpiresAt
  stages,     \* snapshots so far
  delivered,  \* how often the image of a snapshot was delivered
  request,    \* the request of a program
  tokenFile,  \* the token file of a container
  inside,     \* the token the container reads from its mount
  up,         \* the container runs
  off,        \* containers with COOPER_CLIPBOARD_MODE=off
  restarting, \* containers that docker has restarted for a rotation
  revoking,   \* containers that docker has stopped for a revocation
  crossed,    \* one of them met a stop, a restart or a start of the same container
  tokens
imageVars == <<current, expired, stages, delivered>>
barrelVars == <<tokenFile, inside, up, off, restarting, revoking, crossed, tokens>>
clipboardVars == <<imageVars, request, barrelVars>>

ClipboardInit ==
  /\ current = NoSnapshot /\ expired = FALSE /\ stages = 0
  /\ delivered = [n \in 1..MaxStages |-> 0]
  /\ request = [w \in Programs |-> NoRequest]
  /\ tokenFile = [b \in Barrels |-> NoToken] /\ inside = tokenFile
  /\ up = [b \in Barrels |-> FALSE] /\ off \in SUBSET Barrels /\ restarting = {} /\ revoking = {} /\ crossed = {}
  /\ tokens = 0

-----------------------------------------------------------------------------
(* CaptureClipboard and StageFile *)

(* Normalize: the limit on what comes in, the format by its magic bytes or   *)
(* by what the clipboard calls it, a conversion, the limit on what comes out. *)
Normalized(image, limit) ==
  /\ image.raw <= limit
  /\ image.format # "unknown" /\ image.decodes
  /\ image.png <= limit
(* Stage: raw bytes and variants together must fit.                          *)
Fits(image, limit) == image.raw + image.png <= limit
Stage(image, limit) ==
  /\ Normalized(image, limit) /\ Fits(image, limit)
  /\ stages < MaxStages /\ stages' = stages + 1
  /\ current' = [id |-> stages', accesses |-> 0] /\ expired' = FALSE
  /\ UNCHANGED <<delivered, request, barrelVars>>

(* Clear drops the pointer; the clock passes ExpiresAt.                      *)
Clear ==
  /\ current # NoSnapshot /\ current' = NoSnapshot /\ expired' = FALSE
  /\ UNCHANGED <<stages, delivered, request, barrelVars>>
Expire ==
  /\ current # NoSnapshot /\ ~expired /\ expired' = TRUE
  /\ UNCHANGED <<current, stages, delivered, request, barrelVars>>

-----------------------------------------------------------------------------
(* The requests of a barrel *)

Goes(w, place) == request' = [request EXCEPT ![w].at = place]
Answer(w) == request' = [request EXCEPT ![w] = [NoRequest EXCEPT !.at = "answered"]]

(* The shim reads its token file and asks.                                   *)
Ask(w, b) ==
  /\ request[w].at = "idle" /\ up[b] /\ inside[b] # NoToken
  /\ request' = [request EXCEPT ![w] =
       [NoRequest EXCEPT !.at = "asked", !.barrel = b, !.token = inside[b],
                         !.known = \E c \in Barrels : tokenFile[c] = inside[b]]]
  /\ UNCHANGED <<imageVars, barrelVars>>

(* Mutant: a token is matched with all that were ever handed out. *)
MatchIssued(w) ==
  /\ request[w].at = "asked" /\ Goes(w, "matched")
  /\ UNCHANGED <<imageVars, barrelVars>>
(* validateTokenFromDisk: a file that holds the token names the container,   *)
(* which docker inspect must then find running.                              *)
MatchToken(w) ==
  /\ request[w].at = "asked"
  /\ IF \E c \in Barrels : tokenFile[c] = request[w].token THEN Goes(w, "matched") ELSE Answer(w)
  /\ UNCHANGED <<imageVars, barrelVars>>
InspectContainer(w) ==
  /\ request[w].at = "matched"
  /\ LET b == request[w].barrel IN
     IF up[b] /\ b \notin off THEN Goes(w, "admitted") ELSE Answer(w)
  /\ UNCHANGED <<imageVars, barrelVars>>

(* handleType and handleText end here; handleImage takes the snapshot once,  *)
(* touches it under the lock and only if it is still the current one, and    *)
(* writes the bytes it took.                                                 *)
OtherEndpoint(w) ==
  /\ request[w].at = "admitted" /\ Answer(w)
  /\ UNCHANGED <<imageVars, barrelVars>>
TakeSnapshot(w) ==
  /\ request[w].at = "admitted"
  /\ IF current = NoSnapshot \/ expired
     THEN Answer(w)
     ELSE request' = [request EXCEPT ![w].at = "taken", ![w].snapshot = current.id]
  /\ UNCHANGED <<imageVars, barrelVars>>
(* Mutant: the touched copy is stored whatever is current by then. *)
TouchAnyway(w) ==
  /\ request[w].at = "taken"
  /\ current' = [id |-> request[w].snapshot, accesses |-> delivered[request[w].snapshot] + 1]
  /\ delivered' = [delivered EXCEPT ![request[w].snapshot] = @ + 1]
  /\ Answer(w)
  /\ UNCHANGED <<expired, stages, barrelVars>>
(* Mutant: the access is counted for whatever is current by then. *)
TouchCurrent(w) ==
  /\ request[w].at = "taken"
  /\ current' = IF current.id # Nil THEN [current EXCEPT !.accesses = @ + 1] ELSE current
  /\ delivered' = [delivered EXCEPT ![request[w].snapshot] = @ + 1]
  /\ Answer(w)
  /\ UNCHANGED <<expired, stages, barrelVars>>
Touch(w) ==
  /\ request[w].at = "taken"
  /\ current' = IF current.id = request[w].snapshot THEN [current EXCEPT !.accesses = @ + 1] ELSE current
  /\ delivered' = [delivered EXCEPT ![request[w].snapshot] = @ + 1]
  /\ Answer(w)
  /\ UNCHANGED <<expired, stages, barrelVars>>

-----------------------------------------------------------------------------
(* Containers and their tokens *)

NewToken == tokens < MaxTokens /\ tokens' = tokens + 1
Crosses(b) == crossed' = IF b \in restarting \cup revoking THEN crossed \cup {b} ELSE crossed

(* cooper cli: the token file, and the container that mounts it.             *)
StartBarrel(b) ==
  /\ ~up[b] /\ NewToken /\ Crosses(b)
  /\ tokenFile' = [tokenFile EXCEPT ![b] = tokens'] /\ inside' = [inside EXCEPT ![b] = tokens']
  /\ up' = [up EXCEPT ![b] = TRUE]
  /\ UNCHANGED <<imageVars, request, off, restarting, revoking>>
(* RestartContainer: docker restart, then a new token in the same file.  A   *)
(* container that is gone by then is no error.                               *)
RestartBarrel(b) ==
  /\ up[b] /\ b \notin restarting /\ tokens < MaxTokens
  /\ restarting' = restarting \cup {b} /\ Crosses(b)
  /\ UNCHANGED <<imageVars, request, tokenFile, inside, up, off, revoking, tokens>>
(* Mutant: the file is replaced, the mount keeps the old one. *)
RotateByRename(b) ==
  /\ b \in restarting /\ NewToken /\ restarting' = restarting \ {b}
  /\ tokenFile' = [tokenFile EXCEPT ![b] = tokens']
  /\ UNCHANGED <<imageVars, request, inside, up, off, revoking, crossed>>
(* Mutant: the token of the rotation is not a new one to the others. *)
RotateUncounted(b) ==
  /\ b \in restarting /\ restarting' = restarting \ {b}
  /\ tokenFile' = [tokenFile EXCEPT ![b] = tokens + 1]
  /\ UNCHANGED <<imageVars, request, inside, up, off, revoking, crossed, tokens>>
RotateToken(b) ==
  /\ b \in restarting /\ NewToken /\ restarting' = restarting \ {b}
  /\ tokenFile' = [tokenFile EXCEPT ![b] = tokens']
  /\ inside' = IF tokenFile[b] = NoToken THEN inside ELSE [inside EXCEPT ![b] = tokens']
  /\ UNCHANGED <<imageVars, request, up, off, revoking, crossed>>
(* StopContainer: docker stop and rm, then the token file.                   *)
StopBarrel(b) ==
  /\ up[b] /\ up' = [up EXCEPT ![b] = FALSE]
  /\ revoking' = revoking \cup {b} /\ Crosses(b)
  /\ UNCHANGED <<imageVars, request, tokenFile, inside, off, restarting, tokens>>
RevokeToken(b) ==
  /\ b \in revoking /\ revoking' = revoking \ {b}
  /\ tokenFile' = [tokenFile EXCEPT ![b] = NoToken]
  /\ UNCHANGED <<imageVars, request, inside, up, off, restarting, crossed, tokens>>

RequestStep(w) == MatchToken(w) \/ InspectContainer(w) \/ OtherEndpoint(w) \/ TakeSnapshot(w) \/ Touch(w)
ClipboardNext ==
  \/ Clear \/ Expire \/ \E image \in Images, limit \in Limits : Stage(image, limit)
  \/ \E w \in Programs : RequestStep(w) \/ \E b \in Barrels : Ask(w, b)
  \/ \E b \in Barrels : StartBarrel(b) \/ RestartBarrel(b) \/ RotateToken(b) \/ StopBarrel(b) \/ RevokeToken(b)

ClipboardSpec == ClipboardInit /\ [][ClipboardNext]_clipboardVars

-----------------------------------------------------------------------------
(* Properties *)

ClipboardTypeOK ==
  /\ current.id \in 0..stages /\ expired \in BOOLEAN
  /\ tokenFile \in [Barrels -> 0..tokens] /\ inside \in [Barrels -> 0..tokens]
  /\ restarting \cup revoking \cup crossed \subseteq Barrels /\ up \in [Barrels -> BOOLEAN]

(* A snapshot that was cleared or replaced does not come back, and one that  *)
(* has expired is not prolonged, when a slow request touches it late.        *)
GoneStaysGone ==
  [][/\ current'.id \in {current.id, Nil} \/ current'.id > stages
     /\ current'.id = current.id /\ expired => expired']_clipboardVars

(* AccessCount is the number of requests that the snapshot was delivered to, *)
(* however many are answered at once.                                        *)
AccessesCounted == current.id # Nil => current.accesses = delivered[current.id]

(* A token that was rotated or revoked before a request began opens nothing, *)
(* and a barrel whose clipboard is off gets nothing.                         *)
OldTokensRefused ==
  \A w \in Programs : request[w].at \in {"admitted", "taken"} =>
    request[w].known /\ request[w].barrel \notin off

(* A container that runs can authenticate: the token on its mount is the one *)
(* in its file; one that is stopped has none.  That holds once a restart or  *)
(* a stop has returned, unless two of them crossed.                          *)
TokenFollowsBarrel ==
  \A b \in Barrels \ (restarting \cup revoking \cup crossed) :
    tokenFile[b] = IF up[b] THEN inside[b] ELSE NoToken
=============================================================================
