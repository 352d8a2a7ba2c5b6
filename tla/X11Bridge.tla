----------------------------- MODULE X11Bridge -----------------------------
(* The selection owner of a barrel (cooper-x11-bridge/main.go): one event    *)
(* loop that answers selection requests, sends large images in chunks (INCR) *)
(* and takes the clipboard back; the X server's event queue; the programs    *)
(* that paste, each with a window of its own.  What it serves is Clipboard's. *)
EXTENDS Clipboard, Sequences

CONSTANTS Windows,   \* windows of the programs that paste
          NChunks,   \* chunks of the large image
          MaxTakes   \* bound on other programs that take the clipboard

None == "none"
ASSUME X11Assumption == None \notin Windows /\ NChunks \in Nat \ {0}

NoTransfer == [window |-> None, written |-> 0]
Chunk(n) == [is |-> "chunk", n |-> n]
Plain(what) == [is |-> what, n |-> 0]  \* None, "value", "incr" or "end"
Targets == {"targets", "image", "other"}
Fetches == {"error", "empty", "small", "large"}

VARIABLES
  xq,          \* events for the bridge, in the order of the X server
  transfer,    \* activeINCR: its window, None for none, and the chunks that are written
  finishing,   \* the window whose last chunk is written and whose end marker is not
  property,    \* what is in the property of a window
  subscribed,  \* windows whose property changes the bridge is told
  pasting,     \* what a program does: "idle", "asked", "reading", "done", "refused", "dead"
  notified,    \* the SelectionNotify a program has not seen: None, "refused", "ready"
  pieces,      \* the chunks a program has read
  owned,       \* the bridge owns the selection
  takes
x11Vars == <<xq, transfer, finishing, property, subscribed, pasting, notified, pieces, owned, takes>>

X11Init ==
  /\ xq = <<>> /\ transfer = NoTransfer /\ finishing = None
  /\ property = [w \in Windows |-> Plain(None)] /\ subscribed = {}
  /\ pasting = [w \in Windows |-> "idle"] /\ notified = [w \in Windows |-> None]
  /\ pieces = [w \in Windows |-> <<>>] /\ owned = TRUE /\ takes = 0

(* Writing to a window that is gone is an X error, logged and skipped.       *)
Write(w, what) == property' = IF pasting[w] = "dead" THEN property ELSE [property EXCEPT ![w] = what]
Notify(w, what) == notified' = [notified EXCEPT ![w] = what]
Handling(kind) == finishing = None /\ xq # <<>> /\ Head(xq).event = kind /\ xq' = Tail(xq)

(* handleSelectionRequest; fetchImage answers in one of four ways.           *)
Refuse(w) ==
  /\ Notify(w, "refused")
  /\ UNCHANGED <<transfer, property, subscribed>>
AnswerDirectly(w) ==
  /\ Write(w, Plain("value")) /\ Notify(w, "ready")
  /\ UNCHANGED <<transfer, subscribed>>
StartINCR(w) ==
  /\ transfer = NoTransfer
  /\ transfer' = [window |-> w, written |-> 0]
  /\ Write(w, Plain("incr")) /\ subscribed' = subscribed \cup {w} /\ Notify(w, "ready")
(* Mutant: a large image during a transfer is not answered. *)
HandleRequestOrDrop ==
  /\ Handling("request")
  /\ LET w == Head(xq).window
         target == Head(xq).target
     IN \/ target = "targets" /\ AnswerDirectly(w)
        \/ target = "other" /\ Refuse(w)
        \/ target = "image" /\ \E fetched \in Fetches :
             \/ fetched \in {"error", "empty"} /\ Refuse(w)
             \/ fetched = "small" /\ AnswerDirectly(w)
             \/ fetched = "large" /\ StartINCR(w)
             \/ fetched = "large" /\ transfer # NoTransfer /\ UNCHANGED <<transfer, property, subscribed, notified>>
  /\ UNCHANGED <<finishing, pasting, pieces, owned, takes>>
HandleSelectionRequest ==
  /\ Handling("request")
  /\ LET w == Head(xq).window
         target == Head(xq).target
     IN \/ target = "targets" /\ AnswerDirectly(w)
        \/ target = "other" /\ Refuse(w)
        \/ target = "image" /\ \E fetched \in Fetches :
             \/ fetched \in {"error", "empty"} /\ Refuse(w)
             \/ fetched = "small" /\ AnswerDirectly(w)
             \/ fetched = "large" /\ StartINCR(w)
             \/ fetched = "large" /\ transfer # NoTransfer /\ Refuse(w)
  /\ UNCHANGED <<finishing, pasting, pieces, owned, takes>>

(* Mutant: whichever property is deleted, the next chunk is written. *)
HandleAnyDelete ==
  /\ Handling("delete")
  /\ LET w == transfer.window IN
     IF w # None
     THEN /\ Write(w, Chunk(transfer.written + 1))
          /\ IF transfer.written + 1 = NChunks
             THEN transfer' = NoTransfer /\ finishing' = w
             ELSE transfer' = [transfer EXCEPT !.written = @ + 1] /\ UNCHANGED finishing
     ELSE UNCHANGED <<property, transfer, finishing>>
  /\ UNCHANGED <<subscribed, pasting, notified, pieces, owned, takes>>
(* Mutant: the last chunk ends the transfer, there is no end marker. *)
HandleDeleteNoEnd ==
  /\ Handling("delete")
  /\ LET w == Head(xq).window IN
     IF transfer.window = w
     THEN /\ Write(w, Chunk(transfer.written + 1))
          /\ transfer' = IF transfer.written + 1 = NChunks THEN NoTransfer ELSE [transfer EXCEPT !.written = @ + 1]
     ELSE UNCHANGED <<property, transfer>>
  /\ UNCHANGED <<finishing, subscribed, pasting, notified, pieces, owned, takes>>
(* PropertyNotify, deleted: the next chunk; after the last one the end       *)
(* marker follows in the same handler, whether the chunk was read or not.    *)
HandlePropertyDelete ==
  /\ Handling("delete")
  /\ LET w == Head(xq).window IN
     IF transfer.window = w
     THEN /\ Write(w, Chunk(transfer.written + 1))
          /\ IF transfer.written + 1 = NChunks
             THEN transfer' = NoTransfer /\ finishing' = w
             ELSE transfer' = [transfer EXCEPT !.written = @ + 1] /\ UNCHANGED finishing
     ELSE UNCHANGED <<property, transfer, finishing>>
  /\ UNCHANGED <<subscribed, pasting, notified, pieces, owned, takes>>
WriteEnd ==
  /\ finishing # None /\ Write(finishing, Plain("end")) /\ finishing' = None
  /\ UNCHANGED <<xq, transfer, subscribed, pasting, notified, pieces, owned, takes>>

(* Mutant: the loss of the selection is only logged. *)
HandleClearIdly ==
  /\ Handling("clear")
  /\ UNCHANGED <<transfer, finishing, property, subscribed, pasting, notified, pieces, owned, takes>>
(* SelectionClear: take it back; a claim that loses is told again.           *)
HandleSelectionClear ==
  /\ Handling("clear") /\ owned' = TRUE
  /\ UNCHANGED <<transfer, finishing, property, subscribed, pasting, notified, pieces, takes>>

-----------------------------------------------------------------------------
(* The other programs *)

(* A request goes to the owner; while that is another program it is none of  *)
(* the bridge's business.                                                    *)
Convert(w, target) ==
  /\ pasting[w] = "idle" /\ owned
  /\ pasting' = [pasting EXCEPT ![w] = "asked"]
  /\ xq' = Append(xq, [event |-> "request", window |-> w, target |-> target])
  /\ UNCHANGED <<transfer, finishing, property, subscribed, notified, pieces, owned, takes>>

(* Deleting the property is how a program says it has read it.               *)
Take(w) ==
  /\ property' = [property EXCEPT ![w] = Plain(None)]
  /\ xq' = IF w \in subscribed THEN Append(xq, [event |-> "delete", window |-> w, target |-> None]) ELSE xq
Answered(w) ==
  /\ pasting[w] = "asked" /\ notified[w] # None /\ Notify(w, None)
  /\ \/ /\ notified[w] = "refused" /\ pasting' = [pasting EXCEPT ![w] = "refused"]
        /\ UNCHANGED <<property, xq>>
     \/ /\ notified[w] = "ready"
        /\ pasting' = [pasting EXCEPT ![w] = IF property[w].is = "incr" THEN "reading" ELSE "done"]
        /\ Take(w)
  /\ UNCHANGED <<transfer, finishing, subscribed, pieces, owned, takes>>
ReadChunk(w) ==
  /\ pasting[w] = "reading" /\ property[w].is = "chunk"
  /\ pieces' = [pieces EXCEPT ![w] = Append(@, property[w].n)] /\ Take(w)
  /\ UNCHANGED <<transfer, finishing, subscribed, pasting, notified, owned, takes>>
ReadEnd(w) ==
  /\ pasting[w] = "reading" /\ property[w].is = "end"
  /\ pasting' = [pasting EXCEPT ![w] = "done"] /\ Take(w)
  /\ UNCHANGED <<transfer, finishing, subscribed, notified, pieces, owned, takes>>
ProgramDies(w) ==
  /\ pasting[w] \in {"asked", "reading"}
  /\ pasting' = [pasting EXCEPT ![w] = "dead"]
  /\ property' = [property EXCEPT ![w] = Plain(None)] /\ Notify(w, None)
  /\ subscribed' = subscribed \ {w}
  /\ UNCHANGED <<xq, transfer, finishing, pieces, owned, takes>>
OtherTakes ==
  /\ owned /\ takes < MaxTakes /\ takes' = takes + 1 /\ owned' = FALSE
  /\ xq' = Append(xq, [event |-> "clear", window |-> None, target |-> None])
  /\ UNCHANGED <<transfer, finishing, property, subscribed, pasting, notified, pieces>>

BridgeStep == HandleSelectionRequest \/ HandlePropertyDelete \/ WriteEnd \/ HandleSelectionClear
ProgramStep(w) == Answered(w) \/ ReadChunk(w) \/ ReadEnd(w)
X11Next == \/ BridgeStep \/ OtherTakes
           \/ \E w \in Windows : \/ ProgramStep(w) \/ ProgramDies(w)
                                 \/ \E t \in Targets : Convert(w, t)

X11Spec == X11Init /\ [][X11Next]_x11Vars

-----------------------------------------------------------------------------
(* Properties *)

X11TypeOK ==
  /\ transfer \in [window : Windows \cup {None}, written : 0..(NChunks - 1)]
  /\ finishing \in {None} \cup Windows /\ subscribed \subseteq Windows
  /\ property \in [Windows -> [is : {None, "value", "incr", "chunk", "end"}, n : 0..NChunks]]
  /\ pasting \in [Windows -> {"idle", "asked", "reading", "done", "refused", "dead"}]
  /\ notified \in [Windows -> {None, "refused", "ready"}]
  /\ owned \in BOOLEAN /\ Len(xq) \in Nat

(* Whoever else asks, dies or takes the clipboard in the meantime, a program *)
(* reads the chunks of its image in order and misses none before the last.   *)
ChunksInOrder ==
  \A w \in Windows :
    /\ pieces[w] = [i \in DOMAIN pieces[w] |-> i]
    /\ pasting[w] = "done" => Len(pieces[w]) \in {0, NChunks - 1, NChunks}

(* Every request is answered: one that is not served is refused, so no       *)
(* program waits for its own timeout.                                        *)
EveryPasteAnswered == \A w \in Windows : []<>(pasting[w] # "asked")

(* A program that reads on gets to the end of its transfer.                  *)
TransferEnds == \A w \in Windows : []<>(pasting[w] # "reading")

(* The clipboard comes back to the bridge, however often others take it.     *)
ClipboardComesBack == []<>owned

(* A picture that was cleared or ran out stays so for every barrel, each     *)
(* access is counted for its own picture, tokens stop with their barrels,    *)
(* and a paste over X11 gets its chunks in their order (internal/clipboard   *)
(* and cooper-x11-bridge).                                                   *)
ClipboardSound ==
  /\ [](ClipboardTypeOK /\ AccessesCounted /\ OldTokensRefused /\ TokenFollowsBarrel)
  /\ [](X11TypeOK /\ ChunksInOrder)
  /\ GoneStaysGone
=============================================================================
