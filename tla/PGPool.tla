------------------------------- MODULE PGPool -------------------------------
(***************************************************************************)
(* What pgflock promises its clients, free of channels, maps and contexts: *)
(* a request asks, is either answered with one database nobody else has or *)
(* gives up, and gives back what it was granted.  PGLocker implements it.  *)
(***************************************************************************)
CONSTANTS Databases, Requests

VARIABLES asking,   \* the requests that wait for a database
          grants    \* the pairs <<request, database>> in force

poolVars == <<asking, grants>>

TypeOK == /\ asking \subseteq Requests
          /\ grants \subseteq Requests \X Databases

Init == asking = {} /\ grants = {}

(* The request r is busy: it asks, or it was granted a database. *)
Busy(r) == r \in asking \/ \E d \in Databases : <<r, d>> \in grants

Ask(r) == /\ ~Busy(r)
          /\ asking' = asking \cup {r}
          /\ UNCHANGED grants

Withdraw(r) == /\ r \in asking
               /\ asking' = asking \ {r}
               /\ UNCHANGED grants

(* Only a database nobody holds is granted. *)
Take(r, d) == /\ r \in asking
              /\ \A s \in Requests : <<s, d>> \notin grants
              /\ asking' = asking \ {r}
              /\ grants' = grants \cup {<<r, d>>}

GiveBack(r, d) == /\ <<r, d>> \in grants
                  /\ grants' = grants \ {<<r, d>>}
                  /\ UNCHANGED asking

Answer(r) == Withdraw(r) \/ \E d \in Databases : Take(r, d)

Return(r) == \E d \in Databases : GiveBack(r, d)

Next == \E r \in Requests : Ask(r) \/ Answer(r) \/ Return(r)

Spec == Init /\ [][Next]_poolVars

(* Every request is answered or gives up, and every grant ends. *)
LiveSpec == Spec /\ \A r \in Requests : /\ WF_poolVars(Answer(r))
                                        /\ WF_poolVars(Return(r))
=============================================================================
