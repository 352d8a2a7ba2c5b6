----------------------------- MODULE GowtTreeView -----------------------------
(***************************************************************************)
(* gowt/view/treeview.go: the rows of the tree that are listed, the cursor *)
(* and the first row on screen, while the tests the rows stand for start   *)
(* and end.  gowt/app.go gives the tree to the view (SetData) after every  *)
(* event that changes a status; the list is kept (cachedNodes) until then  *)
(* or until a key changes what is to be listed.                            *)
(***************************************************************************)
EXTENDS Integers, FiniteSets, SequencesExt

CONSTANTS
  ViewNodes,  \* packages and tests
  Under,      \* test -> its parent; a node outside its domain is a package
  NameRank,   \* node -> place of its name in the alphabet
  Found,      \* the nodes whose name contains the search query
  Rows        \* possible numbers of rows on screen (height - 4)

Roots == ViewNodes \ DOMAIN Under
KidsOf(n) == {k \in DOMAIN Under : Under[k] = n}

(* No two children of a node have the same name, and packages are taken to  *)
(* have none either; a node has a depth (TestNode.Depth).                   *)
ASSUME TreeViewAssumption ==
  /\ IsFiniteSet(ViewNodes)
  /\ Rows \subseteq Nat \ {0}
  /\ NameRank \in [ViewNodes -> Int]
  /\ Under \in [DOMAIN Under -> ViewNodes] /\ DOMAIN Under \subseteq ViewNodes
  /\ Found \subseteq ViewNodes
  /\ \A S \in {Roots} \cup {KidsOf(n) : n \in ViewNodes} : \A a, b \in S : NameRank[a] = NameRank[b] => a = b
  /\ \E depth \in [ViewNodes -> 0..Cardinality(ViewNodes)] : \A n \in DOMAIN Under : depth[n] > depth[Under[n]]

VARIABLES
  rowState,   \* node -> "none" (no event yet), "pending", "running", "pass", "fail"
  open,       \* the nodes with Expanded
  allOpen,    \* TreeView.expanded
  list, valid, \* cachedNodes and cachedNodesValid
  cursor, scrollTop, \* both from 0
  focus,      \* filter = FilterFocus
  typing, find, \* searchMode; searchQuery is not empty
  rows

treeViewVars == <<rowState, open, allOpen, list, valid, cursor, scrollTop, focus, typing, find, rows>>

BranchOf(n) ==
  LET sub[m \in ViewNodes] == {m} \cup UNION {sub[k] : k \in KidsOf(m)} IN sub[n]
OverOf(n) == {m \in ViewNodes \ {n} : n \in BranchOf(m)}
There(S) == {n \in S : rowState[n] # "none"}
Larger(a, b) == IF a > b THEN a ELSE b

TreeViewInit ==
  /\ rowState = [n \in ViewNodes |-> "none"]
  /\ open = {} /\ allOpen = FALSE
  /\ list = << >> /\ valid = TRUE
  /\ cursor = 0 /\ scrollTop = 0 /\ focus = FALSE /\ typing = FALSE /\ find = FALSE
  /\ rows \in Rows

-----------------------------------------------------------------------------
(* computeVisibleNodes *)

Ended(st, n) == Cardinality({m \in BranchOf(n) : st[m] \in {"pass", "fail"}})
HasFailure(st, n) == \E m \in BranchOf(n) : st[m] = "fail"
FocusRelevant(st, n) == \E m \in BranchOf(n) : st[m] \in {"fail", "running"}
Matching(st, n) == \E m \in BranchOf(n) : st[m] # "none" /\ m \in Found

ByName(a, b) == NameRank[a] < NameRank[b]
ByDone(st, a, b) ==
  \/ Ended(st, a) > Ended(st, b)
  \/ Ended(st, a) = Ended(st, b) /\ ByName(a, b)
ByFocus(st, a, b) ==
  \/ HasFailure(st, a) /\ ~HasFailure(st, b)
  \/ (HasFailure(st, a) <=> HasFailure(st, b)) /\ ByName(a, b)

Before(order, st, a, b) ==
  \/ order = "name" /\ ByName(a, b)
  \/ order = "done" /\ ByDone(st, a, b)
  \/ order = "focus" /\ ByFocus(st, a, b)

(* The listed nodes of S that there are, in their order. *)
Sorted(st, listed, order, S) ==
  LET T == {k \in S : st[k] # "none" /\ k \in listed}
  IN  [i \in 1..Cardinality(T) |->
         CHOOSE n \in T : Cardinality({m \in T : Before(order, st, m, n)}) = i - 1]

(* The rows from the top: each listed node, then those below it if it is    *)
(* open, siblings in their order.                                           *)
Flatten(st, listed, opened, order) ==
  LET Forest(f, S) == LET ks == Sorted(st, listed, order, S) IN FlattenSeq([i \in DOMAIN ks |-> f[ks[i]]])
      flat[n \in ViewNodes] == <<n>> \o (IF n \in opened THEN Forest(flat, KidsOf(n)) ELSE << >>)
  IN  Forest(flat, Roots)

(* Mutant: a search lists the matches without the nodes above them. *)
VisibleMatchesOnly(st, opened, foc, fnd) ==
  IF fnd THEN LET T == {n \in Found : st[n] # "none"}
              IN  [i \in 1..Cardinality(T) |-> CHOOSE n \in T : Cardinality({m \in T : ByName(m, n)}) = i - 1]
  ELSE Flatten(st, {n \in ViewNodes : ~foc \/ FocusRelevant(st, n)}, opened,
               IF foc THEN "focus" ELSE "done")

(* A search shows matches whether or not their packages are expanded. *)
Visible(st, opened, foc, fnd) ==
  IF fnd THEN Flatten(st, {n \in ViewNodes : Matching(st, n)}, ViewNodes, "name")
  ELSE Flatten(st, {n \in ViewNodes : ~foc \/ FocusRelevant(st, n)}, opened,
               IF foc THEN "focus" ELSE "done")

-----------------------------------------------------------------------------
(* The events of the tests: SetData lists anew and pulls the cursor back    *)
(* into the list; the first row on screen stays.                            *)

SetData(st) ==
  /\ rowState' = st
  /\ list' = Visible(st, open, focus, find) /\ valid' = TRUE
  /\ cursor' = IF cursor >= Len(list') THEN Larger(0, Len(list') - 1) ELSE cursor
  /\ UNCHANGED <<open, allOpen, scrollTop, focus, typing, find, rows>>

StartTest(n) ==
  /\ rowState[n] = "none" /\ n \in DOMAIN Under
  /\ SetData([m \in ViewNodes |-> IF m = n THEN "running"
                                  ELSE IF m \in OverOf(n) /\ rowState[m] = "none" THEN "pending"
                                  ELSE rowState[m]])
EndTest(n, s) ==
  /\ rowState[n] = "running"
  /\ SetData([rowState EXCEPT ![n] = s])

ResizeRows(r) ==
  /\ r # rows
  /\ rows' = r
  /\ UNCHANGED <<rowState, open, allOpen, list, valid, cursor, scrollTop, focus, typing, find>>

-----------------------------------------------------------------------------
(* The keys.  Each first lists anew when the list is not valid (NodesNow).     *)

NodesNow == IF valid THEN list ELSE Visible(rowState, open, focus, find)

(* Mutant: the last row counts as on screen one row too far. *)
ScrollTopLate(top, cur, len) ==
  LET t == IF cur < top THEN cur ELSE IF cur > top + rows THEN cur - rows + 1 ELSE top
  IN  Larger(0, IF t > Larger(0, len - rows) THEN Larger(0, len - rows) ELSE t)

(* computeScrollTop *)
ScrollTop(top, cur, len) ==
  LET t == IF cur < top THEN cur ELSE IF cur >= top + rows THEN cur - rows + 1 ELSE top
  IN  Larger(0, IF t > Larger(0, len - rows) THEN Larger(0, len - rows) ELSE t)

(* The end of every key outside the search line: a changed list is made     *)
(* anew, then the screen follows the cursor.                                *)
AfterKey(opened, foc, cur, top) ==
  /\ open' = opened /\ focus' = foc /\ cursor' = cur
  /\ list' = IF opened = open /\ foc = focus THEN NodesNow ELSE Visible(rowState, opened, foc, find)
  /\ valid' = TRUE
  /\ scrollTop' = ScrollTop(top, cur, Len(list'))
  /\ UNCHANGED <<rowState, typing, find, rows>>

Browsing == ~typing

Move(cur) == AfterKey(open, focus, cur, scrollTop) /\ UNCHANGED allOpen
(* Mutant: nothing stops the cursor at the top. *)
CursorUpFree == Browsing /\ Move(cursor - 1)
CursorUp == Browsing /\ Move(IF cursor > 0 THEN cursor - 1 ELSE cursor)
CursorDown == Browsing /\ Move(IF cursor < Len(NodesNow) - 1 THEN cursor + 1 ELSE cursor)
PageUp == Browsing /\ Move(Larger(0, cursor - rows))
PageDown == Browsing /\ Move(IF cursor + rows >= Len(NodesNow) THEN Larger(0, Len(NodesNow) - 1) ELSE cursor + rows)
GoEnd == Browsing /\ Move(IF NodesNow = << >> THEN cursor ELSE Len(NodesNow) - 1)
Top == Browsing /\ AfterKey(open, focus, 0, 0) /\ UNCHANGED allOpen

(* Left: collapse, or go to the parent's row. *)
Left ==
  /\ Browsing /\ cursor < Len(NodesNow)
  /\ LET n == NodesNow[cursor + 1] IN
       \/ /\ n \in open /\ There(KidsOf(n)) # {}
          /\ AfterKey(open \ {n}, focus, cursor, scrollTop)
       \/ /\ ~(n \in open /\ There(KidsOf(n)) # {}) /\ n \in DOMAIN Under
          /\ LET at == {i \in DOMAIN NodesNow : NodesNow[i] = Under[n]}
             IN  Move(IF at = {} THEN cursor ELSE (CHOOSE i \in at : TRUE) - 1)
  /\ UNCHANGED allOpen

Right ==
  /\ Browsing /\ cursor < Len(NodesNow) /\ There(KidsOf(NodesNow[cursor + 1])) # {}
  /\ AfterKey(open \cup {NodesNow[cursor + 1]}, focus, cursor, scrollTop)
  /\ UNCHANGED allOpen

Filter == Browsing /\ AfterKey(open, ~focus, 0, 0) /\ UNCHANGED allOpen

ToggleExpand ==
  /\ Browsing
  /\ allOpen' = ~allOpen
  /\ IF allOpen THEN AfterKey({}, focus, 0, 0)
                ELSE AfterKey(There(ViewNodes), focus, cursor, scrollTop)

(* The search line: the list is only marked as not valid. *)
Unlisted(cur, top, typ, fnd) ==
  /\ valid' = FALSE /\ cursor' = cur /\ scrollTop' = top /\ typing' = typ /\ find' = fnd
  /\ UNCHANGED <<rowState, open, allOpen, focus, rows>>

BeginSearch == Browsing /\ Unlisted(cursor, scrollTop, TRUE, FALSE) /\ list' = NodesNow
TypeQuery == typing /\ Unlisted(0, 0, TRUE, TRUE) /\ UNCHANGED list
EraseQuery == typing /\ find /\ Unlisted(0, 0, TRUE, FALSE) /\ UNCHANGED list
AbandonSearch == typing /\ Unlisted(0, 0, FALSE, FALSE) /\ UNCHANGED list
ClearSearch == Browsing /\ find /\ Unlisted(0, 0, FALSE, FALSE) /\ list' = NodesNow
AcceptSearch ==
  /\ typing
  /\ typing' = FALSE
  /\ UNCHANGED <<rowState, open, allOpen, list, valid, cursor, scrollTop, focus, find, rows>>

BrowseKey ==
  \/ CursorUp \/ CursorDown \/ PageUp \/ PageDown \/ GoEnd \/ Top
  \/ Left \/ Right \/ Filter \/ ToggleExpand
SearchKey == BeginSearch \/ TypeQuery \/ EraseQuery \/ AbandonSearch \/ ClearSearch \/ AcceptSearch

TreeViewNext ==
  \/ \E n \in ViewNodes : StartTest(n) \/ EndTest(n, "pass") \/ EndTest(n, "fail")
  \/ \E r \in Rows : ResizeRows(r)
  \/ BrowseKey \/ SearchKey

TreeViewSpec == TreeViewInit /\ [][TreeViewNext]_treeViewVars

-----------------------------------------------------------------------------
(* Properties *)

TreeViewTypeOK ==
  /\ rowState \in [ViewNodes -> {"none", "pending", "running", "pass", "fail"}]
  /\ open \subseteq ViewNodes /\ allOpen \in BOOLEAN
  /\ \A i \in DOMAIN list : list[i] \in ViewNodes
  /\ valid \in BOOLEAN /\ cursor \in Nat /\ scrollTop \in Nat
  /\ focus \in BOOLEAN /\ typing \in BOOLEAN /\ find \in BOOLEAN /\ rows \in Rows

(* What is listed is a tree read from the top: no row twice, every test     *)
(* below its parent's row with only its siblings' rows between.             *)
ListIsTree ==
  valid =>
    /\ \A i, j \in DOMAIN list : list[i] = list[j] => i = j
    /\ \A i \in DOMAIN list : list[i] \in DOMAIN Under =>
         \E j \in 1..i - 1 : /\ list[j] = Under[list[i]]
                             /\ \A k \in j + 1..i : list[k] \notin Roots

(* After a key the row under the cursor is on screen, whatever events,      *)
(* resizes and searches came before.                                        *)
CursorOnScreen ==
  [][/\ ~typing /\ ~typing' /\ valid' /\ rowState' = rowState /\ rows' = rows
     /\ cursor' < Len(list')
     => scrollTop' <= cursor' /\ cursor' < scrollTop' + rows']_treeViewVars

=============================================================================
