------------------------------ MODULE SeqFacts ------------------------------
(***************************************************************************)
(* Channels as sequences: what a send and a receive do to the elements of  *)
(* a sequence without repetitions, and how often an element is in one.     *)
(* Induction in the form of sets, and what the loop that keeps some of the *)
(* elements of a sequence makes of it.                                     *)
(***************************************************************************)
EXTENDS Integers, Sequences, FiniteSets, FiniteSetTheorems, SequenceTheorems, WellFoundedInduction, TLAPS

(* A sequence without repetition. *)
Distinct(s) == \A i, j \in DOMAIN s : s[i] = s[j] => i = j

(* The value d occurs in the sequence s. *)
Occurs(s, d) == \E i \in DOMAIN s : s[i] = d

(* Where the value d stands in the sequence s. *)
At(s, d) == {i \in DOMAIN s : s[i] = d}

(* How much a condition adds to a number of copies. *)
One(b) == IF b THEN 1 ELSE 0

-----------------------------------------------------------------------------
(* Appending a new element keeps a sequence free of repetitions: sending a  *)
(* database that is not in the channel.                                     *)
LEMMA AppendFacts ==
  ASSUME NEW S, NEW s \in Seq(S), NEW d \in S
  PROVE  /\ Append(s, d) \in Seq(S)
         /\ \A e : Occurs(Append(s, d), e) <=> Occurs(s, e) \/ e = d
         /\ Distinct(s) /\ ~Occurs(s, d) => Distinct(Append(s, d))
<1> DEFINE t == Append(s, d)
<1>1. /\ t \in Seq(S) /\ Len(t) = Len(s) + 1 /\ Len(s) \in Nat
      /\ DOMAIN s = 1..Len(s) /\ DOMAIN t = 1..(Len(s) + 1)
      /\ \A i \in 1..Len(s) : t[i] = s[i]
      /\ t[Len(s) + 1] = d
  BY AppendProperties, LenProperties
<1> HIDE DEF t
<1>2. \A e : Occurs(t, e) <=> Occurs(s, e) \/ e = d
  BY <1>1 DEF Occurs
<1>3. Distinct(s) /\ ~Occurs(s, d) => Distinct(t)
  BY <1>1 DEF Occurs, Distinct
<1> QED BY <1>1, <1>2, <1>3 DEF t

(* Receiving the head of a sequence without repetition takes out that       *)
(* element and nothing else.                                                *)
LEMMA TailFacts ==
  ASSUME NEW S, NEW s \in Seq(S), s # << >>
  PROVE  /\ Tail(s) \in Seq(S) /\ Head(s) \in S /\ Occurs(s, Head(s))
         /\ Distinct(s) => /\ Distinct(Tail(s))
                           /\ \A e : Occurs(Tail(s), e) <=> Occurs(s, e) /\ e # Head(s)
<1> DEFINE t == Tail(s)
<1>1. /\ t \in Seq(S) /\ Len(t) = Len(s) - 1 /\ Len(s) \in Nat \ {0}
      /\ Head(s) \in S /\ Head(s) = s[1]
      /\ DOMAIN s = 1..Len(s) /\ DOMAIN t = 1..(Len(s) - 1)
      /\ \A i \in 1..(Len(s) - 1) : t[i] = s[i + 1]
  BY HeadTailProperties, LenProperties, EmptySeq
<1> HIDE DEF t
<1>2. Occurs(s, Head(s))
  BY <1>1 DEF Occurs
<1>3. ASSUME Distinct(s) PROVE Distinct(t)
  <2> SUFFICES ASSUME NEW i \in DOMAIN t, NEW j \in DOMAIN t, t[i] = t[j]
               PROVE  i = j
    BY DEF Distinct
  <2>1. /\ i + 1 \in DOMAIN s /\ j + 1 \in DOMAIN s /\ s[i + 1] = s[j + 1]
    BY <1>1
  <2> QED BY <2>1, <1>1, <1>3 DEF Distinct
<1>4. ASSUME Distinct(s), NEW e PROVE Occurs(t, e) <=> Occurs(s, e) /\ e # Head(s)
  <2>1. ASSUME NEW i \in DOMAIN t, t[i] = e PROVE Occurs(s, e) /\ e # Head(s)
    <3>1. i + 1 \in DOMAIN s /\ s[i + 1] = e /\ 1 \in DOMAIN s /\ i + 1 # 1
      BY <2>1, <1>1
    <3> QED BY <3>1, <1>1, <1>4 DEF Occurs, Distinct
  <2>2. ASSUME NEW i \in DOMAIN s, s[i] = e, e # Head(s) PROVE Occurs(t, e)
    <3>1. i - 1 \in DOMAIN t /\ t[i - 1] = e
      BY <2>2, <1>1
    <3> QED BY <3>1 DEF Occurs
  <2> QED BY <2>1, <2>2 DEF Occurs
<1> QED BY <1>1, <1>2, <1>3, <1>4 DEF t

-----------------------------------------------------------------------------
(* The places of an element are counted by a natural number, zero in an     *)
(* empty channel.                                                           *)
LEMMA CopiesNat ==
  ASSUME NEW S, NEW s \in Seq(S), NEW e
  PROVE  /\ IsFiniteSet(At(s, e)) /\ Cardinality(At(s, e)) \in Nat
         /\ Cardinality(At(s, e)) = 0 <=> ~Occurs(s, e)
<1>1. IsFiniteSet(1..Len(s)) /\ DOMAIN s = 1..Len(s)
  BY LenProperties, FS_Interval
<1>2. IsFiniteSet(At(s, e))
  BY <1>1, FS_Subset DEF At
<1>3. Cardinality(At(s, e)) \in Nat /\ (Cardinality(At(s, e)) = 0 <=> At(s, e) = {})
  BY <1>2, FS_CardinalityType, FS_EmptySet
<1>4. At(s, e) = {} <=> ~Occurs(s, e)
  BY DEF At, Occurs
<1> QED BY <1>2, <1>3, <1>4

LEMMA CopiesEmpty ==
  ASSUME NEW e
  PROVE  Cardinality(At(<< >>, e)) = 0
<1>1. At(<< >>, e) = {}
  BY DEF At
<1> QED BY <1>1, FS_EmptySet

(* A send adds one copy of what is sent. *)
LEMMA CopiesAppend ==
  ASSUME NEW S, NEW s \in Seq(S), NEW d \in S, NEW e
  PROVE  Cardinality(At(Append(s, d), e)) = Cardinality(At(s, e)) + One(d = e)
<1> DEFINE t == Append(s, d)
           n == Len(s)
<1>1. /\ n \in Nat /\ DOMAIN s = 1..n /\ DOMAIN t = 1..(n + 1)
      /\ \A i \in 1..n : t[i] = s[i]
      /\ t[n + 1] = d
  BY AppendProperties, LenProperties
<1> HIDE DEF t, n
<1>2. IsFiniteSet(At(s, e)) /\ Cardinality(At(s, e)) \in Nat
  BY CopiesNat
<1>3. n + 1 \notin At(s, e)
  BY <1>1 DEF At
<1>4. CASE d = e
  <2>1. At(t, e) = At(s, e) \cup {n + 1}
    BY <1>1, <1>4 DEF At
  <2> QED BY <2>1, <1>2, <1>3, <1>4, FS_AddElement DEF One, t
<1>5. CASE d # e
  <2>1. At(t, e) = At(s, e)
    BY <1>1, <1>5 DEF At
  <2> QED BY <2>1, <1>2, <1>5 DEF One, t
<1> QED BY <1>4, <1>5

(* A receive takes out one copy of the head. *)
LEMMA CopiesTail ==
  ASSUME NEW S, NEW s \in Seq(S), s # << >>, NEW e
  PROVE  Cardinality(At(s, e)) = Cardinality(At(Tail(s), e)) + One(Head(s) = e)
<1> DEFINE t == Tail(s)
           n == Len(s)
           f == [i \in At(t, e) |-> i + 1]
<1>1. /\ t \in Seq(S) /\ n \in Nat \ {0} /\ Head(s) = s[1]
      /\ DOMAIN s = 1..n /\ DOMAIN t = 1..(n - 1)
      /\ \A i \in 1..(n - 1) : t[i] = s[i + 1]
  BY HeadTailProperties, LenProperties, EmptySeq
<1> HIDE DEF t, n
<1>2. IsFiniteSet(At(t, e)) /\ IsFiniteSet(At(s, e)) /\ Cardinality(At(s, e)) \in Nat
  BY <1>1, CopiesNat
<1>3. f \in Bijection(At(t, e), At(s, e) \ {1})
  <2>1. \A i \in At(t, e) : i \in Int /\ i + 1 \in At(s, e) \ {1}
    BY <1>1 DEF At
  <2>2. \A j \in At(s, e) \ {1} : j \in Int /\ j - 1 \in At(t, e)
    BY <1>1 DEF At
  <2>3. f \in Injection(At(t, e), At(s, e) \ {1})
    BY <2>1 DEF Injection, IsInjective
  <2>4. \A j \in At(s, e) \ {1} : f[j - 1] = j
    BY <2>2
  <2>5. f \in Surjection(At(t, e), At(s, e) \ {1})
    BY <2>1, <2>2, <2>4 DEF Surjection
  <2> QED BY <2>3, <2>5 DEF Bijection
<1>4. Cardinality(At(s, e) \ {1}) = Cardinality(At(t, e))
  <2>1. ExistsBijection(At(t, e), At(s, e) \ {1})
    BY <1>3 DEF ExistsBijection
  <2> QED BY <2>1, <1>2, FS_Bijection
<1>5. 1 \in At(s, e) <=> Head(s) = e
  BY <1>1 DEF At
<1>6. /\ Cardinality(At(s, e) \ {1}) = IF 1 \in At(s, e) THEN Cardinality(At(s, e)) - 1
                                        ELSE Cardinality(At(s, e))
  BY <1>2, FS_RemoveElement
<1> QED BY <1>2, <1>4, <1>5, <1>6 DEF One, t

(* A channel stays a channel: a send that found a free place, a receive.    *)
LEMMA SendType ==
  ASSUME NEW S, NEW s \in Seq(S), NEW d \in S, NEW cap \in Nat, Len(s) < cap
  PROVE  Append(s, d) \in Seq(S) /\ Len(Append(s, d)) <= cap
BY AppendProperties, LenProperties

LEMMA ReceiveType ==
  ASSUME NEW S, NEW s \in Seq(S), NEW cap \in Nat, Len(s) <= cap, s # << >>
  PROVE  Head(s) \in S /\ Tail(s) \in Seq(S) /\ Len(Tail(s)) <= cap
BY HeadTailProperties, LenProperties, EmptySeq

(* A function on 1..n is a sequence of length n.                            *)
LEMMA FunctionIsSeq ==
  ASSUME NEW S, NEW n \in Nat, NEW f \in [1..n -> S]
  PROVE  f \in Seq(S) /\ Len(f) = n
<1>1. f \in Seq(S)
  BY SeqDef
<1>2. Len(f) \in Nat /\ DOMAIN f = 1..Len(f) /\ DOMAIN f = 1..n
  BY <1>1, LenProperties
<1>3. Len(f) = n
  BY <1>2
<1> QED BY <1>1, <1>3

(* Without repetitions there is one copy of what occurs.                    *)
LEMMA CopiesDistinct ==
  ASSUME NEW S, NEW s \in Seq(S), Distinct(s), NEW e
  PROVE  Cardinality(At(s, e)) = One(Occurs(s, e))
<1>1. CASE Occurs(s, e)
  <2>1. PICK i \in DOMAIN s : s[i] = e
    BY <1>1 DEF Occurs
  <2>2. At(s, e) = {i}
    BY <2>1 DEF At, Distinct
  <2> QED BY <1>1, <2>2, FS_Singleton DEF One
<1>2. CASE ~Occurs(s, e)
  BY <1>2, CopiesNat DEF One
<1> QED BY <1>1, <1>2

(* An element that is received moves: as many copies as leave one channel   *)
(* enter the other.                                                         *)
LEMMA CopiesMove ==
  ASSUME NEW S, NEW s \in Seq(S), NEW t \in Seq(S), s # << >>, NEW e
  PROVE  /\ Cardinality(At(Tail(s), e)) + Cardinality(At(Append(t, Head(s)), e))
              = Cardinality(At(s, e)) + Cardinality(At(t, e))
<1>1. Head(s) \in S /\ Tail(s) \in Seq(S) /\ Append(t, Head(s)) \in Seq(S)
  BY HeadTailProperties, AppendProperties
<1>2. /\ Cardinality(At(s, e)) = Cardinality(At(Tail(s), e)) + One(Head(s) = e)
      /\ Cardinality(At(Append(t, Head(s)), e)) = Cardinality(At(t, e)) + One(Head(s) = e)
  BY <1>1, CopiesTail, CopiesAppend
<1>3. /\ Cardinality(At(s, e)) \in Nat /\ Cardinality(At(t, e)) \in Nat
      /\ Cardinality(At(Tail(s), e)) \in Nat /\ Cardinality(At(Append(t, Head(s)), e)) \in Nat
      /\ One(Head(s) = e) \in Nat
  BY <1>1, CopiesNat DEF One
<1> QED BY <1>2, <1>3

(* The sequence s without its i-th element.                                  *)
Dropped(s, i) == SubSeq(s, 1, i - 1) \o SubSeq(s, i + 1, Len(s))

(* Taking the i-th element out of a sequence leaves the other ones.          *)
LEMMA DropPlaces ==
  ASSUME NEW S, NEW s \in Seq(S), NEW i \in DOMAIN s
  PROVE  /\ Dropped(s, i) \in Seq(S) /\ Len(Dropped(s, i)) = Len(s) - 1 /\ DOMAIN Dropped(s, i) = 1..(Len(s) - 1)
         /\ \A k \in DOMAIN Dropped(s, i) : Dropped(s, i)[k] = s[IF k < i THEN k ELSE k + 1]
<1> DEFINE t == Dropped(s, i)
           u == SubSeq(s, 1, i - 1)
           v == SubSeq(s, i + 1, Len(s))
<1>1. Len(s) \in Nat /\ DOMAIN s = 1..Len(s) /\ i \in 1..Len(s)
      /\ \A k \in 1..Len(s) : s[k] \in S
  BY LenProperties, ElementOfSeq
<1>2. /\ u \in Seq(S) /\ Len(u) = i - 1
      /\ \A k \in 1..(i - 1) : u[k] = s[k]
  <2>1. \A k \in 1..(i - 1) : s[k] \in S
    BY <1>1
  <2> QED BY <1>1, <2>1, SubSeqProperties
<1>3. /\ v \in Seq(S) /\ Len(v) = Len(s) - i
      /\ \A k \in 1..(Len(s) - i) : v[k] = s[i + k]
  <2>1. \A k \in (i + 1)..Len(s) : s[k] \in S
    BY <1>1
  <2>2. /\ v \in Seq(S) /\ Len(v) = IF i + 1 <= Len(s) THEN Len(s) - (i + 1) + 1 ELSE 0
        /\ \A k \in 1..(Len(s) - (i + 1) + 1) : v[k] = s[(i + 1) + k - 1]
    BY <1>1, <2>1, SubSeqProperties
  <2> HIDE DEF v
  <2>3. Len(v) = Len(s) - i
    BY <1>1, <2>2
  <2>4. ASSUME NEW k \in 1..(Len(s) - i) PROVE v[k] = s[i + k]
    <3>1. k \in 1..(Len(s) - (i + 1) + 1) /\ (i + 1) + k - 1 = i + k
      BY <1>1
    <3> QED BY <2>2, <3>1
  <2> QED BY <2>2, <2>3, <2>4
<1> HIDE DEF u, v, t
<1>4. /\ t \in Seq(S) /\ Len(t) = Len(u) + Len(v)
      /\ \A k \in 1..(Len(u) + Len(v)) : t[k] = IF k <= Len(u) THEN u[k] ELSE v[k - Len(u)]
  BY <1>2, <1>3, ConcatProperties DEF u, v, t, Dropped
<1>5. Len(t) = Len(s) - 1 /\ DOMAIN t = 1..(Len(s) - 1)
  BY <1>1, <1>2, <1>3, <1>4, LenProperties
<1>6. ASSUME NEW k \in DOMAIN t PROVE t[k] = s[IF k < i THEN k ELSE k + 1]
  <2>1. k \in Int /\ k >= 1 /\ k <= Len(s) - 1
    BY <1>1, <1>5
  <2>2. CASE k < i
    BY <1>1, <1>2, <1>3, <1>4, <2>1, <2>2
  <2>3. CASE ~(k < i)
    <3>1. t[k] = v[k - (i - 1)] /\ k - (i - 1) \in 1..(Len(s) - i)
      <4>1. k \in 1..(Len(u) + Len(v)) /\ ~(k <= Len(u)) /\ k - Len(u) = k - (i - 1)
        BY <1>1, <1>2, <1>3, <2>1, <2>3
      <4>2. k - (i - 1) \in 1..(Len(s) - i)
        BY <1>1, <2>1, <2>3
      <4> QED BY <1>4, <4>1, <4>2
    <3>2. v[k - (i - 1)] = s[i + (k - (i - 1))]
      BY <1>3, <3>1
    <3>3. i + (k - (i - 1)) = k + 1
      BY <1>1, <2>1
    <3> QED BY <2>3, <3>1, <3>2, <3>3
  <2> QED BY <2>2, <2>3
<1> QED BY <1>4, <1>5, <1>6 DEF t

LEMMA DropFacts ==
  ASSUME NEW S, NEW s \in Seq(S), NEW i \in DOMAIN s
  PROVE  /\ Dropped(s, i) \in Seq(S) /\ Len(Dropped(s, i)) = Len(s) - 1 /\ DOMAIN Dropped(s, i) = 1..(Len(s) - 1)
         /\ \A k \in DOMAIN Dropped(s, i) : \E n \in DOMAIN s : n # i /\ Dropped(s, i)[k] = s[n]
<1>1. /\ Dropped(s, i) \in Seq(S) /\ Len(Dropped(s, i)) = Len(s) - 1 /\ DOMAIN Dropped(s, i) = 1..(Len(s) - 1)
      /\ \A k \in DOMAIN Dropped(s, i) : Dropped(s, i)[k] = s[IF k < i THEN k ELSE k + 1]
  BY DropPlaces
<1>2. DOMAIN s = 1..Len(s) /\ Len(s) \in Nat /\ i \in 1..Len(s)
  BY LenProperties
<1>3. ASSUME NEW k \in DOMAIN Dropped(s, i) PROVE \E n \in DOMAIN s : n # i /\ Dropped(s, i)[k] = s[n]
  <2> DEFINE n == IF k < i THEN k ELSE k + 1
  <2>1. n \in DOMAIN s /\ n # i
    BY <1>1, <1>2
  <2>2. Dropped(s, i)[k] = s[n]
    BY <1>1
  <2> HIDE DEF n
  <2> QED BY <2>1, <2>2
<1> QED BY <1>1, <1>3

(* Two of the elements that are left were two before.                        *)
LEMMA DropApart ==
  ASSUME NEW S, NEW s \in Seq(S), NEW i \in DOMAIN s,
         NEW k \in DOMAIN Dropped(s, i), NEW l \in DOMAIN Dropped(s, i), k # l
  PROVE  \E n, o \in DOMAIN s : /\ n # i /\ o # i /\ n # o
                                /\ Dropped(s, i)[k] = s[n] /\ Dropped(s, i)[l] = s[o]
<1>1. /\ k \in 1..(Len(s) - 1) /\ l \in 1..(Len(s) - 1) /\ DOMAIN s = 1..Len(s) /\ Len(s) \in Nat
      /\ i \in 1..Len(s)
  BY DropFacts, LenProperties
<1> DEFINE n == IF k < i THEN k ELSE k + 1
           o == IF l < i THEN l ELSE l + 1
<1>2. n \in DOMAIN s /\ o \in DOMAIN s /\ n # i /\ o # i /\ n # o
  BY <1>1
<1>3. Dropped(s, i)[k] = s[n] /\ Dropped(s, i)[l] = s[o]
  BY DropPlaces
<1> HIDE DEF n, o
<1> QED BY <1>2, <1>3

(* An element of a sequence is replaced.                                     *)
LEMMA ReplaceOne ==
  ASSUME NEW S, NEW s \in Seq(S), NEW i \in DOMAIN s, NEW r \in S, NEW t, t = [s EXCEPT ![i] = r]
  PROVE  /\ t \in Seq(S) /\ Len(t) = Len(s) /\ DOMAIN t = DOMAIN s
         /\ t[i] = r /\ \A j \in DOMAIN s \ {i} : t[j] = s[j]
<1>1. Len(s) \in Nat /\ DOMAIN s = 1..Len(s) /\ s \in [1..Len(s) -> S]
  BY LenProperties
<1>2. t \in [1..Len(s) -> S]
  BY <1>1
<1>3. t \in Seq(S) /\ Len(t) = Len(s)
  BY <1>1, <1>2, FunctionIsSeq
<1> QED BY <1>1, <1>2, <1>3

(* A set of natural numbers that is not empty has a smallest one.            *)
LEMMA NatSetMin ==
  ASSUME NEW T, T \subseteq Nat, T # {}
  PROVE  \E x \in T : \A y \in T : x <= y
<1> DEFINE R == {ss \in Nat \X Nat : ss[1] < ss[2]}
<1>1. IsWellFoundedOn(R, Nat)
  BY NatLessThanWellFounded DEF OpToRel
<1>2. PICK x \in T : \A y \in T : <<y, x>> \notin R
  BY <1>1, WFMin, Zenon
<1>3. \A y \in T : x <= y
  <2> SUFFICES ASSUME NEW y \in T PROVE x <= y
    OBVIOUS
  <2>1. x \in Nat /\ y \in Nat /\ <<y, x>> \notin R
    BY <1>2
  <2> QED BY <2>1
<1> QED BY <1>3

-----------------------------------------------------------------------------
(* Induction in a form without operator parameters: a set of numbers that    *)
(* has 0 and with every number the next one has them all.                    *)
LEMMA NatInductionSet ==
  ASSUME NEW P, 0 \in P, \A n \in Nat : n \in P => n + 1 \in P
  PROVE  Nat \subseteq P
<1> SUFFICES ASSUME Nat \ P # {} PROVE FALSE
  OBVIOUS
<1>1. PICK n \in Nat \ P : \A m \in Nat \ P : n <= m
  <2> DEFINE T == Nat \ P
  <2>1. T \subseteq Nat /\ T # {}
    OBVIOUS
  <2> HIDE DEF T
  <2>2. \E x \in T : \A y \in T : x <= y
    BY <2>1, NatSetMin
  <2> QED BY <2>2 DEF T
<1>2. n # 0 /\ n - 1 \in Nat /\ n - 1 \in P
  BY <1>1
<1>3. (n - 1) + 1 = n
  BY <1>1
<1> QED BY <1>1, <1>2, <1>3

(* The same of sequences, which grow by Append.                              *)
LEMMA SeqInductionSet ==
  ASSUME NEW X, NEW P, << >> \in P, \A s \in Seq(X), x \in X : s \in P => Append(s, x) \in P
  PROVE  Seq(X) \subseteq P
<1> DEFINE N == {n \in Nat : \A s \in Seq(X) : Len(s) = n => s \in P}
<1>1. 0 \in N
  <2>1. \A s \in Seq(X) : Len(s) = 0 => s = << >>
    BY EmptySeq
  <2> QED BY <2>1
<1>2. ASSUME NEW n \in Nat, n \in N PROVE n + 1 \in N
  <2> SUFFICES ASSUME NEW s \in Seq(X), Len(s) = n + 1 PROVE s \in P
    OBVIOUS
  <2>1. s # << >>
    BY EmptySeq
  <2>2. PICK t \in Seq(X), x \in X : s = Append(t, x)
    BY <2>1, SequenceEmptyOrAppend
  <2>3. Len(t) = n
    <3>1. Len(t) \in Nat /\ Len(s) = Len(t) + 1
      BY <2>2, LenProperties, AppendProperties
    <3> QED BY <3>1
  <2>4. t \in P
    BY <1>2, <2>3
  <2> QED BY <2>2, <2>4
<1>3. Nat \subseteq N
  <2> HIDE DEF N
  <2> QED BY <1>1, <1>2, NatInductionSet
<1> QED BY <1>3, LenProperties

-----------------------------------------------------------------------------
(* The elements of s that are in K, in their order: a loop that appends to a *)
(* result what passes a test.                                                *)
Kept(s, K) ==
  LET upTo[i \in 0 .. Len(s)] ==
        IF i = 0 THEN << >> ELSE IF s[i] \in K THEN Append(upTo[i - 1], s[i]) ELSE upTo[i - 1]
  IN  upTo[Len(s)]
(* u holds the results of the loop's rounds. *)
Rounds(u, n, s, K) ==
  u = [i \in 0 .. n |-> IF i = 0 THEN << >> ELSE IF s[i] \in K THEN Append(u[i - 1], s[i]) ELSE u[i - 1]]

LEMMA RoundsExist ==
  ASSUME NEW n \in Nat, NEW s, NEW K
  PROVE  \E u : Rounds(u, n, s, K)
<1> DEFINE N == {m \in Nat : \E u : Rounds(u, m, s, K)}
<1>1. 0 \in N
  <2>1. Rounds([i \in 0 .. 0 |-> << >>], 0, s, K)
    <3>1. \A i \in 0 .. 0 : i = 0
      OBVIOUS
    <3> QED BY <3>1 DEF Rounds
  <2> QED BY <2>1
<1>2. ASSUME NEW m \in Nat, m \in N PROVE m + 1 \in N
  <2>1. PICK u : Rounds(u, m, s, K)
    BY <1>2
  <2> DEFINE new == IF s[m + 1] \in K THEN Append(u[m], s[m + 1]) ELSE u[m]
             w == [i \in 0 .. m + 1 |-> IF i = m + 1 THEN new ELSE u[i]]
  <2>2. \A i \in 0 .. m + 1 : /\ i = m + 1 => w[i] = new /\ i # 0 /\ i - 1 = m /\ w[i - 1] = u[m]
                              /\ i # m + 1 => w[i] = u[i] /\ i \in 0 .. m
                              /\ i # m + 1 /\ i # 0 => w[i - 1] = u[i - 1]
    BY <1>2
  <2>3. \A i \in 0 .. m : u[i] = IF i = 0 THEN << >> ELSE IF s[i] \in K THEN Append(u[i - 1], s[i]) ELSE u[i - 1]
    BY <2>1 DEF Rounds
  <2>4. ASSUME NEW i \in 0 .. m + 1
        PROVE  w[i] = IF i = 0 THEN << >> ELSE IF s[i] \in K THEN Append(w[i - 1], s[i]) ELSE w[i - 1]
    <3>1. CASE i = m + 1
      BY <2>2, <3>1
    <3>2. CASE i # m + 1
      <4> HIDE DEF w, new
      <4> QED BY <2>2, <2>3, <3>2
    <3> QED BY <3>1, <3>2
  <2>5. w = [i \in 0 .. m + 1 |-> w[i]]
    OBVIOUS
  <2> HIDE DEF w
  <2>6. Rounds(w, m + 1, s, K)
    BY <2>4, <2>5 DEF Rounds
  <2> QED BY <2>6
<1>3. Nat \subseteq N
  <2> HIDE DEF N
  <2> QED BY <1>1, <1>2, NatInductionSet
<1> QED BY <1>3

(* Two loops that meet the same elements have the same results.              *)
LEMMA RoundsAgree ==
  ASSUME NEW m \in Nat, NEW n \in Nat, NEW s, NEW t, NEW K, NEW J, NEW u, NEW v,
         Rounds(u, m, s, K), Rounds(v, n, t, J), m <= n,
         \A i \in 1 .. m : s[i] = t[i] /\ (s[i] \in K <=> t[i] \in J)
  PROVE  \A i \in 0 .. m : u[i] = v[i]
<1> DEFINE N == {i \in Nat : i <= m => u[i] = v[i]}
<1>1. /\ \A i \in 0 .. m : u[i] = IF i = 0 THEN << >> ELSE IF s[i] \in K THEN Append(u[i - 1], s[i]) ELSE u[i - 1]
      /\ \A i \in 0 .. n : v[i] = IF i = 0 THEN << >> ELSE IF t[i] \in J THEN Append(v[i - 1], t[i]) ELSE v[i - 1]
  BY DEF Rounds
<1>2. 0 \in N
  <2>1. u[0] = << >> /\ v[0] = << >>
    <3>1. 0 \in 0 .. m /\ 0 \in 0 .. n
      OBVIOUS
    <3> QED BY <1>1, <3>1
  <2> QED BY <2>1
<1>3. ASSUME NEW i \in Nat, i \in N PROVE i + 1 \in N
  <2> SUFFICES ASSUME i + 1 <= m PROVE u[i + 1] = v[i + 1]
    OBVIOUS
  <2>1. i + 1 \in 0 .. m /\ i + 1 \in 0 .. n /\ i + 1 # 0 /\ (i + 1) - 1 = i /\ i + 1 \in 1 .. m /\ i <= m
    OBVIOUS
  <2>2. u[i] = v[i]
    BY <1>3, <2>1
  <2>3. u[i + 1] = IF s[i + 1] \in K THEN Append(u[i], s[i + 1]) ELSE u[i]
    BY <1>1, <2>1
  <2>4. v[i + 1] = IF t[i + 1] \in J THEN Append(v[i], t[i + 1]) ELSE v[i]
    BY <1>1, <2>1
  <2> QED BY <2>1, <2>2, <2>3, <2>4
<1>4. Nat \subseteq N
  <2> HIDE DEF N
  <2> QED BY <1>2, <1>3, NatInductionSet
<1> QED BY <1>4

(* The loop's result is that of its last round.                              *)
LEMMA KeptRounds ==
  ASSUME NEW s, NEW K, Len(s) \in Nat
  PROVE  \E u : Rounds(u, Len(s), s, K) /\ Kept(s, K) = u[Len(s)]
<1> DEFINE w == CHOOSE u : Rounds(u, Len(s), s, K)
<1>1. Rounds(w, Len(s), s, K)
  BY RoundsExist
<1>2. Kept(s, K) = w[Len(s)]
  BY DEF Kept, Rounds
<1> HIDE DEF w
<1> QED BY <1>1, <1>2

LEMMA KeptEmpty == ASSUME NEW K PROVE Kept(<< >>, K) = << >>
<1>1. Len(<< >>) = 0
  BY EmptySeq
<1>2. PICK u : Rounds(u, 0, << >>, K) /\ Kept(<< >>, K) = u[0]
  BY <1>1, KeptRounds
<1> QED BY <1>2 DEF Rounds

LEMMA KeptAppend ==
  ASSUME NEW X, NEW s \in Seq(X), NEW x \in X, NEW K
  PROVE  Kept(Append(s, x), K) = IF x \in K THEN Append(Kept(s, K), x) ELSE Kept(s, K)
<1> DEFINE t == Append(s, x)
           n == Len(s)
<1>1. n \in Nat /\ Len(t) = n + 1 /\ t[n + 1] = x /\ \A i \in 1 .. n : t[i] = s[i]
  BY LenProperties, AppendProperties
<1> HIDE DEF t
<1>2. PICK u : Rounds(u, n, s, K) /\ Kept(s, K) = u[n]
  BY <1>1, KeptRounds
<1>3. PICK v : Rounds(v, n + 1, t, K) /\ Kept(t, K) = v[n + 1]
  <2>1. Len(t) \in Nat
    BY <1>1
  <2> QED BY <1>1, <2>1, KeptRounds
<1> HIDE DEF n
<1>4. v[n] = u[n]
  <2>1. \A i \in 0 .. n : u[i] = v[i]
    <3>1. n + 1 \in Nat /\ n <= n + 1
      BY <1>1
    <3> QED BY <1>1, <1>2, <1>3, <3>1, RoundsAgree
  <2> QED BY <1>1, <2>1
<1>5. v[n + 1] = IF t[n + 1] \in K THEN Append(v[n], t[n + 1]) ELSE v[n]
  <2>1. n + 1 \in 0 .. n + 1 /\ n + 1 # 0 /\ (n + 1) - 1 = n
    BY <1>1
  <2> QED BY <1>3, <2>1 DEF Rounds
<1>6. Kept(t, K) = IF x \in K THEN Append(Kept(s, K), x) ELSE Kept(s, K)
  BY <1>1, <1>2, <1>3, <1>4, <1>5
<1> QED BY <1>6 DEF t

(* What is kept is in K; all is kept of a sequence within K, nothing of one  *)
(* that has no element of K.                                                 *)
LEMMA KeptType ==
  ASSUME NEW X, NEW s \in Seq(X), NEW K
  PROVE  Kept(s, K) \in Seq(X \cap K) /\ Kept(s, K) \in Seq(X)
<1> DEFINE P == {r \in Seq(X) : Kept(r, K) \in Seq(X \cap K)}
<1>1. << >> \in P
  BY KeptEmpty, EmptySeq
<1>2. ASSUME NEW r \in Seq(X), NEW x \in X, r \in P PROVE Append(r, x) \in P
  <2>1. Append(r, x) \in Seq(X) /\ Kept(r, K) \in Seq(X \cap K)
    BY <1>2, AppendProperties
  <2>2. CASE x \in K
    <3>1. x \in X \cap K /\ Append(Kept(r, K), x) \in Seq(X \cap K)
      BY <2>1, <2>2, AppendProperties
    <3> QED BY <2>1, <2>2, <3>1, KeptAppend
  <2>3. CASE x \notin K
    BY <2>1, <2>3, KeptAppend
  <2> QED BY <2>2, <2>3
<1>3. Seq(X) \subseteq P
  <2> HIDE DEF P
  <2> QED BY <1>1, <1>2, SeqInductionSet
<1>4. Kept(s, K) \in Seq(X \cap K)
  BY <1>3
<1>5. X \cap K \subseteq X
  OBVIOUS
<1> QED BY <1>4, <1>5, SeqMonotonic

LEMMA KeptAll ==
  ASSUME NEW X, NEW s \in Seq(X), NEW K, X \subseteq K
  PROVE  Kept(s, K) = s
<1> DEFINE P == {r \in Seq(X) : Kept(r, K) = r}
<1>1. << >> \in P
  BY KeptEmpty, EmptySeq
<1>2. ASSUME NEW r \in Seq(X), NEW x \in X, r \in P PROVE Append(r, x) \in P
  <2>1. Append(r, x) \in Seq(X) /\ Kept(r, K) = r /\ x \in K
    BY <1>2, AppendProperties
  <2> QED BY <2>1, KeptAppend
<1>3. Seq(X) \subseteq P
  <2> HIDE DEF P
  <2> QED BY <1>1, <1>2, SeqInductionSet
<1> QED BY <1>3

LEMMA KeptNone ==
  ASSUME NEW X, NEW s \in Seq(X), NEW K, X \cap K = {}
  PROVE  Kept(s, K) = << >>
<1> DEFINE P == {r \in Seq(X) : Kept(r, K) = << >>}
<1>1. << >> \in P
  BY KeptEmpty, EmptySeq
<1>2. ASSUME NEW r \in Seq(X), NEW x \in X, r \in P PROVE Append(r, x) \in P
  <2>1. Append(r, x) \in Seq(X) /\ Kept(r, K) = << >> /\ x \notin K
    BY <1>2, AppendProperties
  <2> QED BY <2>1, KeptAppend
<1>3. Seq(X) \subseteq P
  <2> HIDE DEF P
  <2> QED BY <1>1, <1>2, SeqInductionSet
<1> QED BY <1>3

(* Appending to the second of two sequences.                                 *)
LEMMA AppendConcat ==
  ASSUME NEW X, NEW s \in Seq(X), NEW t \in Seq(X), NEW x \in X
  PROVE  s \o Append(t, x) = Append(s \o t, x)
<1> DEFINE one == <<x>>
<1>1. one \in Seq(X) /\ s \o t \in Seq(X)
  BY ConcatProperties
<1>2. Append(t, x) = t \o one /\ Append(s \o t, x) = (s \o t) \o one
  BY <1>1, AppendIsConcat
<1> HIDE DEF one
<1>3. (s \o t) \o one = s \o (t \o one)
  BY <1>1, ConcatAssociative
<1> QED BY <1>2, <1>3

(* Keeping from one sequence after another; a test that agrees on X.         *)
LEMMA KeptConcat ==
  ASSUME NEW X, NEW s \in Seq(X), NEW t \in Seq(X), NEW K
  PROVE  Kept(s \o t, K) = Kept(s, K) \o Kept(t, K)
<1> DEFINE P == {r \in Seq(X) : Kept(s \o r, K) = Kept(s, K) \o Kept(r, K)}
<1>1. << >> \in P
  <2>1. << >> \in Seq(X) /\ Kept(s, K) \in Seq(X)
    BY EmptySeq, KeptType
  <2>2. s \o << >> = s /\ Kept(s, K) \o << >> = Kept(s, K)
    BY <2>1, ConcatEmptySeq
  <2> QED BY <2>1, <2>2, KeptEmpty
<1>2. ASSUME NEW r \in Seq(X), NEW x \in X, r \in P PROVE Append(r, x) \in P
  <2>1. /\ Append(r, x) \in Seq(X) /\ Kept(s \o r, K) = Kept(s, K) \o Kept(r, K)
        /\ s \o r \in Seq(X) /\ Kept(s, K) \in Seq(X) /\ Kept(r, K) \in Seq(X)
    BY <1>2, AppendProperties, ConcatProperties, KeptType
  <2>2. s \o Append(r, x) = Append(s \o r, x)
    BY <2>1, AppendConcat
  <2>3. Kept(s, K) \o Append(Kept(r, K), x) = Append(Kept(s, K) \o Kept(r, K), x)
    BY <2>1, AppendConcat
  <2>4. Kept(Append(s \o r, x), K) = IF x \in K THEN Append(Kept(s \o r, K), x) ELSE Kept(s \o r, K)
    <3> DEFINE q == s \o r
    <3>1. q \in Seq(X)
      BY <2>1
    <3> HIDE DEF q
    <3>2. Kept(Append(q, x), K) = IF x \in K THEN Append(Kept(q, K), x) ELSE Kept(q, K)
      BY <3>1, KeptAppend
    <3> QED BY <3>2 DEF q
  <2>5. Kept(Append(r, x), K) = IF x \in K THEN Append(Kept(r, K), x) ELSE Kept(r, K)
    BY KeptAppend
  <2>6. CASE x \in K
    BY <2>1, <2>2, <2>3, <2>4, <2>5, <2>6
  <2>7. CASE x \notin K
    BY <2>1, <2>2, <2>4, <2>5, <2>7
  <2> QED BY <2>6, <2>7
<1>3. Seq(X) \subseteq P
  <2> HIDE DEF P
  <2> QED BY <1>1, <1>2, SeqInductionSet
<1> QED BY <1>3

LEMMA KeptAgree ==
  ASSUME NEW X, NEW s \in Seq(X), NEW K, NEW J, X \cap K = X \cap J
  PROVE  Kept(s, K) = Kept(s, J)
<1> DEFINE P == {r \in Seq(X) : Kept(r, K) = Kept(r, J)}
<1>1. << >> \in P
  BY KeptEmpty, EmptySeq
<1>2. ASSUME NEW r \in Seq(X), NEW x \in X, r \in P PROVE Append(r, x) \in P
  <2>1. Append(r, x) \in Seq(X) /\ Kept(r, K) = Kept(r, J) /\ (x \in K <=> x \in J)
    BY <1>2, AppendProperties
  <2>2. Kept(Append(r, x), K) = IF x \in K THEN Append(Kept(r, K), x) ELSE Kept(r, K)
    BY KeptAppend
  <2>3. Kept(Append(r, x), J) = IF x \in J THEN Append(Kept(r, J), x) ELSE Kept(r, J)
    BY KeptAppend
  <2> QED BY <2>1, <2>2, <2>3
<1>3. Seq(X) \subseteq P
  <2> HIDE DEF P
  <2> QED BY <1>1, <1>2, SeqInductionSet
<1> QED BY <1>3
=============================================================================
