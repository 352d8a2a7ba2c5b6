---------------------------- MODULE SessionProofs -----------------------------
(***************************************************************************)
(* Proofs about cooper's control panel (internal/tui, internal/app): what   *)
(* its modals, header and loading screen tell, what its lists show, and     *)
(* what becomes of the changes made in its tabs.  Each part has its own     *)
(* inductive invariant, named at its head.                                  *)
(***************************************************************************)
EXTENDS MCCooperSession, SeqFacts, FiniteSetTheorems, SequenceTheorems, TLAPS

(***************************************************************************)
(* The header.  As long as nothing met anything else there is one capture   *)
(* or one deletion on its way at most, and what it will show is what the    *)
(* manager serves (Alone, Awaited).                                         *)
(***************************************************************************)
CaptureRec == [at : {"reading", "captured", "end"}, ok : BOOLEAN]
HeaderTypes ==
  /\ header \in [is : {"Empty", "Staged", "Failed", "Expired"}, snap : Nat]
  /\ header.is = "Staged" <=> header.snap # 0
  /\ captures \in Seq(CaptureRec) /\ clears \in [open : Nat, all : Nat]
  /\ served \in 0..Len(captures)
  /\ \A i \in DOMAIN captures : captures[i].ok => captures[i].at = "captured"
Idle(i) == captures[i].at = "end"
Alone ==
  /\ \A i, j \in DOMAIN captures : ~Idle(i) /\ ~Idle(j) => i = j
  /\ clears.open > 0 => clears.open = 1 /\ \A i \in DOMAIN captures : Idle(i)
Awaited ==
  /\ (\A i \in DOMAIN captures : captures[i].at # "captured") => header.snap = served
  /\ \A i \in DOMAIN captures : captures[i].at = "captured" => served = IF captures[i].ok THEN i ELSE 0

HeaderInv == HeaderTypes /\ (~crossed2 => Alone /\ Awaited)

LEMMA KeptByBeginCapture == ASSUME HeaderInv, BeginCapture PROVE HeaderInv'
<1> DEFINE new == [at |-> "reading", ok |-> FALSE]
<1>1. captures' = Append(captures, new) /\ UNCHANGED <<header, faded, clears, served, aged>>
  BY DEF BeginCapture
<1>2. ~crossed2' => ~crossed2 /\ ~InFlight
  BY DEF BeginCapture
<1>3. new \in CaptureRec /\ new.at = "reading" /\ ~new.ok
  BY DEF CaptureRec
<1> HIDE DEF new
<1>4. /\ captures \in Seq(CaptureRec) /\ Len(captures) \in Nat /\ DOMAIN captures = 1..Len(captures)
      /\ captures' \in Seq(CaptureRec) /\ Len(captures') = Len(captures) + 1
      /\ DOMAIN captures' = 1..(Len(captures) + 1)
      /\ \A i \in 1..Len(captures) : captures'[i] = captures[i]
      /\ captures'[Len(captures) + 1] = new
  BY <1>1, <1>3, AppendProperties, LenProperties DEF HeaderInv, HeaderTypes
<1>5. HeaderTypes'
  <2>1. served \in 0..(Len(captures) + 1)
    BY <1>4 DEF HeaderInv, HeaderTypes
  <2>2. ASSUME NEW i \in DOMAIN captures', captures'[i].ok PROVE captures'[i].at = "captured"
    BY <1>3, <1>4, <2>2 DEF HeaderInv, HeaderTypes
  <2> QED BY <1>1, <1>4, <2>1, <2>2 DEF HeaderInv, HeaderTypes
<1>6. ASSUME ~crossed2' PROVE Alone' /\ Awaited'
  <2>1. Alone /\ Awaited /\ ~(clears.open > 0) /\ \A i \in DOMAIN captures : Idle(i)
    BY <1>2, <1>6 DEF HeaderInv, InFlight, Idle
  <2>2. \A i \in 1..Len(captures) : Idle(i)' /\ captures[i].at # "captured"
    BY <1>4, <2>1 DEF Idle
  <2>3. Alone'
    BY <1>1, <1>4, <2>1, <2>2 DEF Alone
  <2>4. \A i \in DOMAIN captures' : captures'[i].at # "captured"
    BY <1>3, <1>4, <2>2
  <2>5. header.snap = served
    BY <1>4, <2>1, <2>2 DEF Awaited
  <2> QED BY <1>1, <2>3, <2>4, <2>5 DEF Awaited
<1> QED BY <1>5, <1>6 DEF HeaderInv

LEMMA KeptByCapture == ASSUME HeaderInv, NEW i \in DOMAIN captures, Capture(i) PROVE HeaderInv'
<1>1. /\ captures[i].at = "reading" /\ captures \in Seq(CaptureRec) /\ captures[i] \in CaptureRec
      /\ Len(captures) \in Nat /\ DOMAIN captures = 1..Len(captures) /\ i \in 1..Len(captures)
      /\ UNCHANGED <<header, faded, clears, aged>>
  BY LenProperties, ElementOfSeq DEF Capture, HeaderInv, HeaderTypes
<1>2. PICK r \in CaptureRec : /\ r.at = "captured" /\ captures' = [captures EXCEPT ![i] = r]
                              /\ \/ r.ok /\ served' = i /\ (crossed2 => crossed2')
                                 \/ /\ ~r.ok /\ served' = served
                                    /\ (crossed2 \/ served # 0) => crossed2'
  <2>1. CASE /\ captures' = [captures EXCEPT ![i].at = "captured", ![i].ok = TRUE] /\ served' = i
             /\ UNCHANGED crossed2
    <3> DEFINE r == [[captures[i] EXCEPT !.at = "captured"] EXCEPT !.ok = TRUE]
    <3>1. r \in CaptureRec /\ r.at = "captured" /\ r.ok
      BY <1>1 DEF CaptureRec
    <3>2. captures' = [captures EXCEPT ![i] = r]
      BY <1>1, <2>1
    <3> HIDE DEF r
    <3> QED BY <2>1, <3>1, <3>2
  <2>2. CASE /\ captures' = [captures EXCEPT ![i].at = "captured"]
             /\ crossed2' = (crossed2 \/ served # 0) /\ UNCHANGED served
    <3> DEFINE r == [captures[i] EXCEPT !.at = "captured"]
    <3>1. r \in CaptureRec /\ r.at = "captured" /\ (r.ok <=> captures[i].ok) /\ ~captures[i].ok
      BY <1>1 DEF CaptureRec, HeaderInv, HeaderTypes
    <3>2. captures' = [captures EXCEPT ![i] = r]
      BY <1>1, <2>2
    <3> HIDE DEF r
    <3> QED BY <2>2, <3>1, <3>2
  <2> QED BY <2>1, <2>2 DEF Capture
<1>3. /\ captures' \in Seq(CaptureRec) /\ Len(captures') = Len(captures) /\ DOMAIN captures' = DOMAIN captures
      /\ captures'[i] = r /\ \A j \in DOMAIN captures \ {i} : captures'[j] = captures[j]
  BY <1>1, <1>2, ReplaceOne
<1>4. HeaderTypes'
  BY <1>1, <1>2, <1>3 DEF HeaderInv, HeaderTypes
<1>5. ASSUME ~crossed2' PROVE Alone' /\ Awaited'
  <2>1. ~crossed2 /\ ((r.ok /\ served' = i) \/ (~r.ok /\ served' = 0))
    BY <1>2, <1>5, Zenon
  <2>2. Alone /\ ~Idle(i)
    BY <1>1, <2>1 DEF HeaderInv, Idle
  <2>3. \A j \in DOMAIN captures \ {i} : Idle(j) /\ Idle(j)'
    BY <1>3, <2>2 DEF Alone, Idle
  <2>4. ~(clears.open > 0)
    BY <2>2 DEF Alone
  <2>5. Alone'
    BY <1>1, <1>3, <2>3, <2>4 DEF Alone
  <2>6. \A j \in DOMAIN captures' : captures'[j].at = "captured" => j = i
    BY <1>3, <2>3 DEF Idle
  <2>7. Awaited'
    BY <1>2, <1>3, <2>1, <2>6 DEF Awaited
  <2> QED BY <2>5, <2>7
<1> QED BY <1>4, <1>5 DEF HeaderInv

LEMMA KeptByCaptured == ASSUME HeaderInv, NEW i \in DOMAIN captures, ClipboardCaptured(i) PROVE HeaderInv'
<1> DEFINE r == [at |-> "end", ok |-> FALSE]
<1>1. /\ captures[i].at = "captured" /\ captures \in Seq(CaptureRec)
      /\ Len(captures) \in Nat /\ DOMAIN captures = 1..Len(captures) /\ i \in 1..Len(captures)
      /\ captures' = [captures EXCEPT ![i] = r] /\ UNCHANGED <<clears, served, aged, crossed2>>
      /\ header' = IF captures[i].ok THEN [is |-> "Staged", snap |-> i] ELSE [is |-> "Failed", snap |-> 0]
  BY LenProperties DEF ClipboardCaptured, Shows, HeaderInv, HeaderTypes
<1>2. r \in CaptureRec /\ r.at = "end" /\ ~r.ok
  BY DEF CaptureRec
<1> HIDE DEF r
<1>3. /\ captures' \in Seq(CaptureRec) /\ Len(captures') = Len(captures) /\ DOMAIN captures' = DOMAIN captures
      /\ captures'[i] = r /\ \A j \in DOMAIN captures \ {i} : captures'[j] = captures[j]
  BY <1>1, <1>2, ReplaceOne
<1>4. /\ header' \in [is : {"Empty", "Staged", "Failed", "Expired"}, snap : Nat]
      /\ header'.is = "Staged" <=> header'.snap # 0
      /\ header'.snap = IF captures[i].ok THEN i ELSE 0
  <2>1. CASE captures[i].ok
    BY <1>1, <2>1
  <2>2. CASE ~captures[i].ok
    BY <1>1, <2>2
  <2> QED BY <2>1, <2>2
<1>5. HeaderTypes'
  BY <1>1, <1>2, <1>3, <1>4 DEF HeaderInv, HeaderTypes
<1>6. ASSUME ~crossed2' PROVE Alone' /\ Awaited'
  <2>1. Alone /\ Awaited /\ ~Idle(i)
    BY <1>1, <1>6 DEF HeaderInv, Idle
  <2>2. \A j \in DOMAIN captures : Idle(j)'
    BY <1>2, <1>3, <2>1 DEF Alone, Idle
  <2>3. header'.snap = served'
    BY <1>1, <1>4, <2>1 DEF Awaited
  <2> QED BY <1>1, <1>3, <2>1, <2>2, <2>3 DEF Alone, Awaited, Idle
<1> QED BY <1>5, <1>6 DEF HeaderInv

LEMMA KeptByClearKey == ASSUME HeaderInv, ClearKey PROVE HeaderInv'
<1> DEFINE r == [open |-> clears.open + 1, all |-> clears.all + 1]
<1>1. clears' = r /\ UNCHANGED <<header, faded, captures, served, aged>>
  BY DEF ClearKey
<1>2. r \in [open : Nat, all : Nat] /\ r.open = clears.open + 1 /\ clears.open \in Nat
  BY DEF HeaderInv, HeaderTypes
<1> HIDE DEF r
<1>3. ~crossed2' => ~crossed2 /\ ~InFlight
  BY DEF ClearKey
<1>4. HeaderTypes'
  BY <1>1, <1>2 DEF HeaderInv, HeaderTypes
<1>5. ASSUME ~crossed2' PROVE Alone' /\ Awaited'
  BY <1>1, <1>2, <1>3, <1>5 DEF HeaderInv, InFlight, Alone, Awaited, Idle
<1> QED BY <1>4, <1>5 DEF HeaderInv

LEMMA KeptByClear == ASSUME HeaderInv, ClipboardClear PROVE HeaderInv'
<1> DEFINE r == [clears EXCEPT !.open = @ - 1]
<1>1. /\ clears' = r /\ UNCHANGED <<faded, captures, aged, crossed2>> /\ clears.open > 0 /\ served' = 0
      /\ header' = [is |-> "Empty", snap |-> 0]
  BY DEF ClipboardClear, Shows
<1>2. r \in [open : Nat, all : Nat] /\ r.open = clears.open - 1 /\ clears.open \in Nat
  BY <1>1 DEF HeaderInv, HeaderTypes
<1> HIDE DEF r
<1>3. /\ header' \in [is : {"Empty", "Staged", "Failed", "Expired"}, snap : Nat]
      /\ header'.is = "Empty" /\ header'.snap = 0
  BY <1>1
<1>4. HeaderTypes'
  BY <1>1, <1>2, <1>3, LenProperties DEF HeaderInv, HeaderTypes
<1>5. ASSUME ~crossed2' PROVE Alone' /\ Awaited'
  <2>1. Alone /\ clears.open = 1 /\ \A i \in DOMAIN captures : Idle(i)
    BY <1>1, <1>5 DEF HeaderInv, Alone
  <2> QED BY <1>1, <1>2, <1>3, <2>1 DEF Alone, Awaited, Idle
<1> QED BY <1>4, <1>5 DEF HeaderInv

(* What fades or expires has its place in the manager taken away with it.    *)
LEMMA KeptByTime == ASSUME HeaderInv, CheckExpiry \/ ThreeSeconds \/ \E i \in 1..MaxCaptures : TtlPasses(i) PROVE HeaderInv'
<1>1. CASE ThreeSeconds \/ \E i \in 1..MaxCaptures : TtlPasses(i)
  <2>1. UNCHANGED <<header, captures, clears, served, crossed2>>
    BY <1>1 DEF ThreeSeconds, TtlPasses
  <2> QED BY <2>1 DEF HeaderInv, HeaderTypes, Alone, Awaited, Idle
<1>2. CASE CheckExpiry
  <2>1. /\ UNCHANGED <<captures, clears>> /\ header'.snap = 0 /\ header'.is \in {"Empty", "Expired"}
        /\ header' \in [is : {"Empty", "Staged", "Failed", "Expired"}, snap : Nat]
    BY <1>2 DEF CheckExpiry, Shows
  <2>2. \/ served' = 0 /\ (~crossed2' => ~crossed2 /\ ~InFlight)
        \/ served' = served /\ crossed2' = crossed2 /\ header.snap = 0
    BY <1>2 DEF CheckExpiry, HeaderInv, HeaderTypes
  <2>3. HeaderTypes'
    BY <2>1, <2>2, LenProperties DEF HeaderInv, HeaderTypes
  <2>4. ASSUME ~crossed2' PROVE Alone' /\ Awaited'
    <3>1. Alone /\ Awaited
      BY <2>2, <2>4 DEF HeaderInv
    <3>2. Alone'
      BY <2>1, <3>1 DEF Alone, Idle
    <3>3. Awaited'
      BY <2>1, <2>2, <2>4, <3>1 DEF Awaited, InFlight
    <3> QED BY <3>2, <3>3
  <2> QED BY <2>3, <2>4 DEF HeaderInv
<1> QED BY <1>1, <1>2

LEMMA HeaderBegins == HeaderInit => HeaderInv
<1> SUFFICES ASSUME HeaderInit PROVE HeaderInv
  OBVIOUS
<1>1. /\ captures = << >> /\ captures \in Seq(CaptureRec) /\ Len(captures) = 0 /\ DOMAIN captures = {}
      /\ served = 0 /\ header = [is |-> "Empty", snap |-> 0] /\ clears = [open |-> 0, all |-> 0]
  BY EmptySeq DEF HeaderInit
<1>2. /\ header \in [is : {"Empty", "Staged", "Failed", "Expired"}, snap : Nat] /\ header.is = "Empty" /\ header.snap = 0
      /\ clears \in [open : Nat, all : Nat] /\ clears.open = 0
  BY <1>1
<1>3. HeaderTypes
  BY <1>1, <1>2 DEF HeaderTypes
<1> QED BY <1>1, <1>2, <1>3 DEF HeaderInv, Alone, Awaited

LEMMA HeaderStepKeeps == HeaderInv /\ [HeaderNext]_headerVars => HeaderInv'
<1> SUFFICES ASSUME HeaderInv, [HeaderNext]_headerVars PROVE HeaderInv'
  OBVIOUS
<1>1. CASE HeaderNext
  BY <1>1, KeptByBeginCapture, KeptByCapture, KeptByCaptured, KeptByClearKey, KeptByClear, KeptByTime
  DEF HeaderNext, HeaderStep, HeaderTime, CaptureKey, Paste
<1>2. CASE UNCHANGED headerVars
  BY <1>2 DEF headerVars, HeaderInv, HeaderTypes, Alone, Awaited, Idle
<1> QED BY <1>1, <1>2

LEMMA HeaderTells == HeaderInv => HeaderTypeOK /\ HeaderTellsClipboard
<1> SUFFICES ASSUME HeaderInv PROVE HeaderTypeOK /\ HeaderTellsClipboard
  OBVIOUS
<1>1. \A i \in DOMAIN captures : captures[i].at \in {"reading", "captured", "end"}
  <2>1. \A i \in DOMAIN captures : captures[i] \in CaptureRec
    BY ElementOfSeq, LenProperties DEF HeaderInv, HeaderTypes
  <2> QED BY <2>1 DEF CaptureRec
<1>2. HeaderTypeOK
  BY <1>1 DEF HeaderInv, HeaderTypes, HeaderTypeOK
<1>3. HeaderTellsClipboard
  BY DEF HeaderInv, Awaited, HeaderTellsClipboard, InFlight
<1> QED BY <1>2, <1>3

(* Each of the ways to dress a path is undone by one of the variants.        *)
LEMMA DropsFound == DropsAreFound
<1> SUFFICES ASSUME NEW text \in SUBSET {"quotes", "escapes", "uri"} PROVE {} \in Variants(text)
  BY DEF DropsAreFound, IsDrop, Pastes
<1> DEFINE bare == (text \ {"quotes"}) \ {"escapes"}
           escaped == {text, text \ {"quotes"}} \cup {v \ {"escapes"} : v \in {text, text \ {"quotes"}}}
<1>1. bare \in escaped /\ bare \subseteq {"uri"} /\ bare \ {"uri"} = {}
  OBVIOUS
<1>2. bare \ {"uri"} \in {v \ {"uri"} : v \in {w \in escaped : w \subseteq {"uri"}}}
  BY <1>1
<1> QED BY <1>1, <1>2 DEF Variants

-----------------------------------------------------------------------------
(***************************************************************************)
(* The loading screen.  What it shows, and what is still on its way, is     *)
(* told by the number of steps that it shows as done (Stands): the outcomes *)
(* on their way are those of the steps that follow, in order, and the last  *)
(* one is a failure if the goroutine gave up.                               *)
(***************************************************************************)
StepsShown(d) == \A k \in 1..N :
  stepStatus[k] = IF k <= d THEN "done"
                  ELSE IF k = d + 1 THEN (IF hasError THEN "error" ELSE "running") ELSE "pending"
OnTheWay(d) ==
  /\ Len(told) = worked - d + (IF gaveUp /\ ~hasError THEN 1 ELSE 0)
  /\ \A i \in 1..Len(told) : told[i].step = d + i /\ (told[i].ok <=> ~(gaveUp /\ i = Len(told)))
Stands(d) ==
  /\ d \in 0..N /\ d <= worked /\ (hasError => gaveUp /\ worked = d)
  /\ target = IF d = 0 THEN 0 ELSE Targets[d]
  /\ barShown = Full => d = N
  /\ outcome \in {"entered", "stopped"} => barShown = Full
  /\ StepsShown(d) /\ OnTheWay(d)
LoadingTypes ==
  /\ stopping \in BOOLEAN /\ worked \in 0..N /\ gaveUp \in BOOLEAN /\ hasError \in BOOLEAN
  /\ told \in Seq([step : Nat, ok : BOOLEAN])
  /\ target \in 0..Full /\ barShown \in 0..Full /\ hold \in {"no", "running", "over"}
  /\ outcome \in {"open", "entered", "stopped", "cancelled"}
  /\ hold # "no" => barShown = Full
  /\ gaveUp => worked < N
  /\ DOMAIN stepStatus = 1..N

LoadingInv == LoadingTypes /\ \E d \in 0..N : Stands(d)

LEMMA TargetsKnown ==
  ASSUME stopping \in BOOLEAN
  PROVE  /\ Full \in Nat \ {0} /\ Increment \in 1..Full /\ N \in Nat \ {0}
         /\ \A i \in 1..N : Targets[i] \in 1..Full /\ (Targets[i] = Full <=> i = N)
<1>1. Targets \in {StartTargets, StopTargets}
  BY DEF Targets
<1>2. Targets \in Seq(1..Full) /\ Targets # << >> /\ \A i \in 1..Len(Targets) : Targets[i] = Full <=> i = Len(Targets)
  BY <1>1, LoadingAssumption
<1>3. Len(Targets) \in Nat \ {0} /\ \A i \in 1..Len(Targets) : Targets[i] \in 1..Full
  BY <1>2, LenProperties, EmptySeq, ElementOfSeq
<1> QED BY <1>2, <1>3, LoadingAssumption DEF N

LEMMA KeptByWorkerStep == ASSUME LoadingInv, WorkerStep PROVE LoadingInv'
<1>1. PICK d \in 0..N : Stands(d)
  BY DEF LoadingInv
<1>2. /\ worked \in Nat /\ worked < N /\ ~gaveUp /\ outcome = "open" /\ N \in Nat \ {0}
      /\ UNCHANGED <<stopping, stepStatus, target, barShown, hold, screenDone, hasError, outcome>>
      /\ UNCHANGED <<N, Targets>>
  BY TargetsKnown DEF WorkerStep, LoadingInv, LoadingTypes, N, Targets
<1>3. told \in Seq([step : Nat, ok : BOOLEAN]) /\ Len(told) \in Nat /\ ~hasError
      /\ Len(told) = worked - d /\ \A i \in 1..Len(told) : told[i].step = d + i /\ told[i].ok
  BY <1>1, <1>2, LenProperties DEF Stands, OnTheWay, LoadingInv, LoadingTypes
<1>4. ASSUME NEW b \in BOOLEAN, told' = Append(told, [step |-> worked + 1, ok |-> b])
      PROVE  /\ told' \in Seq([step : Nat, ok : BOOLEAN]) /\ Len(told') = worked - d + 1
             /\ \A i \in 1..Len(told') : told'[i].step = d + i /\ (told'[i].ok <=> (b \/ i # Len(told')))
  <2> DEFINE r == [step |-> worked + 1, ok |-> b]
  <2>1. r \in [step : Nat, ok : BOOLEAN] /\ r.step = worked + 1 /\ (r.ok <=> b)
    BY <1>2
  <2> HIDE DEF r
  <2>2. told' = Append(told, r)
    BY <1>4 DEF r
  <2>3. /\ told' \in Seq([step : Nat, ok : BOOLEAN]) /\ Len(told') = Len(told) + 1
        /\ \A i \in 1..Len(told) : told'[i] = told[i]
        /\ told'[Len(told) + 1] = r
    BY <1>3, <2>1, <2>2, AppendProperties
  <2>4. ASSUME NEW i \in 1..Len(told') PROVE told'[i].step = d + i /\ (told'[i].ok <=> (b \/ i # Len(told')))
    <3>1. CASE i \in 1..Len(told)
      BY <1>3, <2>3, <3>1
    <3>2. CASE i = Len(told) + 1
      <4>1. told'[i] = r /\ d + i = worked + 1 /\ i = Len(told')
        BY <1>2, <1>3, <2>3, <3>2
      <4> QED BY <2>1, <4>1
    <3> QED BY <1>3, <2>3, <3>1, <3>2
  <2> QED BY <1>3, <2>3, <2>4
<1>5. CASE worked' = worked + 1 /\ told' = Append(told, [step |-> worked + 1, ok |-> TRUE]) /\ UNCHANGED gaveUp
  <2>1. /\ told' \in Seq([step : Nat, ok : BOOLEAN]) /\ Len(told') = worked - d + 1
        /\ \A i \in 1..Len(told') : told'[i].step = d + i /\ told'[i].ok
    BY <1>4, <1>5
  <2>2. LoadingTypes'
    BY <1>2, <1>5, <2>1 DEF LoadingInv, LoadingTypes
  <2>3. StepsShown(d)' /\ OnTheWay(d)'
    BY <1>1, <1>2, <1>3, <1>5, <2>1 DEF Stands, StepsShown, OnTheWay
  <2>4. Stands(d)'
    BY <1>1, <1>2, <1>3, <1>5, <2>3 DEF Stands
  <2> QED BY <1>2, <2>2, <2>4 DEF LoadingInv
<1>6. CASE ~stopping /\ gaveUp' = TRUE /\ told' = Append(told, [step |-> worked + 1, ok |-> FALSE]) /\ UNCHANGED worked
  <2>1. /\ told' \in Seq([step : Nat, ok : BOOLEAN]) /\ Len(told') = worked - d + 1
        /\ \A i \in 1..Len(told') : told'[i].step = d + i /\ (told'[i].ok <=> i # Len(told'))
    BY <1>4, <1>6
  <2>2. LoadingTypes'
    BY <1>2, <1>6, <2>1 DEF LoadingInv, LoadingTypes
  <2>3. StepsShown(d)' /\ OnTheWay(d)'
    BY <1>1, <1>2, <1>3, <1>6, <2>1 DEF Stands, StepsShown, OnTheWay
  <2>4. Stands(d)'
    BY <1>1, <1>2, <1>3, <1>6, <2>3 DEF Stands
  <2> QED BY <1>2, <2>2, <2>4 DEF LoadingInv
<1> QED BY <1>5, <1>6 DEF WorkerStep

(* The outcome that arrives is that of the step in work.                     *)
LEMMA KeptByStepTold == ASSUME LoadingInv, StepTold PROVE LoadingInv'
<1>1. PICK d \in 0..N : Stands(d)
  BY DEF LoadingInv
<1>2. /\ told # << >> /\ told' = Tail(told) /\ outcome = "open" /\ N \in Nat \ {0} /\ d \in Nat
      /\ IF Head(told).ok THEN CompleteStep(Head(told).step) ELSE FailStep(Head(told).step)
      /\ UNCHANGED <<stopping, worked, gaveUp, barShown, hold, screenDone, outcome>>
      /\ UNCHANGED <<N, Targets>> /\ worked \in Nat /\ worked <= N
  BY TargetsKnown DEF StepTold, LoadingInv, LoadingTypes, N, Targets
<1>3. /\ told \in Seq([step : Nat, ok : BOOLEAN]) /\ Len(told) \in Nat \ {0} /\ Head(told) = told[1]
      /\ told' \in Seq([step : Nat, ok : BOOLEAN]) /\ Len(told') = Len(told) - 1
      /\ \A i \in 1..Len(told') : told'[i] = told[i + 1]
  BY <1>2, LenProperties, EmptySeq, HeadTailProperties DEF LoadingInv, LoadingTypes
<1>4. /\ \A i \in 1..Len(told) : told[i].step = d + i /\ (told[i].ok <=> ~(gaveUp /\ i = Len(told)))
      /\ Len(told) = worked - d + (IF gaveUp /\ ~hasError THEN 1 ELSE 0)
      /\ hasError => worked = d
  BY <1>1 DEF Stands, OnTheWay
<1>5. ~hasError /\ Head(told).step = d + 1 /\ (Head(told).ok <=> ~(gaveUp /\ Len(told) = 1))
  BY <1>2, <1>3, <1>4
<1>6. Len(told) = worked - d + (IF gaveUp THEN 1 ELSE 0) /\ (gaveUp => worked < N)
  BY <1>4, <1>5 DEF LoadingInv, LoadingTypes
<1>7. CASE Head(told).ok
  <2>1. /\ stepStatus' = [k \in 1..N |-> CASE k = d + 1 -> "done" [] k = d + 1 + 1 -> "running" [] OTHER -> stepStatus[k]]
        /\ target' = Targets[d + 1] /\ hasError' = hasError
    BY <1>2, <1>5, <1>7 DEF CompleteStep
  <2>2. d + 1 <= worked /\ d + 1 \in 0..N /\ d + 1 \in 1..N
    BY <1>2, <1>3, <1>5, <1>6, <1>7
  <2>3. LoadingTypes'
    BY <1>2, <1>3, <1>5, <2>1, <2>2, TargetsKnown DEF LoadingInv, LoadingTypes
  <2>4. StepsShown(d + 1)'
    BY <1>1, <1>2, <1>5, <2>1, <2>2 DEF Stands, StepsShown
  <2>5. OnTheWay(d + 1)'
    <3>1. Len(told') = worked' - (d + 1) + (IF gaveUp' /\ ~hasError' THEN 1 ELSE 0)
      BY <1>2, <1>3, <1>5, <1>6, <2>1
    <3>2. ASSUME NEW i \in 1..Len(told')
          PROVE  told'[i].step = (d + 1) + i /\ (told'[i].ok <=> ~(gaveUp' /\ i = Len(told')))
      <4>0. Len(told) \in Nat /\ Len(told') = Len(told) - 1 /\ i \in Int /\ 1 <= i /\ i <= Len(told) - 1
        BY <1>3
      <4>1. i + 1 \in 1..Len(told) /\ told'[i] = told[i + 1] /\ (i + 1 = Len(told) <=> i = Len(told'))
        <5>1. told'[i] = told[i + 1]
          BY <1>3
        <5>2. i + 1 \in 1..Len(told) /\ (i + 1 = Len(told) <=> i = Len(told) - 1)
          BY <4>0
        <5> QED BY <4>0, <5>1, <5>2
      <4>2. told[i + 1].step = d + (i + 1) /\ (told[i + 1].ok <=> ~(gaveUp /\ i + 1 = Len(told)))
        BY <1>4, <4>1
      <4>3. d + (i + 1) = (d + 1) + i
        BY <1>2, <1>3
      <4> QED BY <1>2, <4>1, <4>2, <4>3
    <3> QED BY <3>1, <3>2 DEF OnTheWay
  <2>6. Stands(d + 1)'
    BY <1>1, <1>2, <1>5, <2>1, <2>2, <2>4, <2>5, TargetsKnown DEF Stands
  <2> QED BY <1>2, <2>2, <2>3, <2>6 DEF LoadingInv
<1>8. CASE ~Head(told).ok
  <2>1. stepStatus' = [stepStatus EXCEPT ![d + 1] = "error"] /\ hasError' = TRUE /\ target' = target
    BY <1>2, <1>5, <1>8 DEF FailStep
  <2>2. gaveUp /\ Len(told) = 1 /\ worked = d /\ d + 1 \in 1..N /\ Len(told') = 0
    <3>1. gaveUp /\ Len(told) = 1
      BY <1>5, <1>8, Zenon
    <3> QED BY <1>2, <1>3, <1>6, <3>1
  <2>3. LoadingTypes'
    BY <1>2, <1>3, <2>1, <2>2 DEF LoadingInv, LoadingTypes
  <2>4. StepsShown(d)'
    BY <1>1, <1>2, <1>5, <2>1, <2>2 DEF Stands, StepsShown, LoadingInv, LoadingTypes
  <2>5. OnTheWay(d)'
    <3>1. Len(told') = worked' - d + (IF gaveUp' /\ ~hasError' THEN 1 ELSE 0)
      BY <1>2, <2>1, <2>2
    <3>2. 1..Len(told') = {}
      BY <2>2
    <3> QED BY <3>1, <3>2 DEF OnTheWay
  <2>6. Stands(d)'
    BY <1>1, <1>2, <2>1, <2>2, <2>4, <2>5 DEF Stands
  <2> QED BY <1>2, <2>3, <2>6 DEF LoadingInv
<1> QED BY <1>7, <1>8

LEMMA KeptByTickAnimation == ASSUME LoadingInv, TickAnimation PROVE LoadingInv'
<1>1. PICK d \in 0..N : Stands(d)
  BY DEF LoadingInv
<1>2. /\ outcome = "open" /\ N \in Nat \ {0} /\ d \in Nat
      /\ UNCHANGED <<stopping, worked, gaveUp, told, stepStatus, target, screenDone, hasError, outcome>>
      /\ UNCHANGED <<N, Targets>> /\ Full \in Nat \ {0} /\ Increment \in 1..Full
      /\ barShown' = IF barShown < target
                     THEN (IF barShown + Increment > target THEN target ELSE barShown + Increment) ELSE barShown
      /\ hold' = IF BarFull(barShown') /\ ~screenDone /\ ~hasError /\ hold = "no" THEN "running" ELSE hold
  BY TargetsKnown DEF TickAnimation, LoadingInv, LoadingTypes, N, Targets
<1>3. barShown \in 0..Full /\ target \in 0..Full /\ (hold # "no" => barShown = Full)
  BY DEF LoadingInv, LoadingTypes
<1>4. /\ barShown' \in 0..Full /\ (barShown = Full => barShown' = Full)
      /\ barShown' = Full => barShown = Full \/ target = Full
  BY <1>2, <1>3
<1>5. hold' \in {"no", "running", "over"} /\ (hold' # "no" => barShown' = Full)
  <2>1. CASE hold # "no"
    BY <1>2, <1>3, <1>4, <2>1 DEF LoadingInv, LoadingTypes
  <2>2. CASE hold = "no"
    <3>1. BarFull(barShown') => barShown' = Full
      BY <1>2, <1>4 DEF BarFull
    <3>2. hold' = "no" \/ (hold' = "running" /\ BarFull(barShown'))
      BY <1>2, <2>2
    <3> QED BY <3>1, <3>2
  <2> QED BY <2>1, <2>2
<1>6. LoadingTypes'
  BY <1>2, <1>4, <1>5 DEF LoadingInv, LoadingTypes
<1>7. target = Full => d = N
  BY <1>1, <1>2, TargetsKnown DEF Stands, LoadingInv, LoadingTypes
<1>8. StepsShown(d)' /\ OnTheWay(d)'
  BY <1>1, <1>2 DEF Stands, StepsShown, OnTheWay
<1>9. Stands(d)'
  BY <1>1, <1>2, <1>4, <1>7, <1>8 DEF Stands
<1> QED BY <1>2, <1>6, <1>9 DEF LoadingInv

LEMMA KeptByHoldDone == ASSUME LoadingInv, HoldDone \/ QuitKey PROVE LoadingInv'
<1>1. PICK d \in 0..N : Stands(d)
  BY DEF LoadingInv
<1>2. /\ outcome = "open" /\ outcome' \in {"open", "entered", "stopped", "cancelled"}
      /\ (outcome' \in {"entered", "stopped"} => hold = "running")
      /\ hold' \in {"no", "running", "over"} /\ (hold' # "no" => hold # "no")
      /\ UNCHANGED <<stopping, worked, gaveUp, told, stepStatus, target, barShown, hasError>>
      /\ UNCHANGED <<N, Targets>>
  BY DEF HoldDone, QuitKey, LoadingInv, LoadingTypes, N, Targets
<1>3. LoadingTypes'
  BY <1>2 DEF LoadingInv, LoadingTypes
<1>4. StepsShown(d)' /\ OnTheWay(d)'
  BY <1>1, <1>2 DEF Stands, StepsShown, OnTheWay
<1>5. Stands(d)'
  BY <1>1, <1>2, <1>4 DEF Stands, LoadingInv, LoadingTypes
<1> QED BY <1>2, <1>3, <1>5 DEF LoadingInv

LEMMA LoadingBegins == LoadingInit => LoadingInv
<1> SUFFICES ASSUME LoadingInit PROVE LoadingInv
  OBVIOUS
<1>1. /\ Full \in Nat \ {0} /\ N \in Nat \ {0} /\ told = << >> /\ told \in Seq([step : Nat, ok : BOOLEAN]) /\ Len(told) = 0
  BY EmptySeq, TargetsKnown DEF LoadingInit
<1>2. LoadingTypes
  <2>1. stopping \in BOOLEAN /\ gaveUp \in BOOLEAN /\ hasError \in BOOLEAN
    BY Zenon DEF LoadingInit
  <2>2. worked = 0 /\ target = 0 /\ barShown = 0 /\ hold = "no" /\ outcome = "open" /\ ~gaveUp /\ DOMAIN stepStatus = 1..N
    BY DEF LoadingInit
  <2>3. 0 \in 0..N /\ 0 \in 0..Full
    BY <1>1
  <2> QED BY <1>1, <2>1, <2>2, <2>3 DEF LoadingTypes
<1>3. StepsShown(0)
  BY <1>1 DEF LoadingInit, StepsShown
<1>4. OnTheWay(0)
  BY <1>1 DEF LoadingInit, OnTheWay
<1>5. Stands(0)
  BY <1>1, <1>3, <1>4 DEF LoadingInit, Stands
<1> QED BY <1>1, <1>2, <1>5 DEF LoadingInv

LEMMA LoadingStepKeeps == LoadingInv /\ [LoadingNext]_loadingVars => LoadingInv'
<1> SUFFICES ASSUME LoadingInv, [LoadingNext]_loadingVars PROVE LoadingInv'
  OBVIOUS
<1>1. CASE LoadingNext
  BY <1>1, KeptByWorkerStep, KeptByStepTold, KeptByTickAnimation, KeptByHoldDone DEF LoadingNext, LoadingStep
<1>2. CASE UNCHANGED loadingVars
  <2>1. PICK d \in 0..N : Stands(d)
    BY DEF LoadingInv
  <2>2. UNCHANGED <<N, Targets>>
    BY <1>2 DEF loadingVars, N, Targets
  <2>3. LoadingTypes'
    BY <1>2, <2>2 DEF loadingVars, LoadingInv, LoadingTypes
  <2>4. Stands(d)'
    BY <1>2, <2>1, <2>2 DEF loadingVars, Stands, StepsShown, OnTheWay
  <2> QED BY <2>2, <2>3, <2>4 DEF LoadingInv
<1> QED BY <1>1, <1>2

LEMMA LoadingTells == LoadingInv => LoadingTypeOK /\ ReadyIsReady /\ OneStepAtATime
<1> SUFFICES ASSUME LoadingInv PROVE LoadingTypeOK /\ ReadyIsReady /\ OneStepAtATime
  OBVIOUS
<1>1. PICK d \in 0..N : Stands(d)
  BY DEF LoadingInv
<1>2. N \in Nat \ {0} /\ worked \in 0..N /\ d \in Nat /\ d <= worked /\ (gaveUp => worked < N)
  BY <1>1, TargetsKnown DEF LoadingInv, LoadingTypes, Stands
<1>3. Len(told) <= N
  BY <1>1, <1>2 DEF Stands, OnTheWay
<1>4. LoadingTypeOK
  BY <1>3 DEF LoadingInv, LoadingTypes, LoadingTypeOK
<1>5. ReadyIsReady
  <2> SUFFICES ASSUME outcome \in {"entered", "stopped"}
               PROVE  worked = N /\ ~gaveUp /\ \A i \in 1..N : stepStatus[i] = "done"
    BY DEF ReadyIsReady
  <2>1. d = N /\ worked = N
    BY <1>1, <1>2 DEF Stands
  <2>2. ~gaveUp
    BY <1>2, <2>1
  <2>3. \A i \in 1..N : stepStatus[i] = "done"
    BY <1>1, <1>2, <2>1 DEF Stands, StepsShown
  <2> QED BY <2>1, <2>2, <2>3
<1>6. ASSUME NEW i \in 1..N, stepStatus[i] \in {"running", "error"} \/ (stepStatus[i] = "pending" /\ i > 1)
      PROVE  /\ \A k \in 1..N : k > i => stepStatus[k] = "pending"
             /\ stepStatus[i] = "pending" => stepStatus[i - 1] # "done"
  <2>1. StepsShown(d)
    BY <1>1 DEF Stands
  <2>2. i > d
    BY <1>2, <1>6, <2>1 DEF StepsShown
  <2>3. \A k \in 1..N : k > i => stepStatus[k] = "pending"
    BY <1>2, <2>1, <2>2 DEF StepsShown
  <2>4. stepStatus[i] = "pending" => stepStatus[i - 1] # "done"
    <3> SUFFICES ASSUME stepStatus[i] = "pending" PROVE stepStatus[i - 1] # "done"
      OBVIOUS
    <3>1. i > d + 1
      BY <1>2, <2>1, <2>2 DEF StepsShown
    <3>2. i - 1 \in 1..N /\ i - 1 > d
      BY <1>2, <3>1
    <3> QED BY <1>2, <2>1, <3>2 DEF StepsShown
  <2> QED BY <2>3, <2>4
<1> QED BY <1>4, <1>5, <1>6 DEF OneStepAtATime

-----------------------------------------------------------------------------
(***************************************************************************)
(* The root and the Containers tab.  What a dialog asks about is the order  *)
(* that was shown last, and an order that is shown is touched by no result. *)
(***************************************************************************)
Containers == Barrels \cup {Proxy}
OrderRec == [action : {"none", "stop", "restart"}, name : Containers,
             at : {"requested", "shown", "confirmed", "working", "acted", "end"}, ok : BOOLEAN]
RowsInside == rows \in Seq(Containers) /\ rowSel \in Nat \ {0} /\ (rows # << >> => rowSel <= Len(rows))
ModalTypes == tuiModal \in [kind : {"none", "exit", "stop", "restart", "info"}, confirm : BOOLEAN, about : Nat]
OrderTypes == orders \in Seq(OrderRec) /\ asked \in 0..Len(orders)
DockerTypes == running \subseteq Containers /\ (poll # {"off"} => poll \subseteq Containers)
Asks == tuiModal.kind \in {"stop", "restart"} =>
          /\ asked # 0 /\ asked = tuiModal.about
          /\ orders[asked].action = tuiModal.kind /\ orders[asked].at = "shown"

ShellInv == activeTab \in Range(Tabs) /\ RowsInside /\ ModalTypes /\ OrderTypes /\ DockerTypes /\ Asks

(* The rows of a poll are containers.                                        *)
LEMMA ListedRows == ASSUME NEW names \in SUBSET Containers PROVE Listed(names) \in Seq(Containers)
<1> DEFINE others == names \ {Proxy}
<1>1. IsFiniteSet(others)
  <2>1. others \subseteq Barrels
    BY DEF Containers
  <2> QED BY <2>1, ShellAssumption, FS_Subset
<1>2. Cardinality(others) \in Nat /\ ExistsBijection(1..Cardinality(others), others)
  BY <1>1, FS_CardinalityType
<1>3. \E f \in [1..Cardinality(others) -> others] : IsInjective(f)
  BY <1>2 DEF ExistsBijection, Bijection, Injection
<1>4. SetToSeq(others) \in [1..Cardinality(others) -> others]
  BY <1>3 DEF SetToSeq
<1>5. SetToSeq(others) \in Seq(Containers)
  <2>1. SetToSeq(others) \in [1..Cardinality(others) -> Containers]
    BY <1>4
  <2> QED BY <1>2, <2>1, FunctionIsSeq
<1>6. <<Proxy>> \in Seq(Containers) /\ << >> \in Seq(Containers)
  <2>1. Proxy \in Containers
    BY DEF Containers
  <2> QED BY <2>1, EmptySeq
<1> HIDE DEF others
<1> QED BY <1>5, <1>6, ConcatProperties DEF Listed, others

(* A row that is removed leaves rows.                                        *)
LEMMA RowRemoved == ASSUME NEW s \in Seq(Containers), NEW e PROVE RemoveFirst(s, e) \in Seq(Containers)
<1>1. Len(s) \in Nat /\ DOMAIN s = 1..Len(s)
  BY LenProperties
<1>2. CASE \E i \in 1..Len(s) : s[i] = e
  <2> DEFINE places == {i \in 1..Len(s) : s[i] = e}
             k == SelectInSeq(s, LAMBDA v : v = e)
  <2>1. k \in 1..Len(s)
    <3>1. places # {} /\ places \subseteq Nat
      BY <1>1, <1>2
    <3>2. \E i \in places : \A j \in places : i <= j
      BY <3>1, NatSetMin
    <3>3. Min(places) \in places
      BY <3>2 DEF Min
    <3> QED BY <3>1, <3>3 DEF SelectInSeq
  <2> HIDE DEF k
  <2>2. RemoveFirst(s, e) = Dropped(s, k)
    BY <1>2 DEF RemoveFirst, RemoveAt, Dropped, k
  <2> QED BY <1>1, <2>1, <2>2, DropPlaces
<1>3. CASE ~\E i \in 1..Len(s) : s[i] = e
  BY <1>3 DEF RemoveFirst
<1> QED BY <1>2, <1>3

LEMMA InsideRows ==
  ASSUME NEW s \in Nat \ {0}, NEW rs \in Seq(Containers)
  PROVE  Inside(s, rs) \in Nat \ {0} /\ (rs # << >> => Inside(s, rs) <= Len(rs))
<1>1. Len(rs) \in Nat /\ (rs = << >> <=> Len(rs) = 0)
  BY LenProperties, EmptySeq
<1> QED BY <1>1 DEF Inside

(* What changes of an order.                                                 *)
LEMMA OrderReplaced ==
  ASSUME OrderTypes, NEW i \in DOMAIN orders, NEW r \in OrderRec, orders' = [orders EXCEPT ![i] = r]
  PROVE  /\ orders' \in Seq(OrderRec) /\ Len(orders') = Len(orders) /\ DOMAIN orders' = DOMAIN orders
         /\ orders'[i] = r /\ \A j \in DOMAIN orders \ {i} : orders'[j] = orders[j]
BY ReplaceOne DEF OrderTypes

LEMMA OrderTurns ==
  ASSUME OrderTypes, NEW i \in DOMAIN orders, NEW stage, Turns(i, stage),
         stage \in {"shown", "confirmed", "working"}
  PROVE  /\ orders[i] \in OrderRec
         /\ \E r \in OrderRec : /\ orders' = [orders EXCEPT ![i] = r]
                                /\ r.action = orders[i].action /\ r.at = stage
<1>1. orders[i] \in OrderRec
  BY LenProperties, ElementOfSeq DEF OrderTypes
<1> DEFINE r == [orders[i] EXCEPT !.at = stage]
<1>2. r \in OrderRec /\ r.action = orders[i].action /\ r.at = stage
  BY <1>1 DEF OrderRec
<1>3. orders' = [orders EXCEPT ![i] = r]
  BY DEF Turns
<1> HIDE DEF r
<1> QED BY <1>1, <1>2, <1>3

LEMMA OrderForgotten ==
  ASSUME OrderTypes, NEW i \in DOMAIN orders, OrderEnds(i)
  PROVE  OrderOver \in OrderRec /\ orders' = [orders EXCEPT ![i] = OrderOver]
<1>1. OrderOver \in OrderRec
  BY DEF OrderOver, OrderRec, Containers
<1> QED BY <1>1 DEF OrderEnds

(* An order that is not the one asked about may change.                      *)
LEMMA AsksKept ==
  ASSUME ShellInv, NEW i \in DOMAIN orders, orders[i].at # "shown", NEW r \in OrderRec,
         orders' = [orders EXCEPT ![i] = r], UNCHANGED rootVars
  PROVE  activeTab' \in Range(Tabs) /\ ModalTypes' /\ OrderTypes' /\ Asks'
<1>1. /\ orders' \in Seq(OrderRec) /\ Len(orders') = Len(orders) /\ DOMAIN orders' = DOMAIN orders
      /\ orders'[i] = r /\ \A j \in DOMAIN orders \ {i} : orders'[j] = orders[j]
  BY OrderReplaced DEF ShellInv
<1>2. UNCHANGED <<activeTab, tuiModal, asked>>
  BY DEF rootVars
<1>3. OrderTypes'
  BY <1>1, <1>2 DEF ShellInv, OrderTypes
<1>4. ASSUME tuiModal.kind \in {"stop", "restart"} PROVE orders'[asked] = orders[asked]
  <2>1. asked # 0 /\ orders[asked].at = "shown" /\ asked \in DOMAIN orders
    BY <1>4, LenProperties DEF ShellInv, Asks, OrderTypes
  <2> QED BY <1>1, <2>1
<1>5. Asks'
  BY <1>2, <1>4 DEF ShellInv, Asks
<1> QED BY <1>2, <1>3, <1>5 DEF ShellInv, ModalTypes

LEMMA KeptByRequest == ASSUME ShellInv, NEW action \in {"stop", "restart"}, RequestAction(action) PROVE ShellInv'
<1> DEFINE r == [action |-> action, name |-> rows[rowSel], at |-> "requested", ok |-> FALSE]
<1>1. orders' = Append(orders, r) /\ UNCHANGED <<activeTab, tuiModal, asked, rows, rowSel, poll, running>>
  BY DEF RequestAction, rootVars, containerVars
<1>2. r \in OrderRec
  <2>1. rows[rowSel] \in Containers
    BY ElementOfSeq, LenProperties DEF RequestAction, ShellInv, RowsInside
  <2> QED BY <2>1 DEF OrderRec
<1> HIDE DEF r
<1>3. /\ orders' \in Seq(OrderRec) /\ Len(orders') = Len(orders) + 1 /\ Len(orders) \in Nat
      /\ DOMAIN orders = 1..Len(orders) /\ \A j \in 1..Len(orders) : orders'[j] = orders[j]
  BY <1>1, <1>2, AppendProperties, LenProperties DEF ShellInv, OrderTypes
<1>4. OrderTypes'
  BY <1>1, <1>3 DEF ShellInv, OrderTypes
<1>5. Asks'
  <2>1. asked # 0 => orders'[asked] = orders[asked]
    BY <1>3 DEF ShellInv, OrderTypes
  <2> QED BY <1>1, <2>1 DEF ShellInv, Asks
<1> QED BY <1>1, <1>4, <1>5 DEF ShellInv, RowsInside, ModalTypes, DockerTypes

LEMMA KeptByTabs == ASSUME ShellInv, NEW d \in {-1, 1}, SwitchTab(d) \/ SelectRow(d) PROVE ShellInv'
<1>1. CASE SwitchTab(d)
  <2> DEFINE n == Len(Tabs)
             i == CHOOSE k \in 1..n : Tabs[k] = activeTab
             k == ((i - 1 + d + n) % n) + 1
  <2>1. n \in Nat /\ n > 0 /\ \E l \in 1..n : Tabs[l] = activeTab
    <3>1. Tabs \in Seq(Range(Tabs)) /\ activeTab \in Range(Tabs)
      BY ShellAssumption DEF ShellInv
    <3>2. n \in Nat /\ DOMAIN Tabs = 1..n
      BY <3>1, LenProperties
    <3>3. PICK l \in 1..n : Tabs[l] = activeTab
      BY <3>1, <3>2 DEF Range
    <3> QED BY <3>2, <3>3
  <2>2. i \in 1..n
    BY <2>1
  <2> HIDE DEF i, n
  <2>3. k \in 1..n
    BY <2>1, <2>2
  <2> HIDE DEF k
  <2>4. Tabs[k] \in Range(Tabs)
    BY <2>3, ShellAssumption, LenProperties DEF Range, n
  <2>5. activeTab' = Tabs[k] /\ UNCHANGED <<tuiModal, asked, orders, rows, rowSel, poll, running>>
    BY <1>1 DEF SwitchTab, containerVars, n, i, k
  <2> QED BY <2>4, <2>5 DEF ShellInv, RowsInside, ModalTypes, OrderTypes, DockerTypes, Asks
<1>2. CASE SelectRow(d)
  <2>1. rowSel' \in DOMAIN rows /\ UNCHANGED <<activeTab, tuiModal, asked, orders, rows, poll, running>>
    BY <1>2 DEF SelectRow, rootVars
  <2>2. rowSel' \in 1..Len(rows) /\ Len(rows) \in Nat
    BY <2>1, LenProperties DEF ShellInv, RowsInside
  <2>3. RowsInside'
    BY <2>1, <2>2 DEF ShellInv, RowsInside
  <2> QED BY <2>1, <2>3 DEF ShellInv, ModalTypes, OrderTypes, DockerTypes, Asks
<1> QED BY <1>1, <1>2

LEMMA KeptByDialog ==
  ASSUME ShellInv, ShowExitModal \/ ToggleFocus \/ DismissDialog \/ ConfirmDialog \/ ShowInfoModal
  PROVE  ShellInv'
<1>1. UNCHANGED <<activeTab, rows, rowSel, poll, running>>
  BY DEF ShowExitModal, ToggleFocus, DismissDialog, ConfirmDialog, ShowInfoModal, containerVars
<1>2. CASE ShowExitModal \/ DismissDialog \/ ShowInfoModal
  <2>1. /\ tuiModal'.kind \notin {"stop", "restart"} /\ orders' = orders /\ (asked' = asked \/ asked' = 0)
        /\ ModalTypes'
    <3>1. CASE ShowExitModal
      BY <3>1 DEF ShowExitModal, NewModal, ModalTypes
    <3>2. CASE DismissDialog
      BY <3>2 DEF DismissDialog, NoModal, ModalTypes
    <3>3. CASE ShowInfoModal
      BY <3>3 DEF ShowInfoModal, NewModal, ModalTypes
    <3> QED BY <1>2, <3>1, <3>2, <3>3
  <2>2. OrderTypes'
    BY <2>1, LenProperties DEF ShellInv, OrderTypes
  <2> QED BY <1>1, <2>1, <2>2 DEF ShellInv, RowsInside, DockerTypes, Asks
<1>3. CASE ToggleFocus
  <2>1. /\ ModalTypes' /\ tuiModal'.kind = tuiModal.kind /\ tuiModal'.about = tuiModal.about
        /\ UNCHANGED <<orders, asked>>
    BY <1>3 DEF ToggleFocus, ShellInv, ModalTypes
  <2> QED BY <1>1, <2>1 DEF ShellInv, RowsInside, DockerTypes, Asks, OrderTypes
<1>4. CASE ConfirmDialog
  <2>1. /\ tuiModal'.kind \notin {"stop", "restart"} /\ ModalTypes'
        /\ \/ orders' = orders /\ (asked' = asked \/ asked' = 0)
           \/ asked' = 0 /\ asked # 0 /\ Turns(asked, "confirmed")
    BY <1>4 DEF ConfirmDialog, NoModal, ModalTypes
  <2>2. OrderTypes'
    <3>1. CASE orders' = orders /\ (asked' = asked \/ asked' = 0)
      BY <3>1, LenProperties DEF ShellInv, OrderTypes
    <3>2. CASE asked' = 0 /\ asked # 0 /\ Turns(asked, "confirmed")
      <4>1. OrderTypes /\ asked \in DOMAIN orders
        BY <3>2, LenProperties DEF ShellInv, OrderTypes
      <4>2. PICK r \in OrderRec : orders' = [orders EXCEPT ![asked] = r]
        BY <3>2, <4>1, OrderTurns
      <4>3. orders' \in Seq(OrderRec)
        BY <4>1, <4>2, OrderReplaced
      <4> QED BY <3>2, <4>3, LenProperties DEF OrderTypes
    <3> QED BY <2>1, <3>1, <3>2
  <2> QED BY <1>1, <2>1, <2>2 DEF ShellInv, RowsInside, DockerTypes, Asks
<1> QED BY <1>2, <1>3, <1>4

LEMMA KeptByMessage == ASSUME ShellInv, NEW i \in DOMAIN orders, Delivered(i) PROVE ShellInv'
<1>0. OrderTypes /\ orders[i] \in OrderRec
  BY ElementOfSeq, LenProperties DEF ShellInv, OrderTypes
<1>1. CASE ShowActionModal(i)
  <2>1. PICK r \in OrderRec : /\ orders' = [orders EXCEPT ![i] = r]
                              /\ r.action = orders[i].action /\ r.at = "shown"
    BY <1>0, <1>1, OrderTurns DEF ShowActionModal
  <2>2. /\ orders' \in Seq(OrderRec) /\ Len(orders') = Len(orders) /\ orders'[i] = r
    BY <1>0, <2>1, OrderReplaced
  <2>3. /\ asked' = i /\ tuiModal' = [kind |-> orders[i].action, confirm |-> TRUE, about |-> i]
        /\ UNCHANGED <<activeTab, rows, rowSel, poll, running>>
    BY <1>1 DEF ShowActionModal, NewModal, containerVars
  <2>4. i \in 1..Len(orders) /\ Len(orders) \in Nat
    BY <1>0, LenProperties DEF OrderTypes
  <2>5. OrderTypes'
    BY <2>2, <2>3, <2>4 DEF OrderTypes
  <2>6. ModalTypes'
    BY <1>0, <2>3, <2>4 DEF ModalTypes, OrderRec
  <2>7. Asks'
    BY <2>1, <2>2, <2>3, <2>4 DEF Asks
  <2> QED BY <2>3, <2>5, <2>6, <2>7 DEF ShellInv, RowsInside, DockerTypes
<1>2. CASE ConfirmedAction(i)
  <2>1. orders[i].at # "shown" /\ UNCHANGED <<rootVars, rows, rowSel, poll, running>>
    BY <1>2 DEF ConfirmedAction, IsAt
  <2>2. PICK r \in OrderRec : orders' = [orders EXCEPT ![i] = r]
    BY <1>0, <1>2, OrderTurns, OrderForgotten DEF ConfirmedAction
  <2> QED BY <2>1, <2>2, AsksKept DEF ShellInv, RowsInside, DockerTypes
<1>3. CASE DockerActs(i)
  <2>1. /\ orders[i].at # "shown" /\ UNCHANGED <<rootVars, rows, rowSel, poll>> /\ running' \subseteq running
    BY <1>3 DEF DockerActs, IsAt, containerVars
  <2>2. PICK ok \in BOOLEAN : orders' = [orders EXCEPT ![i].at = "acted", ![i].ok = ok]
    BY <1>3 DEF DockerActs
  <2> DEFINE r == [[orders[i] EXCEPT !.at = "acted"] EXCEPT !.ok = ok]
  <2>3. r \in OrderRec
    BY <1>0 DEF OrderRec
  <2>4. orders' = [orders EXCEPT ![i] = r]
    BY <1>0, <2>2
  <2> HIDE DEF r
  <2> QED BY <2>1, <2>3, <2>4, AsksKept DEF ShellInv, RowsInside, DockerTypes
<1>4. CASE ActionResult(i)
  <2>1. orders[i].at # "shown" /\ UNCHANGED <<rootVars, poll, running>> /\ OrderEnds(i)
    BY <1>4 DEF ActionResult, IsAt
  <2>2. OrderOver \in OrderRec /\ orders' = [orders EXCEPT ![i] = OrderOver]
    BY <1>0, <2>1, OrderForgotten
  <2>3. RowsInside'
    <3>1. CASE activeTab # Home
      BY <1>4, <3>1 DEF ActionResult, containerVars, ShellInv, RowsInside
    <3>2. CASE activeTab = Home
      <4>1. /\ rows' \in {rows, RemoveFirst(rows, orders[i].name)} /\ rowSel' = Inside(rowSel, rows')
        BY <1>4, <3>2 DEF ActionResult
      <4>2. rows' \in Seq(Containers)
        BY <4>1, RowRemoved DEF ShellInv, RowsInside
      <4>3. PICK rs \in Seq(Containers) : rs = rows'
        BY <4>2
      <4> QED BY <4>1, <4>3, InsideRows DEF ShellInv, RowsInside
    <3> QED BY <3>1, <3>2
  <2> QED BY <2>1, <2>2, <2>3, AsksKept DEF ShellInv, DockerTypes
<1> QED BY <1>1, <1>2, <1>3, <1>4 DEF Delivered

LEMMA KeptByPoll == ASSUME ShellInv, Polls PROVE ShellInv'
<1>1. CASE PollStats
  <2>1. poll' = running /\ UNCHANGED <<activeTab, tuiModal, asked, orders, rows, rowSel, running>>
    BY <1>1 DEF PollStats, rootVars, containerVars
  <2> QED BY <2>1 DEF ShellInv, RowsInside, ModalTypes, OrderTypes, DockerTypes, Asks
<1>2. CASE ApplyStats
  <2>1. /\ rows' = Listed(poll) /\ rowSel' = Inside(rowSel, rows') /\ poll # {"off"} /\ poll' = {"off"}
        /\ UNCHANGED <<activeTab, tuiModal, asked, orders, running>>
    BY <1>2 DEF ApplyStats, rootVars
  <2>2. PICK rs \in Seq(Containers) : rs = Listed(poll)
    BY <2>1, ListedRows DEF ShellInv, DockerTypes
  <2>3. RowsInside'
    BY <2>1, <2>2, InsideRows DEF ShellInv, RowsInside
  <2> QED BY <2>1, <2>3 DEF ShellInv, ModalTypes, OrderTypes, DockerTypes, Asks
<1> QED BY <1>1, <1>2 DEF Polls

LEMMA ShellBegins == ShellInit => ShellInv
<1> SUFFICES ASSUME ShellInit PROVE ShellInv
  OBVIOUS
<1>1. running = Containers /\ activeTab \in Range(Tabs)
  BY ShellAssumption DEF ShellInit, Containers
<1>2. RowsInside
  <2>1. PICK rs \in Seq(Containers) : rs = Listed(running)
    BY <1>1, ListedRows
  <2>2. rows \in Seq(Containers) /\ rowSel = 1
    BY <2>1, EmptySeq DEF ShellInit
  <2> QED BY <2>2, LenProperties, EmptySeq DEF RowsInside
<1>3. OrderTypes
  BY EmptySeq DEF ShellInit, OrderTypes
<1>4. ModalTypes /\ Asks
  BY DEF ShellInit, NoModal, ModalTypes, Asks
<1>5. DockerTypes
  BY <1>1 DEF ShellInit, DockerTypes
<1> QED BY <1>1, <1>2, <1>3, <1>4, <1>5 DEF ShellInv

LEMMA ShellStepKeeps == ShellInv /\ [ShellNext]_shellVars => ShellInv'
<1> SUFFICES ASSUME ShellInv, [ShellNext]_shellVars PROVE ShellInv'
  OBVIOUS
<1>1. CASE ShellKeys
  BY <1>1, KeptByTabs, KeptByRequest, KeptByDialog DEF ShellKeys
<1>2. CASE ShellMessages \/ Polls \/ ShowInfoModal
  BY <1>2, KeptByMessage, KeptByPoll, KeptByDialog DEF ShellMessages
<1>3. CASE \E b \in Barrels : BarrelEnds(b)
  <2>1. /\ running' \subseteq running /\ UNCHANGED <<activeTab, tuiModal, asked, orders, rows, rowSel, poll>>
    BY <1>3 DEF BarrelEnds, rootVars, containerVars
  <2> QED BY <2>1 DEF ShellInv, RowsInside, ModalTypes, OrderTypes, DockerTypes, Asks
<1>4. CASE UNCHANGED shellVars
  BY <1>4 DEF shellVars, rootVars, containerVars, ShellInv, RowsInside, ModalTypes, OrderTypes, DockerTypes, Asks
<1> QED BY <1>1, <1>2, <1>3, <1>4 DEF ShellNext

LEMMA ShellTells == ShellInv => ShellTypeOK /\ AsksWhatItDoes
<1> SUFFICES ASSUME ShellInv PROVE ShellTypeOK /\ AsksWhatItDoes
  OBVIOUS
<1>1. Range(rows) \subseteq Containers
  BY ElementOfSeq, LenProperties DEF ShellInv, RowsInside, Range
<1>2. rows # << >> => rowSel \in DOMAIN rows
  BY LenProperties DEF ShellInv, RowsInside
<1> QED BY <1>1, <1>2 DEF ShellInv, ModalTypes, OrderTypes, Asks, ShellTypeOK, AsksWhatItDoes, IsAt, Containers

(* An order turns to "confirmed" under its own dialog only, the focus on its *)
(* button: a step that is not the confirmation confirms nothing.             *)
LEMMA ShellStepConfirms ==
  ASSUME ShellInv, [ShellNext]_shellVars, NEW i \in DOMAIN orders,
         orders[i].at # "confirmed", orders'[i].at = "confirmed"
  PROVE  tuiModal = [kind |-> orders[i].action, confirm |-> TRUE, about |-> i]
<1>1. ASSUME NEW j \in DOMAIN orders, NEW r, orders' = [orders EXCEPT ![j] = r] PROVE j = i /\ r.at = "confirmed"
  <2>1. orders'[i] = IF i = j THEN r ELSE orders[i]
    BY <1>1
  <2> QED BY <2>1
<1>2. orders' # orders
  OBVIOUS
<1>3. ConfirmDialog
  <2>1. ~(\E a \in {"stop", "restart"} : RequestAction(a))
    <3> SUFFICES ASSUME NEW a \in {"stop", "restart"}, RequestAction(a) PROVE FALSE
      OBVIOUS
    <3>1. /\ Len(orders) \in Nat /\ DOMAIN orders = 1..Len(orders)
          /\ \E r : orders' = Append(orders, r)
      BY LenProperties DEF RequestAction, ShellInv, OrderTypes
    <3>2. orders'[i] = orders[i]
      BY <3>1
    <3> QED BY <3>2
  <2>2. ~ShellMessages
    <3> SUFFICES ASSUME NEW j \in DOMAIN orders, Delivered(j) PROVE FALSE
      BY DEF ShellMessages
    <3>0. OrderTypes
      BY DEF ShellInv
    <3>1. CASE ShowActionModal(j)
      <4>1. PICK r \in OrderRec : orders' = [orders EXCEPT ![j] = r] /\ r.at = "shown"
        BY <3>0, <3>1, OrderTurns DEF ShowActionModal
      <4> QED BY <1>1, <4>1
    <3>2. CASE ConfirmedAction(j)
      <4>1. (\E r \in OrderRec : orders' = [orders EXCEPT ![j] = r] /\ r.at = "working") \/ OrderEnds(j)
        BY <3>0, <3>2, OrderTurns DEF ConfirmedAction
      <4> QED BY <1>1, <4>1 DEF OrderEnds, OrderOver
    <3>3. CASE DockerActs(j)
      <4>1. PICK ok \in BOOLEAN : orders' = [orders EXCEPT ![j].at = "acted", ![j].ok = ok]
        BY <3>3 DEF DockerActs
      <4>2. orders[j] \in OrderRec
        BY <3>0, ElementOfSeq, LenProperties DEF OrderTypes
      <4> DEFINE r == [[orders[j] EXCEPT !.at = "acted"] EXCEPT !.ok = ok]
      <4>3. r.at = "acted" /\ orders' = [orders EXCEPT ![j] = r]
        BY <4>1, <4>2 DEF OrderRec
      <4> HIDE DEF r
      <4> QED BY <1>1, <4>3
    <3>4. CASE ActionResult(j)
      BY <1>1, <3>4 DEF ActionResult, OrderEnds, OrderOver
    <3> QED BY <3>1, <3>2, <3>3, <3>4 DEF Delivered
  <2> QED BY <1>2, <2>1, <2>2 DEF ShellNext, ShellKeys, SwitchTab, SelectRow, ShowExitModal, ToggleFocus,
          DismissDialog, ShowInfoModal, Polls, PollStats, ApplyStats, BarrelEnds, shellVars
<1>4. /\ tuiModal.kind \in {"stop", "restart"} /\ tuiModal.confirm /\ asked # 0 /\ Turns(asked, "confirmed")
  BY <1>2, <1>3 DEF ConfirmDialog, EnterConfirms
<1>5. asked \in DOMAIN orders /\ asked = tuiModal.about /\ orders[asked].action = tuiModal.kind
  BY <1>4, LenProperties DEF ShellInv, OrderTypes, Asks
<1>6. asked = i
  <2>1. PICK r \in OrderRec : orders' = [orders EXCEPT ![asked] = r]
    BY <1>4, <1>5, OrderTurns DEF ShellInv
  <2> QED BY <1>1, <1>5, <2>1
<1> QED BY <1>4, <1>5, <1>6 DEF ShellInv, ModalTypes

(* Nothing is stopped or restarted but what a dialog named (app.go).         *)
THEOREM NothingUnasked == ShellSpec => OnlyConfirmed
<1>1. ShellInv /\ [ShellNext]_shellVars =>
        [\A i \in DOMAIN orders :
           orders[i].at # "confirmed" /\ orders'[i].at = "confirmed" =>
             tuiModal = [kind |-> orders[i].action, confirm |-> TRUE, about |-> i]]_shellVars
  BY ShellStepConfirms
<1> QED BY <1>1, ShellBegins, ShellStepKeeps, PTL DEF ShellSpec, OnlyConfirmed

-----------------------------------------------------------------------------
(* The panel tells what is: its modal names the order it confirms, its rows  *)
(* are containers, the header shows what the barrels are served, and the     *)
(* loading screen how far the steps are (app.go, loading/model.go).          *)
THEOREM PanelIsTold == ShellSpec /\ HeaderSpec /\ LoadingSpec => []PanelTells
<1>1. ShellInv /\ HeaderInv /\ LoadingInv => PanelTells
  BY ShellTells, HeaderTells, LoadingTells, DropsFound DEF PanelTells
<1>2. ShellSpec => []ShellInv
  BY ShellBegins, ShellStepKeeps, PTL DEF ShellSpec
<1>3. HeaderSpec => []HeaderInv
  BY HeaderBegins, HeaderStepKeeps, PTL DEF HeaderSpec
<1>4. LoadingSpec => []LoadingInv
  BY LoadingBegins, LoadingStepKeeps, PTL DEF LoadingSpec
<1> QED BY <1>1, <1>2, <1>3, <1>4, PTL

-----------------------------------------------------------------------------
(***************************************************************************)
(* The lists.  ListsSound wants its types alone (ListTypes): every change   *)
(* of the rows or of the selection puts the window around it again, and     *)
(* where that leaves it is arithmetic (WindowShows, ThumbStays).            *)
(***************************************************************************)
EntryTypes ==
  /\ hasDetail \in BOOLEAN /\ entries \in Seq(Int) /\ capacity \in Nat /\ come \in Nat
  /\ sel \in Nat /\ off \in Nat /\ listHeight \in Nat
LineTypes ==
  /\ lines \in 0..MaxLines /\ gone \in Nat /\ top \in 0..Total /\ lastHeight \in Nat
InCapacity ==
  Len(entries) <= capacity /\ sel \in 0..AtLeast(Len(entries) - 1, 0) /\ off \in 0..Len(entries)

ListInv == EntryTypes /\ LineTypes /\ InCapacity /\ NewestKept /\ SelectedShown /\ TailFollowed

LEMMA PrefixFacts ==
  ASSUME NEW s \in Seq(Int), NEW n \in Nat
  PROVE  /\ Prefix(s, n) \in Seq(Int) /\ Len(Prefix(s, n)) = AtMost(Len(s), n)
         /\ \A i \in 1..Len(Prefix(s, n)) : Prefix(s, n)[i] = s[i] /\ i \in 1..Len(s)
<1>1. /\ Len(s) \in Nat /\ \A i \in 1..Len(s) : s[i] \in Int
      /\ AtMost(Len(s), n) \in Nat /\ AtMost(Len(s), n) <= Len(s)
  BY LenProperties DEF AtMost
<1> DEFINE k == AtMost(Len(s), n)
<1> HIDE DEF k
<1>2. k \in Nat /\ k <= Len(s)
  BY <1>1 DEF k
<1>3. \A i \in 1..k : s[i] \in Int
  BY <1>1, <1>2
<1>4. /\ SubSeq(s, 1, k) \in Seq(Int) /\ Len(SubSeq(s, 1, k)) = IF 1 <= k THEN k - 1 + 1 ELSE 0
      /\ \A i \in 1..(k - 1 + 1) : SubSeq(s, 1, k)[i] = s[1 + i - 1]
  BY <1>2, <1>3, SubSeqProperties
<1>5. Len(SubSeq(s, 1, k)) = k /\ \A i \in 1..k : SubSeq(s, 1, k)[i] = s[i]
  BY <1>2, <1>4
<1> QED BY <1>1, <1>2, <1>4, <1>5 DEF Prefix, k

(* clampScroll puts the window where the selected row is in it.             *)
LEMMA WindowShows ==
  ASSUME NEW o \in Nat, NEW n \in Nat, NEW s \in 0..AtLeast(n - 1, 0), listHeight \in Nat
  PROVE  /\ Clamped(o, s, n) \in 0..n
         /\ n > 0 /\ listHeight > 0 =>
              /\ s >= Clamped(o, s, n) /\ s < Clamped(o, s, n) + listHeight
              /\ Clamped(o, s, n) + listHeight <= AtLeast(n, listHeight)
  BY DEF Clamped, AtLeast, AtMost

(* The thumb of the scroll bar: its length and its place are quotients.     *)
LEMMA ThumbStays ==
  ASSUME NEW total \in Nat, NEW offset \in Nat, NEW visible \in Nat \ {0}, total > visible
  PROVE  LET t == Thumb(total, offset, visible) IN
         /\ t.pos >= 0 /\ t.pos + t.size <= visible
         /\ offset = 0 => t.pos = 0
         /\ offset = total - visible => t.pos + t.size = visible
<1> DEFINE size == AtLeast((visible * visible) \div total, 1)
           pos == AtLeast((offset * (visible - size)) \div AtLeast(total - visible, 1), 0)
<1>1. (visible * visible) \div total \in Nat /\ (visible * visible) \div total <= visible
  OBVIOUS
<1>2. size \in 1..visible
  BY <1>1 DEF AtLeast
<1> HIDE DEF size
<1>3. PICK rest \in Nat : rest = visible - size
  BY <1>2
<1>4. PICK hidden \in Nat \ {0} : hidden = total - visible /\ AtLeast(total - visible, 1) = hidden
  BY DEF AtLeast
<1>5. /\ (offset * rest) \div hidden \in Nat
      /\ offset = 0 => (offset * rest) \div hidden = 0
      /\ offset = hidden => (offset * rest) \div hidden = rest
  OBVIOUS
<1>6. pos = (offset * rest) \div hidden
  BY <1>3, <1>4, <1>5 DEF AtLeast
<1> HIDE DEF pos
<1>7. Thumb(total, offset, visible) = [size |-> size, pos |-> IF pos + size > visible THEN visible - size ELSE pos]
  BY DEF Thumb, size, pos
<1>8. /\ Thumb(total, offset, visible).size = size
      /\ Thumb(total, offset, visible).pos = IF pos + size > visible THEN visible - size ELSE pos
  BY <1>7
<1>9. pos \in Nat /\ (offset = 0 => pos = 0) /\ (offset = total - visible => pos = visible - size)
  BY <1>3, <1>4, <1>5, <1>6
<1> QED BY <1>2, <1>8, <1>9

(* SetItems of the newest so many entries.                                   *)
LEMMA ItemsSet ==
  ASSUME EntryTypes, NEW items \in Seq(Int), Len(items) <= capacity', listHeight' = listHeight,
         SetItems(items), \A i \in 1..Len(items) : items[i] = come' + 1 - i
  PROVE  /\ entries' \in Seq(Int) /\ sel' \in Nat /\ off' \in Nat
         /\ InCapacity' /\ NewestKept' /\ SelectedShown'
<1>1. /\ entries' = items /\ reshaped' = FALSE /\ off' = Clamped(off, sel', Len(items))
      /\ sel' = IF sel >= Len(items) THEN AtLeast(Len(items) - 1, 0) ELSE sel
  BY DEF SetItems
<1>2. Len(items) \in Nat /\ DOMAIN items = 1..Len(items) /\ (items # << >> <=> Len(items) > 0)
  BY LenProperties, EmptySeq
<1>3. sel' \in 0..AtLeast(Len(items) - 1, 0)
  BY <1>1, <1>2 DEF EntryTypes, AtLeast
<1>4. /\ off' \in 0..Len(items)
      /\ Len(items) > 0 /\ listHeight > 0 =>
           sel' >= off' /\ sel' < off' + listHeight /\ off' + listHeight <= AtLeast(Len(items), listHeight)
  BY <1>1, <1>2, <1>3, WindowShows DEF EntryTypes
<1>5. sel' \in Nat /\ off' \in Nat
  BY <1>2, <1>3, <1>4 DEF AtLeast
<1> QED BY <1>1, <1>2, <1>3, <1>4, <1>5 DEF InCapacity, NewestKept, SelectedShown

(* The selection goes to a row.                                             *)
LEMMA RowSelected ==
  ASSUME EntryTypes, InCapacity, NewestKept, NEW s \in 0..AtLeast(Len(entries) - 1, 0), Selects(s),
         UNCHANGED <<entries, capacity, come, listHeight>>
  PROVE  sel' \in Nat /\ off' \in Nat /\ InCapacity' /\ NewestKept' /\ SelectedShown'
<1>1. Len(entries) \in Nat /\ (entries # << >> <=> Len(entries) > 0)
  BY LenProperties, EmptySeq DEF EntryTypes
<1>2. sel' = s /\ off' = Clamped(off, s, Len(entries))
  BY DEF Selects
<1>3. /\ off' \in 0..Len(entries)
      /\ Len(entries) > 0 /\ listHeight > 0 =>
           s >= off' /\ s < off' + listHeight /\ off' + listHeight <= AtLeast(Len(entries), listHeight)
  BY <1>1, <1>2, WindowShows DEF EntryTypes
<1>4. sel' \in Nat /\ off' \in Nat
  BY <1>1, <1>2, <1>3 DEF AtLeast
<1> QED BY <1>1, <1>2, <1>3, <1>4 DEF InCapacity, NewestKept, SelectedShown

LEMMA KeptBySelecting ==
  ASSUME ListInv, \/ MoveUp \/ MoveDown \/ JumpTop \/ JumpBottom \/ \E d \in {-3, 3} : Wheel(d) PROVE ListInv'
<1>1. Len(entries) \in Nat /\ (entries # << >> <=> Len(entries) > 0)
  BY LenProperties, EmptySeq DEF ListInv, EntryTypes
<1>2. PICK s \in 0..AtLeast(Len(entries) - 1, 0) : Selects(s)
  BY <1>1 DEF MoveUp, MoveDown, JumpTop, JumpBottom, Wheel, ListInv, EntryTypes, InCapacity, AtLeast, AtMost
<1>3. UNCHANGED <<hasDetail, entries, capacity, come, listHeight, detailOpen, squidVars>>
  BY DEF MoveUp, MoveDown, JumpTop, JumpBottom, Wheel
<1>4. sel' \in Nat /\ off' \in Nat /\ InCapacity' /\ NewestKept' /\ SelectedShown'
  BY <1>2, <1>3, RowSelected DEF ListInv
<1>5. EntryTypes'
  BY <1>3, <1>4 DEF ListInv, EntryTypes
<1>6. LineTypes' /\ TailFollowed'
  BY <1>3 DEF ListInv, LineTypes, TailFollowed, Total, AtLeast, squidVars
<1> QED BY <1>4, <1>5, <1>6 DEF ListInv

LEMMA KeptByAddEntry == ASSUME ListInv, AddEntry PROVE ListInv'
<1>1. /\ come' = come + 1 /\ SetItems(Prefix(<<come + 1>> \o entries, capacity))
      /\ UNCHANGED <<hasDetail, capacity, listHeight, detailOpen, squidVars>>
  BY DEF AddEntry
<1>2. /\ come \in Nat /\ capacity \in Nat /\ entries \in Seq(Int) /\ Len(entries) \in Nat
      /\ DOMAIN entries = 1..Len(entries) /\ \A i \in 1..Len(entries) : entries[i] = come + 1 - i
  BY LenProperties DEF ListInv, EntryTypes, NewestKept
<1> DEFINE all == <<come + 1>> \o entries
<1>3. <<come + 1>> \in Seq(Int) /\ Len(<<come + 1>>) = 1 /\ <<come + 1>>[1] = come + 1
  BY <1>2
<1>4. /\ all \in Seq(Int) /\ Len(all) = 1 + Len(entries)
      /\ \A i \in 1..(1 + Len(entries)) : all[i] = IF i <= 1 THEN <<come + 1>>[i] ELSE entries[i - 1]
  BY <1>2, <1>3, ConcatProperties
<1>5. \A i \in 1..Len(all) : all[i] = come' + 1 - i
  BY <1>1, <1>2, <1>3, <1>4
<1> HIDE DEF all
<1>6. /\ Prefix(all, capacity) \in Seq(Int) /\ Len(Prefix(all, capacity)) = AtMost(Len(all), capacity)
      /\ \A i \in 1..Len(Prefix(all, capacity)) : Prefix(all, capacity)[i] = all[i] /\ i \in 1..Len(all)
  BY <1>2, <1>4, PrefixFacts
<1>7. Len(Prefix(all, capacity)) <= capacity' /\ SetItems(Prefix(all, capacity))
  BY <1>1, <1>2, <1>4, <1>6 DEF AtMost, all
<1>8. /\ entries' \in Seq(Int) /\ sel' \in Nat /\ off' \in Nat
      /\ InCapacity' /\ NewestKept' /\ SelectedShown'
  BY <1>1, <1>5, <1>6, <1>7, ItemsSet DEF ListInv
<1>9. EntryTypes'
  BY <1>1, <1>8 DEF ListInv, EntryTypes
<1>10. LineTypes' /\ TailFollowed'
  BY <1>1 DEF ListInv, LineTypes, TailFollowed, Total, AtLeast, squidVars
<1> QED BY <1>8, <1>9, <1>10 DEF ListInv

LEMMA KeptBySetMaxCapacity == ASSUME ListInv, NEW n \in Capacities, SetMaxCapacity(n) PROVE ListInv'
<1>1. /\ capacity' = n /\ n \in Nat
      /\ IF Len(entries) > n THEN SetItems(Prefix(entries, n)) ELSE UNCHANGED <<entries, sel, off, reshaped>>
      /\ UNCHANGED <<hasDetail, come, listHeight, detailOpen, squidVars>>
  BY ListTabsAssumption DEF SetMaxCapacity
<1>2. /\ come \in Nat /\ entries \in Seq(Int) /\ Len(entries) \in Nat
      /\ DOMAIN entries = 1..Len(entries) /\ \A i \in 1..Len(entries) : entries[i] = come + 1 - i
  BY LenProperties DEF ListInv, EntryTypes, NewestKept
<1>3. /\ entries' \in Seq(Int) /\ sel' \in Nat /\ off' \in Nat
      /\ InCapacity' /\ NewestKept' /\ SelectedShown'
  <2>1. CASE Len(entries) > n
    <3>1. /\ Prefix(entries, n) \in Seq(Int) /\ Len(Prefix(entries, n)) = AtMost(Len(entries), n)
          /\ \A i \in 1..Len(Prefix(entries, n)) : Prefix(entries, n)[i] = entries[i] /\ i \in 1..Len(entries)
      BY <1>1, <1>2, PrefixFacts
    <3>2. Len(Prefix(entries, n)) <= capacity' /\ \A i \in 1..Len(Prefix(entries, n)) : Prefix(entries, n)[i] = come' + 1 - i
      BY <1>1, <1>2, <3>1 DEF AtMost
    <3> QED BY <1>1, <2>1, <3>1, <3>2, ItemsSet DEF ListInv
  <2>2. CASE ~(Len(entries) > n)
    BY <1>1, <1>2, <2>2 DEF ListInv, EntryTypes, InCapacity, NewestKept, SelectedShown
  <2> QED BY <2>1, <2>2
<1>4. EntryTypes'
  BY <1>1, <1>3 DEF ListInv, EntryTypes
<1>5. LineTypes' /\ TailFollowed'
  BY <1>1 DEF ListInv, LineTypes, TailFollowed, Total, AtLeast, squidVars
<1> QED BY <1>3, <1>4, <1>5 DEF ListInv

(* A View changes the height alone, and then nothing is said of the window.  *)
LEMMA KeptByView == ASSUME ListInv, ToggleDetail \/ \E h \in Heights : ShowList(h) PROVE ListInv'
<1>1. /\ UNCHANGED <<hasDetail, entries, capacity, come, sel, off, squidVars>>
      /\ listHeight' \in Nat /\ ((listHeight' = listHeight /\ reshaped' = reshaped) \/ reshaped' = TRUE)
  <2>1. ASSUME NEW height \in Heights, ShowList(height) PROVE listHeight' \in Nat
    <3>1. height \in Nat /\ DetailRows \in Nat
      BY ListTabsAssumption
    <3> QED BY <2>1, <3>1 DEF ShowList, AtLeast
  <2> QED BY <2>1 DEF ToggleDetail, ShowList, ListInv, EntryTypes
<1>2. EntryTypes' /\ InCapacity' /\ NewestKept' /\ SelectedShown'
  <2>1. EntryTypes' /\ InCapacity' /\ NewestKept'
    BY <1>1 DEF ListInv, EntryTypes, InCapacity, NewestKept
  <2>2. SelectedShown'
    BY <1>1 DEF ListInv, SelectedShown
  <2> QED BY <2>1, <2>2
<1>3. LineTypes' /\ TailFollowed'
  BY <1>1 DEF ListInv, LineTypes, TailFollowed, Total, AtLeast, squidVars
<1> QED BY <1>2, <1>3 DEF ListInv

(* Squid's lines.                                                           *)
LEMMA KeptByLines == ASSUME ListInv, SquidNext PROVE ListInv'
<1>1. /\ UNCHANGED entryVars
      /\ lines \in Nat /\ gone \in Nat /\ top \in Nat /\ lastHeight \in Nat /\ MaxLines \in Nat \ {0} /\ lines <= MaxLines
      /\ top <= AtLeast(lines, 1)
  BY ListTabsAssumption DEF SquidNext, AddLine, ScrollUp, ScrollDown, PageUp, PageDown, Home0, EndKey, WheelLines, ShowLines,
    ListInv, LineTypes, Total, AtLeast
<1>2. lastHeight \div 2 \in Nat
  BY <1>1
<1>3. ASSUME AddLine PROVE LineTypes' /\ TailFollowed'
  BY <1>1, <1>3 DEF AddLine, ListInv, LineTypes, TailFollowed, Total, AtLeast, AtMost, Bottom, Held
<1>4. ASSUME \/ ScrollUp \/ ScrollDown \/ PageUp \/ PageDown \/ Home0 \/ EndKey \/ \E d \in {-3, 3} : WheelLines(d)
      PROVE  LineTypes' /\ TailFollowed'
  <2>1. UNCHANGED <<lines, gone, lastHeight>>
    BY <1>4 DEF ScrollUp, ScrollDown, PageUp, PageDown, Home0, EndKey, WheelLines
  <2>2. top' \in 0..Total
    <3>1. CASE ScrollUp \/ ScrollDown
      BY <1>1, <3>1 DEF ScrollUp, ScrollDown, Total, AtLeast, AtMost, Held
    <3>2. CASE PageUp \/ PageDown
      BY <1>1, <1>2, <3>2 DEF PageUp, PageDown, Total, AtLeast, AtMost, Held
    <3>3. CASE Home0 \/ EndKey
      BY <1>1, <3>3 DEF Home0, EndKey, Total, AtLeast
    <3>4. ASSUME NEW d \in {-3, 3}, WheelLines(d) PROVE top' \in 0..Total
      BY <1>1, <3>4 DEF WheelLines, Total, AtLeast, AtMost, Held
    <3> QED BY <1>4, <3>1, <3>2, <3>3, <3>4
  <2>3. follow' => (top' >= Bottom(lines) \/ EndKey)
    BY <1>4, Zenon DEF ScrollUp, ScrollDown, PageUp, PageDown, Home0, WheelLines, AtBottom
  <2>4. EndKey => top' >= Bottom(lines)
    BY <1>1 DEF EndKey, Bottom, Total, AtLeast
  <2>5. TailFollowed'
    <3>1. PICK b \in Nat : b = Bottom(lines) /\ b >= lines - lastHeight
      BY <1>1 DEF Bottom, AtLeast
    <3>2. top' \in Nat /\ lines' = lines /\ lastHeight' = lastHeight
      BY <1>1, <2>1, <2>2 DEF Total, AtLeast
    <3>3. PICK t \in Nat : t = top'
      BY <3>2
    <3>4. t >= b => t + lastHeight >= lines
      BY <1>1, <3>1
    <3>5. top' >= b => top' + lastHeight' >= lines'
      BY <3>2, <3>3, <3>4
    <3> QED BY <2>3, <2>4, <3>1, <3>5, Zenon DEF TailFollowed
  <2> QED BY <1>1, <2>1, <2>2, <2>5 DEF LineTypes, Total, AtLeast
<1>5. ASSUME NEW h \in Heights, ShowLines(h) PROVE LineTypes' /\ TailFollowed'
  BY <1>1, <1>5, ListTabsAssumption DEF ShowLines, ListInv, LineTypes, TailFollowed, Total, AtLeast
<1>6. LineTypes' /\ TailFollowed'
  BY <1>3, <1>4, <1>5 DEF SquidNext
<1>7. EntryTypes' /\ InCapacity' /\ NewestKept' /\ SelectedShown'
  BY <1>1 DEF ListInv, entryVars, EntryTypes, InCapacity, NewestKept, SelectedShown
<1> QED BY <1>6, <1>7 DEF ListInv

LEMMA ListsBegin == ListTabsInit => ListInv
<1> SUFFICES ASSUME ListTabsInit PROVE ListInv
  OBVIOUS
<1>1. entries = << >> /\ entries \in Seq(Int) /\ Len(entries) = 0 /\ DOMAIN entries = {} /\ capacity \in Nat
  BY EmptySeq, ListTabsAssumption DEF ListTabsInit
<1>2. EntryTypes /\ InCapacity
  BY <1>1 DEF ListTabsInit, EntryTypes, InCapacity, AtLeast
<1>3. NewestKept /\ SelectedShown
  BY <1>1 DEF NewestKept, SelectedShown
<1>4. LineTypes /\ TailFollowed
  BY ListTabsAssumption DEF ListTabsInit, LineTypes, TailFollowed, Total, AtLeast
<1> QED BY <1>2, <1>3, <1>4 DEF ListInv

LEMMA ListsStep == ListInv /\ [ListTabsNext]_listVars => ListInv'
<1> SUFFICES ASSUME ListInv, [ListTabsNext]_listVars PROVE ListInv'
  OBVIOUS
<1>1. CASE ListTabsNext
  BY <1>1, KeptBySelecting, KeptByAddEntry, KeptBySetMaxCapacity, KeptByView, KeptByLines DEF ListTabsNext, EntriesNext
<1>2. CASE UNCHANGED listVars
  BY <1>2 DEF listVars, entryVars, squidVars, ListInv, EntryTypes, LineTypes, InCapacity, NewestKept, SelectedShown, TailFollowed,
    Total, AtLeast
<1> QED BY <1>1, <1>2

(* What a list shows is what it holds, for every capacity and height, any    *)
(* number of entries and lines, and any length of a detail: the newest are   *)
(* kept, the selected one is shown, the scroll bar tells where it is and who *)
(* follows sees the last line (components/table.go and viewport.go).         *)
THEOREM ListsAreSound == ListTabsSpec => []ListsSound
<1>1. ListInv => ListsSound
  <2> SUFFICES ASSUME ListInv PROVE ListsSound
    OBVIOUS
  <2>1. ListTabsTypeOK
    BY DEF ListInv, ListTabsTypeOK, InCapacity, LineTypes
  <2>2. ThumbTells
    <3>1. Len(entries) \in Nat /\ off \in Nat /\ listHeight \in Nat
      BY LenProperties DEF ListInv, EntryTypes
    <3> QED BY <3>1, ThumbStays DEF ThumbTells
  <2> QED BY <2>1, <2>2 DEF ListInv, ListsSound
<1> QED BY <1>1, ListsBegin, ListsStep, PTL DEF ListTabsSpec

-----------------------------------------------------------------------------
(***************************************************************************)
(* The rules of port forwards.  No list of rules anywhere has a port twice  *)
(* (RuleLists); those past the reload were accepted (Goods); and a change   *)
(* that is alone has brought its rules as far as its stage says (Stage).    *)
(***************************************************************************)
RuleList == {rs \in Seq(Forms) : Len(rs) <= MaxRules /\ Unique(rs)}
ApplyStages == {"emitted", "reload", "copy", "save", "memory", "relay", "result", "answer", "end"}
ApplyRec == [at : ApplyStages, rules : RuleList, copy : Nat, ok : BOOLEAN, back : RuleList]
Config == [rules : RuleList, other : Nat]
ConfigFile == [rules : RuleList, other : Int]
SettingCopy == [at : {"idle", "save", "store"}, rules : RuleList, other : Nat]

TabTypes ==
  /\ pfRules \in RuleList /\ pfSel \in 1..MaxRules /\ (pfRules # << >> => pfSel <= Len(pfRules))
  /\ pfMode \in {"none", "adding", "editing", "deleting"} /\ pfEditIdx \in 0..MaxRules
  /\ pfStatus \in {"clean", "pending", "applied", "failed"}
  /\ pfModal \in {"none", "reloading", "failed", "done"}
DiskTypes == /\ memory \in Config /\ file \in ConfigFile /\ setting \in SettingCopy
             /\ socat \in RuleList /\ relay \in RuleList
ApplyTypes == applies \in Seq(ApplyRec)
DiskGood == /\ Accepted(memory.rules) /\ Accepted(file.rules) /\ Accepted(setting.rules)
            /\ Accepted(socat) /\ Accepted(relay)
Past == {"copy", "save", "memory", "relay"}
Goods == /\ \A i \in DOMAIN applies : applies[i].at \in Past => Accepted(applies[i].rules)
         /\ DiskGood

Single == \A i, j \in DOMAIN applies : applies[i].at # "end" /\ applies[j].at # "end" => i = j
\* config.json holds the configuration, or what is about to be stored.
FileFollows ==
  IF setting.at = "store" THEN file = [rules |-> setting.rules, other |-> setting.other]
  ELSE file \in {memory, Cut}
Same == relay = memory.rules /\ FileFollows
CopyFresh == setting.at # "idle" => setting.rules = memory.rules
Settled == pfRules = memory.rules /\ Same /\ (pfStatus = "applied" => socat = pfRules)
\* How far an apply that is alone has come.
Brought(a) ==
  /\ pfRules = a.rules /\ pfStatus = "pending" /\ (a.ok => a.at \in {"result", "answer"})
  /\ a.at \in {"emitted", "reload", "copy", "save"} => Same
  /\ a.at \in Past => socat = a.rules
  /\ a.at \in {"save", "memory"} => a.copy = memory.other /\ setting.at = "idle"
  /\ a.at = "memory" => /\ file = [rules |-> a.rules, other |-> memory.other] /\ relay = memory.rules
  /\ a.at = "relay" => memory.rules = a.rules /\ FileFollows
  /\ a.at \in {"result", "answer"} => /\ Same
                                      /\ (a.ok => memory.rules = a.rules /\ socat = a.rules)
  /\ a.at = "answer" /\ ~a.ok => a.back = memory.rules
Stage == /\ Single
         /\ \A i \in DOMAIN applies : applies[i].at # "end" => Brought(applies[i])
         /\ Ended => Settled
         /\ CopyFresh

PortForwardInv == TabTypes /\ DiskTypes /\ ApplyTypes /\ Goods /\ (~pfDisturbed => Stage)

LEMMA NoRules == << >> \in RuleList /\ Accepted(<< >>)
<1>1. << >> \in Seq(Forms) /\ Len(<< >>) = 0
  BY EmptySeq
<1> QED BY <1>1, PortForwardAssumption DEF RuleList, Unique, Accepted

LEMMA CutIsGood == Cut \in ConfigFile /\ Accepted(Cut.rules)
BY NoRules DEF Cut, ConfigFile

LEMMA OneRule == ASSUME NEW f \in Forms PROVE <<f>> \in RuleList
<1>1. <<f>> \in Seq(Forms) /\ Len(<<f>>) = 1 /\ DOMAIN <<f>> = {1}
  OBVIOUS
<1> QED BY <1>1, PortForwardAssumption DEF RuleList, Unique

(* A rule that is deleted takes its ports with it and no others.             *)
LEMMA RuleDeleted == ASSUME NEW rs \in RuleList, NEW k \in DOMAIN rs PROVE RemoveAt(rs, k) \in RuleList
<1>1. rs \in Seq(Forms) /\ Len(rs) <= MaxRules /\ Unique(rs)
  BY DEF RuleList
<1>2. RemoveAt(rs, k) = Dropped(rs, k)
  BY DEF RemoveAt, Dropped
<1>3. Dropped(rs, k) \in Seq(Forms) /\ Len(Dropped(rs, k)) = Len(rs) - 1
  BY <1>1, DropFacts
<1>4. Unique(Dropped(rs, k))
  <2> SUFFICES ASSUME NEW i \in DOMAIN Dropped(rs, k), NEW j \in DOMAIN Dropped(rs, k), i # j
               PROVE  PortsOf(Dropped(rs, k)[i]) \cap PortsOf(Dropped(rs, k)[j]) = {}
    BY DEF Unique
  <2>1. PICK n, o \in DOMAIN rs : n # o /\ Dropped(rs, k)[i] = rs[n] /\ Dropped(rs, k)[j] = rs[o]
    BY <1>1, DropApart
  <2> QED BY <1>1, <2>1 DEF Unique
<1>5. Len(rs) \in Nat /\ MaxRules \in Nat
  BY <1>1, LenProperties, PortForwardAssumption
<1> QED BY <1>1, <1>2, <1>3, <1>4, <1>5 DEF RuleList

(* The selection stays inside.                                               *)
LEMMA SelectionInside ==
  ASSUME NEW s \in 1..MaxRules, NEW rs \in RuleList
  PROVE  SelInside(s, rs) \in 1..MaxRules /\ (rs # << >> => SelInside(s, rs) <= Len(rs))
<1>1. Len(rs) \in Nat /\ Len(rs) <= MaxRules /\ (rs = << >> <=> Len(rs) = 0) /\ MaxRules \in Nat \ {0}
  BY LenProperties, EmptySeq, PortForwardAssumption DEF RuleList
<1> QED BY <1>1 DEF SelInside

(* No port is in two rules of a list.                                        *)
LEMMA PortOnce ==
  ASSUME NEW rs \in RuleList, NEW q
  PROVE  Cardinality({i \in DOMAIN rs : q \in PortsOf(rs[i])}) <= 1
<1> DEFINE C == {i \in DOMAIN rs : q \in PortsOf(rs[i])}
<1>1. \A i, j \in C : i = j
  BY DEF RuleList, Unique
<1>2. CASE C = {}
  BY <1>2, FS_EmptySet
<1>3. CASE C # {}
  <2>1. PICK i : i \in C
    BY <1>3
  <2>2. C = {i}
    BY <1>1, <2>1
  <2> HIDE DEF C
  <2>3. Cardinality(C) = 1
    BY <2>2, FS_Singleton
  <2> QED BY <2>3 DEF C
<1> QED BY <1>2, <1>3

-----------------------------------------------------------------------------
(* A change that goes on.                                                    *)
LEMMA ApplyTurns ==
  ASSUME NEW a \in ApplyRec, NEW stage \in ApplyStages
  PROVE  \E r \in ApplyRec : /\ r = [a EXCEPT !.at = stage] /\ r.at = stage /\ r.rules = a.rules
                             /\ r.copy = a.copy /\ r.back = a.back /\ r.ok = a.ok
<1> DEFINE r == [a EXCEPT !.at = stage]
<1>1. a = [at |-> a.at, rules |-> a.rules, copy |-> a.copy, ok |-> a.ok, back |-> a.back]
  BY DEF ApplyRec
<1>2. r \in ApplyRec
  BY DEF ApplyRec
<1>3. r.at = stage /\ r.rules = a.rules /\ r.copy = a.copy /\ r.back = a.back /\ r.ok = a.ok
  BY <1>1
<1> HIDE DEF r
<1> QED BY <1>2, <1>3 DEF r

LEMMA KeptByApply ==
  ASSUME PortForwardInv, NEW i \in DOMAIN applies, applies[i].at # "end",
         NEW r \in ApplyRec, applies' = [applies EXCEPT ![i] = r],
         TabTypes', DiskTypes', DiskGood', r.at \in Past => Accepted(r.rules),
         ~pfDisturbed' => ~pfDisturbed /\ CopyFresh' /\ (IF r.at = "end" THEN Settled' ELSE Brought(r)')
  PROVE  PortForwardInv'
<1>1. /\ applies' \in Seq(ApplyRec) /\ DOMAIN applies' = DOMAIN applies
      /\ applies'[i] = r /\ \A j \in DOMAIN applies \ {i} : applies'[j] = applies[j]
  BY ReplaceOne DEF PortForwardInv, ApplyTypes
<1>2. ApplyTypes' /\ Goods'
  <2>1. ASSUME NEW j \in DOMAIN applies', applies'[j].at \in Past PROVE Accepted(applies'[j].rules)
    BY <1>1, <2>1 DEF PortForwardInv, Goods
  <2> QED BY <1>1, <2>1 DEF ApplyTypes, Goods
<1>3. ASSUME ~pfDisturbed' PROVE Stage'
  <2>1. Stage
    BY <1>3 DEF PortForwardInv
  <2>2. \A j \in DOMAIN applies \ {i} : applies'[j].at = "end"
    BY <1>1, <2>1 DEF Stage, Single
  <2>3. Single' /\ (Ended' => r.at = "end")
    BY <1>1, <2>2 DEF Single, Ended
  <2>4. ASSUME NEW j \in DOMAIN applies', applies'[j].at # "end" PROVE Brought(applies[j])'
    <3>1. applies'[j] = r /\ r.at # "end"
      BY <1>1, <2>2, <2>4
    <3>2. Brought(r)'
      BY <1>3, <3>1
    <3> QED BY <3>1, <3>2 DEF Brought
  <2>5. Ended' => Settled'
    BY <1>3, <2>3
  <2>6. \A j \in DOMAIN applies' : applies'[j].at # "end" => Brought(applies[j])'
    BY <2>4
  <2>7. CopyFresh'
    BY <1>3
  <2> QED BY <2>3, <2>5, <2>6, <2>7 DEF Stage
<1> QED BY <1>2, <1>3 DEF PortForwardInv

(* What a step finds: the change, its record, and what is true of it.        *)
LEMMA ApplyFound ==
  ASSUME PortForwardInv, NEW i \in DOMAIN applies, applies[i].at # "end"
  PROVE  /\ applies[i] \in ApplyRec
         /\ applies[i].at \in Past => Accepted(applies[i].rules)
         /\ ~pfDisturbed => Brought(applies[i]) /\ CopyFresh
BY ElementOfSeq, LenProperties DEF PortForwardInv, ApplyTypes, Goods, Stage

LEMMA KeptByChanged == ASSUME PortForwardInv, NEW i \in DOMAIN applies, PortForwardChanged(i) PROVE PortForwardInv'
<1>1. /\ applies[i].at = "emitted" /\ applies' = [applies EXCEPT ![i].at = "reload"] /\ pfModal' = "reloading"
      /\ UNCHANGED <<pfRules, pfSel, pfMode, pfEditIdx, pfStatus, memory, file, setting, socat, relay, pfDisturbed>>
  BY DEF PortForwardChanged, Goes, tabVars, diskVars
<1>2. PICK a \in ApplyRec : a = applies[i] /\ (~pfDisturbed => Brought(a) /\ CopyFresh)
  BY <1>1, ApplyFound
<1>3. PICK r \in ApplyRec : /\ r = [a EXCEPT !.at = "reload"] /\ r.at = "reload" /\ r.rules = a.rules
                            /\ r.copy = a.copy /\ r.back = a.back /\ r.ok = a.ok
  BY ApplyTurns DEF ApplyStages
<1>4. applies' = [applies EXCEPT ![i] = r]
  BY <1>1, <1>2, <1>3
<1>5. TabTypes' /\ DiskTypes' /\ DiskGood'
  BY <1>1 DEF PortForwardInv, TabTypes, DiskTypes, Goods, DiskGood
<1>6. ASSUME ~pfDisturbed' PROVE ~pfDisturbed /\ CopyFresh' /\ Brought(r)'
  BY <1>1, <1>2, <1>3, <1>6 DEF Brought, Same, FileFollows, CopyFresh, Past
<1> QED BY <1>1, <1>3, <1>4, <1>5, <1>6, KeptByApply DEF Past

LEMMA KeptByReload == ASSUME PortForwardInv, NEW i \in DOMAIN applies, ReloadSocat(i) PROVE PortForwardInv'
<1>1. /\ applies[i].at = "reload"
      /\ UNCHANGED <<pfRules, pfSel, pfMode, pfEditIdx, pfStatus, pfModal, memory, file, setting, relay, pfDisturbed>>
      /\ \/ /\ applies' = [applies EXCEPT ![i].at = "copy"]
            /\ Accepted(applies[i].rules) /\ socat' = applies[i].rules
         \/ /\ applies' = [applies EXCEPT ![i].at = "result"]
            /\ \/ socat' \in {socat, << >>}
               \/ (socat' = applies[i].rules /\ Accepted(applies[i].rules))
  BY DEF ReloadSocat, Goes, Fails, tabVars
<1>2. PICK a \in ApplyRec : a = applies[i] /\ (~pfDisturbed => Brought(a) /\ CopyFresh)
  BY <1>1, ApplyFound
<1>3. a.rules \in RuleList
  BY DEF ApplyRec
<1>4. PICK r \in ApplyRec : /\ r.at \in {"copy", "result"} /\ r.rules = a.rules
                            /\ r.copy = a.copy /\ r.back = a.back /\ r.ok = a.ok
                            /\ applies' = [applies EXCEPT ![i] = r]
                            /\ (r.at = "copy" => Accepted(a.rules) /\ socat' = a.rules)
  <2>1. ASSUME NEW stage \in {"copy", "result"}, applies' = [applies EXCEPT ![i].at = stage]
        PROVE  \E r \in ApplyRec : /\ r.at = stage /\ r.rules = a.rules
                                  /\ r.copy = a.copy /\ r.back = a.back /\ r.ok = a.ok
                                  /\ applies' = [applies EXCEPT ![i] = r]
    <3>0. stage \in ApplyStages
      BY DEF ApplyStages
    <3>1. PICK r \in ApplyRec : /\ r = [a EXCEPT !.at = stage] /\ r.at = stage /\ r.rules = a.rules
                                /\ r.copy = a.copy /\ r.back = a.back /\ r.ok = a.ok
      BY <3>0, ApplyTurns
    <3> QED BY <1>2, <2>1, <3>1
  <2>2. CASE /\ applies' = [applies EXCEPT ![i].at = "copy"]
             /\ Accepted(applies[i].rules) /\ socat' = applies[i].rules
    BY <1>2, <2>1, <2>2
  <2>3. CASE applies' = [applies EXCEPT ![i].at = "result"]
    BY <1>2, <2>1, <2>3
  <2> QED BY <1>1, <2>2, <2>3
<1>5. TabTypes' /\ DiskTypes' /\ DiskGood'
  <2>1. socat' \in RuleList /\ Accepted(socat')
    BY <1>1, <1>2, <1>3, NoRules DEF PortForwardInv, DiskTypes, Goods, DiskGood
  <2> QED BY <1>1, <2>1 DEF PortForwardInv, TabTypes, DiskTypes, Goods, DiskGood
<1>6. ASSUME ~pfDisturbed' PROVE ~pfDisturbed /\ CopyFresh' /\ Brought(r)'
  BY <1>1, <1>2, <1>4, <1>6 DEF Brought, Same, FileFollows, CopyFresh, Past
<1> QED BY <1>1, <1>4, <1>5, <1>6, KeptByApply DEF Past

LEMMA KeptByCopy == ASSUME PortForwardInv, NEW i \in DOMAIN applies, CopyConfig(i) PROVE PortForwardInv'
<1>1. /\ applies[i].at = "copy" /\ applies' = [applies EXCEPT ![i].at = "save", ![i].copy = memory.other]
      /\ UNCHANGED <<pfRules, pfSel, pfMode, pfEditIdx, pfStatus, pfModal, memory, file, setting, socat, relay>>
      /\ ~pfDisturbed' => ~pfDisturbed /\ setting.at = "idle"
  BY DEF CopyConfig, tabVars, diskVars
<1>2. PICK a \in ApplyRec : a = applies[i] /\ (~pfDisturbed => Brought(a) /\ CopyFresh) /\ Accepted(a.rules)
  BY <1>1, ApplyFound DEF Past
<1>3. PICK b \in ApplyRec : /\ b = [a EXCEPT !.at = "save"] /\ b.at = "save" /\ b.rules = a.rules
                            /\ b.back = a.back /\ b.ok = a.ok
  BY ApplyTurns DEF ApplyStages
<1>4. PICK c \in Nat : c = memory.other
  BY DEF PortForwardInv, DiskTypes, Config
<1> DEFINE r == [b EXCEPT !.copy = c]
<1>5. /\ r \in ApplyRec /\ r.at = "save" /\ r.rules = a.rules /\ r.copy = c /\ r.back = a.back /\ r.ok = a.ok
  <2>1. r \in ApplyRec
    BY DEF ApplyRec
  <2> QED BY <1>3, <2>1 DEF ApplyRec
<1>6. applies' = [applies EXCEPT ![i] = r]
  BY <1>1, <1>2, <1>3, <1>4
<1> HIDE DEF r
<1>7. TabTypes' /\ DiskTypes' /\ DiskGood'
  BY <1>1 DEF PortForwardInv, TabTypes, DiskTypes, Goods, DiskGood
<1>8. PICK q \in ApplyRec : q = r
  BY <1>5
<1>9. ASSUME ~pfDisturbed' PROVE ~pfDisturbed /\ CopyFresh' /\ Brought(q)'
  BY <1>1, <1>2, <1>4, <1>5, <1>8, <1>9 DEF Brought, Same, FileFollows, CopyFresh, Past
<1> QED BY <1>1, <1>2, <1>5, <1>6, <1>7, <1>8, <1>9, KeptByApply

LEMMA KeptBySave == ASSUME PortForwardInv, NEW i \in DOMAIN applies, SaveConfig(i) PROVE PortForwardInv'
<1>1. /\ applies[i].at = "save"
      /\ UNCHANGED <<pfRules, pfSel, pfMode, pfEditIdx, pfStatus, pfModal, memory, setting, socat, relay, pfDisturbed>>
      /\ \/ /\ applies' = [applies EXCEPT ![i].at = "memory"]
            /\ file' = [rules |-> applies[i].rules, other |-> applies[i].copy]
         \/ applies' = [applies EXCEPT ![i].at = "result"] /\ file' \in {file, Cut}
  BY DEF SaveConfig, Goes, Fails, tabVars
<1>2. PICK a \in ApplyRec : a = applies[i] /\ (~pfDisturbed => Brought(a) /\ CopyFresh) /\ Accepted(a.rules)
  BY <1>1, ApplyFound DEF Past
<1>3. a.rules \in RuleList /\ a.copy \in Nat
  BY DEF ApplyRec
<1>4. PICK r \in ApplyRec : /\ r.at \in {"memory", "result"} /\ r.rules = a.rules
                            /\ r.copy = a.copy /\ r.back = a.back /\ r.ok = a.ok
                            /\ applies' = [applies EXCEPT ![i] = r]
                            /\ r.at = "memory" => file' = [rules |-> a.rules, other |-> a.copy]
                            /\ r.at = "result" => file' \in {file, Cut}
  <2>1. CASE applies' = [applies EXCEPT ![i].at = "memory"] /\ file' = [rules |-> a.rules, other |-> a.copy]
    <3>1. PICK r \in ApplyRec : /\ r = [a EXCEPT !.at = "memory"] /\ r.at = "memory" /\ r.rules = a.rules
                                /\ r.copy = a.copy /\ r.back = a.back /\ r.ok = a.ok
      BY ApplyTurns DEF ApplyStages
    <3> QED BY <1>2, <2>1, <3>1
  <2>2. CASE applies' = [applies EXCEPT ![i].at = "result"] /\ file' \in {file, Cut}
    <3>1. PICK r \in ApplyRec : /\ r = [a EXCEPT !.at = "result"] /\ r.at = "result" /\ r.rules = a.rules
                                /\ r.copy = a.copy /\ r.back = a.back /\ r.ok = a.ok
      BY ApplyTurns DEF ApplyStages
    <3> QED BY <1>2, <2>2, <3>1
  <2> QED BY <1>1, <1>2, <2>1, <2>2
<1>5. TabTypes' /\ DiskTypes' /\ DiskGood'
  <2>1. file' \in ConfigFile /\ Accepted(file'.rules)
    <3>1. CASE r.at = "memory"
      BY <1>2, <1>3, <1>4, <3>1 DEF ConfigFile
    <3>2. CASE r.at # "memory"
      BY <1>4, <3>2, CutIsGood DEF PortForwardInv, DiskTypes, Goods, DiskGood
    <3> QED BY <3>1, <3>2
  <2> QED BY <1>1, <2>1 DEF PortForwardInv, TabTypes, DiskTypes, Goods, DiskGood
<1>6. ASSUME ~pfDisturbed' PROVE ~pfDisturbed /\ CopyFresh' /\ Brought(r)'
  <2>1. ~pfDisturbed /\ Brought(a) /\ a.at = "save"
    BY <1>1, <1>2, <1>6
  <2>2. CASE r.at = "memory"
    BY <1>1, <1>4, <2>1, <2>2 DEF Brought, Same, FileFollows, CopyFresh, Past
  <2>3. CASE r.at = "result"
    <3>1. Same /\ setting.at = "idle" /\ file' \in {file, Cut}
      BY <1>4, <2>1, <2>3 DEF Brought
    <3>2. Same'
      BY <1>1, <3>1 DEF Same, FileFollows
    <3> QED BY <1>1, <1>2, <1>4, <1>6, <2>1, <2>3, <3>2 DEF Brought, Same, FileFollows, CopyFresh, Past
  <2> QED BY <1>4, <2>1, <2>2, <2>3
<1> QED BY <1>1, <1>2, <1>4, <1>5, <1>6, KeptByApply

LEMMA KeptBySetConfig == ASSUME PortForwardInv, NEW i \in DOMAIN applies, SetConfig(i) PROVE PortForwardInv'
<1>1. /\ applies[i].at = "memory" /\ applies' = [applies EXCEPT ![i].at = "relay"]
      /\ memory' = [memory EXCEPT !.rules = applies[i].rules]
      /\ UNCHANGED <<pfRules, pfSel, pfMode, pfEditIdx, pfStatus, pfModal, file, setting, socat, relay, pfDisturbed>>
  BY DEF SetConfig, Goes, tabVars
<1>2. PICK a \in ApplyRec : a = applies[i] /\ (~pfDisturbed => Brought(a) /\ CopyFresh) /\ Accepted(a.rules)
  BY <1>1, ApplyFound DEF Past
<1>3. PICK r \in ApplyRec : /\ r = [a EXCEPT !.at = "relay"] /\ r.at = "relay" /\ r.rules = a.rules
                            /\ r.copy = a.copy /\ r.back = a.back /\ r.ok = a.ok
  BY ApplyTurns DEF ApplyStages
<1>4. applies' = [applies EXCEPT ![i] = r]
  BY <1>1, <1>2, <1>3
<1>5. /\ memory' = [rules |-> a.rules, other |-> memory.other] /\ memory'.rules = a.rules
      /\ memory' \in Config
  BY <1>1, <1>2 DEF PortForwardInv, DiskTypes, Config, ApplyRec
<1>6. TabTypes' /\ DiskTypes' /\ DiskGood'
  BY <1>1, <1>2, <1>5 DEF PortForwardInv, TabTypes, DiskTypes, Goods, DiskGood
<1>7. ASSUME ~pfDisturbed' PROVE ~pfDisturbed /\ CopyFresh' /\ Brought(r)'
  BY <1>1, <1>2, <1>3, <1>5, <1>7 DEF Brought, Same, FileFollows, CopyFresh, Past
<1> QED BY <1>1, <1>2, <1>3, <1>4, <1>6, <1>7, KeptByApply

LEMMA KeptByUpdatePorts == ASSUME PortForwardInv, NEW i \in DOMAIN applies, UpdatePorts(i) PROVE PortForwardInv'
<1>1. /\ applies[i].at = "relay" /\ applies' = [applies EXCEPT ![i].at = "result", ![i].ok = TRUE]
      /\ relay' = applies[i].rules
      /\ UNCHANGED <<pfRules, pfSel, pfMode, pfEditIdx, pfStatus, pfModal, memory, file, setting, socat, pfDisturbed>>
  BY DEF UpdatePorts, tabVars
<1>2. PICK a \in ApplyRec : a = applies[i] /\ (~pfDisturbed => Brought(a) /\ CopyFresh) /\ Accepted(a.rules)
  BY <1>1, ApplyFound DEF Past
<1>3. PICK b \in ApplyRec : /\ b = [a EXCEPT !.at = "result"] /\ b.at = "result" /\ b.rules = a.rules
                            /\ b.copy = a.copy /\ b.back = a.back
  BY ApplyTurns DEF ApplyStages
<1> DEFINE r == [b EXCEPT !.ok = TRUE]
<1>4. r \in ApplyRec /\ r.at = "result" /\ r.rules = a.rules
  <2>1. r \in ApplyRec
    BY DEF ApplyRec
  <2> QED BY <1>3, <2>1 DEF ApplyRec
<1>5. applies' = [applies EXCEPT ![i] = r]
  BY <1>1, <1>2, <1>3
<1> HIDE DEF r
<1>6. TabTypes' /\ DiskTypes' /\ DiskGood'
  BY <1>1, <1>2 DEF PortForwardInv, TabTypes, DiskTypes, Goods, DiskGood, ApplyRec
<1>7. PICK q \in ApplyRec : q = r
  BY <1>4
<1>8. ASSUME ~pfDisturbed' PROVE ~pfDisturbed /\ CopyFresh' /\ Brought(q)'
  BY <1>1, <1>2, <1>4, <1>7, <1>8 DEF Brought, Same, FileFollows, CopyFresh, Past
<1> QED BY <1>1, <1>2, <1>4, <1>5, <1>6, <1>7, <1>8, KeptByApply

LEMMA KeptByResult == ASSUME PortForwardInv, NEW i \in DOMAIN applies, ReloadResult(i) PROVE PortForwardInv'
<1>1. /\ applies[i].at = "result"
      /\ applies' = [applies EXCEPT ![i].at = "answer",
                       ![i].back = IF applies[i].ok THEN @ ELSE memory.rules]
      /\ pfModal' \in {"done", "failed"}
      /\ UNCHANGED <<pfRules, pfSel, pfMode, pfEditIdx, pfStatus, memory, file, setting, socat, relay, pfDisturbed>>
  BY DEF ReloadResult, tabVars, diskVars
<1>2. PICK a \in ApplyRec : a = applies[i] /\ (~pfDisturbed => Brought(a) /\ CopyFresh)
  BY <1>1, ApplyFound
<1>3. PICK b \in ApplyRec : /\ b = [a EXCEPT !.at = "answer"] /\ b.at = "answer" /\ b.rules = a.rules
                            /\ b.copy = a.copy /\ b.back = a.back /\ b.ok = a.ok
  BY ApplyTurns DEF ApplyStages
<1>4. PICK old \in RuleList : old = IF a.ok THEN a.back ELSE memory.rules
  BY DEF PortForwardInv, DiskTypes, Config, ApplyRec
<1> DEFINE r == [b EXCEPT !.back = old]
<1>5. /\ r \in ApplyRec /\ r.at = "answer" /\ r.rules = a.rules /\ r.back = old /\ r.ok = a.ok
  <2>1. r \in ApplyRec
    BY DEF ApplyRec
  <2> QED BY <1>3, <2>1 DEF ApplyRec
<1>6. applies' = [applies EXCEPT ![i] = r]
  <2>1. r = [[a EXCEPT !.at = "answer"] EXCEPT !.back = IF applies[i].ok THEN applies[i].back ELSE memory.rules]
    BY <1>2, <1>3, <1>4
  <2> HIDE DEF r
  <2> QED BY <1>1, <1>2, <2>1
<1> HIDE DEF r
<1>7. TabTypes' /\ DiskTypes' /\ DiskGood'
  BY <1>1 DEF PortForwardInv, TabTypes, DiskTypes, Goods, DiskGood
<1>8. PICK q \in ApplyRec : q = r
  BY <1>5
<1>9. ASSUME ~pfDisturbed' PROVE ~pfDisturbed /\ CopyFresh' /\ Brought(q)'
  <2>1. ~pfDisturbed /\ Brought(a) /\ CopyFresh /\ a.at = "result"
    BY <1>1, <1>2, <1>9
  <2>2. ~q.ok => q.back = memory.rules
    BY <1>4, <1>5, <1>8
  <2> QED BY <1>1, <1>5, <1>8, <2>1, <2>2 DEF Brought, Same, FileFollows, CopyFresh, Past
<1> QED BY <1>1, <1>2, <1>5, <1>6, <1>7, <1>8, <1>9, KeptByApply DEF Past

(* The tab takes the answer, whatever is open in it.                         *)
LEMMA KeptByAnswer == ASSUME PortForwardInv, NEW i \in DOMAIN applies, ApplyResult(i) PROVE PortForwardInv'
<1>1. /\ applies[i].at = "answer" /\ applies' = [applies EXCEPT ![i] = ApplyOver]
      /\ IF applies[i].ok
           THEN pfStatus' = "applied" /\ pfRules' = pfRules /\ pfSel' = pfSel
           ELSE pfStatus' = "failed" /\ pfRules' = applies[i].back /\ pfSel' = SelInside(pfSel, applies[i].back)
      /\ UNCHANGED <<pfMode, pfEditIdx, pfModal, memory, file, setting, socat, relay, pfDisturbed>>
  BY DEF ApplyResult, diskVars
<1>2. PICK a \in ApplyRec : a = applies[i] /\ (~pfDisturbed => Brought(a) /\ CopyFresh)
  BY <1>1, ApplyFound
<1>3. PICK r \in ApplyRec : r = ApplyOver /\ r.at = "end"
  <2>1. PICK b \in ApplyRec : b = NewApply(<< >>)
    BY NoRules DEF NewApply, ApplyRec, ApplyStages
  <2>2. "end" \in ApplyStages
    BY DEF ApplyStages
  <2>3. PICK r \in ApplyRec : r = [b EXCEPT !.at = "end"] /\ r.at = "end"
    BY <2>2, ApplyTurns
  <2>4. r = ApplyOver
    BY <2>1, <2>3 DEF ApplyOver
  <2> QED BY <2>3, <2>4
<1>4. a.back \in RuleList
  BY DEF ApplyRec
<1>5. TabTypes'
  BY <1>1, <1>2, <1>4, SelectionInside DEF PortForwardInv, TabTypes
<1>6. DiskTypes' /\ DiskGood'
  BY <1>1 DEF PortForwardInv, DiskTypes, Goods, DiskGood
<1>7. ASSUME ~pfDisturbed' PROVE ~pfDisturbed /\ CopyFresh' /\ Settled'
  <2>1. ~pfDisturbed /\ Brought(a) /\ a.at = "answer"
    BY <1>1, <1>2, <1>7
  <2> QED BY <1>1, <1>2, <2>1 DEF Brought, Settled, Same, FileFollows, CopyFresh
<1> QED BY <1>1, <1>3, <1>5, <1>6, <1>7, KeptByApply DEF Past

-----------------------------------------------------------------------------
(* Keys and settings.                                                        *)
LEMMA KeptByEmit == ASSUME PortForwardInv, NEW rs \in RuleList, EmitChange(rs) PROVE PortForwardInv'
<1> DEFINE r == NewApply(rs)
<1>1. /\ pfRules' = rs /\ pfSel' = SelInside(pfSel, rs) /\ pfMode' = "none" /\ pfStatus' = "pending"
      /\ applies' = Append(applies, r) /\ (~pfDisturbed' => ~pfDisturbed /\ Ended)
      /\ UNCHANGED <<pfEditIdx, pfModal, memory, file, setting, socat, relay>>
  BY DEF EmitChange, diskVars
<1>2. r \in ApplyRec /\ r.at = "emitted" /\ r.rules = rs /\ ~r.ok
  BY DEF NewApply, ApplyRec, ApplyStages
<1> HIDE DEF r
<1>3. /\ applies \in Seq(ApplyRec) /\ Len(applies) \in Nat /\ DOMAIN applies = 1..Len(applies)
      /\ applies' \in Seq(ApplyRec) /\ DOMAIN applies' = 1..(Len(applies) + 1)
      /\ \A j \in 1..Len(applies) : applies'[j] = applies[j]
      /\ applies'[Len(applies) + 1] = r
  BY <1>1, <1>2, AppendProperties, LenProperties DEF PortForwardInv, ApplyTypes
<1>4. TabTypes'
  BY <1>1, SelectionInside DEF PortForwardInv, TabTypes
<1>5. DiskTypes' /\ DiskGood'
  BY <1>1 DEF PortForwardInv, DiskTypes, Goods, DiskGood
<1>6. ApplyTypes' /\ Goods'
  <2>1. ASSUME NEW j \in DOMAIN applies', applies'[j].at \in Past PROVE Accepted(applies'[j].rules)
    <3>1. j \in 1..Len(applies)
      BY <1>2, <1>3, <2>1 DEF Past
    <3> QED BY <1>3, <2>1, <3>1 DEF PortForwardInv, Goods
  <2> QED BY <1>3, <1>5, <2>1 DEF ApplyTypes, Goods
<1>7. ASSUME ~pfDisturbed' PROVE Stage'
  <2>1. Ended /\ Settled /\ CopyFresh
    BY <1>1, <1>7 DEF PortForwardInv, Stage
  <2>2. \A j \in 1..Len(applies) : applies'[j].at = "end"
    BY <1>3, <2>1 DEF Ended
  <2>3. Single' /\ ~Ended'
    BY <1>2, <1>3, <2>2 DEF Single, Ended
  <2>4. ASSUME NEW j \in DOMAIN applies', applies'[j].at # "end" PROVE Brought(applies[j])'
    <3>1. applies'[j] = r
      BY <1>3, <2>2, <2>4
    <3> QED BY <1>1, <1>2, <2>1, <3>1 DEF Brought, Settled, Same, FileFollows, CopyFresh, Past
  <2>5. \A j \in DOMAIN applies' : applies'[j].at # "end" => Brought(applies[j])'
    BY <2>4
  <2>6. CopyFresh'
    BY <1>1, <2>1 DEF CopyFresh
  <2> QED BY <2>3, <2>5, <2>6 DEF Stage
<1> QED BY <1>4, <1>5, <1>6, <1>7 DEF PortForwardInv

LEMMA KeptBySaveRule == ASSUME PortForwardInv, NEW f \in Forms, SaveRule(f) PROVE PortForwardInv'
<1>1. pfRules \in Seq(Forms) /\ pfRules \in RuleList
  BY DEF PortForwardInv, TabTypes, RuleList
<1>2. PICK rs : /\ Unique(rs) /\ Len(rs) <= MaxRules /\ EmitChange(rs)
                /\ \/ rs = Append(pfRules, f) \/ rs = pfRules
                   \/ pfEditIdx \in DOMAIN pfRules /\ rs = [pfRules EXCEPT ![pfEditIdx] = f]
  <2> DEFINE rs == CASE pfMode = "adding" -> Append(pfRules, f)
                     [] pfMode = "editing" /\ pfEditIdx \in DOMAIN pfRules -> [pfRules EXCEPT ![pfEditIdx] = f]
                     [] OTHER -> pfRules
  <2>1. Unique(rs) /\ Len(rs) <= MaxRules /\ EmitChange(rs)
    BY DEF SaveRule
  <2>2. \/ rs = Append(pfRules, f) \/ rs = pfRules
        \/ pfEditIdx \in DOMAIN pfRules /\ rs = [pfRules EXCEPT ![pfEditIdx] = f]
    OBVIOUS
  <2> HIDE DEF rs
  <2> QED BY <2>1, <2>2
<1>3. rs \in Seq(Forms)
  BY <1>1, <1>2, AppendProperties, ReplaceOne
<1>4. rs \in RuleList
  BY <1>2, <1>3 DEF RuleList
<1> QED BY <1>2, <1>4, KeptByEmit

LEMMA KeptByConfirm == ASSUME PortForwardInv, ConfirmDelete PROVE PortForwardInv'
<1>1. pfRules \in RuleList
  BY DEF PortForwardInv, TabTypes
<1>2. PICK rs \in RuleList : EmitChange(rs)
  BY <1>1, RuleDeleted DEF ConfirmDelete
<1> QED BY <1>2, KeptByEmit

LEMMA KeptByTabKeys ==
  ASSUME PortForwardInv,
         \/ \E s \in 1..MaxRules : KeyMove(s)
         \/ \E mode \in {"adding", "editing", "deleting"} : OpenDialog(mode)
         \/ CancelDialog \/ DismissModal
  PROVE  PortForwardInv'
<1>1. UNCHANGED <<pfRules, pfStatus, applies, memory, file, setting, socat, relay, pfDisturbed>>
  BY DEF KeyMove, OpenDialog, CancelDialog, DismissModal, tabVars, diskVars
<1>2. TabTypes'
  <2>1. CASE \E s \in 1..MaxRules : KeyMove(s)
    <3>1. /\ pfSel' \in DOMAIN pfRules /\ pfSel' \in 1..MaxRules
          /\ UNCHANGED <<pfRules, pfMode, pfEditIdx, pfStatus, pfModal>>
      BY <2>1 DEF KeyMove
    <3>2. pfSel' <= Len(pfRules)
      BY <3>1, LenProperties DEF PortForwardInv, TabTypes, RuleList
    <3> QED BY <3>1, <3>2 DEF PortForwardInv, TabTypes
  <2>2. CASE \E mode \in {"adding", "editing", "deleting"} : OpenDialog(mode)
    <3>1. PICK mode \in {"adding", "editing", "deleting"} : OpenDialog(mode)
      BY <2>2
    <3>2. /\ pfMode' = mode /\ pfEditIdx' \in {0, pfSel, pfEditIdx}
          /\ UNCHANGED <<pfRules, pfSel, pfStatus, pfModal>>
      BY <3>1 DEF OpenDialog
    <3> QED BY <3>2, PortForwardAssumption DEF PortForwardInv, TabTypes
  <2>3. CASE CancelDialog \/ DismissModal
    BY <2>3 DEF CancelDialog, DismissModal, tabVars, PortForwardInv, TabTypes
  <2> QED BY <2>1, <2>2, <2>3
<1>3. DiskTypes' /\ ApplyTypes' /\ Goods'
  BY <1>1 DEF PortForwardInv, DiskTypes, ApplyTypes, Goods, DiskGood
<1>4. ASSUME ~pfDisturbed' PROVE Stage'
  BY <1>1, <1>4 DEF PortForwardInv, Stage, Single, Brought, Same, FileFollows, CopyFresh, Settled, Ended
<1> QED BY <1>2, <1>3, <1>4 DEF PortForwardInv

(* A setting that begins while a change of the rules has its copy of the     *)
(* configuration disturbs it; one that begins before or after does not.      *)
LEMMA KeptByBeginSetting == ASSUME PortForwardInv, BeginSetting PROVE PortForwardInv'
<1>1. /\ setting.at = "idle"
      /\ setting' = [at |-> "save", rules |-> memory.rules, other |-> setting.other + 1]
      /\ (~pfDisturbed' => ~pfDisturbed /\ \A i \in DOMAIN applies : applies[i].at \notin {"save", "memory"})
      /\ UNCHANGED <<pfRules, pfSel, pfMode, pfEditIdx, pfStatus, pfModal, applies, memory, file, socat, relay>>
  BY DEF BeginSetting, Responds, tabVars
<1>2. setting' \in SettingCopy /\ setting'.rules = memory.rules /\ setting'.at = "save"
  BY <1>1 DEF PortForwardInv, DiskTypes, Config, SettingCopy
<1>3. TabTypes' /\ ApplyTypes'
  BY <1>1 DEF PortForwardInv, TabTypes, ApplyTypes
<1>4. DiskTypes' /\ Goods'
  BY <1>1, <1>2 DEF PortForwardInv, DiskTypes, Goods, DiskGood
<1>5. FileFollows' <=> FileFollows
  BY <1>1, <1>2 DEF FileFollows
<1>6. ASSUME ~pfDisturbed' PROVE Stage'
  <2>1. Stage /\ \A i \in DOMAIN applies : applies[i].at \notin {"save", "memory"}
    BY <1>1, <1>6 DEF PortForwardInv
  <2>2. Single' /\ (Ended' => Ended) /\ CopyFresh'
    BY <1>1, <1>2, <2>1 DEF Stage, Single, Ended, CopyFresh
  <2>3. \A i \in DOMAIN applies' : applies'[i].at # "end" => Brought(applies[i])'
    BY <1>1, <1>5, <2>1 DEF Stage, Brought, Same
  <2>4. Ended' => Settled'
    BY <1>1, <1>5, <2>1, <2>2 DEF Stage, Settled, Same
  <2> QED BY <2>2, <2>3, <2>4 DEF Stage
<1> QED BY <1>3, <1>4, <1>6 DEF PortForwardInv

(* It is then the only one that saves or stores the configuration.           *)
LEMMA KeptBySaveSetting == ASSUME PortForwardInv, SaveSetting PROVE PortForwardInv'
<1>1. /\ setting.at = "save"
      /\ \/ /\ setting' = [setting EXCEPT !.at = "store"]
            /\ file' = [rules |-> setting.rules, other |-> setting.other]
         \/ setting' = NoSetting(setting.other) /\ file' \in {file, Cut}
      /\ UNCHANGED <<pfRules, pfSel, pfMode, pfEditIdx, pfStatus, pfModal, applies, memory, socat, relay, pfDisturbed>>
  BY DEF SaveSetting, tabVars
<1>2. PICK c \in SettingCopy : c = setting /\ c.rules \in RuleList /\ c.other \in Nat /\ Accepted(c.rules)
  BY DEF PortForwardInv, DiskTypes, SettingCopy, Goods, DiskGood
<1>3. /\ setting' \in SettingCopy /\ Accepted(setting'.rules)
      /\ \/ /\ setting'.at = "store" /\ setting'.rules = c.rules /\ setting'.other = c.other
            /\ file' = [rules |-> c.rules, other |-> c.other]
         \/ setting'.at = "idle" /\ file' \in {file, Cut}
  <2>1. CASE setting' = NoSetting(setting.other) /\ file' \in {file, Cut}
    BY <1>2, <2>1, NoRules DEF NoSetting, SettingCopy
  <2>2. CASE setting' = [c EXCEPT !.at = "store"] /\ file' = [rules |-> c.rules, other |-> c.other]
    BY <1>2, <2>2 DEF SettingCopy
  <2> QED BY <1>1, <1>2, <2>1, <2>2
<1>4. file' \in ConfigFile /\ Accepted(file'.rules)
  BY <1>2, <1>3, CutIsGood DEF PortForwardInv, DiskTypes, ConfigFile, Goods, DiskGood
<1>5. TabTypes' /\ ApplyTypes'
  BY <1>1 DEF PortForwardInv, TabTypes, ApplyTypes
<1>6. DiskTypes' /\ Goods'
  BY <1>1, <1>3, <1>4 DEF PortForwardInv, DiskTypes, Goods, DiskGood
<1>7. ASSUME ~pfDisturbed' PROVE Stage'
  <2>1. Stage /\ setting.rules = memory.rules
    BY <1>1, <1>7 DEF PortForwardInv, Stage, CopyFresh
  <2>2. Single' /\ (Ended' => Ended) /\ CopyFresh'
    BY <1>1, <1>2, <1>3, <2>1 DEF Stage, Single, Ended, CopyFresh
  <2>3. FileFollows => FileFollows'
    BY <1>1, <1>3 DEF FileFollows
  <2>4. \A i \in DOMAIN applies : applies[i].at \notin {"save", "memory"}
    BY <1>1, <2>1 DEF Stage, Brought
  <2>5. \A i \in DOMAIN applies' : applies'[i].at # "end" => Brought(applies[i])'
    BY <1>1, <2>1, <2>3, <2>4 DEF Stage, Brought, Same
  <2>6. Ended' => Settled'
    BY <1>1, <2>1, <2>2, <2>3 DEF Stage, Settled, Same
  <2> QED BY <2>2, <2>5, <2>6 DEF Stage
<1> QED BY <1>5, <1>6, <1>7 DEF PortForwardInv

LEMMA KeptByStoreSetting == ASSUME PortForwardInv, StoreSetting PROVE PortForwardInv'
<1>1. /\ setting.at = "store" /\ setting' = NoSetting(setting.other)
      /\ memory' = [rules |-> setting.rules, other |-> setting.other]
      /\ UNCHANGED <<pfRules, pfSel, pfMode, pfEditIdx, pfStatus, pfModal, applies, file, socat, relay, pfDisturbed>>
  BY DEF StoreSetting, tabVars
<1>2. setting.rules \in RuleList /\ setting.other \in Nat /\ Accepted(setting.rules)
  BY DEF PortForwardInv, DiskTypes, SettingCopy, Goods, DiskGood
<1>3. memory' \in Config /\ memory'.rules = setting.rules
  BY <1>1, <1>2 DEF Config
<1>4. setting' \in SettingCopy /\ setting'.at = "idle" /\ Accepted(setting'.rules)
  BY <1>1, <1>2, NoRules DEF NoSetting, SettingCopy
<1>5. TabTypes' /\ ApplyTypes'
  BY <1>1 DEF PortForwardInv, TabTypes, ApplyTypes
<1>6. DiskTypes' /\ Goods'
  BY <1>1, <1>2, <1>3, <1>4 DEF PortForwardInv, DiskTypes, Goods, DiskGood
<1>7. ASSUME ~pfDisturbed' PROVE Stage'
  <2>1. Stage /\ memory'.rules = memory.rules
    BY <1>1, <1>3, <1>7 DEF PortForwardInv, Stage, CopyFresh
  <2>2. Single' /\ (Ended' => Ended) /\ CopyFresh'
    BY <1>1, <1>4, <2>1 DEF Stage, Single, Ended, CopyFresh
  <2>3. FileFollows => FileFollows'
    BY <1>1, <1>4 DEF FileFollows
  <2>4. \A i \in DOMAIN applies : applies[i].at \notin {"save", "memory"}
    BY <1>1, <2>1 DEF Stage, Brought
  <2>5. \A i \in DOMAIN applies' : applies'[i].at # "end" => Brought(applies[i])'
    BY <1>1, <2>1, <2>3, <2>4 DEF Stage, Brought, Same
  <2>6. Ended' => Settled'
    BY <1>1, <2>1, <2>2, <2>3 DEF Stage, Settled, Same
  <2> QED BY <2>2, <2>5, <2>6 DEF Stage
<1> QED BY <1>5, <1>6, <1>7 DEF PortForwardInv

-----------------------------------------------------------------------------
LEMMA PortForwardBegins == PortForwardInit => PortForwardInv
<1> SUFFICES ASSUME PortForwardInit PROVE PortForwardInv
  OBVIOUS
<1>1. PICK f \in Forms : Accepted(<<f>>) /\ Start = <<f>>
  BY SomeRule DEF Start
<1>2. Start \in RuleList /\ Accepted(Start) /\ Len(Start) = 1
  BY <1>1, OneRule
<1>3. memory = [rules |-> Start, other |-> 0] /\ memory \in Config /\ memory.rules = Start
  BY <1>2 DEF PortForwardInit, Config
<1>8. file = memory /\ file \in ConfigFile
  BY <1>2, <1>3 DEF PortForwardInit, ConfigFile
<1>9. setting = NoSetting(0) /\ setting.at = "idle" /\ setting \in SettingCopy /\ Accepted(setting.rules)
  BY NoRules DEF PortForwardInit, NoSetting, SettingCopy
<1>4. TabTypes
  BY <1>2, PortForwardAssumption DEF PortForwardInit, TabTypes
<1>5. DiskTypes /\ DiskGood
  BY <1>2, <1>3, <1>8, <1>9 DEF PortForwardInit, DiskTypes, DiskGood
<1>6. ApplyTypes /\ Goods
  BY <1>5, EmptySeq DEF PortForwardInit, ApplyTypes, Goods
<1>7. Stage
  BY <1>3, <1>8, <1>9 DEF PortForwardInit, Stage, Single, Settled, Same, FileFollows, CopyFresh, Ended
<1> QED BY <1>4, <1>5, <1>6, <1>7 DEF PortForwardInv

LEMMA PortForwardStepKeeps == PortForwardInv /\ [PortForwardNext]_portForwardVars => PortForwardInv'
<1> SUFFICES ASSUME PortForwardInv, [PortForwardNext]_portForwardVars PROVE PortForwardInv'
  OBVIOUS
<1>1. CASE Applying
  BY <1>1, KeptByChanged, KeptByReload, KeptByCopy, KeptBySave, KeptBySetConfig, KeptByUpdatePorts, KeptByResult,
    KeptByAnswer, KeptBySaveSetting, KeptByStoreSetting DEF Applying, ApplyStep, SettingStep
<1>2. CASE \/ \E s \in 1..MaxRules : KeyMove(s)
           \/ \E mode \in {"adding", "editing", "deleting"} : OpenDialog(mode)
           \/ CancelDialog \/ DismissModal
  BY <1>2, KeptByTabKeys
<1>3. CASE ConfirmDelete \/ BeginSetting \/ \E f \in Forms : SaveRule(f)
  BY <1>3, KeptByConfirm, KeptByBeginSetting, KeptBySaveRule
<1>4. CASE UNCHANGED portForwardVars
  <2>1. UNCHANGED <<pfRules, pfSel, pfMode, pfEditIdx, pfStatus, pfModal, applies, memory, file, setting,
                  socat, relay, pfDisturbed>>
    BY <1>4 DEF portForwardVars, tabVars, diskVars
  <2> QED BY <2>1 DEF PortForwardInv, TabTypes, DiskTypes, ApplyTypes, Goods, DiskGood, Stage, Single, Brought,
          Same, FileFollows, CopyFresh, Settled, Ended
<1> QED BY <1>1, <1>2, <1>3, <1>4 DEF PortForwardNext

LEMMA PortForwardsAgree == PortForwardInv => PortForwardTypeOK /\ PortsFree /\ ChangesAgree
<1> SUFFICES ASSUME PortForwardInv PROVE PortForwardTypeOK /\ PortsFree /\ ChangesAgree
  OBVIOUS
<1>1. \A rs \in {pfRules, memory.rules, file.rules, setting.rules, socat, relay} : rs \in RuleList
  BY DEF PortForwardInv, TabTypes, DiskTypes, Config, ConfigFile, SettingCopy
<1>2. PortForwardTypeOK
  BY <1>1 DEF PortForwardInv, TabTypes, PortForwardTypeOK, RuleList
<1>3. PortsFree
  BY <1>1, PortOnce DEF PortForwardInv, Goods, DiskGood, PortsFree
<1>4. ChangesAgree
  BY DEF PortForwardInv, Stage, Settled, Same, FileFollows, ChangesAgree
<1> QED BY <1>2, <1>3, <1>4

-----------------------------------------------------------------------------
(***************************************************************************)
(* The settings and routes tabs.  What runs has taken the change that       *)
(* arrived last (Latest), as long as none came behind a later one; and the  *)
(* change sent last holds what is shown.                                    *)
(***************************************************************************)
Values == {v \in [Settings -> Nat] : \A s \in Settings : v[s] \in Least[s]..Most[s]}
Setting == [values : Values, sound : BOOLEAN]
SettingSent == [at : {"sent", "end"}, values : Values, sound : BOOLEAN]
Latest(sent, i) == sent[i].at = "end" /\ \A j \in DOMAIN sent : j > i => sent[j].at # "end"

SettingTypes ==
  /\ values \in Values /\ sound \in BOOLEAN /\ stSel \in Settings /\ stBuf \in Int
  /\ stSent \in Seq(SettingSent) /\ config \in [memory : Setting, file : Setting \cup {CutSetting}]
LiveConfig == live.acl = config.memory.values /\ config.file \in {config.memory, CutSetting}
LastSetting == stSent # << >> => stSent[Len(stSent)].values = values /\ stSent[Len(stSent)].sound = sound
Runs(v, s) ==
  /\ live.views = v /\ live.alert = s
  /\ ~stFailed => config.memory = [values |-> v, sound |-> s] /\ config.file = config.memory
SettingTaken ==
  /\ stSent = << >> => Runs(values, sound)
  /\ ~stOvertaken => \A i \in DOMAIN stSent : Latest(stSent, i) => Runs(stSent[i].values, stSent[i].sound)
SettingsInv == SettingTypes /\ LiveConfig /\ LastSetting /\ SettingTaken

RouteSent == [at : {"command", "copying", "sent", "end"}, length : Nat, read : Seq(Routes \cup {Blank})]
RouteTypes ==
  /\ routes \in Seq(Routes) /\ Len(routes) <= MaxRoutes
  /\ rtSel \in 1..MaxRoutes /\ rtEditIdx \in 0..MaxRoutes
  /\ rtMode = "deleting" => rtSel \in DOMAIN routes
  /\ rtSent \in Seq(RouteSent)
LastRoutes == rtSent # << >> => /\ rtSent[Len(rtSent)].at = "copying" => rtSent[Len(rtSent)].length = Len(routes)
                                /\ rtSent[Len(rtSent)].at \in {"sent", "end"} => rtSent[Len(rtSent)].read = routes
Serves(rs) == server = rs /\ (~rtFailed => kept = rs)
RoutesTaken ==
  /\ rtSent = << >> => Serves(routes)
  /\ ~rtOvertaken => \A i \in DOMAIN rtSent : Latest(rtSent, i) => Serves(rtSent[i].read)
RoutesInv == RouteTypes /\ LastRoutes /\ RoutesTaken

(* A value that is set stays between its bounds.                             *)
LEMMA ClampInside ==
  ASSUME NEW v \in Int, NEW s \in Settings
  PROVE  Clamp(v, s) \in Least[s]..Most[s] /\ Least[s] \in Nat /\ Most[s] \in Nat
<1>1. Least[s] \in Nat /\ Most[s] \in Nat /\ Least[s] <= Most[s]
  BY RuntimeTabsAssumption
<1> QED BY <1>1 DEF Clamp

LEMMA ValueSet ==
  ASSUME NEW vs \in Values, NEW v \in Int, NEW s \in Settings
  PROVE  [vs EXCEPT ![s] = Clamp(v, s)] \in Values /\ vs[s] \in Nat
<1>1. Clamp(v, s) \in Least[s]..Most[s] /\ Least[s] \in Nat /\ Most[s] \in Nat
  BY ClampInside
<1>2. Clamp(v, s) \in Nat
  BY <1>1
<1> DEFINE c == Clamp(v, s)
<1> HIDE DEF c
<1> QED BY <1>1, <1>2 DEF Values, c

(* What is sent is behind what was sent, and the last of it is shown.        *)
LEMMA SettingEmitted ==
  ASSUME SettingsInv, NEW v \in Values, NEW s \in BOOLEAN, EmitSettings(v, s), stSel' \in Settings, stBuf' \in Int
  PROVE  SettingsInv'
<1> DEFINE r == [at |-> "sent", values |-> v, sound |-> s]
<1>1. /\ values' = v /\ sound' = s /\ stSent' = Append(stSent, r)
      /\ UNCHANGED <<config, live, stOvertaken, stFailed>>
  BY DEF EmitSettings
<1>2. r \in SettingSent /\ r.at = "sent" /\ r.values = v /\ r.sound = s
  BY DEF SettingSent
<1> HIDE DEF r
<1>3. /\ Len(stSent) \in Nat /\ DOMAIN stSent = 1..Len(stSent)
      /\ stSent' \in Seq(SettingSent) /\ Len(stSent') = Len(stSent) + 1 /\ DOMAIN stSent' = 1..(Len(stSent) + 1)
      /\ \A j \in 1..Len(stSent) : stSent'[j] = stSent[j]
      /\ stSent'[Len(stSent) + 1] = r
  BY <1>1, <1>2, AppendProperties, LenProperties DEF SettingsInv, SettingTypes
<1>4. SettingTypes' /\ LiveConfig'
  BY <1>1, <1>3 DEF SettingsInv, SettingTypes, LiveConfig
<1>5. LastSetting'
  BY <1>1, <1>2, <1>3 DEF LastSetting
<1>6. SettingTaken'
  <2>1. stSent' # << >>
    BY <1>3, EmptySeq
  <2>2. ASSUME ~stOvertaken', NEW i \in DOMAIN stSent', Latest(stSent, i)'
        PROVE  Runs(stSent[i].values, stSent[i].sound)'
    <3>1. i \in 1..Len(stSent) /\ stSent'[i] = stSent[i]
      BY <1>2, <1>3, <2>2 DEF Latest
    <3>2. Latest(stSent, i)
      BY <1>3, <2>2, <3>1 DEF Latest
    <3>3. Runs(stSent[i].values, stSent[i].sound)
      BY <1>1, <1>3, <2>2, <3>1, <3>2 DEF SettingsInv, SettingTaken
    <3> QED BY <1>1, <3>1, <3>3 DEF Runs
  <2> QED BY <2>1, <2>2 DEF SettingTaken
<1> QED BY <1>4, <1>5, <1>6 DEF SettingsInv

(* Keys that send nothing.                                                   *)
LEMMA SettingsQuiet ==
  ASSUME SettingsInv, UNCHANGED <<values, sound, stSent, config, live, stOvertaken, stFailed>>,
         stSel' \in Settings, stBuf' \in Int
  PROVE  SettingsInv'
BY DEF SettingsInv, SettingTypes, LiveConfig, LastSetting, SettingTaken, Runs, Latest

LEMMA KeptBySettingsKeys ==
  ASSUME SettingsInv,
         \/ \E s \in Settings : SelectSetting(s)
         \/ \E d \in {-10, -1, 1, 10} : AdjustValue(d) \/ AdjustBuf(d)
         \/ SetSound \/ EditSetting \/ CommitSetting
         \/ \E v \in Typed \cup {NoNumber} : TypeNumber(v)
  PROVE  SettingsInv'
<1>1. stSel \in Settings /\ stBuf \in Int /\ values \in Values /\ sound \in BOOLEAN
  BY DEF SettingsInv, SettingTypes
<1>2. CASE \E s \in Settings : SelectSetting(s)
  BY <1>1, <1>2, SettingsQuiet DEF SelectSetting
<1>3. ASSUME NEW d \in {-10, -1, 1, 10}, AdjustValue(d) PROVE SettingsInv'
  <2>1. values[stSel] \in Nat
    BY <1>1, ValueSet
  <2>2. [values EXCEPT ![stSel] = Clamp(values[stSel] + d, stSel)] \in Values
    BY <1>1, <2>1, ValueSet
  <2> QED BY <1>1, <1>3, <2>2, SettingEmitted DEF AdjustValue
<1>4. ASSUME NEW d \in {-10, -1, 1, 10}, AdjustBuf(d) PROVE SettingsInv'
  <2>1. Clamp(stBuf + d, stSel) \in Int
    BY <1>1, ClampInside
  <2> QED BY <1>1, <1>4, <2>1, SettingsQuiet DEF AdjustBuf
<1>5. CASE SetSound
  <2>1. PICK s \in BOOLEAN : s = ~sound
    OBVIOUS
  <2> QED BY <1>1, <1>5, <2>1, SettingEmitted DEF SetSound
<1>6. CASE EditSetting
  <2>1. values[stSel] \in Nat
    BY <1>1, ValueSet
  <2>2. values[stSel] \in Int
    BY <2>1
  <2> QED BY <1>1, <1>6, <2>2, SettingsQuiet DEF EditSetting
<1>7. CASE CommitSetting
  <2>1. [values EXCEPT ![stSel] = Clamp(stBuf, stSel)] \in Values
    BY <1>1, ValueSet
  <2> QED BY <1>1, <1>7, <2>1, SettingEmitted, SettingsQuiet DEF CommitSetting
<1>8. ASSUME NEW v \in Typed \cup {NoNumber}, TypeNumber(v) PROVE SettingsInv'
  <2>1. v \in Int
    BY RuntimeTabsAssumption DEF NoNumber
  <2> QED BY <1>1, <1>8, <2>1, SettingsQuiet DEF TypeNumber
<1> QED BY <1>2, <1>3, <1>4, <1>5, <1>6, <1>7, <1>8

(* A change that arrives is the latest, unless it came behind a later one.   *)
LEMMA LatestArrived ==
  ASSUME NEW R, NEW sent \in Seq(R), NEW i \in DOMAIN sent, NEW r \in R, r.at = "end",
         NEW new, new = [sent EXCEPT ![i] = r], ~Overtakes(sent, i),
         NEW k \in DOMAIN new, Latest(new, k)
  PROVE  k = i
<1>1. /\ DOMAIN sent = 1..Len(sent) /\ Len(sent) \in Nat /\ DOMAIN new = DOMAIN sent
      /\ new[i] = r /\ \A j \in DOMAIN sent \ {i} : new[j] = sent[j]
  BY ReplaceOne, LenProperties
<1>2. ~(i > k)
  BY <1>1 DEF Latest
<1>3. ~(k > i)
  <2> SUFFICES ASSUME k > i PROVE FALSE
    OBVIOUS
  <2>1. sent[k].at = "end"
    BY <1>1 DEF Latest
  <2> QED BY <1>1, <2>1 DEF Overtakes
<1> QED BY <1>1, <1>2, <1>3

LEMMA KeptByArrival == ASSUME SettingsInv, NEW i \in DOMAIN stSent, SettingsChanged(i) PROVE SettingsInv'
<1>1. PICK a \in SettingSent : a = stSent[i]
  BY ElementOfSeq, LenProperties DEF SettingsInv, SettingTypes
<1> DEFINE new == [values |-> a.values, sound |-> a.sound]
           r == [a EXCEPT !.at = "end"]
<1>2. /\ new \in Setting /\ new.values = a.values /\ new.sound = a.sound
      /\ r \in SettingSent /\ r.at = "end" /\ r.values = a.values /\ r.sound = a.sound
  BY DEF Setting, SettingSent
<1>3. /\ stSent' = [stSent EXCEPT ![i] = r]
      /\ \/ config' = [memory |-> new, file |-> new] /\ ~stFailed'
         \/ stFailed' /\ \E f \in {config.file, CutSetting} : config' = [config EXCEPT !.file = f]
      /\ live' = [acl |-> config'.memory.values, alert |-> a.sound, views |-> a.values]
      /\ (~stOvertaken' => ~Overtakes(stSent, i))
      /\ UNCHANGED <<values, sound, stSel, stBuf>>
  BY <1>1 DEF SettingsChanged
<1>4. PICK n \in Setting : n = new
  BY <1>2
<1>5. PICK q \in SettingSent : q = r
  BY <1>2
<1>6. /\ stSent' = [stSent EXCEPT ![i] = q] /\ q.at = "end" /\ q.values = a.values /\ q.sound = a.sound
      /\ n.values = a.values /\ n.sound = a.sound /\ n = [values |-> a.values, sound |-> a.sound]
      /\ \/ config' = [memory |-> n, file |-> n] /\ ~stFailed'
         \/ stFailed' /\ \E f \in {config.file, CutSetting} : config' = [config EXCEPT !.file = f]
  BY <1>2, <1>3, <1>4, <1>5
<1> HIDE DEF new, r
<1>7. /\ stSent' \in Seq(SettingSent) /\ Len(stSent') = Len(stSent) /\ DOMAIN stSent' = DOMAIN stSent
      /\ stSent'[i] = q /\ \A j \in DOMAIN stSent \ {i} : stSent'[j] = stSent[j]
  BY <1>6, ReplaceOne DEF SettingsInv, SettingTypes
<1>8. /\ config' \in [memory : Setting, file : Setting \cup {CutSetting}]
      /\ config'.file \in {config'.memory, CutSetting}
      /\ (~stFailed' => config'.memory = n /\ config'.file = config'.memory)
  <2>1. CASE config' = [memory |-> n, file |-> n] /\ ~stFailed'
    BY <2>1
  <2>2. ASSUME NEW f \in {config.file, CutSetting}, config' = [config EXCEPT !.file = f], stFailed'
        PROVE  /\ config' \in [memory : Setting, file : Setting \cup {CutSetting}]
               /\ config'.file \in {config'.memory, CutSetting}
    <3>1. config \in [memory : Setting, file : Setting \cup {CutSetting}] /\ config.file \in {config.memory, CutSetting}
      BY DEF SettingsInv, SettingTypes, LiveConfig
    <3>2. config' = [memory |-> config.memory, file |-> f]
      BY <2>2, <3>1
    <3> QED BY <2>2, <3>1, <3>2
  <2> QED BY <1>6, <2>1, <2>2
<1>9. SettingTypes'
  BY <1>3, <1>7, <1>8 DEF SettingsInv, SettingTypes
<1>10. LiveConfig' /\ live'.views = a.values /\ live'.alert = a.sound
  BY <1>3, <1>8 DEF LiveConfig
<1>11. LastSetting'
  <2>1. Len(stSent) \in Nat /\ DOMAIN stSent = 1..Len(stSent) /\ stSent # << >>
    BY LenProperties, EmptySeq DEF SettingsInv, SettingTypes
  <2>2. Len(stSent) \in DOMAIN stSent
    BY <2>1
  <2>3. stSent'[Len(stSent)].values = stSent[Len(stSent)].values /\ stSent'[Len(stSent)].sound = stSent[Len(stSent)].sound
    BY <1>1, <1>6, <1>7, <2>2
  <2> QED BY <1>3, <1>7, <2>1, <2>3 DEF SettingsInv, LastSetting
<1>12. SettingTaken'
  <2>1. stSent' # << >>
    BY <1>7
  <2>2. ASSUME ~stOvertaken', NEW k \in DOMAIN stSent', Latest(stSent, k)'
        PROVE  Runs(stSent[k].values, stSent[k].sound)'
    <3>1. stSent \in Seq(SettingSent) /\ ~Overtakes(stSent, i)
      BY <1>3, <2>2 DEF SettingsInv, SettingTypes
    <3>2. PICK sent : sent = stSent'
      OBVIOUS
    <3>3. Latest(sent, k)
      BY <2>2, <3>2 DEF Latest
    <3>4. sent = [stSent EXCEPT ![i] = q] /\ q.at = "end" /\ k \in DOMAIN sent
      BY <1>6, <2>2, <3>2, Zenon
    <3>5. k = i
      BY <3>1, <3>3, <3>4, LatestArrived
    <3> QED BY <1>6, <1>7, <1>8, <1>10, <3>5 DEF Runs
  <2> QED BY <2>1, <2>2 DEF SettingTaken
<1> QED BY <1>9, <1>10, <1>11, <1>12 DEF SettingsInv

-----------------------------------------------------------------------------
LEMMA RoutesEmitted ==
  ASSUME RoutesInv, NEW rs \in Seq(Routes), Len(rs) <= MaxRoutes, EmitRoutes(rs) PROVE RoutesInv'
<1> DEFINE r == [at |-> "command", length |-> 0, read |-> << >>]
<1>1. /\ routes' = rs /\ rtSel' = (IF rtSel > Len(rs) /\ rs # << >> THEN Len(rs) ELSE rtSel)
      /\ rtMode' = "none" /\ rtSent' = Append(rtSent, r)
      /\ UNCHANGED <<rtEditIdx, server, kept, rtOvertaken, rtFailed>>
  BY DEF EmitRoutes
<1>2. r \in RouteSent /\ r.at = "command"
  <2>1. << >> \in Seq(Routes \cup {Blank})
    BY EmptySeq
  <2> QED BY <2>1 DEF RouteSent
<1> HIDE DEF r
<1>3. /\ Len(rtSent) \in Nat /\ DOMAIN rtSent = 1..Len(rtSent)
      /\ rtSent' \in Seq(RouteSent) /\ Len(rtSent') = Len(rtSent) + 1 /\ DOMAIN rtSent' = 1..(Len(rtSent) + 1)
      /\ \A j \in 1..Len(rtSent) : rtSent'[j] = rtSent[j]
      /\ rtSent'[Len(rtSent) + 1] = r
  BY <1>1, <1>2, AppendProperties, LenProperties DEF RoutesInv, RouteTypes
<1>4. RouteTypes'
  <2>1. Len(rs) \in Nat /\ (rs # << >> => Len(rs) > 0)
    BY LenProperties, EmptySeq
  <2>2. rtSel' \in 1..MaxRoutes
    BY <1>1, <2>1, RuntimeTabsAssumption DEF RoutesInv, RouteTypes
  <2> QED BY <1>1, <1>3, <2>2 DEF RoutesInv, RouteTypes
<1>5. LastRoutes'
  BY <1>2, <1>3 DEF LastRoutes
<1>6. RoutesTaken'
  <2>1. rtSent' # << >>
    BY <1>3, EmptySeq
  <2>2. ASSUME ~rtOvertaken', NEW i \in DOMAIN rtSent', Latest(rtSent, i)' PROVE Serves(rtSent[i].read)'
    <3>1. i \in 1..Len(rtSent) /\ rtSent'[i] = rtSent[i]
      BY <1>2, <1>3, <2>2 DEF Latest
    <3>2. Latest(rtSent, i)
      BY <1>3, <2>2, <3>1 DEF Latest
    <3>3. Serves(rtSent[i].read)
      BY <1>1, <1>3, <2>2, <3>1, <3>2 DEF RoutesInv, RoutesTaken
    <3> QED BY <1>1, <3>1, <3>3 DEF Serves
  <2> QED BY <2>1, <2>2 DEF RoutesTaken
<1> QED BY <1>4, <1>5, <1>6 DEF RoutesInv

LEMMA KeptByRouteKeys ==
  ASSUME RoutesInv,
         \/ \E mode \in {"adding", "editing", "deleting"} : RouteDialog(mode)
         \/ \E s \in 1..MaxRoutes : SelectRoute(s)
         \/ CancelRoute
  PROVE  RoutesInv'
<1>1. UNCHANGED <<routes, rtSent, server, kept, rtOvertaken, rtFailed>>
  BY DEF RouteDialog, SelectRoute, CancelRoute
<1>2. RouteTypes'
  <2>1. ASSUME NEW mode \in {"adding", "editing", "deleting"}, RouteDialog(mode) PROVE RouteTypes'
    <3>1. /\ rtMode' = mode /\ rtSel' = rtSel /\ rtEditIdx' \in {0, rtSel, rtEditIdx}
          /\ (mode # "adding" => rtSel \in DOMAIN routes)
      BY <2>1 DEF RouteDialog
    <3> QED BY <1>1, <3>1, RuntimeTabsAssumption DEF RoutesInv, RouteTypes
  <2>2. ASSUME NEW s \in 1..MaxRoutes, SelectRoute(s) PROVE RouteTypes'
    BY <1>1, <2>2 DEF SelectRoute, RoutesInv, RouteTypes
  <2>3. CASE CancelRoute
    BY <1>1, <2>3 DEF CancelRoute, RoutesInv, RouteTypes
  <2> QED BY <2>1, <2>2, <2>3
<1>3. LastRoutes' /\ RoutesTaken'
  BY <1>1 DEF RoutesInv, LastRoutes, RoutesTaken, Serves, Latest
<1> QED BY <1>2, <1>3 DEF RoutesInv

LEMMA KeptByRouteSaved == ASSUME RoutesInv, (\E r \in Routes : SaveRoute(r)) \/ DeleteRoute PROVE RoutesInv'
<1>1. routes \in Seq(Routes) /\ Len(routes) <= MaxRoutes /\ Len(routes) \in Nat
  BY LenProperties DEF RoutesInv, RouteTypes
<1>2. ASSUME NEW r \in Routes, SaveRoute(r) PROVE RoutesInv'
  <2>1. CASE Len(routes) < MaxRoutes /\ EmitRoutes(Append(routes, r))
    <3>1. Append(routes, r) \in Seq(Routes) /\ Len(Append(routes, r)) <= MaxRoutes
      BY <1>1, <2>1, AppendProperties, RuntimeTabsAssumption
    <3> QED BY <2>1, <3>1, RoutesEmitted
  <2>2. CASE EmitRoutes([routes EXCEPT ![rtEditIdx] = r])
    <3>1. [routes EXCEPT ![rtEditIdx] = r] \in Seq(Routes) /\ Len([routes EXCEPT ![rtEditIdx] = r]) = Len(routes)
      <4>1. CASE rtEditIdx \in DOMAIN routes
        BY <1>1, <4>1, ReplaceOne
      <4>2. CASE rtEditIdx \notin DOMAIN routes
        <5>1. [routes EXCEPT ![rtEditIdx] = r] = routes
          BY <1>1, <4>2
        <5> QED BY <1>1, <5>1
      <4> QED BY <4>1, <4>2
    <3> QED BY <1>1, <2>2, <3>1, RoutesEmitted
  <2> QED BY <1>2, <2>1, <2>2 DEF SaveRoute
<1>3. CASE DeleteRoute
  <2>1. rtSel \in DOMAIN routes /\ EmitRoutes(RemoveAt(routes, rtSel))
    BY <1>3 DEF DeleteRoute, RoutesInv, RouteTypes
  <2>2. RemoveAt(routes, rtSel) = Dropped(routes, rtSel)
    BY DEF RemoveAt, Dropped
  <2>3. RemoveAt(routes, rtSel) \in Seq(Routes) /\ Len(RemoveAt(routes, rtSel)) = Len(routes) - 1
    BY <1>1, <2>1, <2>2, DropFacts
  <2>4. PICK rs \in Seq(Routes) : rs = RemoveAt(routes, rtSel) /\ Len(rs) <= MaxRoutes
    BY <1>1, <2>3, RuntimeTabsAssumption
  <2> QED BY <2>1, <2>4, RoutesEmitted
<1> QED BY <1>2, <1>3

(* A change that goes on: the last one reads the routes as they are shown.   *)
LEMMA KeptByRead ==
  ASSUME RoutesInv, NEW i \in DOMAIN rtSent, rtSent[i].at # "end",
         NEW r \in RouteSent, r.at # "end", rtSent' = [rtSent EXCEPT ![i] = r],
         UNCHANGED <<routes, rtSel, rtMode, rtEditIdx, server, kept, rtOvertaken, rtFailed>>,
         i = Len(rtSent) => /\ (r.at = "copying" => r.length = Len(routes))
                            /\ (r.at = "sent" => r.read = routes)
  PROVE  RoutesInv'
<1>1. /\ rtSent' \in Seq(RouteSent) /\ Len(rtSent') = Len(rtSent) /\ DOMAIN rtSent' = DOMAIN rtSent
      /\ rtSent'[i] = r /\ \A j \in DOMAIN rtSent \ {i} : rtSent'[j] = rtSent[j]
      /\ Len(rtSent) \in Nat /\ DOMAIN rtSent = 1..Len(rtSent)
  BY ReplaceOne, LenProperties DEF RoutesInv, RouteTypes
<1>2. RouteTypes'
  BY <1>1 DEF RoutesInv, RouteTypes
<1>3. LastRoutes'
  <2>1. CASE i = Len(rtSent)
    BY <1>1, <2>1 DEF LastRoutes
  <2>2. CASE i # Len(rtSent)
    <3>1. Len(rtSent) \in DOMAIN rtSent \ {i} /\ rtSent # << >>
      BY <1>1, <2>2
    <3> QED BY <1>1, <3>1 DEF RoutesInv, LastRoutes
  <2> QED BY <2>1, <2>2
<1>4. RoutesTaken'
  <2>1. rtSent' # << >>
    BY <1>1
  <2>2. ASSUME ~rtOvertaken', NEW k \in DOMAIN rtSent', Latest(rtSent, k)' PROVE Serves(rtSent[k].read)'
    <3>1. k \in DOMAIN rtSent \ {i} /\ rtSent'[k] = rtSent[k]
      BY <1>1, <2>2 DEF Latest
    <3>2. Latest(rtSent, k)
      BY <1>1, <2>2, <3>1 DEF Latest
    <3>3. Serves(rtSent[k].read)
      BY <2>2, <3>1, <3>2 DEF RoutesInv, RoutesTaken
    <3> QED BY <3>1, <3>3 DEF Serves
  <2> QED BY <2>1, <2>2 DEF RoutesTaken
<1> QED BY <1>2, <1>3, <1>4 DEF RoutesInv

LEMMA KeptByReadLength == ASSUME RoutesInv, NEW i \in DOMAIN rtSent, ReadLength(i) PROVE RoutesInv'
<1>1. PICK a \in RouteSent : a = rtSent[i]
  BY ElementOfSeq, LenProperties DEF RoutesInv, RouteTypes
<1>2. PICK n \in Nat : n = Len(routes)
  BY LenProperties DEF RoutesInv, RouteTypes
<1> DEFINE r == [[a EXCEPT !.at = "copying"] EXCEPT !.length = n]
<1>3. r \in RouteSent /\ r.at = "copying" /\ r.length = n
  BY DEF RouteSent
<1>4. rtSent' = [rtSent EXCEPT ![i] = r] /\ rtSent[i].at = "command"
  BY <1>1, <1>2 DEF ReadLength
<1> HIDE DEF r
<1>5. UNCHANGED <<routes, rtSel, rtMode, rtEditIdx, server, kept, rtOvertaken, rtFailed>>
  BY DEF ReadLength
<1>6. rtSent[i].at # "end" /\ r.at # "end" /\ (r.at = "copying" => r.length = Len(routes)) /\ r.at # "sent"
  BY <1>2, <1>3, <1>4
<1> QED BY <1>3, <1>4, <1>5, <1>6, KeptByRead

LEMMA KeptByCopyRoutes == ASSUME RoutesInv, NEW i \in DOMAIN rtSent, CopyRoutes(i) PROVE RoutesInv'
<1>1. PICK a \in RouteSent : a = rtSent[i]
  BY ElementOfSeq, LenProperties DEF RoutesInv, RouteTypes
<1>2. PICK n \in Nat : n = a.length
  BY DEF RouteSent
<1>3. routes \in Seq(Routes) /\ Len(routes) \in Nat /\ DOMAIN routes = 1..Len(routes)
      /\ \A k \in DOMAIN routes : routes[k] \in Routes
  BY ElementOfSeq, LenProperties DEF RoutesInv, RouteTypes
<1> DEFINE seen == [k \in 1..n |-> IF k \in DOMAIN routes THEN routes[k] ELSE Blank]
<1>4. seen \in Seq(Routes \cup {Blank})
  <2>1. seen \in [1..n -> Routes \cup {Blank}]
    BY <1>3
  <2> HIDE DEF seen
  <2> QED BY <2>1, FunctionIsSeq
<1>5. n = Len(routes) => seen = routes
  BY <1>3
<1>6. rtSent' = [rtSent EXCEPT ![i].at = "sent", ![i].read = seen] /\ rtSent[i].at = "copying"
  BY <1>1, <1>2 DEF CopyRoutes
<1>7. UNCHANGED <<routes, rtSel, rtMode, rtEditIdx, server, kept, rtOvertaken, rtFailed>>
  BY DEF CopyRoutes
<1> HIDE DEF seen
<1>8. PICK q : q = seen
  OBVIOUS
<1> DEFINE r == [[a EXCEPT !.at = "sent"] EXCEPT !.read = q]
<1>9. r \in RouteSent /\ r.at = "sent" /\ r.read = q
  BY <1>4, <1>8 DEF RouteSent
<1>10. rtSent' = [rtSent EXCEPT ![i] = r]
  BY <1>1, <1>6, <1>8
<1> HIDE DEF r
<1>11. i = Len(rtSent) => r.read = routes
  <2> SUFFICES ASSUME i = Len(rtSent) PROVE r.read = routes
    OBVIOUS
  <2>1. rtSent # << >>
    OBVIOUS
  <2>2. n = Len(routes)
    BY <1>1, <1>2, <1>6, <2>1 DEF RoutesInv, LastRoutes
  <2> QED BY <1>5, <1>8, <1>9, <2>2
<1> QED BY <1>6, <1>7, <1>9, <1>10, <1>11, KeptByRead

LEMMA KeptByRoutesChanged == ASSUME RoutesInv, NEW i \in DOMAIN rtSent, RoutesChanged(i) PROVE RoutesInv'
<1>1. PICK a \in RouteSent : a = rtSent[i]
  BY ElementOfSeq, LenProperties DEF RoutesInv, RouteTypes
<1> DEFINE r == [a EXCEPT !.at = "end"]
<1>2. r \in RouteSent /\ r.at = "end" /\ r.read = a.read /\ r.length = a.length
  BY DEF RouteSent
<1>3. /\ rtSent[i].at = "sent" /\ rtSent' = [rtSent EXCEPT ![i] = r] /\ server' = a.read
      /\ (~rtFailed' => kept' = a.read) /\ (~rtOvertaken' => ~Overtakes(rtSent, i))
      /\ UNCHANGED <<routes, rtSel, rtMode, rtEditIdx>>
  BY <1>1 DEF RoutesChanged
<1>4. PICK q \in RouteSent : q = r
  BY <1>2
<1>5. /\ q.at = "end" /\ q.read = a.read /\ rtSent' = [rtSent EXCEPT ![i] = q]
  BY <1>2, <1>3, <1>4
<1> HIDE DEF r
<1>6. /\ rtSent' \in Seq(RouteSent) /\ Len(rtSent') = Len(rtSent) /\ DOMAIN rtSent' = DOMAIN rtSent
      /\ rtSent'[i] = q /\ \A j \in DOMAIN rtSent \ {i} : rtSent'[j] = rtSent[j]
      /\ Len(rtSent) \in Nat /\ DOMAIN rtSent = 1..Len(rtSent)
  BY <1>5, ReplaceOne, LenProperties DEF RoutesInv, RouteTypes
<1>7. RouteTypes'
  BY <1>3, <1>6 DEF RoutesInv, RouteTypes
<1>8. rtSent # << >> /\ Len(rtSent) \in DOMAIN rtSent /\ rtSent' # << >>
  BY <1>6
<1>9. LastRoutes'
  <2>1. CASE i = Len(rtSent)
    BY <1>1, <1>3, <1>5, <1>6, <1>8, <2>1 DEF RoutesInv, LastRoutes
  <2>2. CASE i # Len(rtSent)
    <3>1. rtSent'[Len(rtSent)] = rtSent[Len(rtSent)]
      BY <1>6, <1>8, <2>2
    <3> QED BY <1>3, <1>6, <1>8, <3>1 DEF RoutesInv, LastRoutes
  <2> QED BY <2>1, <2>2
<1>10. RoutesTaken'
  <2>1. ASSUME ~rtOvertaken', NEW k \in DOMAIN rtSent', Latest(rtSent, k)' PROVE Serves(rtSent[k].read)'
    <3>1. rtSent \in Seq(RouteSent) /\ ~Overtakes(rtSent, i)
      BY <1>3, <2>1 DEF RoutesInv, RouteTypes
    <3>2. PICK sent : sent = rtSent'
      OBVIOUS
    <3>3. Latest(sent, k)
      BY <2>1, <3>2 DEF Latest
    <3>4. k = i
      BY <1>5, <2>1, <3>1, <3>2, <3>3, LatestArrived
    <3> QED BY <1>3, <1>5, <1>6, <3>4 DEF Serves
  <2> QED BY <1>8, <2>1 DEF RoutesTaken
<1> QED BY <1>7, <1>9, <1>10 DEF RoutesInv

-----------------------------------------------------------------------------
RuntimeTabsInv == SettingsInv /\ RoutesInv

LEMMA RuntimeTabsBegin == RuntimeTabsInit => RuntimeTabsInv
<1> SUFFICES ASSUME RuntimeTabsInit PROVE RuntimeTabsInv
  OBVIOUS
<1>1. Least \in Values
  <2>1. \A s \in Settings : Least[s] \in Nat /\ Most[s] \in Nat /\ Least[s] <= Most[s]
    BY RuntimeTabsAssumption
  <2> QED BY <2>1, RuntimeTabsAssumption DEF Values
<1>2. PICK first \in Setting : first = [values |-> Least, sound |-> FALSE]
  BY <1>1 DEF Setting
<1>3. /\ config = [memory |-> first, file |-> first]
      /\ live = [acl |-> Least, alert |-> FALSE, views |-> Least] /\ values = Least /\ sound = FALSE
  BY <1>2 DEF RuntimeTabsInit
<1>4. SettingTypes
  <2>1. config \in [memory : Setting, file : Setting \cup {CutSetting}]
    BY <1>3
  <2>2. stSent \in Seq(SettingSent)
    BY EmptySeq DEF RuntimeTabsInit
  <2>3. stSel \in Settings /\ stBuf \in Int
    BY DEF RuntimeTabsInit, NoNumber
  <2> QED BY <1>1, <1>3, <2>1, <2>2, <2>3 DEF SettingTypes
<1>5. LiveConfig /\ LastSetting /\ SettingTaken
  <2>1. /\ config.memory = first /\ config.file = first /\ first.values = Least
        /\ live.acl = Least /\ live.views = Least /\ live.alert = FALSE /\ stSent = << >>
    <3>1. stSent = << >>
      BY DEF RuntimeTabsInit
    <3>2. live.acl = Least /\ live.views = Least /\ live.alert = FALSE
      BY <1>3, Zenon
    <3>3. config.memory = first /\ config.file = first
      BY <1>3, Zenon
    <3>4. first.values = Least
      BY <1>2, Zenon
    <3> QED BY <3>1, <3>2, <3>3, <3>4
  <2>2. LiveConfig /\ Runs(values, sound)
    BY <1>2, <1>3, <2>1, Zenon DEF LiveConfig, Runs
  <2>3. DOMAIN stSent = {}
    BY <2>1
  <2> QED BY <2>1, <2>2, <2>3 DEF LastSetting, SettingTaken
<1>6. RouteTypes
  BY RuntimeTabsAssumption, EmptySeq DEF RuntimeTabsInit, RouteTypes
<1>7. LastRoutes /\ RoutesTaken
  BY DEF RuntimeTabsInit, LastRoutes, RoutesTaken, Serves
<1> QED BY <1>4, <1>5, <1>6, <1>7 DEF RuntimeTabsInv, SettingsInv, RoutesInv

LEMMA RuntimeTabsStepKeeps == RuntimeTabsInv /\ [RuntimeTabsNext]_runtimeTabsVars => RuntimeTabsInv'
<1> SUFFICES ASSUME RuntimeTabsInv, [RuntimeTabsNext]_runtimeTabsVars PROVE RuntimeTabsInv'
  OBVIOUS
<1>1. UNCHANGED settingsVars => SettingsInv'
  BY DEF settingsVars, RuntimeTabsInv, SettingsInv, SettingTypes, LiveConfig, LastSetting, SettingTaken, Runs, Latest
<1>2. UNCHANGED routesVars => RoutesInv'
  BY DEF routesVars, RuntimeTabsInv, RoutesInv, RouteTypes, LastRoutes, RoutesTaken, Serves, Latest
<1>3. CASE SettingsNext
  <2>1. UNCHANGED routesVars
    BY <1>3 DEF SettingsNext, SelectSetting, AdjustValue, AdjustBuf, SetSound, EditSetting, CommitSetting, TypeNumber,
      SettingsChanged, EmitSettings
  <2>2. SettingsInv'
    BY <1>3, KeptBySettingsKeys, KeptByArrival DEF SettingsNext, RuntimeTabsInv
  <2> QED BY <1>2, <2>1, <2>2 DEF RuntimeTabsInv
<1>4. CASE RoutesNext
  <2>1. UNCHANGED settingsVars
    BY <1>4 DEF RoutesNext, RouteDialog, SelectRoute, SaveRoute, CancelRoute, DeleteRoute, ReadLength, CopyRoutes,
      RoutesChanged, EmitRoutes
  <2>2. RoutesInv'
    BY <1>4, KeptByRouteKeys, KeptByRouteSaved, KeptByReadLength, KeptByCopyRoutes, KeptByRoutesChanged
    DEF RoutesNext, RuntimeTabsInv
  <2> QED BY <1>1, <2>1, <2>2 DEF RuntimeTabsInv
<1>5. CASE UNCHANGED runtimeTabsVars
  BY <1>1, <1>2, <1>5 DEF runtimeTabsVars, RuntimeTabsInv
<1> QED BY <1>3, <1>4, <1>5 DEF RuntimeTabsNext

LEMMA RuntimeTabsTake == RuntimeTabsInv => RuntimeTabsTypeOK /\ SettingsTake /\ RoutesTake
<1> SUFFICES ASSUME RuntimeTabsInv PROVE RuntimeTabsTypeOK /\ SettingsTake /\ RoutesTake
  OBVIOUS
<1>1. RuntimeTabsTypeOK
  <2>1. \A i \in DOMAIN routes : routes[i] \in Routes
    BY ElementOfSeq, LenProperties DEF RuntimeTabsInv, RoutesInv, RouteTypes
  <2>2. config.memory.values \in Values /\ values \in Values
    BY DEF RuntimeTabsInv, SettingsInv, SettingTypes, Setting
  <2> QED BY <2>1, <2>2 DEF RuntimeTabsInv, RoutesInv, RouteTypes, RuntimeTabsTypeOK, Values
<1>2. SettingsTake
  <2> SUFFICES ASSUME Arrived(stSent), ~stOvertaken PROVE Runs(values, sound)
    BY DEF RuntimeTabsInv, SettingsInv, LiveConfig, SettingsTake, Runs
  <2>1. CASE stSent = << >>
    BY <2>1 DEF RuntimeTabsInv, SettingsInv, SettingTaken
  <2>2. CASE stSent # << >>
    <3>1. Len(stSent) \in Nat /\ DOMAIN stSent = 1..Len(stSent) /\ Len(stSent) # 0
      BY <2>2, LenProperties, EmptySeq DEF RuntimeTabsInv, SettingsInv, SettingTypes
    <3>2. Len(stSent) \in DOMAIN stSent /\ Latest(stSent, Len(stSent))
      BY <3>1 DEF Arrived, Latest
    <3>3. Runs(stSent[Len(stSent)].values, stSent[Len(stSent)].sound)
      BY <3>2 DEF RuntimeTabsInv, SettingsInv, SettingTaken
    <3> QED BY <2>2, <3>3 DEF RuntimeTabsInv, SettingsInv, LastSetting
  <2> QED BY <2>1, <2>2
<1>3. RoutesTake
  <2> SUFFICES ASSUME Arrived(rtSent), ~rtOvertaken PROVE Serves(routes)
    BY DEF RoutesTake, Serves
  <2>1. CASE rtSent = << >>
    BY <2>1 DEF RuntimeTabsInv, RoutesInv, RoutesTaken
  <2>2. CASE rtSent # << >>
    <3>1. Len(rtSent) \in Nat /\ DOMAIN rtSent = 1..Len(rtSent) /\ Len(rtSent) # 0
      BY <2>2, LenProperties, EmptySeq DEF RuntimeTabsInv, RoutesInv, RouteTypes
    <3>2. Len(rtSent) \in DOMAIN rtSent /\ Latest(rtSent, Len(rtSent)) /\ rtSent[Len(rtSent)].at = "end"
      BY <3>1 DEF Arrived, Latest
    <3>3. Serves(rtSent[Len(rtSent)].read)
      BY <3>2 DEF RuntimeTabsInv, RoutesInv, RoutesTaken
    <3> QED BY <2>2, <3>2, <3>3 DEF RuntimeTabsInv, RoutesInv, LastRoutes
  <2> QED BY <2>1, <2>2
<1> QED BY <1>1, <1>2, <1>3

-----------------------------------------------------------------------------
(* Changes that are over, and none of which overlapped with or overtook      *)
(* another, leave the tab, the configuration and what runs agreed, and the   *)
(* file too unless its save failed; and at no time, whatever overlaps, is a  *)
(* port forwarded twice: for any number of rules, settings, routes and       *)
(* changes (portfwd, settings, bridgeui and app/cooper.go).                  *)
THEOREM ChangesAreSound == PortForwardSpec /\ RuntimeTabsSpec => []ChangesSound
<1>1. PortForwardInv /\ RuntimeTabsInv => ChangesSound
  BY PortForwardsAgree, RuntimeTabsTake DEF ChangesSound
<1>2. PortForwardSpec => []PortForwardInv
  BY PortForwardBegins, PortForwardStepKeeps, PTL DEF PortForwardSpec
<1>3. RuntimeTabsSpec => []RuntimeTabsInv
  BY RuntimeTabsBegin, RuntimeTabsStepKeeps, PTL DEF RuntimeTabsSpec
<1> QED BY <1>1, <1>2, <1>3, PTL

-----------------------------------------------------------------------------
(* A step of the session is one of a part, and the others stutter.           *)
LEMMA SessionParts ==
  Spec => /\ ShellSpec /\ HeaderSpec /\ LoadingSpec
          /\ ListTabsSpec /\ PortForwardSpec /\ RuntimeTabsSpec
<1>1. Init => /\ ShellInit /\ HeaderInit /\ LoadingInit
              /\ ListTabsInit /\ PortForwardInit /\ RuntimeTabsInit
  BY DEF Init
<1>2. ASSUME [Next]_vars
      PROVE  /\ [ShellNext]_shellVars /\ [HeaderNext]_headerVars /\ [LoadingNext]_loadingVars
             /\ [ListTabsNext]_listVars /\ [PortForwardNext]_portForwardVars
             /\ [RuntimeTabsNext]_runtimeTabsVars
  <2>1. CASE UNCHANGED vars
    BY <2>1 DEF vars, runtimeTabsVars
  <2>2. CASE Next
    BY <2>2 DEF Next, OfShell, OfHeader, OfLoading, OfLists, OfPorts, OfRuntimeTabs, Only, ListTabsNext, RuntimeTabsNext, runtimeTabsVars
  <2> QED BY <1>2, <2>1, <2>2
<1> QED BY <1>1, <1>2, PTL DEF Spec, ShellSpec, HeaderSpec, LoadingSpec, ListTabsSpec, PortForwardSpec, RuntimeTabsSpec

(* What the run of the session checks of its states, for every size of it.   *)
THEOREM SessionIsSound == Spec => [](PanelTells /\ ListsSound /\ ChangesSound)
BY SessionParts, PanelIsTold, ListsAreSound, ChangesAreSound, PTL
=============================================================================
