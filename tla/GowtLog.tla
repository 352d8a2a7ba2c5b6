-------------------------------- MODULE GowtLog --------------------------------
(***************************************************************************)
(* gowt/model/logbuffer.go and appendOutput of gowt/model/model.go: the    *)
(* output of all tests is put together to lines in one append-only buffer, *)
(* and a node's log is a list of references into it: its own lines and     *)
(* those of the tests below it.  A LogRenderer keeps the text of one log   *)
(* and appends to it what came after the last position it has seen.        *)
(*                                                                         *)
(* A byte of the buffer is <<m, v>>: test m wrote it and it is the v-th    *)
(* byte of m's output or, with v = 0, a newline.                           *)
(***************************************************************************)
EXTENDS Integers, SequencesExt

CONSTANTS
  Writers,    \* tests and packages that print
  LogAbove,   \* writer -> the nodes that get a reference to its lines too
  MaxBytes,   \* bytes one writer prints
  MaxChunk    \* bytes of one output event

ASSUME LogAssumption ==
  /\ LogAbove \in [Writers -> SUBSET Writers]
  /\ \A m \in Writers : m \notin LogAbove[m]
  /\ MaxBytes \in Nat /\ MaxChunk \in Nat

VARIABLES
  rawBuf,     \* RawLogBuffer
  refs,       \* node -> RawLog.Refs
  lineBuf,    \* node -> OutputLineBuffer
  printed,    \* history: writer -> all it printed
  rend        \* the renderer of the log on screen: [of, end, out]

logVars == <<rawBuf, refs, lineBuf, printed, rend>>

NL == 0
NoLog == "none"
Slice(buf, r) == SubSeq(buf, r[1] + 1, r[2])
LastEnd(rs) == IF rs = << >> THEN 0 ELSE Last(rs)[2]
Text(buf, rs) == FlattenSeq([i \in DOMAIN rs |-> Slice(buf, rs[i])])

LogInit ==
  /\ rawBuf = << >> /\ refs = [n \in Writers |-> << >>]
  /\ lineBuf = [n \in Writers |-> << >>]
  /\ printed = [m \in Writers |-> << >>]
  /\ rend = [of |-> NoLog, end |-> 0, out |-> << >>]

(* What m may print next: its characters are numbered by their places. *)
Chunks(m) ==
  {[i \in DOMAIN c |-> IF c[i] = NL THEN NL ELSE Len(printed[m]) + i] :
     c \in UNION {[1..k -> {NL, 1}] : k \in 1..MaxChunk}}

(* strings.Split at the newlines: the whole lines of an output, without the *)
(* blank ones, and what is behind the last newline.                         *)
Cut(p, b) ==
  IF b # NL THEN [lines |-> p.lines, rest |-> Append(p.rest, b)]
  ELSE [lines |-> IF p.rest = << >> THEN p.lines ELSE Append(p.lines, Append(p.rest, NL)),
        rest |-> << >>]
Split(out) ==
  LET upTo[i \in 0..Len(out)] ==
        IF i = 0 THEN [lines |-> << >>, rest |-> << >>] ELSE Cut(upTo[i - 1], out[i])
  IN  upTo[Len(out)]
Lines(out) == Split(out).lines
(* Mutants: the whole output is kept; nothing is kept for the next event.   *)
RestIsAll(out) == out
NoRest(out) == << >>
Rest(out) == Split(out).rest

(* The loop of appendOutput: every line is put into the buffer once and has *)
(* its reference.                                                           *)
Store(p, m, l) ==
  [buf |-> p.buf \o [j \in DOMAIN l |-> <<m, l[j]>>],
   new |-> Append(p.new, <<Len(p.buf), Len(p.buf) + Len(l)>>)]
Stored(m, ls) ==
  LET upTo[i \in 0..Len(ls)] ==
        IF i = 0 THEN [buf |-> rawBuf, new |-> << >>] ELSE Store(upTo[i - 1], m, ls[i])
  IN  upTo[Len(ls)]

(* appendOutput.  The references go to the node, its package and the tests  *)
(* above it.                                                                *)
AppendOutput(m, chunk) ==
  LET out == lineBuf[m] \o chunk
      stored == Stored(m, Lines(out))
  IN
  /\ Len(printed[m]) + Len(chunk) <= MaxBytes
  /\ printed' = [printed EXCEPT ![m] = @ \o chunk]
  /\ lineBuf' = [lineBuf EXCEPT ![m] = Rest(out)]
  /\ rawBuf' = stored.buf
  /\ refs' = [n \in Writers |-> IF n = m \/ n \in LogAbove[m] THEN refs[n] \o stored.new ELSE refs[n]]
  /\ UNCHANGED rend

(* NewLogRenderer: RebuildFull *)
OpenRenderer(n) ==
  /\ rend' = [of |-> n, end |-> LastEnd(refs[n]), out |-> Text(rawBuf, refs[n])]
  /\ UNCHANGED <<rawBuf, refs, lineBuf, printed>>

(* Mutant: only what begins behind the last position is new. *)
AppendBehind ==
  /\ rend.of # NoLog
  /\ rend.end < LastEnd(refs[rend.of])
  /\ LET rs == refs[rend.of]
     IN  rend' = [rend EXCEPT !.end = LastEnd(rs),
                              !.out = @ \o FlattenSeq([i \in DOMAIN rs |->
                                             IF rs[i][1] > rend.end THEN Slice(rawBuf, rs[i]) ELSE << >>])]
  /\ UNCHANGED <<rawBuf, refs, lineBuf, printed>>

(* What of the references comes after a position. *)
Fresh(rs, end) ==
  FlattenSeq([i \in DOMAIN rs |-> IF rs[i][1] >= end THEN Slice(rawBuf, rs[i])
                                  ELSE IF rs[i][2] > end THEN Slice(rawBuf, <<end, rs[i][2]>>)
                                  ELSE << >>])
AppendNew ==
  /\ rend.of # NoLog
  /\ rend.end < LastEnd(refs[rend.of])
  /\ rend' = [rend EXCEPT !.end = LastEnd(refs[rend.of]), !.out = @ \o Fresh(refs[rend.of], rend.end)]
  /\ UNCHANGED <<rawBuf, refs, lineBuf, printed>>

LogNext ==
  \/ \E m \in Writers : \E c \in Chunks(m) : AppendOutput(m, c)
  \/ \E n \in Writers : OpenRenderer(n)
  \/ AppendNew

LogSpec == LogInit /\ [][LogNext]_logVars

-----------------------------------------------------------------------------
(* Properties *)

LogTypeOK ==
  /\ \A i \in DOMAIN rawBuf : rawBuf[i][1] \in Writers /\ rawBuf[i][2] \in 0..MaxBytes
  /\ \A n \in Writers : \A i \in DOMAIN refs[n] :
       0 <= refs[n][i][1] /\ refs[n][i][1] < refs[n][i][2] /\ refs[n][i][2] <= Len(rawBuf)
  /\ \A n \in Writers : NL \notin ToSet(lineBuf[n])
  /\ rend.of \in Writers \cup {NoLog} /\ rend.end \in 0..Len(rawBuf)

(* What s has up to its last newline, its characters, and what m wrote of t. *)
EndOfLines(s) == LET nl == {i \in DOMAIN s : s[i] = NL}
                 IN  IF nl = {} THEN 0 ELSE Max(nl)
Chars(s) == FlattenSeq([i \in DOMAIN s |-> IF s[i] = NL THEN << >> ELSE <<s[i]>>])
Of(m, t) == FlattenSeq([i \in DOMAIN t |-> IF t[i][1] = m THEN <<t[i][2]>> ELSE << >>])

(* However the events cut the output of a test and however parallel tests   *)
(* take turns, the log of a node is the finished lines of the tests at and  *)
(* below it: nothing lost or doubled, no line mixed with another test's,    *)
(* and what is not finished waits for its newline.                          *)
LogIsLines ==
  \A n \in Writers :
    LET t == Text(rawBuf, refs[n]) IN
    /\ \A m \in Writers :
         Chars(Of(m, t)) = IF m = n \/ n \in LogAbove[m]
                             THEN Chars(SubSeq(printed[m], 1, EndOfLines(printed[m])))
                             ELSE << >>
    /\ \A i \in DOMAIN t :
         /\ t[i][2] # NL => /\ i < Len(t) /\ t[i + 1][1] = t[i][1]
                            /\ t[i + 1][2] \in {NL, t[i][2] + 1}
         /\ t[i][2] = NL => i > 1 /\ t[i - 1][2] # NL

(* The incremental text of a log equals the log: the references of other    *)
(* tests between its own make it neither skip nor repeat anything.          *)
RenderedIsLog ==
  rend.of # NoLog =>
    /\ IsPrefix(rend.out, Text(rawBuf, refs[rend.of]))
    /\ rend.end = LastEnd(refs[rend.of]) => rend.out = Text(rawBuf, refs[rend.of])

=============================================================================
