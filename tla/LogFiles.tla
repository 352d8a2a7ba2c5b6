------------------------------ MODULE LogFiles ------------------------------
(* A log of cooper on disk: the Logger that writes and rotates it            *)
(* (logger.go), and the Tailer that follows the access log of Squid and      *)
(* hands its lines to the control panel (tailer.go).                         *)
EXTENDS Integers, Sequences

CONSTANTS Capacity,    \* maxSize, in units
          Longest,     \* the longest entry, in units
          MaxFiles,    \* maxFiles
          MaxWritten,  \* bound on units logged
          MaxPieces,   \* bound on what Squid writes
          ChanCap      \* capacity of the Tailer's channel

ASSUME LogFilesAssumption ==
  /\ {Capacity, Longest, MaxFiles} \subseteq Nat \ {0}
  /\ {MaxWritten, MaxPieces, ChanCap} \subseteq Nat

VARIABLES
  files,     \* the units in each log file: 1 is the current one, n + 1 the n-th rotated
  opened,    \* the Logger has its file open
  size,      \* Logger.size
  written,   \* units logged so far
  squid,     \* the access.log that is open: pieces of text, and line ends
  position,  \* how much of it the Tailer has read
  fileThere, \* access.log exists
  tail,      \* where the Tailer is: "waiting", "reading", "sending", "asleep", "ended"
  piece,     \* the line it is sending, if any
  lines,     \* the channel
  received,  \* what the panel has got
  torn,      \* history: where the Tailer met the end of the file inside a line
  stopping   \* stopCh is closed
loggerVars == <<files, opened, size, written>>
tailVars == <<squid, position, fileThere, tail, piece, lines, received, torn, stopping>>
logFileVars == <<loggerVars, tailVars>>

LogFilesInit ==
  /\ files = [n \in 1..(MaxFiles + 1) |-> <<>>] /\ opened = FALSE /\ size = 0 /\ written = 0
  /\ squid = <<>> /\ position = 0 /\ fileThere = FALSE /\ tail = "waiting" /\ piece = <<>>
  /\ lines = <<>> /\ received = <<>> /\ torn = {} /\ stopping = FALSE

-----------------------------------------------------------------------------
(* Logger *)

(* rotate: the oldest file goes, every other moves up by one.  Rename        *)
(* replaces its target; the current file is made anew when it is opened.     *)
Shifted(old) == [n \in DOMAIN old |-> IF n = 1 THEN <<>> ELSE old[n - 1]]
Entry(length) == [i \in 1..length |-> written + i]
SizeNow == IF opened THEN size ELSE Len(files[1])
Full == SizeNow >= Capacity
Logs(length) == written + length <= MaxWritten /\ written' = written + length /\ opened' = TRUE

(* Mutant: the entry that finds the file full is dropped. *)
LogFull(length) ==
  /\ Logs(length)
  /\ IF Full
     THEN files' = Shifted(files) /\ size' = 0
     ELSE files' = [files EXCEPT ![1] = @ \o Entry(length)] /\ size' = SizeNow + length
  /\ UNCHANGED tailVars
(* Mutant: a file that is opened again counts as empty. *)
LogUnsized(length) ==
  /\ Logs(length)
  /\ LET full == opened /\ Full
         present == IF full THEN Shifted(files) ELSE files
     IN /\ files' = [present EXCEPT ![1] = @ \o Entry(length)]
        /\ size' = (IF opened /\ ~full THEN size ELSE 0) + length
  /\ UNCHANGED tailVars
(* Log: open, rotate when the size is reached already, write an entry of any *)
(* length, under one lock.                                                   *)
Log(length) ==
  /\ Logs(length)
  /\ LET present == IF Full THEN Shifted(files) ELSE files
     IN /\ files' = [present EXCEPT ![1] = @ \o Entry(length)]
        /\ size' = (IF Full THEN 0 ELSE SizeNow) + length
  /\ UNCHANGED tailVars
(* Close; a forwarder that logs later opens the file again, and so does the  *)
(* next process.                                                             *)
CloseLog ==
  /\ opened /\ opened' = FALSE
  /\ UNCHANGED <<files, size, written, tailVars>>

-----------------------------------------------------------------------------
(* Squid and the Tailer *)

CreateLog ==
  /\ ~fileThere /\ fileThere' = TRUE
  /\ UNCHANGED <<loggerVars, squid, position, tail, piece, lines, received, torn, stopping>>
(* Squid flushes its buffer: lines, or as much of them as it holds.          *)
SquidWrites(part) ==
  /\ fileThere /\ Len(squid) < MaxPieces
  /\ squid' = squid \o part
  /\ UNCHANGED <<loggerVars, position, fileThere, tail, piece, lines, received, torn, stopping>>

OpenLog ==
  /\ tail = "waiting" /\ (fileThere \/ stopping)
  /\ tail' = IF fileThere THEN "reading" ELSE "ended"
  /\ UNCHANGED <<loggerVars, squid, position, fileThere, piece, lines, received, torn, stopping>>

(* What ReadString returns: up to the next line end, or what there is before *)
(* the end of the file.  What is trimmed of it is sent unless nothing is     *)
(* left; each half of a line that is torn is sent as a line.                 *)
LineEnds == {p \in position + 1..Len(squid) : squid[p] = "end"}
NextEnd == CHOOSE p \in LineEnds : \A q \in LineEnds : p <= q
Text(first, last) == IF first <= last THEN <<[first |-> first, last |-> last]>> ELSE <<>>
ReadLine ==
  /\ LineEnds # {}
  /\ position' = NextEnd /\ piece' = Text(position + 1, NextEnd - 1)
  /\ tail' = (IF piece' = <<>> THEN "reading" ELSE "sending")
  /\ UNCHANGED torn
(* Mutant: a partial line is not sent. *)
ReadWholeOnly ==
  /\ tail = "reading"
  /\ \/ ReadLine
     \/ /\ LineEnds = {} /\ position' = Len(squid) /\ piece' = <<>> /\ tail' = "asleep"
        /\ torn' = torn \cup ({Len(squid)} \ {position})
  /\ UNCHANGED <<loggerVars, squid, fileThere, lines, received, stopping>>
ReadString ==
  /\ tail = "reading"
  /\ \/ ReadLine
     \/ /\ LineEnds = {} /\ position' = Len(squid) /\ piece' = Text(position + 1, Len(squid))
        /\ tail' = (IF piece' = <<>> THEN "asleep" ELSE "sending")
        /\ torn' = torn \cup ({Len(squid)} \ {position})
  /\ UNCHANGED <<loggerVars, squid, fileThere, lines, received, stopping>>
(* A read of the disk that fails ends the Tailer.                            *)
ReadFails ==
  /\ tail = "reading" /\ tail' = "ended"
  /\ UNCHANGED <<loggerVars, squid, position, fileThere, piece, lines, received, torn, stopping>>
(* At the end of the file the Tailer sleeps, after a whole line it reads on. *)
AfterSend == IF squid[position] = "end" THEN "reading" ELSE "asleep"
Send ==
  /\ tail = "sending" /\ Len(lines) < ChanCap
  /\ lines' = lines \o piece /\ tail' = AfterSend /\ piece' = <<>>
  /\ UNCHANGED <<loggerVars, squid, position, fileThere, received, torn, stopping>>
(* Mutant: a send waits for the panel, whatever else. *)
NeverGiveUp == stopping /\ tail = "sending" /\ Len(lines) < ChanCap /\ tail' = AfterSend /\ piece' = <<>>
               /\ UNCHANGED <<loggerVars, squid, position, fileThere, lines, received, torn, stopping>>
(* A send that meets the closed stopCh drops its line.                       *)
GiveUp ==
  /\ stopping /\ tail = "sending" /\ tail' = AfterSend /\ piece' = <<>>
  /\ UNCHANGED <<loggerVars, squid, position, fileThere, lines, received, torn, stopping>>
Wake ==
  /\ tail = "asleep" /\ tail' = IF stopping THEN "ended" ELSE "reading"
  /\ UNCHANGED <<loggerVars, squid, position, fileThere, piece, lines, received, torn, stopping>>
StopTailer ==
  /\ ~stopping /\ stopping' = TRUE
  /\ UNCHANGED <<loggerVars, squid, position, fileThere, tail, piece, lines, received, torn>>
(* The panel takes one line at a time.                                       *)
Receive ==
  /\ lines # <<>> /\ lines' = Tail(lines) /\ received' = Append(received, Head(lines))
  /\ UNCHANGED <<loggerVars, squid, position, fileThere, tail, piece, torn, stopping>>

TailStep == OpenLog \/ ReadString \/ Send \/ GiveUp \/ Wake
Flushes == {<<"text">>, <<"end">>, <<"text", "end">>}
LoggerNext == CloseLog \/ \E length \in 1..Longest : Log(length)
TailerNext ==
  \/ CreateLog \/ \E part \in Flushes : SquidWrites(part)
  \/ TailStep \/ ReadFails \/ StopTailer \/ Receive
LogFilesNext == LoggerNext \/ TailerNext
LogFilesSpec == LogFilesInit /\ [][LogFilesNext]_logFileVars

-----------------------------------------------------------------------------
(* Properties *)

LogFilesTypeOK ==
  /\ DOMAIN files = 1..(MaxFiles + 1) /\ written \in 0..MaxWritten
  /\ position \in 0..Len(squid) /\ Len(lines) <= ChanCap
  /\ tail \in {"waiting", "reading", "sending", "asleep", "ended"}

(* The files hold the latest of what was logged in order and without a gap:  *)
(* the current one ends with what was logged last, each rotated one with     *)
(* what comes before the next, no rotated one was given up before it was     *)
(* full, and none is gone while there is room for it.  Rotation and          *)
(* reopening lose nothing but the oldest file.                               *)
Empty(n) == files[n] = <<>>
Consecutive(s) == \A i \in DOMAIN s : s[i] = s[1] + i - 1
LogIsSuffix ==
  /\ \A n \in 1..(MaxFiles + 1) : Consecutive(files[n]) /\ (~Empty(n) => files[n][1] >= 1)
  /\ written > 0 => ~Empty(1) /\ files[1][Len(files[1])] = written
  /\ \A n \in 1..MaxFiles :
       /\ ~Empty(n + 1) => ~Empty(n) /\ files[n][1] = files[n + 1][Len(files[n + 1])] + 1
       /\ ~Empty(n + 1) => Len(files[n + 1]) >= Capacity
       /\ ~Empty(n) /\ files[n][1] > 1 => ~Empty(n + 1)

(* "10 files, each at 10MB max" (REQUIREMENTS.md): a file is rotated by the  *)
(* entry that finds it at its size, so it outgrows it by less than one entry *)
(* and by no more, whenever it is closed and opened again in between.        *)
FilesBounded == \A n \in 1..(MaxFiles + 1) : Len(files[n]) < Capacity + Longest

(* Until the Tailer is stopped or its disk fails, what it has read of the    *)
(* access.log it has opened reaches the panel: each piece of text in a line  *)
(* that was received, is in the channel or is being sent, in Squid's order.  *)
(* (What Squid writes after logrotate has renamed the file is in another     *)
(* one, which run never opens.)                                              *)
Shown == received \o lines \o piece
NothingSkipped ==
  /\ \A i \in 1..Len(Shown) : i < Len(Shown) => Shown[i].last < Shown[i + 1].first
  /\ ~stopping => \A p \in 1..position : squid[p] = "text" =>
       \E i \in 1..Len(Shown) : Shown[i].first <= p /\ p <= Shown[i].last

(* A line of the panel is never made of two of Squid's, and is the whole of  *)
(* one, but where the Tailer met the end of the file inside it: then the two *)
(* parts are two lines.                                                      *)
Begins(p) == p = 1 \/ squid[p - 1] = "end"
Ends(p) == p < Len(squid) /\ squid[p + 1] = "end"
LinesKeptApart ==
  \A i \in 1..Len(Shown) :
    /\ \A p \in Shown[i].first..Shown[i].last : squid[p] = "text"
    /\ Begins(Shown[i].first) \/ Shown[i].first - 1 \in torn
    /\ Ends(Shown[i].last) \/ Shown[i].last \in torn

(* A Tailer that is stopped ends, also while it waits for a panel that does  *)
(* not read any more.                                                        *)
TailerStops == <>[](stopping => tail = "ended")

(* The rotated files hold the latest entries without a gap and stay within   *)
(* an entry of their size, and the tailer passes over nothing of its file    *)
(* and mixes no two lines (Log, rotate and run).                             *)
LogFilesSound ==
  LogFilesTypeOK /\ LogIsSuffix /\ FilesBounded /\ NothingSkipped /\ LinesKeptApart
=============================================================================
