-------------------------------- MODULE Tailer --------------------------------
(***************************************************************************)
(* log_watcher/tailer.py: following a log file that another process writes *)
(* to, that may not be there yet, and that somebody may truncate, remove   *)
(* or replace between any two calls the tailer makes.                      *)
(*                                                                         *)
(* What reaches the file is numbered as it is written: line i is the       *)
(* tokens 3i-2 and 3i-1, two halves, so that a read can land inside it,    *)
(* and the newline 3i.  An offset counts tokens.                           *)
(***************************************************************************)
EXTENDS Integers, Sequences

CONSTANTS Modes,         \* {"follow"}, {"replay"} or both
          MaxLines,      \* bound: lines written
          MaxTruncations,\* bound: truncations of the file
          MaxRotations   \* bound: removals of the file

ASSUME ModesAssumption == Modes \subseteq {"follow", "replay"} /\ Modes # {}
ASSUME BoundAssumption ==
  MaxLines \in Nat /\ MaxTruncations \in Nat /\ MaxRotations \in Nat

VARIABLES
  exists,     \* there is a file under self.path
  file,       \* its content
  handle,     \* the service's FileHandler is open on that very file
  written,    \* how many tokens have reached a file
  truncations, rotations,
  mode,       \* follow() or read_once()
  pc,         \* where the tailer stands
  offset,     \* self._offset
  carry,      \* what has been read and not handed on: parts, then self._carry
  yielded,    \* history: the lines handed to main()
  seen,       \* history: the numbers of those of them that are whole
  stale,      \* history: the offset is one into a file that is gone
  outrun      \* history: a poll took the file for the one that is gone

fileVars == <<exists, file, handle, written, truncations, rotations>>
resultVars == <<yielded, seen>>
tailerVars == <<mode, pc, offset, carry, resultVars, outrun>>
vars == <<fileVars, tailerVars, stale>>

Init ==
  /\ exists = FALSE /\ file = <<>> /\ handle = FALSE /\ written = 0
  /\ truncations = 0 /\ rotations = 0
  /\ mode \in Modes
  /\ pc = "wait_for_file"
  /\ offset = 0 /\ carry = <<>> /\ yielded = <<>> /\ seen = <<>>
  /\ stale = FALSE /\ outrun = FALSE

----------------------------------------------------------------------------
\* The service and whoever tidies up its log.

AtLineEnd == written % 3 = 0

\* logging.FileHandler opens the path for appending, and creates it.
ServiceStarts ==
  /\ ~handle /\ AtLineEnd
  /\ handle' = TRUE /\ exists' = TRUE
  /\ UNCHANGED <<file, written, truncations, rotations, tailerVars, stale>>

\* A line is written, and may reach the file in pieces.
Write ==
  /\ \E n \in 1..(3 - (written % 3)) :
       /\ file' = file \o [k \in 1..n |-> written + k]
       /\ written' = written + n
  /\ UNCHANGED <<exists, handle, truncations, rotations, tailerVars, stale>>

BeginLine == handle /\ AtLineEnd /\ written < 3 * MaxLines /\ Write
FinishLine == handle /\ ~AtLineEnd /\ Write

Truncate ==
  /\ truncations < MaxTruncations /\ truncations' = truncations + 1
  /\ exists /\ file # <<>> /\ AtLineEnd
  /\ file' = <<>> /\ stale' = TRUE
  /\ UNCHANGED <<exists, handle, written, rotations, tailerVars>>

\* The handler stays open on the removed file until the service starts again.
Rotate ==
  /\ rotations < MaxRotations /\ rotations' = rotations + 1
  /\ exists /\ AtLineEnd
  /\ exists' = FALSE /\ file' = <<>> /\ handle' = FALSE /\ stale' = TRUE
  /\ UNCHANGED <<written, truncations, tailerVars>>

----------------------------------------------------------------------------
\* FileTailer.

\* The three ways out of _wait_for_file: on to the size, or to the first poll.
WaitForFile ==
  /\ pc = "wait_for_file" /\ exists
  /\ pc' = IF mode = "follow" THEN "seek_end" ELSE "getsize"
  /\ UNCHANGED <<fileVars, mode, offset, carry, resultVars, stale, outrun>>

\* follow() starts at the end of the file; if it is gone again, it raises.
SeekEnd ==
  /\ pc = "seek_end"
  /\ IF exists
     THEN pc' = "getsize" /\ offset' = Len(file) /\ stale' = FALSE
     ELSE pc' = "raised" /\ UNCHANGED <<offset, stale>>
  /\ UNCHANGED <<fileVars, mode, carry, resultVars, outrun>>

\* What follow() does after a poll, and read_once() after its only one.
NextPoll == IF mode = "follow" THEN "getsize" ELSE "done"

FromTheTop == offset' = 0 /\ carry' = <<>> /\ stale' = FALSE

WaitForReplacement ==
  /\ pc = "wait_for_replacement" /\ exists
  /\ FromTheTop
  /\ pc' = NextPoll
  /\ UNCHANGED <<fileVars, mode, resultVars, outrun>>

GetSizeMissing ==
  /\ pc = "getsize" /\ ~exists
  /\ pc' = "wait_for_replacement"
  /\ UNCHANGED <<fileVars, mode, offset, carry, resultVars, stale, outrun>>

\* Mutant: a file with nothing new in it counts as shrunk.
Shrunk_OrEqual == Len(file) <= offset

\* A file shorter than the offset is read again from its start.
Shrunk == Len(file) < offset

GetSize ==
  /\ pc = "getsize" /\ exists
  /\ IF Shrunk THEN FromTheTop ELSE UNCHANGED <<offset, carry, stale>>
  /\ pc' = IF Len(file) # offset' THEN "open" ELSE NextPoll
  /\ UNCHANGED <<fileVars, mode, resultVars, outrun>>

OpenMissing ==
  /\ pc = "open" /\ ~exists
  /\ pc' = "raised"
  /\ UNCHANGED <<fileVars, mode, offset, carry, resultVars, stale, outrun>>

\* Mutant: the carry is not prepended.
Data_DropsCarry == SubSeq(file, offset + 1, Len(file))
Data == carry \o SubSeq(file, offset + 1, Len(file))

\* Mutant: the length of the file is added to the offset.
Tell_Sum == offset + Len(file)
Tell == IF offset < Len(file) THEN Len(file) ELSE offset

\* Read to the end as it is now, which may lie beyond the size just seen, or
\* before the offset; what is read may not follow on what was read before.
Read ==
  /\ pc = "open" /\ exists
  /\ pc' = "yield"
  /\ carry' = Data
  /\ offset' = Tell
  /\ outrun' = (outrun \/ (stale /\ offset > 0 /\ offset < Len(file)))
  /\ stale' = (stale /\ Len(file) <= offset)
  /\ UNCHANGED <<fileVars, mode, resultVars>>

\* What is blank is passed over.  A record can be made of a line that is whole,
\* with or without its newline.
Whole(line) == Len(line) = 2 /\ line[1] % 3 = 1 /\ line[2] = line[1] + 1
Number(line) == (line[1] + 2) \div 3

HandOn(line) ==
  /\ yielded' = IF line = <<>> THEN yielded ELSE Append(yielded, line)
  /\ seen' = IF Whole(line) THEN Append(seen, Number(line)) ELSE seen

Newlines == {k \in DOMAIN carry : carry[k] % 3 = 0}

\* The next of the complete lines, the file being free to change in between.
Yield ==
  /\ pc = "yield"
  /\ \E end \in Newlines :
       /\ \A k \in Newlines : end <= k
       /\ HandOn(SubSeq(carry, 1, end - 1))
       /\ carry' = SubSeq(carry, end + 1, Len(carry))
  /\ UNCHANGED <<fileVars, mode, pc, offset, stale, outrun>>

\* Mutant: a follower, too, takes what it has for the last line.
EndsInLine_Always == TRUE
EndsInLine == mode = "replay"

\* A replay also yields a last line without a newline.
YieldEnds ==
  /\ pc = "yield" /\ Newlines = {}
  /\ pc' = NextPoll
  /\ IF EndsInLine
     THEN HandOn(carry) /\ carry' = <<>>
     ELSE UNCHANGED <<resultVars, carry>>
  /\ UNCHANGED <<fileVars, mode, offset, stale, outrun>>

TailerStep ==
  \/ WaitForFile \/ SeekEnd \/ WaitForReplacement
  \/ GetSizeMissing \/ GetSize \/ OpenMissing \/ Read \/ Yield \/ YieldEnds

ServiceStep == ServiceStarts \/ BeginLine \/ FinishLine

Next == TailerStep \/ ServiceStep \/ Truncate \/ Rotate

Spec == Init /\ [][Next]_vars

\* The tailer polls for ever; a write that has begun comes to its end.
Fairness == WF_vars(TailerStep) /\ WF_vars(FinishLine)

FairSpec == Spec /\ Fairness

----------------------------------------------------------------------------
Tokens == 1..(3 * MaxLines)

TypeOK ==
  /\ exists \in BOOLEAN /\ handle \in BOOLEAN
  /\ file \in Seq(Tokens) /\ carry \in Seq(Tokens)
  /\ written \in 0..(3 * MaxLines) /\ offset \in 0..(3 * MaxLines)
  /\ truncations \in 0..MaxTruncations /\ rotations \in 0..MaxRotations
  /\ mode \in Modes
  /\ pc \in {"wait_for_file", "seek_end", "wait_for_replacement", "getsize", "open",
             "yield", "raised", "done"}
  /\ yielded \in Seq(Seq(Tokens)) /\ seen \in Seq(1..MaxLines)
  /\ stale \in BOOLEAN /\ outrun \in BOOLEAN

Disturbed == truncations + rotations > 0

\* Of a log that is only appended to, the tailer hands on every line from some
\* line on, whole, once, in order (tailer.py:15-19 and :40-53); and whatever is
\* done to the file, none twice and none out of order: "seek back to 0" never
\* reads a line again (tailer.py:86-89).  A line is there once its second half
\* is, with or without the newline.
Stream == INSTANCE LineStream WITH
  written <- (written + 1) \div 3, seen <- seen, disturbed <- Disturbed
StreamSpec == Stream!Spec

\* Every line handed on is one that was written, except that a tailer started in
\* the middle of a line hands on the end of it first, and a replay the
\* unfinished last line.  This is "seek back to 0 so we don't skip the new
\* content or read garbage" (tailer.py:20-22), and holds until a file that was
\* truncated or replaced has grown past the old offset by the next poll.
NoGarbage ==
  ~outrun =>
    \A k \in DOMAIN yielded :
      \/ Whole(yielded[k])
      \/ k = 1 /\ mode = "follow"
      \/ k = Len(yielded) /\ mode = "replay" /\ Len(yielded[k]) = 1

\* A follower that has opened the log sees every line begun from then on, and
\* sees it in the end also if the line arrives in pieces, unless the log is
\* truncated or removed.
Following == mode = "follow" /\ pc \in {"getsize", "open", "yield"}
Begun(i) == written > 3 * (i - 1)
SeesWhatIsWritten ==
  \A i \in 1..MaxLines :
    [](Following /\ ~Begun(i) =>
         []<>(~Begun(i) \/ Disturbed \/ \E k \in DOMAIN seen : seen[k] = i))
=============================================================================
