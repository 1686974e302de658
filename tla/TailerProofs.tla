---------------------------- MODULE TailerProofs ----------------------------
(***************************************************************************)
(* Proofs about the tailer, for any number of lines, truncations and       *)
(* removals of the file.                                                   *)
(*                                                                         *)
(* The argument is about one number, Pos, the last token that has been     *)
(* read or passed over.  It never goes back, whatever is done to the file  *)
(* (a file is only replaced by later tokens), so nothing is handed on      *)
(* twice or out of order.  As long as no poll took one file for another    *)
(* (outrun), the carry runs up to Pos without a gap, which is why lines    *)
(* come out whole; and on an undisturbed log the next one is always the    *)
(* successor of the last one handed on.                                    *)
(***************************************************************************)
EXTENDS Tailer, TLAPS, SequenceTheorems

\* The tokens before those in the file; whether the offset is one into it; the
\* last token that has been read or passed over.
Start == written - Len(file)
Current == exists /\ ~stale
Pos == IF Current THEN Start + offset ELSE Start

\* The file holds what was written last, from the start of a line on; a file
\* that is gone is written to no more.
Content ==
  /\ Len(file) <= written /\ Start % 3 = 0
  /\ \A k \in DOMAIN file : file[k] = Start + k
  /\ ~exists => file = <<>> /\ ~handle

\* Where the offset can stand.
Place ==
  /\ Current => offset <= Len(file)
  /\ offset = 0 => carry = <<>>
  /\ ~exists /\ ~stale => offset = 0
  /\ pc \in {"wait_for_file", "seek_end"} => offset = 0 /\ yielded = <<>> /\ seen = <<>>
  /\ pc = "seek_end" => mode = "follow"
  /\ pc = "wait_for_replacement" => stale \/ offset = 0

\* What has been read lies behind what is to be read, and beyond what has been
\* handed on, whatever was done to the file.
Order ==
  /\ \A j \in DOMAIN carry : carry[j] <= Pos
  /\ \A j, k \in DOMAIN carry : j < k => carry[j] < carry[k]
  /\ pc # "done" => \A i \in DOMAIN seen : /\ 3 * seen[i] <= Pos
                                          /\ \A k \in DOMAIN carry : 3 * seen[i] < carry[k]

AtLineStart == IF carry # <<>> THEN carry[1] % 3 = 1 ELSE Current => Pos % 3 = 0

\* As long as no poll took one file for another, the carry has no gap, what is
\* read next follows on it, and it begins with a line, except before the first.
Joined ==
  ~outrun =>
    /\ \A j \in DOMAIN carry : carry[j] = carry[1] + j - 1
    /\ carry # <<>> /\ Current => carry[1] + Len(carry) - 1 = Pos
    /\ pc # "done" => (mode = "follow" /\ yielded = <<>>) \/ AtLineStart

Clean ==
  ~outrun =>
    \A k \in DOMAIN yielded :
      \/ Whole(yielded[k])
      \/ k = 1 /\ mode = "follow"
      \/ k = Len(yielded) /\ mode = "replay" /\ Len(yielded[k]) = 1 /\ pc = "done"

\* On a log nobody truncates or removes, the next line is the one after the last.
Steady ==
  ~Disturbed =>
    /\ ~stale /\ ~outrun /\ (exists \/ pc = "wait_for_file")
    /\ seen # <<>> /\ pc # "done" =>
         (IF carry # <<>> THEN carry[1] ELSE Pos + 1) = 3 * seen[Len(seen)] + 1

IInv == TypeOK /\ Content /\ Place /\ Order /\ Joined /\ Clean /\ Steady

----------------------------------------------------------------------------
\* Sequences: what reading, cutting and handing on do.

LEMMA Lengths ==
  ASSUME TypeOK
  PROVE  /\ Len(file) \in Nat /\ DOMAIN file = 1..Len(file)
         /\ Len(carry) \in Nat /\ DOMAIN carry = 1..Len(carry)
         /\ Len(seen) \in Nat /\ DOMAIN seen = 1..Len(seen)
         /\ Len(yielded) \in Nat /\ DOMAIN yielded = 1..Len(yielded)
         /\ carry = <<>> <=> Len(carry) = 0
         /\ seen = <<>> <=> Len(seen) = 0
         /\ \A k \in DOMAIN carry : carry[k] \in Tokens
         /\ \A i \in DOMAIN seen : seen[i] \in 1..MaxLines
         /\ MaxLines \in Nat /\ Tokens = 1..(3 * MaxLines)
<1>1. /\ file \in Seq(Tokens) /\ carry \in Seq(Tokens)
      /\ seen \in Seq(1..MaxLines) /\ yielded \in Seq(Seq(Tokens))
  BY DEF TypeOK
<1>2. MaxLines \in Nat /\ Tokens = 1..(3 * MaxLines)
  BY BoundAssumption DEF Tokens
<1>3. ASSUME NEW S, NEW s \in Seq(S)
      PROVE  /\ Len(s) \in Nat /\ DOMAIN s = 1..Len(s) /\ \A k \in DOMAIN s : s[k] \in S
             /\ s = <<>> <=> Len(s) = 0
  <2>1. Len(s) \in Nat /\ DOMAIN s = 1..Len(s) /\ \A k \in 1..Len(s) : s[k] \in S
    BY LenProperties, ElementOfSeq
  <2>2. s = <<>> <=> Len(s) = 0
    BY <2>1, EmptySeq, SeqEqual
  <2> QED
    BY <2>1, <2>2
<1> HIDE DEF Tokens
<1> QED
  BY <1>1, <1>2, <1>3

\* What a write adds.
LEMMA WriteFacts ==
  ASSUME TypeOK, Content, Write, AtLineEnd => written < 3 * MaxLines
  PROVE  /\ file' \in Seq(Tokens) /\ written' \in 0..(3 * MaxLines)
         /\ Start' = Start /\ Len(file') <= written' /\ Len(file') >= Len(file)
         /\ \A k \in DOMAIN file' : file'[k] = Start + k
         /\ (written' + 1) \div 3 \in {(written + 1) \div 3, (written + 1) \div 3 + 1}
<1>1. PICK n \in 1..(3 - (written % 3)) :
        file' = file \o [k \in 1..n |-> written + k] /\ written' = written + n
  BY DEF Write
<1>2. /\ written \in 0..(3 * MaxLines) /\ MaxLines \in Nat /\ n \in Nat
      /\ Tokens = 1..(3 * MaxLines) /\ file \in Seq(Tokens)
  BY BoundAssumption DEF TypeOK, Tokens
<1>3. written + n <= 3 * MaxLines
  <2>1. \A w, m, l \in Nat :
          m \in 1..(3 - (w % 3)) /\ w <= 3 * l /\ (w % 3 = 0 => w < 3 * l) => w + m <= 3 * l
    OBVIOUS
  <2>2. written <= 3 * MaxLines /\ (written % 3 = 0 => written < 3 * MaxLines) /\ written \in Nat
    BY <1>2 DEF AtLineEnd
  <2>3. n \in 1..(3 - (written % 3))
    OBVIOUS
  <2> QED
    BY ONLY <1>2, <2>1, <2>2, <2>3
<1> DEFINE new == [k \in 1..n |-> written + k]
<1>4. new \in Seq(Tokens) /\ Len(new) = n /\ \A k \in 1..n : new[k] = written + k
  <2>1. \A k \in 1..n : written + k \in Tokens
    BY <1>2, <1>3
  <2>2. new \in [1..n -> Tokens]
    BY <2>1
  <2> QED
    BY <1>2, <2>2
<1>5. file' = file \o new
  BY <1>1
<1> HIDE DEF new
<1>6. /\ file' \in Seq(Tokens) /\ Len(file') = Len(file) + n
      /\ \A k \in 1..(Len(file) + n) :
           file'[k] = IF k <= Len(file) THEN file[k] ELSE new[k - Len(file)]
  BY <1>2, <1>4, <1>5, ConcatProperties
<1>7. Len(file) \in Nat /\ DOMAIN file = 1..Len(file) /\ DOMAIN file' = 1..(Len(file) + n)
  BY <1>2, <1>6
<1>8. Start' = Start /\ Len(file') <= written' /\ Len(file') >= Len(file)
  BY <1>1, <1>2, <1>6, <1>7 DEF Start, Content
<1>9. \A k \in DOMAIN file' : file'[k] = Start + k
  <2>1. SUFFICES ASSUME NEW k \in 1..(Len(file) + n) PROVE file'[k] = Start + k
    BY <1>7
  <2>2. CASE k <= Len(file)
    BY <1>6, <1>7, <2>2 DEF Content
  <2>3. CASE k > Len(file)
    <3>1. k - Len(file) \in 1..n /\ file'[k] = new[k - Len(file)]
      BY <1>2, <1>6, <1>7, <2>3
    <3> QED
      BY <1>2, <1>4, <1>7, <3>1 DEF Start
  <2> QED
    BY <1>7, <2>2, <2>3
<1>10. (written' + 1) \div 3 \in {(written + 1) \div 3, (written + 1) \div 3 + 1}
  <2>1. \A w, m \in Nat : m \in 1..(3 - (w % 3)) =>
          (w + m + 1) \div 3 \in {(w + 1) \div 3, (w + 1) \div 3 + 1}
    OBVIOUS
  <2> QED
    BY <1>1, <1>2, <2>1
<1>11. written' \in 0..(3 * MaxLines)
  BY <1>1, <1>2, <1>3
<1> QED
  BY <1>6, <1>8, <1>9, <1>10, <1>11

\* What a read finds: the carry, and then what the file has from the offset on.
LEMMA DataFacts ==
  ASSUME TypeOK
  PROVE  LET more == IF offset < Len(file) THEN Len(file) - offset ELSE 0
         IN  /\ Data \in Seq(Tokens) /\ Len(Data) = Len(carry) + more
             /\ \A k \in 1..Len(carry) : Data[k] = carry[k]
             /\ \A k \in 1..more : Data[Len(carry) + k] = file[offset + k]
<1> DEFINE chunk == SubSeq(file, offset + 1, Len(file))
           more == IF offset < Len(file) THEN Len(file) - offset ELSE 0
<1>1. /\ offset \in Nat /\ Len(file) \in Nat /\ Len(carry) \in Nat
      /\ file \in Seq(Tokens) /\ carry \in Seq(Tokens)
  BY Lengths DEF TypeOK
<1>2. \A i \in (offset + 1)..Len(file) : file[i] \in Tokens
  BY <1>1, ElementOfSeq
<1>3. /\ chunk \in Seq(Tokens)
      /\ Len(chunk) = IF offset + 1 <= Len(file) THEN Len(file) - (offset + 1) + 1 ELSE 0
      /\ \A i \in 1..(Len(file) - (offset + 1) + 1) : chunk[i] = file[offset + 1 + i - 1]
  BY <1>1, <1>2, SubSeqProperties
<1>4. Len(chunk) = more /\ \A k \in 1..more : chunk[k] = file[offset + k]
  BY <1>1, <1>3
<1>5. Data = carry \o chunk
  BY DEF Data
<1>7. more \in Nat
  BY <1>1
<1> HIDE DEF chunk, more
<1>6. /\ Data \in Seq(Tokens) /\ Len(Data) = Len(carry) + more
      /\ \A k \in 1..(Len(carry) + more) :
           Data[k] = IF k <= Len(carry) THEN carry[k] ELSE chunk[k - Len(carry)]
  BY <1>1, <1>3, <1>4, <1>5, ConcatProperties
<1>8. \A k \in 1..Len(carry) : Data[k] = carry[k]
  BY <1>1, <1>6, <1>7
<1>9. \A k \in 1..more : Data[Len(carry) + k] = chunk[k]
  <2>1. SUFFICES ASSUME NEW k \in 1..more PROVE Data[Len(carry) + k] = chunk[k]
    OBVIOUS
  <2>2. /\ Len(carry) + k \in 1..(Len(carry) + more)
        /\ ~(Len(carry) + k <= Len(carry)) /\ Len(carry) + k - Len(carry) = k
    BY <1>1, <1>7
  <2> QED
    BY <1>6, <2>2
<1> QED
  BY <1>4, <1>6, <1>8, <1>9 DEF more

\* The line before a newline, and what is left behind it.
LEMMA CutFacts ==
  ASSUME TypeOK, NEW end \in DOMAIN carry
  PROVE  LET line == SubSeq(carry, 1, end - 1)
             rest == SubSeq(carry, end + 1, Len(carry))
         IN  /\ line \in Seq(Tokens) /\ Len(line) = end - 1
             /\ \A k \in 1..(end - 1) : line[k] = carry[k]
             /\ rest \in Seq(Tokens) /\ Len(rest) = Len(carry) - end
             /\ \A k \in 1..(Len(carry) - end) : rest[k] = carry[end + k]
<1>1. /\ carry \in Seq(Tokens) /\ Len(carry) \in Nat /\ end \in 1..Len(carry)
      /\ \A i \in 1..Len(carry) : carry[i] \in Tokens
  BY Lengths DEF TypeOK
<1> DEFINE line == SubSeq(carry, 1, end - 1)
           rest == SubSeq(carry, end + 1, Len(carry))
<1>2. /\ line \in Seq(Tokens)
      /\ Len(line) = IF 1 <= end - 1 THEN end - 1 - 1 + 1 ELSE 0
      /\ \A i \in 1..(end - 1 - 1 + 1) : line[i] = carry[1 + i - 1]
  BY <1>1, SubSeqProperties
<1>3. /\ rest \in Seq(Tokens)
      /\ Len(rest) = IF end + 1 <= Len(carry) THEN Len(carry) - (end + 1) + 1 ELSE 0
      /\ \A i \in 1..(Len(carry) - (end + 1) + 1) : rest[i] = carry[end + 1 + i - 1]
  BY <1>1, SubSeqProperties
<1> HIDE DEF line, rest
<1>4. Len(line) = end - 1 /\ \A k \in 1..(end - 1) : line[k] = carry[k]
  BY <1>1, <1>2
<1>5. Len(rest) = Len(carry) - end /\ \A k \in 1..(Len(carry) - end) : rest[k] = carry[end + k]
  BY <1>1, <1>3
<1> QED
  BY <1>2, <1>3, <1>4, <1>5 DEF line, rest

\* A whole line is two tokens of the line whose number it is.
LEMMA WholeFacts ==
  ASSUME NEW line \in Seq(Tokens), Whole(line)
  PROVE  /\ Number(line) \in 1..MaxLines
         /\ line[1] = 3 * Number(line) - 2 /\ line[2] = 3 * Number(line) - 1
<1>1. line[1] \in 1..(3 * MaxLines) /\ line[1] % 3 = 1 /\ MaxLines \in Nat
  <2>1. 1 \in 1..Len(line)
    BY DEF Whole
  <2> QED
    BY <2>1, BoundAssumption, ElementOfSeq DEF Whole, Tokens
<1>2. \A t \in Nat : t % 3 = 1 => 3 * ((t + 2) \div 3) = t + 2 /\ (t + 2) \div 3 \in Nat
  OBVIOUS
<1>3. 3 * Number(line) = line[1] + 2 /\ Number(line) \in Nat
  BY <1>1, <1>2 DEF Number
<1> QED
  BY <1>1, <1>3 DEF Whole

\* Handing on adds a line to one history, its number to the other, or nothing.
LEMMA HandOnFacts ==
  ASSUME TypeOK, NEW line \in Seq(Tokens), HandOn(line)
  PROVE  /\ yielded' \in Seq(Seq(Tokens)) /\ seen' \in Seq(1..MaxLines)
         /\ line = <<>> => yielded' = yielded
         /\ line # <<>> => /\ yielded' # <<>> /\ Len(yielded') = Len(yielded) + 1
                           /\ \A k \in 1..Len(yielded) : yielded'[k] = yielded[k]
                           /\ yielded'[Len(yielded) + 1] = line
         /\ ~Whole(line) => seen' = seen
         /\ Whole(line) => /\ seen' = Append(seen, Number(line))
                           /\ seen' # <<>> /\ Len(seen') = Len(seen) + 1
                           /\ \A i \in 1..Len(seen) : seen'[i] = seen[i]
                           /\ seen'[Len(seen) + 1] = Number(line)
<1>1. yielded \in Seq(Seq(Tokens)) /\ seen \in Seq(1..MaxLines)
  BY DEF TypeOK
<1>2. CASE line = <<>>
  <2>1. ~Whole(line)
    BY <1>2, EmptySeq DEF Whole
  <2> QED
    BY <1>1, <1>2, <2>1 DEF HandOn
<1>3. CASE line # <<>>
  <2>1. yielded' = Append(yielded, line)
    BY <1>3 DEF HandOn
  <2>2. CASE ~Whole(line)
    BY <1>1, <1>3, <2>1, <2>2, AppendProperties DEF HandOn
  <2>3. CASE Whole(line)
    <3>1. seen' = Append(seen, Number(line)) /\ Number(line) \in 1..MaxLines
      BY <2>3, WholeFacts DEF HandOn
    <3>2. /\ yielded' \in Seq(Seq(Tokens)) /\ yielded' # <<>> /\ Len(yielded') = Len(yielded) + 1
          /\ \A k \in 1..Len(yielded) : yielded'[k] = yielded[k]
          /\ yielded'[Len(yielded) + 1] = line
      BY <1>1, <2>1, AppendProperties
    <3>3. /\ seen' \in Seq(1..MaxLines) /\ seen' # <<>> /\ Len(seen') = Len(seen) + 1
          /\ \A i \in 1..Len(seen) : seen'[i] = seen[i]
          /\ seen'[Len(seen) + 1] = Number(line)
      BY <1>1, <3>1, AppendProperties
    <3> QED
      BY <1>3, <2>3, <3>1, <3>2, <3>3
  <2> QED
    BY <2>2, <2>3
<1> QED
  BY <1>2, <1>3

----------------------------------------------------------------------------
\* The invariant holds in the beginning, and no step breaks it.

LEMMA InitIInv == Init => IInv
<1> SUFFICES ASSUME Init PROVE IInv
  OBVIOUS
<1> USE DEF Init
<1>1. Len(<<>>) = 0 /\ DOMAIN <<>> = {}
  OBVIOUS
<1>2. TypeOK
  <2>1. \A S : <<>> \in Seq(S)
    BY EmptySeq
  <2>2. /\ file \in Seq(Tokens) /\ carry \in Seq(Tokens)
        /\ yielded \in Seq(Seq(Tokens)) /\ seen \in Seq(1..MaxLines)
    BY <2>1
  <2>3. /\ written \in 0..(3 * MaxLines) /\ offset \in 0..(3 * MaxLines)
        /\ truncations \in 0..MaxTruncations /\ rotations \in 0..MaxRotations
    BY BoundAssumption
  <2>4. /\ exists \in BOOLEAN /\ handle \in BOOLEAN
        /\ stale \in BOOLEAN /\ outrun \in BOOLEAN
    OBVIOUS
  <2>5. /\ mode \in Modes
        /\ pc \in {"wait_for_file", "seek_end", "wait_for_replacement", "getsize", "open",
                   "yield", "raised", "done"}
    OBVIOUS
  <2> QED
    BY <2>2, <2>3, <2>4, <2>5 DEF TypeOK
<1>3. Start = 0 /\ ~Current /\ Pos = 0
  <2>1. ~Current
    BY DEF Current
  <2>2. Len(file) = 0
    BY <1>1
  <2>3. Start = 0
    <3>1. written = 0
      OBVIOUS
    <3> QED
      BY ONLY <2>2, <3>1 DEF Start
  <2> QED
    BY <2>1, <2>3 DEF Pos
<1>4. DOMAIN file = {} /\ DOMAIN carry = {} /\ DOMAIN seen = {} /\ DOMAIN yielded = {}
  BY <1>1
<1>5. Content /\ Place
  BY <1>1, <1>3, <1>4 DEF Content, Place
<1>6. Order /\ Clean
  BY <1>4 DEF Order, Clean
<1>7. Joined
  BY <1>3, <1>4 DEF Joined, AtLineStart
<1>8. Steady
  BY DEF Steady
<1> QED
  BY <1>2, <1>5, <1>6, <1>7, <1>8 DEF IInv

\* Where the file and the reader stand.
LEMMA Positions ==
  ASSUME IInv
  PROVE  /\ written \in Nat /\ offset \in Nat /\ Start \in Nat /\ Pos \in Nat
         /\ Start + Len(file) = written /\ Start <= Pos /\ Pos <= written
         /\ Current => Pos = Start + offset
         /\ ~Current => Pos = Start
<1>1. written \in Nat /\ offset \in Nat /\ Len(file) \in Nat
  BY Lengths DEF IInv, TypeOK
<1>2. Len(file) <= written /\ (Current => offset <= Len(file))
  BY DEF IInv, Content, Place
<1> QED
  BY <1>1, <1>2 DEF Start, Pos

\* What is done to the file from outside moves Pos at most ahead, and not at
\* all while the offset is one into the file.
LEMMA FileMoves ==
  ASSUME IInv, UNCHANGED tailerVars, TypeOK', Content', Place',
         Pos' \in Nat, Pos' >= Pos,
         Current' => Pos' = Pos /\ (Current \/ (carry = <<>> /\ Pos % 3 = 0)),
         Disturbed' \/ (~Disturbed /\ stale' = stale /\ (exists => exists') /\ Pos' = Pos)
  PROVE  IInv'
<1> USE DEF tailerVars, resultVars
<1>0. /\ \A j \in DOMAIN carry : carry[j] \in Nat
      /\ \A i \in DOMAIN seen : seen[i] \in Nat
      /\ Pos \in Nat
  <2>1. TypeOK /\ \A t \in Tokens : t \in Nat
    BY DEF IInv, Tokens
  <2>2. \A i \in 1..MaxLines : i \in Nat
    OBVIOUS
  <2> QED
    BY <2>1, <2>2, Lengths, Positions
<1>1. Order'
  BY <1>0 DEF IInv, Order
<1>2. Joined'
  BY DEF IInv, Joined, AtLineStart
<1>3. Clean'
  BY DEF IInv, Clean, Whole
<1>4. Steady'
  BY DEF IInv, Steady
<1> QED
  BY <1>1, <1>2, <1>3, <1>4 DEF IInv

LEMMA NextServiceStarts == ASSUME IInv, ServiceStarts PROVE IInv'
<1> USE DEF ServiceStarts, tailerVars, resultVars
<1>1. TypeOK'
  BY DEF IInv, TypeOK
<1>2. Start' = Start
  BY DEF Start
<1>3. Content'
  <2>1. \A k \in DOMAIN file : file[k] = Start + k
    BY DEF IInv, Content
  <2> QED
    BY <1>2, <2>1 DEF IInv, Content
<1>4. Current' = ~stale /\ (~exists /\ ~stale => offset = 0 /\ carry = <<>>)
  BY DEF IInv, Current, Place
<1>5. Pos' = Pos
  BY <1>2, <1>4, Positions DEF Pos, Current
<1>6. Place'
  BY <1>4, Lengths DEF IInv, Place, Current
<1>7. Current' => Current \/ (carry = <<>> /\ Pos % 3 = 0)
  BY <1>4, <1>5, Positions DEF IInv, Content, Current
<1>8. Disturbed' = Disturbed /\ (exists => exists') /\ stale' = stale
  BY DEF Disturbed
<1> QED
  BY <1>1, <1>3, <1>5, <1>6, <1>7, <1>8, FileMoves, Positions DEF IInv

LEMMA NextWrite ==
  ASSUME IInv, Write, AtLineEnd => written < 3 * MaxLines, handle
  PROVE  IInv'
<1> USE DEF tailerVars, resultVars
<1>1. /\ file' \in Seq(Tokens) /\ written' \in 0..(3 * MaxLines)
      /\ Start' = Start /\ Len(file') <= written' /\ Len(file') >= Len(file)
      /\ \A k \in DOMAIN file' : file'[k] = Start + k
  BY WriteFacts DEF IInv
<1>2. /\ UNCHANGED <<exists, handle, truncations, rotations, tailerVars, stale>>
      /\ UNCHANGED <<mode, pc, offset, carry, yielded, seen, outrun>>
  BY DEF Write
<1>3. TypeOK'
  BY <1>1, <1>2 DEF IInv, TypeOK
<1>4. exists /\ Content'
  BY <1>1, <1>2, Positions DEF IInv, Content
<1>5. Pos' = Pos /\ Current' = Current
  BY <1>1, <1>2 DEF Pos, Current
<1>6. Place'
  <2>1. offset \in Nat /\ Len(file) \in Nat /\ Len(file') \in Nat
    BY <1>1, Lengths DEF IInv, TypeOK
  <2>2. Current' => offset' <= Len(file')
    BY <1>1, <1>2, <1>5, <2>1 DEF IInv, Place
  <2> QED
    BY <1>2, <1>4, <2>2 DEF IInv, Place
<1>7. Disturbed' = Disturbed
  BY <1>2 DEF Disturbed
<1> QED
  BY <1>2, <1>3, <1>4, <1>5, <1>6, <1>7, FileMoves, Positions

LEMMA NextTruncate == ASSUME IInv, Truncate PROVE IInv'
<1> USE DEF Truncate, tailerVars, resultVars
<1>1. TypeOK'
  <2>1. <<>> \in Seq(Tokens)
    BY EmptySeq
  <2>2. truncations' \in 0..MaxTruncations
    BY BoundAssumption DEF IInv, TypeOK
  <2> QED
    BY <2>1, <2>2 DEF IInv, TypeOK
<1>2. Len(<<>>) = 0 /\ DOMAIN <<>> = {}
  OBVIOUS
<1>3. Start' = written /\ Pos' = written /\ ~Current'
  BY <1>2, Positions DEF Start, Pos, Current
<1>4. Content'
  BY <1>2, <1>3, Positions DEF IInv, Content, AtLineEnd
<1>5. Place'
  BY <1>3 DEF IInv, Place
<1>6. Disturbed'
  BY DEF IInv, TypeOK, Disturbed
<1> QED
  BY <1>1, <1>3, <1>4, <1>5, <1>6, FileMoves, Positions

LEMMA NextRotate == ASSUME IInv, Rotate PROVE IInv'
<1> USE DEF Rotate, tailerVars, resultVars
<1>1. TypeOK'
  <2>1. <<>> \in Seq(Tokens)
    BY EmptySeq
  <2>2. rotations' \in 0..MaxRotations
    BY BoundAssumption DEF IInv, TypeOK
  <2> QED
    BY <2>1, <2>2 DEF IInv, TypeOK
<1>2. Len(<<>>) = 0 /\ DOMAIN <<>> = {}
  OBVIOUS
<1>3. Start' = written /\ Pos' = written /\ ~Current'
  BY <1>2, Positions DEF Start, Pos, Current
<1>4. Content'
  BY <1>2, <1>3, Positions DEF IInv, Content, AtLineEnd
<1>5. Place'
  BY <1>3 DEF IInv, Place
<1>6. Disturbed'
  BY DEF IInv, TypeOK, Disturbed
<1> QED
  BY <1>1, <1>3, <1>4, <1>5, <1>6, FileMoves, Positions

\* Steps of the tailer that only lead from one place to another.
LEMMA Waits ==
  ASSUME IInv, UNCHANGED <<fileVars, mode, offset, carry, resultVars, stale, outrun>>,
         pc # "done", TypeOK', Place', Disturbed \/ exists
  PROVE  IInv'
<1> USE DEF fileVars, resultVars
<1>1. Start' = Start /\ Current' = Current /\ Pos' = Pos /\ Disturbed' = Disturbed
  BY DEF Start, Current, Pos, Disturbed
<1>2. Content'
  BY <1>1 DEF IInv, Content
<1>3. Order'
  BY <1>1 DEF IInv, Order
<1>4. Joined'
  BY <1>1 DEF IInv, Joined, AtLineStart
<1>5. Clean'
  BY DEF IInv, Clean, Whole
<1>6. Steady'
  BY <1>1 DEF IInv, Steady
<1> QED
  BY <1>2, <1>3, <1>4, <1>5, <1>6 DEF IInv

LEMMA NextWaitForFile == ASSUME IInv, WaitForFile PROVE IInv'
<1> USE DEF WaitForFile, fileVars, resultVars
<1>1. mode \in {"follow", "replay"}
  BY ModesAssumption DEF IInv, TypeOK
<1>2. TypeOK'
  BY DEF IInv, TypeOK
<1>3. Place'
  BY <1>1 DEF IInv, Place, Current
<1> QED
  BY <1>2, <1>3, Waits

LEMMA NextGetSizeMissing == ASSUME IInv, GetSizeMissing PROVE IInv'
<1> USE DEF GetSizeMissing, fileVars, resultVars
<1>1. TypeOK'
  BY DEF IInv, TypeOK
<1>2. Place' /\ Disturbed
  BY DEF IInv, Place, Current, Steady
<1> QED
  BY <1>1, <1>2, Waits

LEMMA NextOpenMissing == ASSUME IInv, OpenMissing PROVE IInv'
<1> USE DEF OpenMissing, fileVars, resultVars
<1>1. TypeOK'
  BY DEF IInv, TypeOK
<1>2. Place' /\ Disturbed
  BY DEF IInv, Place, Current, Steady
<1> QED
  BY <1>1, <1>2, Waits

\* Reading a file from its start reads nothing a second time: the offset was
\* one into a file that is gone, or no offset yet.
LEMMA StartsOver ==
  ASSUME IInv, exists, stale \/ offset = 0, FromTheTop,
         UNCHANGED <<fileVars, mode, resultVars, outrun>>,
         pc # "done", pc' \in {"getsize", "open", "done"}
  PROVE  IInv'
<1> USE DEF fileVars, resultVars, FromTheTop
<1>1. /\ Len(<<>>) = 0 /\ DOMAIN <<>> = {} /\ <<>> \in Seq(Tokens)
      /\ Len(file) \in Nat
  BY EmptySeq, Lengths DEF IInv
<1>2. TypeOK'
  <2>1. offset' \in 0..(3 * MaxLines)
    BY BoundAssumption
  <2> QED
    BY <1>1, <2>1 DEF IInv, TypeOK
<1>3. Start' = Start /\ Current' /\ Disturbed' = Disturbed
  BY DEF Start, Current, Disturbed
<1>4. Pos = Start /\ Pos' = Start /\ Start \in Nat /\ Start % 3 = 0
  <2>1. Current => offset = 0
    BY DEF Current
  <2>2. Pos = Start /\ Start \in Nat /\ Start % 3 = 0
    BY <2>1, Positions DEF IInv, Content
  <2>3. Pos' = Start
    BY <1>3, <2>2 DEF Pos
  <2> QED
    BY <2>2, <2>3
<1>5. Content'
  BY <1>3 DEF IInv, Content
<1>6. Place'
  BY <1>1 DEF IInv, Place
<1>7. Order'
  BY <1>1, <1>4 DEF IInv, Order
<1>8. Joined'
  BY <1>1, <1>3, <1>4 DEF Joined, AtLineStart
<1>9. Clean'
  BY DEF IInv, Clean, Whole
<1>10. Steady'
  <2>1. SUFFICES ASSUME ~Disturbed PROVE Steady'
    BY <1>3 DEF Steady
  <2>2. ~stale /\ offset = 0 /\ carry = <<>> /\ ~outrun
    BY <2>1 DEF IInv, Steady, Place
  <2> QED
    BY <1>3, <1>4, <2>1, <2>2 DEF IInv, Steady
<1> QED
  BY <1>2, <1>5, <1>6, <1>7, <1>8, <1>9, <1>10 DEF IInv

LEMMA NextWaitForReplacement == ASSUME IInv, WaitForReplacement PROVE IInv'
<1>1. stale \/ offset = 0
  BY DEF WaitForReplacement, IInv, Place
<1>2. pc # "done" /\ pc' \in {"getsize", "open", "done"}
  BY DEF WaitForReplacement, NextPoll
<1> QED
  BY <1>1, <1>2, StartsOver DEF WaitForReplacement

LEMMA NextGetSize == ASSUME IInv, GetSize PROVE IInv'
<1>1. pc = "getsize" /\ exists /\ pc' \in {"getsize", "open", "done"}
  BY DEF GetSize, NextPoll
<1>2. UNCHANGED <<fileVars, mode, resultVars, outrun>>
  BY DEF GetSize
<1>3. CASE Shrunk
  <2>1. FromTheTop
    BY <1>3 DEF GetSize
  <2>2. stale
    BY <1>1, <1>3, Lengths DEF IInv, TypeOK, Place, Current, Shrunk
  <2> QED
    BY <1>1, <1>2, <2>1, <2>2, StartsOver
<1>4. CASE ~Shrunk
  <2>1. UNCHANGED <<offset, carry, stale>>
    BY <1>4 DEF GetSize
  <2>2. TypeOK'
    BY <1>1, <1>2, <2>1 DEF IInv, TypeOK, fileVars, resultVars
  <2>3. Place'
    BY <1>1, <1>2, <2>1 DEF IInv, Place, Current, fileVars, resultVars
  <2> QED
    BY <1>1, <1>2, <2>1, <2>2, <2>3, Waits
<1> QED
  BY <1>3, <1>4

LEMMA NextSeekEnd == ASSUME IInv, SeekEnd PROVE IInv'
<1> USE DEF fileVars, resultVars
<1>1. pc = "seek_end" /\ UNCHANGED <<fileVars, mode, carry, resultVars, outrun>>
  BY DEF SeekEnd
<1>2. CASE ~exists
  <2>1. pc' = "raised" /\ UNCHANGED <<offset, stale>>
    BY <1>2 DEF SeekEnd
  <2>2. TypeOK'
    BY <1>1, <2>1 DEF IInv, TypeOK
  <2>3. Place' /\ Disturbed
    BY <1>1, <1>2, <2>1 DEF IInv, Place, Current, Steady
  <2> QED
    BY <1>1, <2>1, <2>2, <2>3, Waits
<1>3. CASE exists
  <2>1. pc' = "getsize" /\ offset' = Len(file) /\ stale' = FALSE
    BY <1>3 DEF SeekEnd
  <2>2. carry = <<>> /\ yielded = <<>> /\ seen = <<>> /\ mode = "follow"
    BY <1>1 DEF IInv, Place
  <2>3. DOMAIN carry = {} /\ DOMAIN yielded = {} /\ DOMAIN seen = {}
    BY <2>2
  <2>4. Start' = Start /\ Current' /\ Disturbed' = Disturbed
    BY <1>1, <1>3, <2>1 DEF Start, Current, Disturbed
  <2>5. TypeOK'
    <3>1. offset' \in 0..(3 * MaxLines)
      BY <2>1, Lengths DEF IInv, TypeOK, Content
    <3> QED
      BY <1>1, <2>1, <3>1 DEF IInv, TypeOK
  <2>6. Content'
    BY <1>1, <2>4 DEF IInv, Content
  <2>7. Place'
    BY <1>1, <1>3, <2>1, <2>2, Lengths DEF IInv, Place
  <2>8. Order' /\ Clean'
    BY <1>1, <2>3 DEF Order, Clean
  <2>9. Joined'
    BY <1>1, <2>2, <2>3 DEF Joined, AtLineStart
  <2>10. Steady'
    BY <1>1, <1>3, <2>1, <2>2, <2>4 DEF IInv, Steady
  <2> QED
    BY <2>5, <2>6, <2>7, <2>8, <2>9, <2>10 DEF IInv
<1> QED
  BY <1>2, <1>3

\* A read that finds nothing behind the offset leaves everything as it was.
LEMMA ReadsNothing ==
  ASSUME IInv, Read, stale'
  PROVE  IInv'
<1> USE DEF fileVars, resultVars
<1>1. /\ pc = "open" /\ pc' = "yield" /\ exists /\ carry' = Data /\ offset' = Tell
      /\ stale /\ stale' = stale /\ Len(file) <= offset
      /\ outrun' = (outrun \/ (stale /\ offset > 0 /\ offset < Len(file)))
      /\ UNCHANGED <<fileVars, mode, resultVars>>
  BY DEF Read, IInv, TypeOK
<1>2. TypeOK /\ offset \in Nat /\ Len(file) \in Nat /\ Len(carry) \in Nat
  BY Lengths DEF IInv, TypeOK
<1>3. offset' = offset /\ outrun' = outrun
  BY <1>1, <1>2 DEF Tell, IInv, TypeOK
<1>4. carry' = carry
  <2>1. ~(offset < Len(file))
    BY <1>1, <1>2
  <2>2. /\ Data \in Seq(Tokens) /\ Len(Data) = Len(carry)
        /\ \A k \in 1..Len(carry) : Data[k] = carry[k]
    BY <1>2, <2>1, DataFacts
  <2> QED
    BY <1>1, <1>2, <2>2, SeqEqual DEF TypeOK
<1>5. TypeOK'
  BY <1>1, <1>3, <1>4 DEF IInv, TypeOK
<1>6. Place'
  BY <1>1, <1>3, <1>4 DEF IInv, Place, Current
<1> QED
  BY <1>1, <1>3, <1>4, <1>5, <1>6, Waits

\* Otherwise it reads up to what was written last.
LEMMA ReadsOn ==
  ASSUME IInv, Read, ~stale'
  PROVE  IInv'
<1> USE DEF fileVars, resultVars
<1> DEFINE more == Len(file) - offset
<1>1. /\ pc = "open" /\ pc' = "yield" /\ exists /\ carry' = Data /\ offset' = Tell
      /\ outrun' = (outrun \/ (stale /\ offset > 0 /\ offset < Len(file)))
      /\ UNCHANGED <<fileVars, mode, resultVars>>
  BY DEF Read
<1>2. /\ TypeOK /\ offset \in Nat /\ Len(file) \in Nat /\ Len(carry) \in Nat
      /\ DOMAIN file = 1..Len(file) /\ DOMAIN carry = 1..Len(carry)
      /\ carry = <<>> <=> Len(carry) = 0
      /\ \A k \in 1..Len(carry) : carry[k] \in Nat
      /\ \A i \in DOMAIN seen : seen[i] \in Nat
  <2>1. TypeOK /\ offset \in Nat /\ \A t \in Tokens : t \in Nat
    BY DEF IInv, TypeOK, Tokens
  <2>2. \A i \in 1..MaxLines : i \in Nat
    OBVIOUS
  <2> QED
    BY <2>1, <2>2, Lengths
<1>3. /\ stale => offset < Len(file)
      /\ ~stale => Current /\ offset <= Len(file)
  <2>1. stale => ~(Len(file) <= offset)
    BY DEF Read, IInv, TypeOK
  <2>2. ~stale => Current /\ offset <= Len(file)
    BY <1>1 DEF IInv, Place, Current
  <2> QED
    BY ONLY <1>2, <2>1, <2>2
<1>4. more \in Nat /\ offset' = Len(file) /\ (stale => more > 0)
  <2>1. offset <= Len(file) /\ (stale => offset < Len(file))
    BY ONLY <1>2, <1>3
  <2>2. offset' = Len(file)
    <3>1. offset \in Nat /\ Len(file) \in Nat
      BY <1>2
    <3>2. offset < Len(file) \/ offset = Len(file)
      BY ONLY <2>1, <3>1
    <3>3. Tell = Len(file)
      BY ONLY <3>2 DEF Tell
    <3> QED
      BY <1>1, <3>3
  <2> QED
    BY ONLY <1>2, <2>1, <2>2
<1>5. /\ Start' = Start /\ Current' /\ Disturbed' = Disturbed
      /\ Start \in Nat /\ Start % 3 = 0 /\ Start + Len(file) = written /\ Pos' = written
  BY <1>1, <1>4, Positions DEF IInv, Start, Current, Disturbed, Pos, Content
<1>6. /\ Data \in Seq(Tokens) /\ Len(carry') = Len(carry) + more
      /\ \A k \in 1..Len(carry) : carry'[k] = carry[k]
      /\ \A k \in 1..more : carry'[Len(carry) + k] = Start + offset + k
  <2>1. more = IF offset < Len(file) THEN Len(file) - offset ELSE 0
    <3>1. offset \in Nat /\ Len(file) \in Nat /\ Len(file) - offset \in Nat
      BY <1>2, <1>4
    <3>2. offset < Len(file) \/ Len(file) - offset = 0
      BY ONLY <3>1
    <3> QED
      BY <3>2
  <2>2. \A k \in 1..more : offset + k \in DOMAIN file
    BY <1>2
  <2>3. /\ Data \in Seq(Tokens) /\ Len(Data) = Len(carry) + more
        /\ \A k \in 1..Len(carry) : Data[k] = carry[k]
        /\ \A k \in 1..more : Data[Len(carry) + k] = file[offset + k]
    BY <1>2, <2>1, DataFacts
  <2>4. \A k \in 1..more : file[offset + k] = Start + (offset + k)
    BY <2>2 DEF IInv, Content
  <2>5. \A k \in 1..more : Start + (offset + k) = Start + offset + k
    BY ONLY <1>2, <1>5
  <2> HIDE DEF more
  <2> QED
    BY <1>1, <2>3, <2>4, <2>5
<1>7. /\ DOMAIN carry' = 1..(Len(carry) + more)
      /\ carry' = <<>> <=> Len(carry) + more = 0
  <2>1. carry' \in Seq(Tokens)
    BY <1>1, <1>6
  <2> QED
    BY <1>2, <1>4, <1>6, <2>1, EmptySeq, LenProperties
<1>8. Pos \in Nat /\ Pos <= Start + offset /\ (~stale => Pos = Start + offset)
  BY <1>2, <1>3, Positions DEF Current
<1> HIDE DEF more
\* A token of the carry is one of those carried over, or one of those just read.
<1>9. \A j \in DOMAIN carry' :
        \/ j \in 1..Len(carry) /\ carry'[j] = carry[j]
        \/ j > Len(carry) /\ j - Len(carry) \in 1..more /\ carry'[j] = Start + offset + (j - Len(carry))
  <2>1. SUFFICES ASSUME NEW j \in 1..(Len(carry) + more), j > Len(carry)
                 PROVE  j - Len(carry) \in 1..more /\ carry'[j] = Start + offset + (j - Len(carry))
    BY <1>2, <1>4, <1>6, <1>7
  <2>2. j - Len(carry) \in 1..more /\ Len(carry) + (j - Len(carry)) = j
    BY <1>2, <1>4, <2>1
  <2> QED
    BY <1>6, <2>2
<1>10. Start + offset + more = written
  BY <1>2, <1>5 DEF more
<1>11. TypeOK'
  <2>1. offset' \in 0..(3 * MaxLines)
    <3>1. Len(file) <= written /\ written \in 0..(3 * MaxLines) /\ MaxLines \in Nat
      BY BoundAssumption DEF IInv, TypeOK, Content
    <3> QED
      BY ONLY <1>2, <1>4, <3>1
  <2> QED
    BY <1>1, <1>6, <2>1 DEF IInv, TypeOK, Read
<1>12. Content'
  BY <1>1, <1>5 DEF IInv, Content
<1>13. Place'
  <2>1. offset' = 0 => carry' = <<>>
    BY <1>2, <1>3, <1>4, <1>7 DEF IInv, Place, more
  <2> QED
    BY <1>1, <1>2, <1>4, <2>1 DEF IInv, Place
<1>14. Order'
  <2>1. \A j \in 1..Len(carry) : carry[j] <= Pos
    BY <1>2 DEF IInv, Order
  <2>2. \A j, k \in 1..Len(carry) : j < k => carry[j] < carry[k]
    BY <1>2 DEF IInv, Order
  <2>3. \A j \in DOMAIN carry' : carry'[j] <= Pos'
    BY <1>2, <1>4, <1>5, <1>8, <1>9, <1>10, <2>1
  <2>4. \A j, k \in DOMAIN carry' : j < k => carry'[j] < carry'[k]
    BY <1>2, <1>4, <1>5, <1>7, <1>8, <1>9, <2>1, <2>2
  <2>5. ASSUME NEW i \in DOMAIN seen
        PROVE  3 * seen[i] <= Pos' /\ \A k \in DOMAIN carry' : 3 * seen[i] < carry'[k]
    <3>1. 3 * seen[i] <= Pos /\ (\A k \in 1..Len(carry) : 3 * seen[i] < carry[k]) /\ seen[i] \in Nat
      BY <1>1, <1>2, <2>5 DEF IInv, Order
    <3> QED
      BY <1>2, <1>4, <1>5, <1>8, <1>9, <1>10, <3>1
  <2> QED
    BY <1>1, <2>3, <2>4, <2>5 DEF Order
<1>15. ~outrun' => ~outrun /\ (stale => carry = <<>> /\ offset = 0)
  BY <1>1, <1>2, <1>3 DEF IInv, TypeOK, Place
<1>16. Joined'
  <2>1. SUFFICES ASSUME ~outrun' PROVE Joined'
    BY DEF Joined
  <2>2. /\ ~outrun
        /\ \A j \in 1..Len(carry) : carry[j] = carry[1] + j - 1
        /\ carry # <<>> => carry[1] + Len(carry) - 1 = Start + offset
        /\ (mode = "follow" /\ yielded = <<>>) \/ AtLineStart
    BY <1>1, <1>2, <1>3, <1>8, <1>15, <2>1 DEF IInv, Joined
  <2>3. carry' # <<>> => carry'[1] = IF carry # <<>> THEN carry[1] ELSE Start + offset + 1
    <3>1. CASE carry # <<>>
      BY <1>2, <1>6, <3>1
    <3>2. CASE carry = <<>> /\ more > 0
      <4>1. 1 \in 1..more /\ Len(carry) + 1 = 1
        BY <1>2, <1>4, <3>2
      <4>2. carry'[Len(carry) + 1] = Start + offset + 1
        BY <1>6, <4>1
      <4> QED
        BY <3>2, <4>1, <4>2
    <3>3. CASE carry = <<>> /\ more = 0
      BY <1>2, <1>7, <3>3
    <3> QED
      BY <1>4, <3>1, <3>2, <3>3
  <2>4. \A j \in DOMAIN carry' : carry'[j] = carry'[1] + j - 1
    <3>1. SUFFICES ASSUME NEW j \in DOMAIN carry' PROVE carry'[j] = carry'[1] + j - 1
      OBVIOUS
    <3>2. j \in Nat /\ carry' # <<>> /\ carry'[1] = IF carry # <<>> THEN carry[1] ELSE Start + offset + 1
      BY <1>2, <1>4, <1>7, <2>3
    <3>3. CASE carry = <<>>
      BY <1>2, <1>5, <1>9, <3>2, <3>3
    <3>4. CASE carry # <<>>
      <4>1. carry[1] \in Nat /\ carry[1] + Len(carry) - 1 = Start + offset
        BY <1>2, <2>2, <3>4
      <4> QED
        BY <1>2, <1>5, <1>9, <2>2, <3>2, <3>4, <4>1
    <3> QED
      BY <3>3, <3>4
  <2>5. carry' # <<>> => carry'[1] + Len(carry') - 1 = Pos'
    <3>1. SUFFICES ASSUME carry' # <<>> PROVE carry'[1] + (Len(carry) + more) - 1 = written
      BY <1>5, <1>6
    <3>2. CASE carry = <<>>
      BY <1>2, <1>4, <1>5, <1>10, <2>3, <3>1, <3>2
    <3>3. CASE carry # <<>>
      <4>1. carry[1] \in Nat /\ carry[1] + Len(carry) - 1 = Start + offset
        BY <1>2, <2>2, <3>3
      <4> QED
        BY <1>2, <1>4, <1>5, <1>10, <2>3, <3>1, <3>3, <4>1
    <3> QED
      BY <3>2, <3>3
  <2>6. AtLineStart => AtLineStart'
    <3>1. SUFFICES ASSUME AtLineStart PROVE AtLineStart'
      OBVIOUS
    <3>2. carry = <<>> => (Start + offset) % 3 = 0
      BY <1>2, <1>3, <1>5, <1>8, <1>15, <2>1, <3>1 DEF AtLineStart
    <3>3. CASE carry' # <<>>
      <4>1. carry # <<>> => carry[1] % 3 = 1
        BY <3>1 DEF AtLineStart
      <4>2. \A t \in Nat : t % 3 = 0 => (t + 1) % 3 = 1
        OBVIOUS
      <4>3. carry'[1] % 3 = 1
        BY <1>2, <1>5, <2>3, <3>2, <3>3, <4>1, <4>2
      <4> QED
        BY <3>3, <4>3 DEF AtLineStart
    <3>4. CASE carry' = <<>>
      <4>1. carry = <<>> /\ more = 0
        BY <1>2, <1>4, <1>7, <3>4
      <4> QED
        BY <1>2, <1>5, <1>10, <3>2, <3>4, <4>1 DEF AtLineStart
    <3> QED
      BY <3>3, <3>4
  <2> QED
    BY <1>1, <2>1, <2>2, <2>4, <2>5, <2>6 DEF Joined
<1>17. Clean'
  BY <1>1, <1>15 DEF IInv, Clean, Whole
<1>18. Steady'
  <2>1. SUFFICES ASSUME ~Disturbed PROVE Steady'
    BY <1>5 DEF Steady
  <2>2. /\ ~stale /\ ~outrun
        /\ seen # <<>> => (IF carry # <<>> THEN carry[1] ELSE Pos + 1) = 3 * seen[Len(seen)] + 1
    BY <1>1, <2>1 DEF IInv, Steady
  <2>3. ~outrun'
    BY <1>1, <2>2
  <2>4. (IF carry' # <<>> THEN carry'[1] ELSE Pos' + 1) = (IF carry # <<>> THEN carry[1] ELSE Pos + 1)
    <3>1. CASE carry' # <<>>
      <4>1. carry'[1] = IF carry # <<>> THEN carry[1] ELSE Start + offset + 1
        <5>1. CASE carry # <<>>
          BY <1>2, <1>6, <5>1
        <5>2. CASE carry = <<>>
          <6>1. 1 \in 1..more /\ Len(carry) + 1 = 1
            BY <1>2, <1>4, <1>7, <3>1, <5>2
          <6>2. carry'[Len(carry) + 1] = Start + offset + 1
            BY <1>6, <6>1
          <6> QED
            BY <5>2, <6>1, <6>2
        <5> QED
          BY <5>1, <5>2
      <4> QED
        BY <1>8, <2>2, <3>1, <4>1
    <3>2. CASE carry' = <<>>
      <4>1. carry = <<>> /\ more = 0
        BY <1>2, <1>4, <1>7, <3>2
      <4> QED
        BY <1>2, <1>5, <1>8, <1>10, <2>2, <3>2, <4>1
    <3> QED
      BY <3>1, <3>2
  <2> QED
    BY <1>1, <2>2, <2>3, <2>4 DEF Steady
<1> QED
  BY <1>11, <1>12, <1>13, <1>14, <1>16, <1>17, <1>18 DEF IInv

LEMMA NextRead == ASSUME IInv, Read PROVE IInv'
  BY ReadsNothing, ReadsOn

\* A carry without a gap that begins with a line: its first newline is its
\* third token; and without a newline it holds no more than two tokens.
LEMMA FirstLine ==
  ASSUME TypeOK, carry # <<>>, carry[1] % 3 = 1,
         \A j \in DOMAIN carry : carry[j] = carry[1] + j - 1
  PROVE  /\ \A end \in Newlines : (\A k \in Newlines : end <= k) => end = 3
         /\ Newlines = {} => Len(carry) <= 2
         /\ Len(carry) >= 2 => carry[2] = carry[1] + 1
<1>1. /\ Len(carry) \in Nat /\ DOMAIN carry = 1..Len(carry) /\ Len(carry) >= 1
      /\ \A k \in 1..Len(carry) : carry[k] \in Nat
  <2>1. \A t \in Tokens : t \in Nat
    BY DEF Tokens
  <2>2. /\ Len(carry) \in Nat /\ DOMAIN carry = 1..Len(carry) /\ Len(carry) # 0
        /\ \A k \in DOMAIN carry : carry[k] \in Tokens
    BY Lengths
  <2>3. Len(carry) >= 1
    BY ONLY <2>2
  <2> QED
    BY <2>1, <2>2, <2>3
<1>2. carry[1] \in Nat
  BY <1>1
<1>3. \A j \in 1..Len(carry) : carry[j] = carry[1] + j - 1
  BY <1>1
<1>4. \A t \in Nat : t % 3 = 1 => (t + 1) % 3 # 0 /\ (t + 2) % 3 = 0
  OBVIOUS
<1>5. 3 \in 1..Len(carry) => 3 \in Newlines
  BY <1>1, <1>2, <1>3, <1>4 DEF Newlines
<1>6. 1 \notin Newlines
  BY <1>2 DEF Newlines
<1>7. 2 \notin Newlines
  <2>1. 2 \in 1..Len(carry) => carry[2] = carry[1] + 1
    BY <1>1, <1>2, <1>3
  <2> QED
    BY <1>1, <1>2, <1>4, <2>1 DEF Newlines
<1>8. Newlines \subseteq 1..Len(carry)
  BY <1>1 DEF Newlines
<1>9. ASSUME NEW end \in Newlines, \A k \in Newlines : end <= k PROVE end = 3
  <2>1. end \in 1..Len(carry) /\ end # 1 /\ end # 2
    BY <1>6, <1>7, <1>8, <1>9
  <2>2. end <= 3
    BY <1>1, <1>5, <1>9, <2>1
  <2> QED
    BY <2>1, <2>2
<1>10. Newlines = {} => Len(carry) <= 2
  BY <1>1, <1>5
<1>11. Len(carry) >= 2 => carry[2] = carry[1] + 1
  BY <1>1, <1>2, <1>3
<1> QED
  BY <1>9, <1>10, <1>11

\* On a log without outruns the whole of the carry up to its first newline is
\* one line, unless it is what a follower starts with.
LEMMA FirstLineIsWhole ==
  ASSUME IInv, pc = "yield", ~outrun, NEW end \in Newlines, \A k \in Newlines : end <= k,
         AtLineStart
  PROVE  /\ end = 3 /\ carry[2] = carry[1] + 1 /\ carry[1] % 3 = 1 /\ carry[1] \in Nat
         /\ Whole(SubSeq(carry, 1, end - 1))
<1>1. TypeOK /\ end \in DOMAIN carry /\ Len(carry) \in Nat /\ DOMAIN carry = 1..Len(carry)
  BY Lengths DEF IInv, Newlines
<1>2. carry # <<>> /\ 1 \in DOMAIN carry
  BY <1>1, Lengths
<1>3. carry[1] % 3 = 1 /\ \A j \in DOMAIN carry : carry[j] = carry[1] + j - 1
  BY <1>2 DEF IInv, Joined, AtLineStart
<1>4. carry[1] \in Nat
  <2>1. \A t \in Tokens : t \in Nat
    BY DEF Tokens
  <2> QED
    BY <1>1, <1>2, <2>1, Lengths
<1>5. end = 3 /\ Len(carry) >= 3
  BY <1>1, <1>2, <1>3, FirstLine
<1>6. carry[2] = carry[1] + 1
  BY <1>1, <1>2, <1>3, <1>5, FirstLine
<1>7. /\ Len(SubSeq(carry, 1, 2)) = 2
      /\ SubSeq(carry, 1, 2)[1] = carry[1] /\ SubSeq(carry, 1, 2)[2] = carry[2]
  <2>1. /\ Len(SubSeq(carry, 1, end - 1)) = end - 1
        /\ \A k \in 1..(end - 1) : SubSeq(carry, 1, end - 1)[k] = carry[k]
    BY <1>1, CutFacts
  <2> QED
    BY <1>5, <2>1
<1> QED
  BY <1>3, <1>4, <1>5, <1>6, <1>7 DEF Whole

LEMMA NextYield == ASSUME IInv, Yield PROVE IInv'
<1> USE DEF fileVars, resultVars
<1>1. PICK end \in Newlines :
        /\ \A k \in Newlines : end <= k
        /\ HandOn(SubSeq(carry, 1, end - 1))
        /\ carry' = SubSeq(carry, end + 1, Len(carry))
  BY DEF Yield
<1> DEFINE line == SubSeq(carry, 1, end - 1)
<1>2. pc = "yield" /\ UNCHANGED <<fileVars, mode, pc, offset, stale, outrun>>
  BY DEF Yield
<1>3. /\ TypeOK /\ end \in DOMAIN carry /\ Len(carry) \in Nat /\ DOMAIN carry = 1..Len(carry)
      /\ carry # <<>> /\ carry[end] % 3 = 0
      /\ \A k \in 1..Len(carry) : carry[k] \in Nat
  <2>1. \A t \in Tokens : t \in Nat
    BY DEF Tokens
  <2>2. TypeOK /\ end \in DOMAIN carry /\ carry[end] % 3 = 0
    BY DEF IInv, Newlines
  <2>3. /\ Len(carry) \in Nat /\ DOMAIN carry = 1..Len(carry)
        /\ carry = <<>> <=> Len(carry) = 0
        /\ \A k \in DOMAIN carry : carry[k] \in Tokens
    BY <2>2, Lengths
  <2>4. Len(carry) # 0
    BY ONLY <2>2, <2>3
  <2> QED
    BY <2>1, <2>2, <2>3, <2>4
<1>4. end \in Nat /\ end >= 1 /\ end <= Len(carry)
  BY <1>3
<1>5. /\ line \in Seq(Tokens) /\ Len(line) = end - 1
      /\ \A k \in 1..(end - 1) : line[k] = carry[k]
      /\ carry' \in Seq(Tokens) /\ Len(carry') = Len(carry) - end
      /\ \A k \in 1..(Len(carry) - end) : carry'[k] = carry[end + k]
  BY <1>1, <1>3, CutFacts
<1>6. HandOn(line)
  BY <1>1
<1> HIDE DEF line
<1>7. /\ DOMAIN carry' = 1..(Len(carry) - end)
      /\ carry' = <<>> <=> Len(carry) = end
  <2>1. DOMAIN carry' = 1..Len(carry')
    BY <1>5, LenProperties
  <2>2. carry' = <<>> <=> Len(carry') = 0
    BY <1>5, EmptySeq
  <2>3. Len(carry) - end = 0 <=> Len(carry) = end
    BY <1>3, <1>4
  <2> QED
    BY <1>5, <2>1, <2>2, <2>3
<1>8. Start' = Start /\ Current' = Current /\ Pos' = Pos /\ Disturbed' = Disturbed /\ Pos \in Nat
  BY <1>2, Positions DEF Start, Current, Pos, Disturbed
<1>9. TypeOK'
  <2>1. yielded' \in Seq(Seq(Tokens)) /\ seen' \in Seq(1..MaxLines)
    BY <1>3, <1>5, <1>6, HandOnFacts
  <2> QED
    BY <1>2, <1>3, <1>5, <2>1 DEF TypeOK
<1>10. Content'
  BY <1>2, <1>8 DEF IInv, Content
<1>11. Place'
  BY <1>2, <1>3, <1>8 DEF IInv, Place
\* The number of a line handed on is behind what is left of the carry.
<1>12. Whole(line) => /\ Number(line) \in Nat /\ 3 * Number(line) <= carry[end]
                      /\ carry[1] = 3 * Number(line) - 2
  <2>1. SUFFICES ASSUME Whole(line)
                 PROVE  /\ Number(line) \in Nat /\ 3 * Number(line) <= carry[end]
                        /\ carry[1] = 3 * Number(line) - 2
    OBVIOUS
  <2>2. /\ Number(line) \in 1..MaxLines /\ line[1] = 3 * Number(line) - 2
        /\ line[2] = 3 * Number(line) - 1 /\ end - 1 = 2
    BY <1>5, <2>1, WholeFacts DEF Whole
  <2>3. end = 3
    BY <1>4, <2>2
  <2>4. carry[1] = 3 * Number(line) - 2 /\ carry[2] = 3 * Number(line) - 1
    BY <1>5, <2>2, <2>3
  <2>5. carry[2] < carry[3]
    BY <1>3, <2>3 DEF IInv, Order
  <2> QED
    BY <1>3, <2>2, <2>3, <2>4, <2>5
<1>13. \A k \in DOMAIN carry' : end + k \in DOMAIN carry /\ carry'[k] = carry[end + k] /\ carry'[k] > carry[end]
  <2>1. SUFFICES ASSUME NEW k \in 1..(Len(carry) - end)
                 PROVE  end + k \in DOMAIN carry /\ carry'[k] = carry[end + k] /\ carry'[k] > carry[end]
    BY <1>7
  <2>2. end + k \in DOMAIN carry /\ end < end + k
    BY <1>3, <1>4
  <2>3. carry[end] < carry[end + k]
    BY <1>3, <2>2 DEF IInv, Order
  <2> QED
    BY <1>3, <1>5, <2>2, <2>3
<1>14. DOMAIN seen = 1..Len(seen) /\ Len(seen) \in Nat /\ \A i \in DOMAIN seen : seen[i] \in Nat
  <2>1. \A i \in 1..MaxLines : i \in Nat
    OBVIOUS
  <2> QED
    BY <1>3, <2>1, Lengths
<1>15. Order'
  <2>1. \A j \in DOMAIN carry' : carry'[j] <= Pos'
    BY <1>8, <1>13 DEF IInv, Order
  <2>2. \A j, k \in DOMAIN carry' : j < k => carry'[j] < carry'[k]
    <3>1. SUFFICES ASSUME NEW j \in 1..(Len(carry) - end), NEW k \in 1..(Len(carry) - end), j < k
                   PROVE  carry'[j] < carry'[k]
      BY <1>7
    <3>2. end + j < end + k
      <4>1. j \in Nat /\ k \in Nat
        BY <1>3, <1>4
      <4> QED
        BY <1>4, <3>1, <4>1
    <3> QED
      BY <1>7, <1>13, <3>2 DEF IInv, Order
  <2>3. carry[end] <= Pos
    BY <1>3 DEF IInv, Order
  <2>4. ASSUME NEW i \in DOMAIN seen
        PROVE  3 * seen[i] <= Pos' /\ \A k \in DOMAIN carry' : 3 * seen[i] < carry'[k]
    BY <1>2, <1>8, <1>13 DEF IInv, Order
  <2>5. CASE ~Whole(line)
    <3>1. seen' = seen
      BY <1>3, <1>5, <1>6, <2>5, HandOnFacts
    <3> QED
      BY <2>1, <2>2, <2>4, <3>1 DEF Order
  <2>6. CASE Whole(line)
    <3>1. /\ seen' \in Seq(1..MaxLines) /\ Len(seen') = Len(seen) + 1
          /\ \A i \in 1..Len(seen) : seen'[i] = seen[i]
          /\ seen'[Len(seen) + 1] = Number(line)
      BY <1>3, <1>5, <1>6, <2>6, HandOnFacts
    <3>2. DOMAIN seen' = 1..(Len(seen) + 1)
      BY <1>14, <3>1, LenProperties
    <3>3. 3 * Number(line) <= Pos' /\ \A k \in DOMAIN carry' : 3 * Number(line) < carry'[k]
      <4>1. ASSUME NEW k \in DOMAIN carry' PROVE 3 * Number(line) < carry'[k]
        <5>1. carry'[k] \in Nat /\ carry[end] \in Nat /\ carry'[k] > carry[end]
          BY <1>3, <1>13
        <5> QED
          BY <1>12, <2>6, <5>1
      <4>2. carry[end] \in Nat
        BY <1>3
      <4> QED
        BY <1>8, <1>12, <2>3, <2>6, <4>1, <4>2
    <3>4. ASSUME NEW i \in DOMAIN seen'
          PROVE  3 * seen'[i] <= Pos' /\ \A k \in DOMAIN carry' : 3 * seen'[i] < carry'[k]
      <4>1. CASE i \in 1..Len(seen)
        BY <1>14, <2>4, <3>1, <4>1
      <4>2. CASE i = Len(seen) + 1
        BY <3>1, <3>3, <4>2
      <4> QED
        BY <1>14, <3>2, <4>1, <4>2
    <3> QED
      BY <2>1, <2>2, <3>4 DEF Order
  <2> QED
    BY <2>5, <2>6
<1>16. Joined'
  <2>1. SUFFICES ASSUME ~outrun PROVE Joined'
    BY <1>2 DEF Joined
  <2>2. /\ \A j \in 1..Len(carry) : carry[j] = carry[1] + j - 1
        /\ Current => carry[1] + Len(carry) - 1 = Pos
        /\ carry[1] \in Nat /\ carry[end] \in Nat
    <3>1. 1 \in 1..Len(carry) /\ end \in 1..Len(carry)
      BY <1>3, <1>4
    <3> QED
      BY <1>3, <2>1, <3>1 DEF IInv, Joined
  <2>3. carry[end] = carry[1] + end - 1
    BY <1>3, <2>2
  <2>4. \A j \in DOMAIN carry' : carry'[j] = carry[end] + j
    BY <1>3, <1>4, <1>7, <1>13, <2>2, <2>3
  <2>5. carry' # <<>> => carry'[1] = carry[end] + 1
    BY <1>3, <1>4, <1>7, <2>4
  <2>6. \A j \in DOMAIN carry' : carry'[j] = carry'[1] + j - 1
    <3>1. SUFFICES ASSUME NEW j \in DOMAIN carry' PROVE carry'[j] = carry'[1] + j - 1
      OBVIOUS
    <3>2. j \in Nat /\ carry' # <<>>
      BY <1>3, <1>4, <1>7
    <3> QED
      BY <2>2, <2>4, <2>5, <3>2
  <2>7. carry' # <<>> /\ Current => carry'[1] + Len(carry') - 1 = Pos
    <3>1. SUFFICES ASSUME carry' # <<>>, Current PROVE carry'[1] + Len(carry') - 1 = Pos
      OBVIOUS
    <3>2. /\ carry'[1] = carry[1] + end - 1 + 1 /\ Len(carry') = Len(carry) - end
          /\ carry[1] + Len(carry) - 1 = Pos
      BY <1>5, <2>2, <2>3, <2>5, <3>1
    <3>3. carry[1] \in Nat /\ Len(carry) \in Nat /\ end \in Nat
      BY <1>3, <1>4, <2>2
    <3> QED
      BY ONLY <3>2, <3>3
  <2>8. AtLineStart'
    <3>1. \A t \in Nat : t % 3 = 0 => (t + 1) % 3 = 1
      OBVIOUS
    <3>2. carry' # <<>> => carry'[1] % 3 = 1
      BY <1>3, <2>2, <2>5, <3>1
    <3>3. carry' = <<>> /\ Current => Pos = carry[end]
      BY <1>3, <1>4, <1>7, <2>2, <2>3
    <3> QED
      BY <1>3, <1>8, <3>2, <3>3 DEF AtLineStart
  <2> QED
    BY <1>8, <2>6, <2>7, <2>8 DEF Joined
<1>17. Clean'
  <2>1. SUFFICES ASSUME ~outrun, NEW k \in DOMAIN yielded'
                 PROVE  Whole(yielded'[k]) \/ (k = 1 /\ mode = "follow")
    BY <1>2 DEF Clean
  <2>2. \A i \in DOMAIN yielded : Whole(yielded[i]) \/ (i = 1 /\ mode = "follow")
    BY <1>2, <2>1 DEF IInv, Clean
  <2>3. DOMAIN yielded = 1..Len(yielded) /\ Len(yielded) \in Nat
    BY <1>3, Lengths
  <2>4. CASE line = <<>>
    <3>1. yielded' = yielded
      BY <1>3, <1>5, <1>6, <2>4, HandOnFacts
    <3> QED
      BY <2>1, <2>2, <3>1
  <2>5. CASE line # <<>>
    <3>1. /\ yielded' \in Seq(Seq(Tokens)) /\ Len(yielded') = Len(yielded) + 1
          /\ \A i \in 1..Len(yielded) : yielded'[i] = yielded[i]
          /\ yielded'[Len(yielded) + 1] = line
      BY <1>3, <1>5, <1>6, <2>5, HandOnFacts
    <3>2. DOMAIN yielded' = 1..(Len(yielded) + 1)
      BY <2>3, <3>1, LenProperties
    <3>3. CASE k \in 1..Len(yielded)
      BY <2>2, <2>3, <3>1, <3>3
    <3>4. CASE k = Len(yielded) + 1
      <4>1. (mode = "follow" /\ yielded = <<>>) \/ AtLineStart
        BY <1>2, <2>1 DEF IInv, Joined
      <4>2. CASE mode = "follow" /\ yielded = <<>>
        BY <3>4, <4>2
      <4>3. CASE AtLineStart
        BY <1>1, <1>2, <2>1, <3>1, <3>4, <4>3, FirstLineIsWhole DEF line
      <4> QED
        BY <4>1, <4>2, <4>3
    <3> QED
      BY <2>3, <3>2, <3>3, <3>4
  <2> QED
    BY <2>4, <2>5
<1>18. Steady'
  <2>1. SUFFICES ASSUME ~Disturbed PROVE Steady'
    BY <1>8 DEF Steady
  <2>2. /\ ~stale /\ ~outrun /\ exists /\ Current
        /\ seen # <<>> => carry[1] = 3 * seen[Len(seen)] + 1
    BY <1>2, <1>3, <2>1 DEF IInv, Steady, Current
  <2>3. /\ carry[1] + Len(carry) - 1 = Pos /\ carry[1] \in Nat
        /\ \A j \in DOMAIN carry : carry[j] = carry[1] + j - 1
    BY <1>3, <1>4, <2>2 DEF IInv, Joined
  <2>4. CASE ~Whole(line)
    <3>1. seen' = seen
      BY <1>3, <1>5, <1>6, <2>4, HandOnFacts
    <3>2. seen = <<>>
      <4>1. SUFFICES ASSUME seen # <<>> PROVE FALSE
        OBVIOUS
      <4>2. carry[1] = 3 * seen[Len(seen)] + 1 /\ seen[Len(seen)] \in Nat
        <5>1. Len(seen) \in DOMAIN seen
          BY <1>3, <4>1, Lengths
        <5> QED
          BY <1>14, <2>2, <4>1, <5>1
      <4>3. \A n \in Nat : (3 * n + 1) % 3 = 1
        OBVIOUS
      <4>4. AtLineStart
        BY <1>3, <4>2, <4>3 DEF AtLineStart
      <4> QED
        BY <1>1, <1>2, <2>2, <2>4, <4>4, FirstLineIsWhole DEF line
    <3> QED
      BY <1>2, <2>2, <3>1, <3>2 DEF Steady
  <2>5. CASE Whole(line)
    <3>1. /\ Len(seen') = Len(seen) + 1 /\ seen'[Len(seen) + 1] = Number(line)
      BY <1>3, <1>5, <1>6, <2>5, HandOnFacts
    <3>2. end = 3
      <4>1. end - 1 = 2
        BY <1>5, <2>5 DEF Whole
      <4> QED
        BY <1>4, <4>1
    <3>3. carry' # <<>> => carry'[1] = carry[1] + 3
      <4>1. SUFFICES ASSUME carry' # <<>> PROVE carry'[1] = carry[1] + 3
        OBVIOUS
      <4>2. 1 \in DOMAIN carry' /\ 4 \in DOMAIN carry
        BY <1>3, <1>7, <3>2, <4>1
      <4>3. carry'[1] = carry[4]
        BY <1>13, <3>2, <4>2
      <4> QED
        BY <2>3, <4>2, <4>3
    <3>4. carry' = <<>> => Pos + 1 = carry[1] + 3
      BY <1>3, <1>7, <1>8, <2>3, <3>2
    <3>5. carry[1] + 3 = 3 * Number(line) + 1
      BY <1>12, <2>3, <2>5
    <3> QED
      BY <1>2, <1>8, <2>2, <3>1, <3>3, <3>4, <3>5 DEF Steady
  <2> QED
    BY <2>4, <2>5
<1> QED
  BY <1>9, <1>10, <1>11, <1>15, <1>16, <1>17, <1>18 DEF IInv

\* What a replay hands on last begins with a line and is at most that line.
LEMMA LastLine ==
  ASSUME IInv, pc = "yield", Newlines = {}, ~outrun, mode = "replay", carry # <<>>
  PROVE  /\ carry[1] % 3 = 1 /\ carry[1] \in Nat
         /\ Whole(carry) \/ Len(carry) = 1
         /\ Len(carry) >= 2 => carry[2] = carry[1] + 1
<1>1. TypeOK /\ carry[1] % 3 = 1 /\ \A j \in DOMAIN carry : carry[j] = carry[1] + j - 1
  BY DEF IInv, Joined, AtLineStart
<1>2. Len(carry) <= 2 /\ (Len(carry) >= 2 => carry[2] = carry[1] + 1)
  BY <1>1, FirstLine
<1>3. /\ Len(carry) \in Nat /\ Len(carry) # 0 /\ DOMAIN carry = 1..Len(carry)
      /\ \A k \in DOMAIN carry : carry[k] \in Tokens
  BY <1>1, Lengths
<1>4. carry[1] \in Nat
  <2>1. 1 \in 1..Len(carry)
    BY ONLY <1>3
  <2>2. \A t \in Tokens : t \in Nat
    BY DEF Tokens
  <2> QED
    BY <1>3, <2>1, <2>2
<1>5. Len(carry) = 1 \/ Len(carry) = 2
  BY ONLY <1>2, <1>3
<1>6. Len(carry) = 2 => Whole(carry)
  BY <1>1, <1>2 DEF Whole
<1> QED
  BY <1>1, <1>2, <1>4, <1>5, <1>6

LEMMA NextYieldEnds == ASSUME IInv, YieldEnds PROVE IInv'
<1> USE DEF fileVars, resultVars
<1>1. /\ pc = "yield" /\ Newlines = {} /\ pc' = NextPoll
      /\ UNCHANGED <<fileVars, mode, offset, stale, outrun>>
  BY DEF YieldEnds
<1>2. mode = "follow" \/ mode = "replay"
  BY ModesAssumption DEF IInv, TypeOK
<1>3. CASE mode = "follow"
  <2>1. pc' = "getsize" /\ UNCHANGED <<resultVars, carry>>
    BY <1>1, <1>3 DEF YieldEnds, EndsInLine, NextPoll
  <2>2. TypeOK'
    BY <1>1, <2>1 DEF IInv, TypeOK
  <2>3. Place' /\ (Disturbed \/ exists)
    BY <1>1, <2>1 DEF IInv, Place, Current, Steady
  <2> QED
    BY <1>1, <2>1, <2>2, <2>3, Waits
<1>4. CASE mode = "replay"
  <2>1. pc' = "done" /\ HandOn(carry) /\ carry' = <<>>
    BY <1>1, <1>4 DEF YieldEnds, EndsInLine, NextPoll
  <2>2. TypeOK /\ carry \in Seq(Tokens) /\ DOMAIN <<>> = {} /\ <<>> \in Seq(Tokens)
    BY EmptySeq DEF IInv, TypeOK
  <2>3. Start' = Start /\ Current' = Current /\ Pos' = Pos /\ Disturbed' = Disturbed
    BY <1>1 DEF Start, Current, Pos, Disturbed
  <2>4. TypeOK'
    <3>1. yielded' \in Seq(Seq(Tokens)) /\ seen' \in Seq(1..MaxLines)
      BY <2>1, <2>2, HandOnFacts
    <3> QED
      BY <1>1, <2>1, <2>2, <3>1 DEF TypeOK
  <2>5. Content'
    BY <1>1, <2>3 DEF IInv, Content
  <2>6. Place'
    BY <1>1, <2>1, <2>3 DEF IInv, Place
  <2>7. Order' /\ Joined'
    BY <2>1, <2>2 DEF Order, Joined
  <2>8. Clean'
    <3>1. SUFFICES ASSUME ~outrun, NEW k \in DOMAIN yielded'
                   PROVE  \/ Whole(yielded'[k])
                          \/ k = Len(yielded') /\ Len(yielded'[k]) = 1
      BY <1>1, <1>4, <2>1 DEF Clean
    <3>2. \A i \in DOMAIN yielded : Whole(yielded[i])
      BY <1>1, <1>4, <3>1 DEF IInv, Clean
    <3>3. DOMAIN yielded = 1..Len(yielded) /\ Len(yielded) \in Nat
      BY <2>2, Lengths
    <3>4. CASE carry = <<>>
      <4>1. yielded' = yielded
        BY <2>1, <2>2, <3>4, HandOnFacts
      <4> QED
        BY <3>1, <3>2, <4>1
    <3>5. CASE carry # <<>>
      <4>1. /\ yielded' \in Seq(Seq(Tokens)) /\ Len(yielded') = Len(yielded) + 1
            /\ \A i \in 1..Len(yielded) : yielded'[i] = yielded[i]
            /\ yielded'[Len(yielded) + 1] = carry
        BY <2>1, <2>2, <3>5, HandOnFacts
      <4>2. DOMAIN yielded' = 1..(Len(yielded) + 1)
        BY <3>3, <4>1, LenProperties
      <4>3. Whole(carry) \/ Len(carry) = 1
        BY <1>1, <1>4, <3>1, <3>5, LastLine
      <4>4. CASE k \in 1..Len(yielded)
        BY <3>2, <3>3, <4>1, <4>4
      <4>5. CASE k = Len(yielded) + 1
        BY <4>1, <4>3, <4>5
      <4> QED
        BY <3>3, <4>2, <4>4, <4>5
    <3> QED
      BY <3>4, <3>5
  <2>9. Steady'
    BY <1>1, <2>1, <2>3 DEF IInv, Steady
  <2> QED
    BY <2>4, <2>5, <2>6, <2>7, <2>8, <2>9 DEF IInv
<1> QED
  BY <1>2, <1>3, <1>4

LEMMA NextIInv == IInv /\ [Next]_vars => IInv'
<1> SUFFICES ASSUME IInv, [Next]_vars PROVE IInv'
  OBVIOUS
<1>1. CASE WaitForFile
  BY <1>1, NextWaitForFile
<1>2. CASE SeekEnd
  BY <1>2, NextSeekEnd
<1>3. CASE WaitForReplacement
  BY <1>3, NextWaitForReplacement
<1>4. CASE GetSizeMissing
  BY <1>4, NextGetSizeMissing
<1>5. CASE GetSize
  BY <1>5, NextGetSize
<1>6. CASE OpenMissing
  BY <1>6, NextOpenMissing
<1>7. CASE Read
  BY <1>7, NextRead
<1>8. CASE Yield
  BY <1>8, NextYield
<1>9. CASE YieldEnds
  BY <1>9, NextYieldEnds
<1>10. CASE ServiceStarts
  BY <1>10, NextServiceStarts
<1>11. CASE BeginLine \/ FinishLine
  BY <1>11, NextWrite DEF BeginLine, FinishLine
<1>12. CASE Truncate
  BY <1>12, NextTruncate
<1>13. CASE Rotate
  BY <1>13, NextRotate
<1>14. CASE UNCHANGED vars
  <2> USE <1>14 DEF vars, fileVars, tailerVars, resultVars
  <2>1. TypeOK' /\ Content' /\ Place'
    BY DEF IInv, TypeOK, Content, Place, Start, Current
  <2>2. Order' /\ Steady'
    BY DEF IInv, Order, Steady, Pos, Start, Current, Disturbed
  <2>3. Joined' /\ Clean'
    BY DEF IInv, Joined, AtLineStart, Clean, Whole, Pos, Start, Current
  <2> QED
    BY <2>1, <2>2, <2>3 DEF IInv
<1> QED
  BY <1>1, <1>2, <1>3, <1>4, <1>5, <1>6, <1>7, <1>8, <1>9, <1>10, <1>11, <1>12, <1>13, <1>14
     DEF Next, TailerStep, ServiceStep

LEMMA Invariance == Spec => []IInv
  BY InitIInv, NextIInv, PTL DEF Spec

----------------------------------------------------------------------------
\* The tailer's variables keep their types (tailer.py).
THEOREM TypeCorrect == Spec => []TypeOK
<1>1. IInv => TypeOK
  BY DEF IInv
<1> QED
  BY <1>1, Invariance, PTL

\* As long as no poll took one file for another, every line handed on is one
\* that was written, but for the end of a line a follower may start with and the
\* unfinished line a replay may end with (tailer.py:20-22).
THEOREM HandsOnLines == Spec => []NoGarbage
<1>1. IInv => NoGarbage
  BY DEF IInv, Clean, NoGarbage
<1> QED
  BY <1>1, Invariance, PTL

----------------------------------------------------------------------------
\* The tailer implements the stream of lines.

\* Handing on is a step of the stream, or none.
LEMMA HandsOnNext ==
  ASSUME IInv, pc = "yield", NEW line \in Seq(Tokens), HandOn(line), UNCHANGED <<fileVars>>,
         Whole(line) => Number(line) \in Nat /\ carry # <<>> /\ carry[1] = 3 * Number(line) - 2
                        /\ 3 * Number(line) - 1 <= Pos
  PROVE  [Stream!Next]_(<<(written + 1) \div 3, seen, Disturbed>>)
<1>1. ((written + 1) \div 3)' = (written + 1) \div 3 /\ Disturbed' = Disturbed
  BY DEF fileVars, Disturbed
<1>2. TypeOK
  BY DEF IInv
<1>3. CASE ~Whole(line)
  <2>1. seen' = seen
    BY <1>2, <1>3, HandOnFacts
  <2> QED
    BY <1>1, <2>1
<1>4. CASE Whole(line)
  <2> DEFINE n == Number(line)
  <2>1. n \in Nat /\ carry # <<>> /\ carry[1] = 3 * n - 2 /\ 3 * n - 1 <= Pos
    BY <1>4
  <2>2. seen' = Append(seen, n)
    BY <1>2, <1>4, HandOnFacts
  <2> HIDE DEF n
  <2>3. n <= (written + 1) \div 3
    <3>1. \A m, w \in Nat : 3 * m - 1 <= w => m <= (w + 1) \div 3
      OBVIOUS
    <3>2. written \in Nat /\ Pos <= written /\ Pos \in Nat
      BY Positions
    <3> QED
      BY <2>1, <3>1, <3>2
  <2>4. Stream!LastSeen \in Nat /\ Stream!LastSeen < n
    <3>1. CASE seen = <<>>
      <4>1. Stream!LastSeen = 0
        BY <3>1 DEF Stream!LastSeen
      <4>2. 1 \in DOMAIN carry /\ \A t \in Tokens : t >= 1
        BY <1>2, <2>1, Lengths DEF Tokens
      <4>3. carry[1] \in Tokens
        BY <1>2, <4>2, Lengths
      <4> QED
        BY <2>1, <4>1, <4>2, <4>3
    <3>2. CASE seen # <<>>
      <4>1. Stream!LastSeen = seen[Len(seen)]
        BY <3>2 DEF Stream!LastSeen
      <4>2. /\ Len(seen) \in Nat /\ Len(seen) # 0 /\ DOMAIN seen = 1..Len(seen)
            /\ Len(carry) \in Nat /\ Len(carry) # 0 /\ DOMAIN carry = 1..Len(carry)
            /\ \A i \in DOMAIN seen : seen[i] \in 1..MaxLines
        BY <1>2, <2>1, <3>2, Lengths
      <4>3. Len(seen) \in DOMAIN seen /\ 1 \in DOMAIN carry
        BY ONLY <4>2
      <4>4. 3 * seen[Len(seen)] < carry[1] /\ seen[Len(seen)] \in Nat
        BY <4>2, <4>3 DEF IInv, Order
      <4> QED
        BY <2>1, <4>1, <4>4
    <3> QED
      BY <3>1, <3>2
  <2>5. Disturbed \/ seen = <<>> \/ n = Stream!LastSeen + 1
    <3>1. SUFFICES ASSUME ~Disturbed, seen # <<>> PROVE n = Stream!LastSeen + 1
      OBVIOUS
    <3>2. carry[1] = 3 * seen[Len(seen)] + 1 /\ Stream!LastSeen = seen[Len(seen)]
      BY <2>1, <3>1 DEF IInv, Steady, Stream!LastSeen
    <3> QED
      BY <2>1, <2>4, <3>2
  <2>6. n \in (Stream!LastSeen + 1)..((written + 1) \div 3)
    <3>1. (written + 1) \div 3 \in Nat
      BY Positions
    <3> QED
      BY <2>1, <2>3, <2>4, <3>1
  <2>7. Stream!See(n)
    BY <1>1, <2>2, <2>5 DEF Stream!See
  <2> QED
    BY <2>6, <2>7 DEF Stream!Next
<1> QED
  BY <1>3, <1>4

LEMMA YieldNext ==
  ASSUME IInv, Yield
  PROVE  [Stream!Next]_(<<(written + 1) \div 3, seen, Disturbed>>)
<1>1. PICK end \in Newlines : HandOn(SubSeq(carry, 1, end - 1))
  BY DEF Yield
<1>2. pc = "yield" /\ UNCHANGED fileVars
  BY DEF Yield, fileVars
<1> DEFINE line == SubSeq(carry, 1, end - 1)
<1>3. /\ TypeOK /\ end \in DOMAIN carry /\ DOMAIN carry = 1..Len(carry) /\ Len(carry) \in Nat
      /\ carry = <<>> <=> Len(carry) = 0
  BY Lengths DEF IInv, Newlines
<1>4. /\ line \in Seq(Tokens) /\ Len(line) = end - 1
      /\ \A k \in 1..(end - 1) : line[k] = carry[k]
  BY <1>3, CutFacts
<1>5. HandOn(line)
  BY <1>1
<1> HIDE DEF line
<1>6. ASSUME Whole(line)
      PROVE  /\ Number(line) \in Nat /\ carry # <<>> /\ carry[1] = 3 * Number(line) - 2
             /\ 3 * Number(line) - 1 <= Pos
  <2>1. end - 1 = 2 /\ end \in 1..Len(carry)
    BY <1>3, <1>4, <1>6 DEF Whole
  <2>2. end = 3 /\ Len(carry) >= 3
    BY ONLY <1>3, <2>1
  <2>3. /\ Number(line) \in 1..MaxLines /\ line[1] = 3 * Number(line) - 2
        /\ line[2] = 3 * Number(line) - 1
    BY <1>4, <1>6, WholeFacts
  <2>4. carry[2] <= Pos /\ carry[1] = line[1] /\ carry[2] = line[2]
    BY <1>3, <1>4, <2>2 DEF IInv, Order
  <2> QED
    BY <1>3, <2>2, <2>3, <2>4
<1> QED
  BY <1>2, <1>4, <1>5, <1>6, HandsOnNext

LEMMA YieldEndsNext ==
  ASSUME IInv, YieldEnds
  PROVE  [Stream!Next]_(<<(written + 1) \div 3, seen, Disturbed>>)
<1>1. pc = "yield" /\ UNCHANGED fileVars
  BY DEF YieldEnds, fileVars
<1>2. CASE EndsInLine
  <2>1. HandOn(carry)
    BY <1>2 DEF YieldEnds
  <2>2. TypeOK /\ carry \in Seq(Tokens)
    BY DEF IInv, TypeOK
  <2>3. ASSUME Whole(carry)
        PROVE  /\ Number(carry) \in Nat /\ carry # <<>> /\ carry[1] = 3 * Number(carry) - 2
               /\ 3 * Number(carry) - 1 <= Pos
    <3>1. /\ Number(carry) \in 1..MaxLines /\ carry[1] = 3 * Number(carry) - 2
          /\ carry[2] = 3 * Number(carry) - 1 /\ Len(carry) = 2
      BY <2>2, <2>3, WholeFacts DEF Whole
    <3>2. 2 \in DOMAIN carry /\ carry # <<>>
      BY <2>2, <3>1, Lengths
    <3>3. carry[2] <= Pos
      BY <3>2 DEF IInv, Order
    <3> QED
      BY <3>1, <3>2, <3>3
  <2> QED
    BY <1>1, <2>1, <2>2, <2>3, HandsOnNext
<1>3. CASE ~EndsInLine
  <2>1. seen' = seen
    BY <1>3 DEF YieldEnds, resultVars
  <2> QED
    BY <1>1, <2>1 DEF fileVars, Disturbed
<1> QED
  BY <1>2, <1>3

LEMMA WriteNext ==
  ASSUME IInv, BeginLine \/ FinishLine
  PROVE  [Stream!Next]_(<<(written + 1) \div 3, seen, Disturbed>>)
<1>1. Write /\ (AtLineEnd => written < 3 * MaxLines)
  BY DEF BeginLine, FinishLine
<1>2. (written' + 1) \div 3 \in {(written + 1) \div 3, (written + 1) \div 3 + 1}
  BY <1>1, WriteFacts DEF IInv
<1>3. seen' = seen /\ Disturbed' = Disturbed
  BY <1>1 DEF Write, tailerVars, resultVars, Disturbed
<1>4. CASE (written' + 1) \div 3 = (written + 1) \div 3
  BY <1>3, <1>4
<1>5. CASE (written' + 1) \div 3 = (written + 1) \div 3 + 1
  <2>1. Stream!Write
    BY <1>3, <1>5 DEF Stream!Write
  <2> QED
    BY <2>1 DEF Stream!Next
<1> QED
  BY <1>2, <1>4, <1>5

\* Of a log that is only appended to, the tailer hands on every line from some
\* line on, whole, once, in order; and whatever is done to the file, none twice
\* and none out of order (tailer.py:15-22, :40-53, :86-89).
THEOREM ImplementsStream == Spec => StreamSpec
<1>1. Init => Stream!Init
  <2>1. (0 + 1) \div 3 = 0
    OBVIOUS
  <2>2. Init => written = 0 /\ seen = <<>> /\ truncations = 0 /\ rotations = 0
    BY DEF Init
  <2> QED
    BY <2>1, <2>2 DEF Stream!Init, Disturbed
<1>2. IInv /\ [Next]_vars => [Stream!Next]_(<<(written + 1) \div 3, seen, Disturbed>>)
  <2> SUFFICES ASSUME IInv, [Next]_vars
               PROVE  [Stream!Next]_(<<(written + 1) \div 3, seen, Disturbed>>)
    OBVIOUS
  <2>1. CASE Yield
    BY <2>1, YieldNext
  <2>2. CASE YieldEnds
    BY <2>2, YieldEndsNext
  <2>3. CASE BeginLine \/ FinishLine
    BY <2>3, WriteNext
  <2>4. CASE Truncate \/ Rotate
    <3>1. Disturbed' = TRUE
      BY <2>4 DEF Truncate, Rotate, Disturbed, IInv, TypeOK
    <3>2. UNCHANGED <<written, seen>>
      BY <2>4 DEF Truncate, Rotate, tailerVars, resultVars
    <3>3. Stream!Disturb
      BY <3>1, <3>2 DEF Stream!Disturb
    <3> QED
      BY <3>3 DEF Stream!Next
  <2>5. CASE \/ WaitForFile \/ SeekEnd \/ WaitForReplacement
             \/ GetSizeMissing \/ GetSize \/ OpenMissing \/ Read
    <3>1. UNCHANGED <<fileVars, seen>>
      BY <2>5 DEF WaitForFile, SeekEnd, WaitForReplacement, GetSizeMissing, GetSize,
                  OpenMissing, Read, resultVars
    <3> QED
      BY <3>1 DEF fileVars, Disturbed
  <2>6. CASE ServiceStarts \/ UNCHANGED vars
    BY <2>6 DEF ServiceStarts, vars, fileVars, tailerVars, resultVars, Disturbed
  <2> QED
    BY <2>1, <2>2, <2>3, <2>4, <2>5, <2>6 DEF Next, TailerStep, ServiceStep
<1> QED
  BY <1>1, <1>2, Invariance, PTL DEF Spec, StreamSpec, Stream!Spec
=============================================================================
