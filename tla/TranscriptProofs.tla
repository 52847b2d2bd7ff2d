--------------------------- MODULE TranscriptProofs ---------------------------
(***************************************************************************)
(* Theorems about Transcript, for every output, every limit and every size *)
(* of the chunks: its types; that the recorded lines are the whole lines   *)
(* of the output within the limit; and, for every set of credentials, that *)
(* no line of the log shows one, nor a fragment of one where none begins   *)
(* with the end of another.                                                *)
(***************************************************************************)
EXTENDS Transcript, FiniteSetTheorems, WellFoundedInduction, TLAPS

(***************************************************************************)
(* A set of positions has a last one: LastName is a name of its line.      *)
(***************************************************************************)
LEMMA LastPosition ==
    ASSUME NEW m \in Nat, NEW n \in Nat, NEW S \in SUBSET (m .. n), S # {}
    PROVE  \E i \in S : \A j \in S : j <= i
<1> DEFINE Rest(i) == i .. n
           T == {Rest(i) : i \in S}
<1>1. T \subseteq FiniteSubsetsOf(m .. n) /\ T # {}
  <2>1. \A i \in S : i \in Int /\ i >= m
    OBVIOUS
  <2>2. \A i \in S : Rest(i) \in SUBSET (m .. n)
    BY <2>1
  <2>3. ASSUME NEW i \in S PROVE IsFiniteSet(i .. n)
    <3>1. i \in Int /\ n \in Int
      OBVIOUS
    <3> HIDE DEF Rest, T
    <3> QED
      BY <3>1, FS_Interval, Zenon
  <2> QED
    BY <2>2, <2>3 DEF FiniteSubsetsOf
<1>2. PICK x \in T : \A y \in T : ~(<<y, x>> \in StrictSubsetOrdering(m .. n))
  <2>1. IsWellFoundedOn(StrictSubsetOrdering(m .. n), FiniteSubsetsOf(m .. n))
    BY FS_StrictSubsetOrderingWellFounded
  <2>2. T \subseteq FiniteSubsetsOf(m .. n)
    BY <1>1
  <2>3. T # {}
    OBVIOUS
  <2> HIDE DEF T, Rest
  <2> QED
    BY <2>1, <2>2, <2>3, WFMin, Zenon
<1>3. PICK i \in S : x = Rest(i)
  OBVIOUS
<1>4. \A j \in S : j <= i
  <2> SUFFICES ASSUME NEW j \in S, j > i PROVE FALSE
    OBVIOUS
  <2>1. Rest(j) \in SUBSET (m .. n) /\ Rest(i) \in SUBSET (m .. n)
    OBVIOUS
  <2>2. Rest(j) \subseteq Rest(i) /\ i \in Rest(i) /\ i \notin Rest(j)
    OBVIOUS
  <2>3. Rest(j) \in T
    OBVIOUS
  <2> HIDE DEF Rest
  <2> QED
    BY <1>2, <1>3, <2>1, <2>2, <2>3 DEF StrictSubsetOrdering
<1> QED
  BY <1>4

\* Lemma: The last name of a line is a name.
LEMMA LastNameIsName ==
    ASSUME TranscriptTypeOK, NEW i \in 1 .. taken + 1, NEW j \in 0 .. taken,
           Named(<<i, j>>) # {}
    PROVE  LastName(<<i, j>>) \in Names
<1>1. Named(<<i, j>>) \in SUBSET (i .. j)
  BY DEF Named
<1>2. i \in Nat /\ j \in Nat
  BY TranscriptAssumption DEF TranscriptTypeOK
<1>3. \E k \in Named(<<i, j>>) : \A l \in Named(<<i, j>>) : l <= k
  BY <1>1, <1>2, LastPosition
<1> QED
  BY <1>3 DEF LastName, Named

(***************************************************************************)
(* Recording a line keeps the types.                                       *)
(***************************************************************************)
LEMMA RecordKeepsTypes ==
    ASSUME TranscriptTypeOK, NEW i \in 1 .. taken + 1, NEW j \in 0 .. taken,
           NEW next \in {"split", "done"}, Record(<<i, j>>, next)
    PROVE  /\ reading' \in {"failed", "split", "done"}
           /\ lines' \subseteq (1 .. taken + 1) \X (0 .. taken)
           /\ hostname' \in Names \cup {NoName}
<1>1. CASE Text(<<i, j>>) = <<Prompt>>
  BY <1>1 DEF Record, TranscriptTypeOK
<1>2. CASE Text(<<i, j>>) # <<Prompt>>
  <2>1. reading' = next /\ lines' = lines \cup {<<i, j>>}
    BY <1>2 DEF Record
  <2>2. hostname' \in Names \cup {NoName}
    BY <1>2, LastNameIsName DEF Record, TranscriptTypeOK
  <2> QED
    BY <2>1, <2>2 DEF TranscriptTypeOK
<1> QED
  BY <1>1, <1>2

\* Lemma: Every step keeps the types.
LEMMA TypeStep == TranscriptTypeOK /\ [TranscriptNext]_transcriptVars => TranscriptTypeOK'
<1> SUFFICES ASSUME TranscriptTypeOK, [TranscriptNext]_transcriptVars
             PROVE  TranscriptTypeOK'
  OBVIOUS
<1>0. Len(stream) \in Nat /\ taken \in Nat /\ first \in Nat /\ taken <= Len(stream)
      /\ first >= 1 /\ first <= taken + 1
  BY TranscriptAssumption DEF TranscriptTypeOK
<1>1. CASE Take
  <2>1. taken' \in 0 .. Len(stream) /\ taken <= taken'
    BY <1>0, <1>1, TranscriptAssumption DEF Take
  <2>2. lines \subseteq (1 .. taken' + 1) \X (0 .. taken')
    BY <1>0, <2>1 DEF TranscriptTypeOK
  <2> QED
    BY <1>0, <1>1, <2>1, <2>2 DEF Take, TranscriptTypeOK
<1>2. CASE SplitLine
  <2>1. PICK i \in first .. taken :
            /\ first' = i + 1
            /\ \/ Record(<<first, i - 1>>, "split")
               \/ UNCHANGED <<lines, hostname, reading>>
    BY <1>2 DEF SplitLine, Delimiters
  <2>2. /\ reading' \in {"read", "failed", "split", "done"}
        /\ lines' \subseteq (1 .. taken + 1) \X (0 .. taken)
        /\ hostname' \in Names \cup {NoName}
    <3>1. CASE Record(<<first, i - 1>>, "split")
      BY <1>0, <2>1, <3>1, RecordKeepsTypes
    <3>2. CASE UNCHANGED <<lines, hostname, reading>>
      BY <3>2 DEF TranscriptTypeOK
    <3> QED
      BY <2>1, <3>1, <3>2
  <2>3. first' \in 1 .. taken + 1
    BY <1>0, <2>1
  <2> QED
    BY <1>2, <2>2, <2>3 DEF SplitLine, TranscriptTypeOK
<1>3. CASE KeepRest
  <2>0. dropping \in BOOLEAN
    BY DEF TranscriptTypeOK
  <2>1. first' \in 1 .. taken + 1 /\ dropping' \in BOOLEAN
    <3>1. CASE taken - first + 1 > MaxLine
      BY <1>0, <1>3, <3>1 DEF KeepRest
    <3>2. CASE ~(taken - first + 1 > MaxLine)
      <4>1. first' = first /\ dropping' = dropping
        BY <1>3, <3>2 DEF KeepRest
      <4> QED
        BY <1>0, <2>0, <4>1
    <3> QED
      BY <3>1, <3>2
  <2>2. UNCHANGED <<stream, taken, lines, hostname>> /\ reading' = "read"
    BY <1>3 DEF KeepRest
  <2> QED
    BY <2>1, <2>2 DEF TranscriptTypeOK
<1>4. CASE EndOfOutput
  <2>1. CASE first <= taken /\ ~dropping
    <3>1. Record(<<first, taken>>, "done")
      BY <1>4, <2>1 DEF EndOfOutput
    <3> QED
      BY <1>0, <1>4, <3>1, RecordKeepsTypes DEF EndOfOutput, TranscriptTypeOK
  <2>2. CASE ~(first <= taken /\ ~dropping)
    BY <1>4, <2>2 DEF EndOfOutput, TranscriptTypeOK
  <2> QED
    BY <2>1, <2>2
<1>5. CASE OutOfTime
  BY <1>5 DEF OutOfTime, TranscriptTypeOK
<1>6. CASE UNCHANGED transcriptVars
  BY <1>6 DEF transcriptVars, TranscriptTypeOK
<1> QED
  BY <1>1, <1>2, <1>3, <1>4, <1>5, <1>6 DEF TranscriptNext

\* Lemma: The first state has its types.
LEMMA TypeInit == TranscriptInit => TranscriptTypeOK
<1> SUFFICES ASSUME TranscriptInit PROVE TranscriptTypeOK
  OBVIOUS
<1>1. stream \in Streams /\ Len(stream) \in Nat
  BY TranscriptAssumption DEF TranscriptInit
<1>2. taken \in 0 .. Len(stream) /\ first \in 1 .. taken + 1
  BY <1>1 DEF TranscriptInit
<1>3. lines \subseteq (1 .. taken + 1) \X (0 .. taken)
  BY DEF TranscriptInit
<1> QED
  BY <1>1, <1>2, <1>3 DEF TranscriptInit, TranscriptTypeOK

(***************************************************************************)
(* The variables of Transcript keep their types: the buffer is a part of   *)
(* what was read, and a server name is one of the checked ones.            *)
(***************************************************************************)
THEOREM TranscriptTypeCorrect == TranscriptSpec => []TranscriptTypeOK
<1> QED
  BY TypeInit, TypeStep, PTL DEF TranscriptSpec

-----------------------------------------------------------------------------
(***************************************************************************)
(* The invariant behind LinesAreWhole.  A line ends before the buffer, or  *)
(* at the end of the output; the buffer begins where a line does, or the   *)
(* line it belongs to is too long already.                                 *)
(***************************************************************************)
Starts(i) == i = 1 \/ stream[i - 1] = Delimiter

Unbroken(i, j) == \A k \in i .. j : stream[k] # Delimiter

RecordedAreWhole == \A line \in lines : Whole(line[1], line[2])

PassedAreRecorded ==
    \A i \in 1 .. Len(stream), j \in 0 .. Len(stream) :
        i <= j + 1 /\ j + 1 < first /\ Whole(i, j) => <<i, j>> \in lines

BufferBegins ==
    /\ ~dropping => Starts(first)
    /\ dropping => \E i \in 1 .. first - 1 :
                    Starts(i) /\ Unbroken(i, first - 1) /\ first - i > MaxLine

BufferIsPart == Unbroken(first, taken) /\ taken - first < MaxLine

AllAreRecorded ==
    \A i \in 1 .. Len(stream), j \in 0 .. Len(stream) :
        i <= j + 1 /\ Whole(i, j) => <<i, j>> \in lines

LinesInv ==
    /\ TranscriptTypeOK
    /\ RecordedAreWhole
    /\ reading \in {"read", "split"} => PassedAreRecorded /\ BufferBegins
    /\ reading = "read" => BufferIsPart
    /\ reading = "done" => AllAreRecorded

(***************************************************************************)
(* Two lines that share a position, or the delimiter after it, are one.    *)
(***************************************************************************)
LEMMA StartIsUnique ==
    ASSUME NEW a \in Nat, NEW b \in Nat, NEW c \in Nat, NEW d \in Nat,
           a >= 1, b >= 1, a <= c + 1, b <= c + 1, b <= d + 1, a <= d + 1,
           Starts(a), Starts(b), Unbroken(a, c), Unbroken(b, d)
    PROVE  a = b
BY DEF Starts, Unbroken

\* Lemma: Lengths are numbers.
LEMMA Lengths ==
    ASSUME TranscriptTypeOK
    PROVE  /\ Len(stream) \in Nat /\ taken \in Nat /\ first \in Nat
           /\ taken <= Len(stream) /\ first >= 1 /\ first <= taken + 1
           /\ MaxLine \in Nat
BY TranscriptAssumption DEF TranscriptTypeOK

\* Lemma: Nothing is recorded at first.
LEMMA LinesInit == TranscriptInit => LinesInv
<1> SUFFICES ASSUME TranscriptInit PROVE LinesInv
  OBVIOUS
<1>1. TranscriptTypeOK
  BY TypeInit
<1>2. RecordedAreWhole
  BY DEF TranscriptInit, RecordedAreWhole
<1>3. PassedAreRecorded
  BY <1>1, Lengths DEF TranscriptInit, PassedAreRecorded
<1>4. BufferBegins
  BY DEF TranscriptInit, BufferBegins, Starts
<1>5. BufferIsPart
  BY TranscriptAssumption DEF TranscriptInit, BufferIsPart, Unbroken
<1> QED
  BY <1>1, <1>2, <1>3, <1>4, <1>5 DEF LinesInv, TranscriptInit

(***************************************************************************)
(* Splitting at the first delimiter of the buffer.                         *)
(***************************************************************************)
LEMMA SplitLineKeepsLines == LinesInv /\ SplitLine => LinesInv'
<1> SUFFICES ASSUME LinesInv, SplitLine PROVE LinesInv'
  OBVIOUS
<1>1. TranscriptTypeOK'
  BY TypeStep DEF LinesInv, TranscriptNext
<1>2. /\ Len(stream) \in Nat /\ taken \in Nat /\ first \in Nat
      /\ taken <= Len(stream) /\ first >= 1 /\ first <= taken + 1
      /\ MaxLine \in Nat
  BY Lengths DEF LinesInv
<1>3. PICK i \in first .. taken :
        /\ stream[i] = Delimiter
        /\ Unbroken(first, i - 1)
        /\ first' = i + 1
        /\ IF ~dropping /\ i - first <= MaxLine
           THEN Record(<<first, i - 1>>, "split")
           ELSE UNCHANGED <<lines, hostname, reading>>
  <2>1. PICK i \in Delimiters :
          /\ \A j \in Delimiters : i <= j
          /\ first' = i + 1
          /\ IF ~dropping /\ i - first <= MaxLine
             THEN Record(<<first, i - 1>>, "split")
             ELSE UNCHANGED <<lines, hostname, reading>>
    BY DEF SplitLine
  <2>2. i \in first .. taken /\ stream[i] = Delimiter
    BY <2>1 DEF Delimiters
  <2>3. Unbroken(first, i - 1)
    BY <1>2, <2>1, <2>2 DEF Delimiters, Unbroken
  <2> QED
    BY <2>1, <2>2, <2>3
<1>4. reading = "split" /\ dropping' = FALSE /\ UNCHANGED <<stream, taken>>
  BY DEF SplitLine
<1>5. RecordedAreWhole /\ PassedAreRecorded /\ BufferBegins
  BY <1>4 DEF LinesInv
<1>6. i \in Nat /\ i >= 1 /\ i <= Len(stream) /\ i - 1 \in Nat
  BY <1>2, <1>3
<1>7. BufferBegins'
  BY <1>3, <1>4, <1>6 DEF BufferBegins, Starts
<1>8. ASSUME NEW a \in 1 .. Len(stream), NEW b \in 0 .. Len(stream),
             a <= b + 1, b + 1 < i + 1, Whole(a, b), b + 1 >= first
      PROVE  ~dropping /\ i - first <= MaxLine /\ a = first /\ b = i - 1
  <2>1. stream[b + 1] = Delimiter /\ Starts(a) /\ Unbroken(a, b) /\ b - a < MaxLine
    BY <1>2, <1>6, <1>8 DEF Whole, Starts, Unbroken
  <2>2. b = i - 1
    BY <1>2, <1>3, <1>6, <1>8, <2>1 DEF Unbroken
  <2>3. ~dropping
    <3> SUFFICES ASSUME dropping PROVE FALSE
      OBVIOUS
    <3>1. PICK s \in 1 .. first - 1 :
            Starts(s) /\ Unbroken(s, first - 1) /\ first - s > MaxLine
      BY <1>5 DEF BufferBegins
    <3>2. Unbroken(s, i - 1)
      BY <1>2, <1>3, <1>6, <3>1 DEF Unbroken
    <3>3. a = s
      BY <1>2, <1>3, <1>6, <1>8, <2>1, <2>2, <3>1, <3>2, StartIsUnique
    <3> QED
      BY <1>2, <1>3, <1>6, <2>1, <2>2, <3>1, <3>3
  <2>4. Starts(first)
    BY <1>5, <2>3 DEF BufferBegins
  <2>5. a = first
    BY <1>2, <1>3, <1>6, <1>8, <2>1, <2>2, <2>4, StartIsUnique
  <2> QED
    BY <1>2, <1>6, <2>1, <2>2, <2>3, <2>5
<1>9. CASE ~dropping /\ i - first <= MaxLine
  <2>1. Record(<<first, i - 1>>, "split")
    BY <1>3, <1>9
  <2>2. Whole(first, i - 1)
    BY <1>2, <1>3, <1>5, <1>6, <1>9 DEF Whole, BufferBegins, Starts, Unbroken
  <2>3. \/ reading' = "failed" /\ lines' = lines
        \/ reading' = "split" /\ lines' = lines \cup {<<first, i - 1>>}
    BY <2>1 DEF Record
  <2>4. RecordedAreWhole'
    BY <1>4, <1>5, <2>2, <2>3 DEF RecordedAreWhole, Whole
  <2>5. CASE reading' = "split" /\ lines' = lines \cup {<<first, i - 1>>}
    <3>1. PassedAreRecorded'
      BY <1>2, <1>3, <1>4, <1>5, <1>6, <1>8, <2>5 DEF PassedAreRecorded, Whole
    <3> QED
      BY <1>1, <1>7, <2>4, <2>5, <3>1 DEF LinesInv
  <2> QED
    BY <1>1, <2>3, <2>4, <2>5 DEF LinesInv
<1>10. CASE ~(~dropping /\ i - first <= MaxLine)
  <2>1. UNCHANGED <<lines, hostname, reading>>
    BY <1>3, <1>10
  <2>2. RecordedAreWhole'
    BY <1>4, <1>5, <2>1 DEF RecordedAreWhole, Whole
  <2>3. PassedAreRecorded'
    BY <1>2, <1>3, <1>4, <1>5, <1>6, <1>8, <1>10, <2>1 DEF PassedAreRecorded, Whole
  <2> QED
    BY <1>1, <1>4, <1>7, <2>1, <2>2, <2>3 DEF LinesInv
<1> QED
  BY <1>9, <1>10

(***************************************************************************)
(* What is left of a chunk: a line that goes on, or the piece of one that  *)
(* is too long already.                                                    *)
(***************************************************************************)
LEMMA KeepRestKeepsLines == LinesInv /\ KeepRest => LinesInv'
<1> SUFFICES ASSUME LinesInv, KeepRest PROVE LinesInv'
  OBVIOUS
<1>1. TranscriptTypeOK'
  BY TypeStep DEF LinesInv, TranscriptNext
<1>2. /\ Len(stream) \in Nat /\ taken \in Nat /\ first \in Nat
      /\ taken <= Len(stream) /\ first >= 1 /\ first <= taken + 1
      /\ MaxLine \in Nat
  BY Lengths DEF LinesInv
<1>3. /\ reading = "split" /\ reading' = "read" /\ UNCHANGED <<stream, taken, lines>>
      /\ Unbroken(first, taken)
  BY DEF KeepRest, Delimiters, Unbroken
<1>4. RecordedAreWhole /\ PassedAreRecorded /\ BufferBegins
  BY <1>3 DEF LinesInv
<1>5. RecordedAreWhole'
  BY <1>3, <1>4 DEF RecordedAreWhole, Whole
<1>6. CASE taken - first + 1 > MaxLine
  <2>1. first' = taken + 1 /\ dropping'
    BY <1>6 DEF KeepRest
  <2>2. PassedAreRecorded'
    BY <1>2, <1>3, <1>4, <2>1 DEF PassedAreRecorded, Whole, Unbroken
  <2>3. BufferIsPart'
    BY <1>2, <1>3, <2>1 DEF BufferIsPart, Unbroken
  <2>4. \E i \in 1 .. taken : Starts(i) /\ Unbroken(i, taken) /\ taken + 1 - i > MaxLine
    <3>1. CASE dropping
      <4>1. PICK s \in 1 .. first - 1 :
              Starts(s) /\ Unbroken(s, first - 1) /\ first - s > MaxLine
        BY <1>4, <3>1 DEF BufferBegins
      <4>2. Unbroken(s, taken)
        BY <1>2, <1>3, <4>1 DEF Unbroken
      <4> QED
        BY <1>2, <4>1, <4>2
    <3>2. CASE ~dropping
      <4>1. Starts(first)
        BY <1>4, <3>2 DEF BufferBegins
      <4>2. first \in 1 .. taken /\ taken + 1 - first > MaxLine
        BY <1>2, <1>6
      <4> QED
        BY <1>3, <4>1, <4>2
    <3> QED
      BY <3>1, <3>2
  <2>5. BufferBegins'
    BY <1>2, <1>3, <2>1, <2>4 DEF BufferBegins, Starts, Unbroken
  <2> QED
    BY <1>1, <1>3, <1>5, <2>2, <2>3, <2>5 DEF LinesInv
<1>7. CASE ~(taken - first + 1 > MaxLine)
  <2>1. UNCHANGED <<first, dropping>>
    BY <1>7 DEF KeepRest
  <2>2. PassedAreRecorded' /\ BufferBegins'
    BY <1>3, <1>4, <2>1 DEF PassedAreRecorded, BufferBegins, Whole, Starts, Unbroken
  <2>3. BufferIsPart'
    BY <1>2, <1>3, <1>7, <2>1 DEF BufferIsPart, Unbroken
  <2> QED
    BY <1>1, <1>3, <1>5, <2>2, <2>3 DEF LinesInv
<1> QED
  BY <1>6, <1>7

(***************************************************************************)
(* The end of the output: what is left in the buffer is the last line.     *)
(***************************************************************************)
LEMMA EndOfOutputKeepsLines == LinesInv /\ EndOfOutput => LinesInv'
<1> SUFFICES ASSUME LinesInv, EndOfOutput PROVE LinesInv'
  OBVIOUS
<1>1. TranscriptTypeOK'
  BY TypeStep DEF LinesInv, TranscriptNext
<1>2. /\ Len(stream) \in Nat /\ taken \in Nat /\ first \in Nat
      /\ taken <= Len(stream) /\ first >= 1 /\ first <= taken + 1
      /\ MaxLine \in Nat
  BY Lengths DEF LinesInv
<1>3. reading = "read" /\ taken = Len(stream) /\ UNCHANGED <<stream, taken, first, dropping>>
  BY DEF EndOfOutput
<1>4. RecordedAreWhole /\ PassedAreRecorded /\ BufferBegins /\ BufferIsPart
  BY <1>3 DEF LinesInv
<1>5. ASSUME NEW a \in 1 .. Len(stream), NEW b \in 0 .. Len(stream),
             a <= b + 1, Whole(a, b), b + 1 >= first
      PROVE  ~dropping /\ first <= taken /\ a = first /\ b = taken
  <2>1. Starts(a) /\ Unbroken(a, b) /\ b - a < MaxLine
    BY <1>5 DEF Whole, Starts, Unbroken
  <2>2. b = taken
    BY <1>2, <1>3, <1>4, <1>5 DEF Whole, BufferIsPart, Unbroken
  <2>3. ~dropping
    <3> SUFFICES ASSUME dropping PROVE FALSE
      OBVIOUS
    <3>1. PICK s \in 1 .. first - 1 :
            Starts(s) /\ Unbroken(s, first - 1) /\ first - s > MaxLine
      BY <1>4 DEF BufferBegins
    <3>2. Unbroken(s, taken)
      BY <1>2, <1>4, <3>1 DEF BufferIsPart, Unbroken
    <3>3. a = s
      BY <1>2, <1>3, <1>5, <2>1, <2>2, <3>1, <3>2, StartIsUnique
    <3> QED
      BY <1>2, <2>1, <2>2, <3>1, <3>3
  <2>4. Starts(first) /\ Unbroken(first, taken)
    BY <1>4, <2>3 DEF BufferBegins, BufferIsPart
  <2>5. a = first
    BY <1>2, <1>3, <1>5, <2>1, <2>2, <2>4, StartIsUnique
  <2> QED
    BY <1>2, <1>3, <1>5, <2>2, <2>3, <2>5
<1>6. CASE first <= taken /\ ~dropping
  <2>1. Record(<<first, taken>>, "done")
    BY <1>6 DEF EndOfOutput
  <2>2. Whole(first, taken)
    BY <1>2, <1>3, <1>4, <1>6 DEF Whole, BufferBegins, BufferIsPart, Starts, Unbroken
  <2>3. \/ reading' = "failed" /\ lines' = lines
        \/ reading' = "done" /\ lines' = lines \cup {<<first, taken>>}
    BY <2>1 DEF Record
  <2>4. RecordedAreWhole'
    BY <1>3, <1>4, <2>2, <2>3 DEF RecordedAreWhole, Whole
  <2>5. CASE reading' = "done" /\ lines' = lines \cup {<<first, taken>>}
    <3>1. AllAreRecorded'
      BY <1>2, <1>3, <1>4, <1>5, <2>5 DEF AllAreRecorded, PassedAreRecorded, Whole
    <3> QED
      BY <1>1, <2>4, <2>5, <3>1 DEF LinesInv
  <2> QED
    BY <1>1, <2>3, <2>4, <2>5 DEF LinesInv
<1>7. CASE ~(first <= taken /\ ~dropping)
  <2>1. reading' = "done" /\ lines' = lines
    BY <1>7 DEF EndOfOutput
  <2>2. RecordedAreWhole'
    BY <1>3, <1>4, <2>1 DEF RecordedAreWhole, Whole
  <2>3. AllAreRecorded'
    BY <1>2, <1>3, <1>4, <1>5, <1>7, <2>1 DEF AllAreRecorded, PassedAreRecorded, Whole
  <2> QED
    BY <1>1, <2>1, <2>2, <2>3 DEF LinesInv
<1> QED
  BY <1>6, <1>7

\* Lemma: Every step keeps the recorded lines whole.
LEMMA LinesStep == LinesInv /\ [TranscriptNext]_transcriptVars => LinesInv'
<1> SUFFICES ASSUME LinesInv, [TranscriptNext]_transcriptVars PROVE LinesInv'
  OBVIOUS
<1>1. TranscriptTypeOK'
  BY TypeStep DEF LinesInv
<1>2. CASE Take
  <2>1. reading = "read" /\ reading' = "split" /\ UNCHANGED <<stream, first, dropping, lines>>
    BY <1>2 DEF Take
  <2>2. RecordedAreWhole' /\ PassedAreRecorded' /\ BufferBegins'
    BY <2>1 DEF LinesInv, RecordedAreWhole, PassedAreRecorded, BufferBegins, Whole,
                Starts, Unbroken
  <2> QED
    BY <1>1, <2>1, <2>2 DEF LinesInv
<1>3. CASE SplitLine
  BY <1>3, SplitLineKeepsLines
<1>4. CASE KeepRest
  BY <1>4, KeepRestKeepsLines
<1>5. CASE EndOfOutput
  BY <1>5, EndOfOutputKeepsLines
<1>6. CASE OutOfTime
  <2>1. RecordedAreWhole'
    BY <1>6 DEF OutOfTime, LinesInv, RecordedAreWhole, Whole
  <2> QED
    BY <1>1, <1>6, <2>1 DEF OutOfTime, LinesInv
<1>7. CASE UNCHANGED transcriptVars
  BY <1>1, <1>7 DEF transcriptVars, LinesInv, RecordedAreWhole, PassedAreRecorded,
                    BufferBegins, BufferIsPart, AllAreRecorded, Whole, Starts, Unbroken
<1> QED
  BY <1>2, <1>3, <1>4, <1>5, <1>6, <1>7 DEF TranscriptNext

(***************************************************************************)
(* Only whole lines within the limit are recorded, and all of them when    *)
(* the output was read to its end, however the chunks divide it.           *)
(***************************************************************************)
THEOREM WholeLines == TranscriptSpec => []LinesAreWhole
<1>1. LinesInv => LinesAreWhole
  BY DEF LinesInv, LinesAreWhole, RecordedAreWhole, AllAreRecorded
<1> QED
  BY <1>1, LinesInit, LinesStep, PTL DEF TranscriptSpec

-----------------------------------------------------------------------------
(***************************************************************************)
(* The invariant behind NameIsLastReported: lines are recorded in order.   *)
(***************************************************************************)
InOrder == \A line \in lines : line[2] < first

NameInv ==
    /\ TranscriptTypeOK
    /\ NameIsLastReported
    /\ reading \in {"read", "split"} => InOrder

Reported == UNION {Named(line) : line \in lines}

Latest(S) == CHOOSE i \in S : \A j \in S : j <= i

\* Lemma: Latest is the last member of a set of positions.
LEMMA LatestIsLast ==
    ASSUME NEW m \in Nat, NEW n \in Nat, NEW S \in SUBSET (m .. n), S # {}
    PROVE  Latest(S) \in S /\ \A j \in S : j <= Latest(S)
<1>1. \E i \in S : \A j \in S : j <= i
  BY LastPosition
<1> QED
  BY <1>1 DEF Latest

\* Lemma: Recording the next line keeps the name the last one.
LEMMA RecordKeepsName ==
    ASSUME TranscriptTypeOK, NameIsLastReported, InOrder, stream' = stream,
           NEW j \in first - 1 .. taken, NEW next, Record(<<first, j>>, next)
    PROVE  NameIsLastReported'
<1>1. /\ taken \in Nat /\ first \in Nat /\ first >= 1 /\ first <= taken + 1
      /\ lines \subseteq (1 .. taken + 1) \X (0 .. taken) /\ j \in Nat
  BY Lengths DEF TranscriptTypeOK
<1> DEFINE N == Named(<<first, j>>)
<1>2. Reported \in SUBSET (1 .. first - 1) /\ N \in SUBSET (first .. taken)
  <2>1. \A line \in lines : Named(line) \subseteq 1 .. first - 1
    BY <1>1 DEF InOrder, Named
  <2> QED
    BY <1>1, <2>1 DEF Reported, Named
<1>3. /\ IF Reported = {} THEN hostname = NoName ELSE hostname = stream[Latest(Reported)]
      /\ (IF Reported = {} THEN hostname = NoName ELSE hostname = stream[Latest(Reported)])'
         => NameIsLastReported'
  BY DEF NameIsLastReported, Reported, Latest
<1>4. CASE UNCHANGED <<lines, hostname>>
  BY <1>4 DEF NameIsLastReported, Named
<1>5. ASSUME lines' = lines \cup {<<first, j>>}
      PROVE  Reported' = Reported \cup N
  <2>1. \A line : Named(line)' = Named(line)
    BY DEF Named
  <2>2. Reported' = UNION {Named(line) : line \in lines'}
    BY <2>1 DEF Reported
  <2> QED
    BY <1>5, <2>2 DEF Reported
<1>6. CASE lines' = lines \cup {<<first, j>>} /\ N = {} /\ hostname' = hostname
  <2>1. Reported' = Reported
    BY <1>5, <1>6
  <2> QED
    BY <1>3, <1>6, <2>1 DEF Latest
<1>7. CASE lines' = lines \cup {<<first, j>>} /\ N # {} /\ hostname' = LastName(<<first, j>>)
  <2> DEFINE R == Reported'
             P == Reported
  <2>1. R = P \cup N
    BY <1>5, <1>7
  <2>2. N # {}
    BY <1>7
  <2>3. P \in SUBSET (1 .. first - 1) /\ N \in SUBSET (first .. taken)
    BY <1>2
  <2>4. hostname' = stream[Latest(N)]
    BY <1>7 DEF LastName, Latest
  <2>5. Latest(R) = Latest(N) /\ R # {}
    <3> HIDE DEF R, P, N
    <3>1. R \in SUBSET (1 .. taken) /\ N \in SUBSET (1 .. taken) /\ R # {}
      BY <1>1, <2>1, <2>2, <2>3
    <3>2. Latest(R) \in R /\ \A k \in R : k <= Latest(R)
      BY <1>1, <3>1, LatestIsLast
    <3>3. Latest(N) \in N /\ \A k \in N : k <= Latest(N)
      BY <1>1, <2>2, <3>1, LatestIsLast
    <3>4. /\ Latest(N) \in Nat /\ Latest(R) \in Nat
          /\ first <= Latest(N)
          /\ Latest(N) <= Latest(R)
      <4>1. Latest(N) \in 1 .. taken /\ Latest(R) \in 1 .. taken
        BY <3>1, <3>2, <3>3
      <4>2. Latest(N) \in first .. taken
        BY <2>3, <3>3
      <4>3. Latest(N) \in R
        BY <2>1, <3>3
      <4>4. Latest(N) <= Latest(R)
        BY <3>2, <4>3
      <4> QED
        BY <1>1, <4>1, <4>2, <4>4
    <3>5. Latest(R) \notin P
      BY <1>1, <2>3, <3>4
    <3>6. Latest(R) <= Latest(N)
      BY <2>1, <3>2, <3>3, <3>5
    <3> QED
      BY <3>1, <3>4, <3>6
  <2>6. hostname' = stream'[Latest(R)]
    BY <2>4, <2>5
  <2>7. Latest(R) = Latest(Reported)'
    BY DEF Latest
  <2> QED
    BY <1>3, <2>5, <2>6, <2>7
<1>8. \/ UNCHANGED <<lines, hostname>>
      \/ lines' = lines \cup {<<first, j>>} /\ N = {} /\ hostname' = hostname
      \/ lines' = lines \cup {<<first, j>>} /\ N # {} /\ hostname' = LastName(<<first, j>>)
  BY DEF Record
<1> QED
  BY <1>4, <1>6, <1>7, <1>8

\* Lemma: Every step keeps the name the last one.
LEMMA NameStep == NameInv /\ [TranscriptNext]_transcriptVars => NameInv'
<1> SUFFICES ASSUME NameInv, [TranscriptNext]_transcriptVars PROVE NameInv'
  OBVIOUS
<1>1. TranscriptTypeOK /\ TranscriptTypeOK' /\ NameIsLastReported
  BY TypeStep DEF NameInv
<1>2. taken \in Nat /\ first \in Nat /\ first >= 1 /\ first <= taken + 1
  BY <1>1, Lengths
<1>3. ASSUME UNCHANGED <<stream, lines, hostname>>
      PROVE  NameIsLastReported'
  BY <1>1, <1>3 DEF NameIsLastReported, Named
<1>4. CASE Take
  BY <1>1, <1>3, <1>4 DEF Take, NameInv, InOrder
<1>5. CASE SplitLine
  <2>1. PICK i \in first .. taken :
          /\ first' = i + 1
          /\ \/ Record(<<first, i - 1>>, "split")
             \/ UNCHANGED <<lines, hostname, reading>>
    BY <1>5 DEF SplitLine, Delimiters
  <2>2. InOrder /\ stream' = stream
    BY <1>5 DEF SplitLine, NameInv
  <2>3. NameIsLastReported'
    BY <1>1, <1>2, <1>3, <2>1, <2>2, RecordKeepsName
  <2>4. lines' \subseteq lines \cup {<<first, i - 1>>}
    BY <2>1 DEF Record
  <2>5. lines \subseteq (1 .. taken + 1) \X (0 .. taken)
    BY <1>1 DEF TranscriptTypeOK
  <2>6. InOrder'
    BY <1>2, <2>1, <2>2, <2>4, <2>5 DEF InOrder
  <2> QED
    BY <1>1, <2>3, <2>6 DEF NameInv
<1>6. CASE KeepRest
  <2>1. UNCHANGED <<stream, lines, hostname>> /\ (first' = first \/ first' = taken + 1)
    BY <1>6 DEF KeepRest
  <2>2. lines \subseteq (1 .. taken + 1) \X (0 .. taken) /\ InOrder
    BY <1>1, <1>6 DEF TranscriptTypeOK, KeepRest, NameInv
  <2>3. InOrder'
    BY <1>2, <2>1, <2>2 DEF InOrder
  <2> QED
    BY <1>1, <1>3, <2>1, <2>3 DEF NameInv
<1>7. CASE EndOfOutput
  <2>1. InOrder /\ stream' = stream /\ reading' \in {"done", "failed"}
    BY <1>7 DEF EndOfOutput, Record, NameInv
  <2>2. \/ first <= taken /\ Record(<<first, taken>>, "done")
        \/ UNCHANGED <<lines, hostname>>
    BY <1>7 DEF EndOfOutput
  <2>3. NameIsLastReported'
    BY <1>1, <1>2, <1>3, <2>1, <2>2, RecordKeepsName
  <2> QED
    BY <1>1, <2>1, <2>3 DEF NameInv
<1>8. CASE OutOfTime
  BY <1>1, <1>3, <1>8 DEF OutOfTime, NameInv
<1>9. CASE UNCHANGED transcriptVars
  BY <1>1, <1>3, <1>9 DEF transcriptVars, NameInv, InOrder
<1> QED
  BY <1>4, <1>5, <1>6, <1>7, <1>8, <1>9 DEF TranscriptNext

(***************************************************************************)
(* The server name is the last one in the recorded lines, for every output *)
(* and every division into chunks.                                         *)
(***************************************************************************)
THEOREM LastNameCounts == TranscriptSpec => []NameIsLastReported
<1>1. TranscriptInit => NameInv
  BY TypeInit DEF TranscriptInit, NameInv, NameIsLastReported, InOrder
<1>2. NameInv => NameIsLastReported
  BY DEF NameInv
<1> QED
  BY <1>1, <1>2, NameStep, PTL DEF TranscriptSpec

-----------------------------------------------------------------------------
\* Lemma: A set of numbers has a least one.
LEMMA FirstNumber ==
    ASSUME NEW S \in SUBSET Nat, S # {}
    PROVE  \E m \in S : \A n \in S : m <= n
<1>1. PICK m \in S : \A n \in S : ~(<<n, m>> \in OpToRel(<, Nat))
  BY NatLessThanWellFounded, WFMin
<1>2. \A n \in S : ~(n < m)
  BY <1>1 DEF OpToRel
<1> QED
  BY <1>2

(***************************************************************************)
(* What holds at a position when it holds at every earlier one holds at    *)
(* every position of a text.                                               *)
(***************************************************************************)
LEMMA Forward ==
    ASSUME NEW n \in Nat, NEW S,
           \A i \in 0 .. n : (\A j \in 0 .. i - 1 : j \in S) => i \in S
    PROVE  \A i \in 0 .. n : i \in S
<1> SUFFICES ASSUME (0 .. n) \ S # {} PROVE FALSE
  OBVIOUS
<1>1. PICK m \in (0 .. n) \ S : \A i \in (0 .. n) \ S : m <= i
  <2> DEFINE bad == (0 .. n) \ S
  <2>1. bad \in SUBSET Nat /\ bad # {}
    OBVIOUS
  <2> HIDE DEF bad
  <2>2. \E m \in bad : \A i \in bad : m <= i
    BY <2>1, FirstNumber
  <2> QED
    BY <2>2 DEF bad
<1>2. \A j \in 0 .. m - 1 : j \in S
  BY <1>1
<1> QED
  BY <1>1, <1>2

\* Lemma: what holds at a position when it holds at every later one holds everywhere.
LEMMA Backward ==
    ASSUME NEW n \in Nat, NEW S,
           \A i \in 1 .. n : (\A j \in i + 1 .. n : j \in S) => i \in S
    PROVE  \A i \in 1 .. n : i \in S
<1> SUFFICES ASSUME (1 .. n) \ S # {} PROVE FALSE
  OBVIOUS
<1>1. PICK m \in (1 .. n) \ S : \A i \in (1 .. n) \ S : i <= m
  <2> DEFINE bad == (1 .. n) \ S
  <2>1. bad \in SUBSET (1 .. n) /\ bad # {}
    OBVIOUS
  <2> HIDE DEF bad
  <2>2. \E m \in bad : \A i \in bad : i <= m
    BY <2>1, LastPosition
  <2> QED
    BY <2>2 DEF bad
<1>2. \A j \in m + 1 .. n : j \in S
  BY <1>1
<1> QED
  BY <1>1, <1>2

(***************************************************************************)
(* An occurrence, position by position.                                    *)
(***************************************************************************)
LEMMA OccursAt ==
    ASSUME NEW X, NEW u \in Seq(X), NEW t \in Seq(X), NEW i \in Nat \ {0}
    PROVE  Occurs(t, u, i) <=> /\ i + Len(t) <= Len(u) + 1
                               /\ \A d \in 1 .. Len(t) : u[i + d - 1] = t[d]
<1>1. CASE i + Len(t) <= Len(u) + 1
  <2> DEFINE v == SubSeq(u, i, i + Len(t) - 1)
  <2>1. v \in Seq(X) /\ Len(v) = Len(t) /\ \A d \in 1 .. Len(t) : v[d] = u[i + d - 1]
    BY <1>1
  <2> HIDE DEF v
  <2>2. v = t => \A d \in 1 .. Len(t) : v[d] = t[d]
    OBVIOUS
  <2>3. ASSUME \A d \in 1 .. Len(t) : v[d] = t[d] PROVE v = t
    <3>1. v = [d \in 1 .. Len(t) |-> v[d]]
      BY <2>1
    <3>2. t = [d \in 1 .. Len(t) |-> t[d]]
      OBVIOUS
    <3> QED
      BY <2>3, <3>1, <3>2, Zenon
  <2>4. Occurs(t, u, i) <=> v = t
    BY <1>1 DEF Occurs, v
  <2> QED
    BY <1>1, <2>1, <2>2, <2>3, <2>4
<1>2. CASE ~(i + Len(t) <= Len(u) + 1)
  BY <1>2 DEF Occurs
<1> QED
  BY <1>1, <1>2

\* What rest of Replace computes at i, from a function that has the values after i.
RestAt(f, u, t, i) ==
    IF i > Len(u) THEN <<>>
    ELSE IF Occurs(t, u, i) THEN <<Mark>> \o f[i + Len(t)]
    ELSE <<u[i]>> \o f[i + 1]

(***************************************************************************)
(* The recursion of Replace has a solution.                                *)
(***************************************************************************)
LEMMA ReplaceRest ==
    ASSUME NEW X, Mark \in X, NEW u \in Seq(X), NEW t \in Seq(X), t # <<>>
    PROVE  \E rest \in [1 .. Len(u) + 1 -> Seq(X)] :
              /\ Replace(u, t) = rest[1]
              /\ \A i \in 1 .. Len(u) + 1 : rest[i] = RestAt(rest, u, t, i)
<1> DEFINE n == Len(u) + 1
           Solves(f, i) == f = [j \in i .. n |-> RestAt(f, u, t, j)]
           S == {i \in 1 .. n : \E f : Solves(f, i)}
<1>0. n \in Nat /\ n >= 1 /\ Len(u) \in Nat /\ Len(t) \in Nat /\ Len(t) >= 1
  OBVIOUS
<1>1. ASSUME NEW i \in 1 .. n, \A j \in i + 1 .. n : j \in S PROVE i \in S
  <2>1. PICK f : \A j \in i + 1 .. n : f[j] = RestAt(f, u, t, j)
    <3>1. CASE i = n
      BY <1>0, <3>1
    <3>2. CASE i < n
      <4>1. i + 1 \in S
        BY <1>0, <1>1, <3>2, SMTT(30)
      <4> QED
        BY <4>1
    <3> QED
      BY <1>0, <3>1, <3>2
  <2> DEFINE g == [j \in i .. n |-> IF j = i THEN RestAt(f, u, t, i) ELSE f[j]]
  <2>2. \A j \in i + 1 .. n : g[j] = f[j]
    BY <1>0
  <2>3. ASSUME NEW j \in i .. n PROVE RestAt(g, u, t, j) = RestAt(f, u, t, j)
    <3>1. CASE j > Len(u)
      BY <3>1 DEF RestAt
    <3>2. CASE ~(j > Len(u)) /\ Occurs(t, u, j)
      <4>1. j + Len(t) \in i + 1 .. n
        BY <1>0, <3>2 DEF Occurs
      <4> HIDE DEF g
      <4> QED
        BY <2>2, <3>2, <4>1 DEF RestAt
    <3>3. CASE ~(j > Len(u)) /\ ~Occurs(t, u, j)
      <4>1. j + 1 \in i + 1 .. n
        BY <1>0, <3>3
      <4> HIDE DEF g
      <4> QED
        BY <2>2, <3>3, <4>1 DEF RestAt
    <3> QED
      BY <3>1, <3>2, <3>3
  <2>4. g = [j \in i .. n |-> g[j]]
    OBVIOUS
  <2>5. g[i] = RestAt(f, u, t, i)
    BY <1>0
  <2> HIDE DEF g
  <2>6. \A j \in i .. n : g[j] = RestAt(g, u, t, j)
    BY <1>0, <2>1, <2>2, <2>3, <2>5
  <2>7. Solves(g, i)
    BY <2>4, <2>6
  <2> QED
    BY <2>7
<1>2. \E f : Solves(f, 1)
  <2> HIDE DEF n, S
  <2>1. \A i \in 1 .. n : i \in S
    BY <1>0, <1>1, Backward
  <2>2. 1 \in S
    BY <1>0, <2>1
  <2> QED
    BY <2>2 DEF S
<1> DEFINE Equation(r) == r = [i \in 1 .. Len(u) + 1 |->
                        IF i > Len(u) THEN <<>>
                        ELSE IF Occurs(t, u, i) THEN <<Mark>> \o r[i + Len(t)]
                        ELSE <<u[i]>> \o r[i + 1]]
           rest == CHOOSE r : Equation(r)
<1>3. Replace(u, t) = rest[1]
  BY DEF Replace
<1>4. \E f : Equation(f)
  BY <1>2 DEF RestAt
<1>5. Equation(rest)
  <2> HIDE DEF Equation
  <2> QED
    BY <1>4
<1> HIDE DEF rest
<1>6. rest = [i \in 1 .. n |-> RestAt(rest, u, t, i)]
  BY <1>5 DEF RestAt
<1> HIDE DEF Equation
<1> DEFINE T == {i \in 1 .. n : rest[i] \in Seq(X)}
<1>7. ASSUME NEW i \in 1 .. n, \A j \in i + 1 .. n : j \in T PROVE i \in T
  <2>1. rest[i] = RestAt(rest, u, t, i)
    BY <1>6
  <2> SUFFICES rest[i] \in Seq(X)
    OBVIOUS
  <2>2. CASE i > Len(u)
    <3>1. rest[i] = <<>>
      BY <2>1, <2>2 DEF RestAt
    <3> QED
      BY <3>1
  <2>3. CASE ~(i > Len(u)) /\ Occurs(t, u, i)
    <3>1. i + Len(t) \in i + 1 .. n
      BY <1>0, <2>3 DEF Occurs
    <3>2. rest[i + Len(t)] \in Seq(X) /\ <<Mark>> \in Seq(X)
      BY <1>7, <3>1
    <3>3. rest[i] = <<Mark>> \o rest[i + Len(t)]
      BY <2>1, <2>3 DEF RestAt
    <3> QED
      BY <3>2, <3>3
  <2>4. CASE ~(i > Len(u)) /\ ~Occurs(t, u, i)
    <3>1. i + 1 \in i + 1 .. n
      BY <1>0, <2>4
    <3>2. rest[i + 1] \in Seq(X) /\ <<u[i]>> \in Seq(X)
      BY <1>0, <1>7, <2>4, <3>1
    <3>3. rest[i] = <<u[i]>> \o rest[i + 1]
      BY <2>1, <2>4 DEF RestAt
    <3> QED
      BY <3>2, <3>3
  <2> QED
    BY <2>2, <2>3, <2>4
<1>8. \A i \in 1 .. n : rest[i] \in Seq(X)
  <2> HIDE DEF n, T
  <2>1. \A i \in 1 .. n : i \in T
    BY <1>0, <1>7, Backward
  <2> QED
    BY <2>1 DEF T
<1>9. rest \in [1 .. n -> Seq(X)]
  BY <1>6, <1>8
<1>10. \A i \in 1 .. n : rest[i] = RestAt(rest, u, t, i)
  BY <1>6
<1> QED
  BY <1>3, <1>9, <1>10

(***************************************************************************)
(* Where the symbols of a redacted text v come from: a position of the     *)
(* text u, or 0 for a mark.  What is left of u keeps its order, and        *)
(* neighbours in one are neighbours in the other.                          *)
(***************************************************************************)
Embeds(p, v, u) ==
    /\ p \in [1 .. Len(v) -> 0 .. Len(u)]
    /\ \A j \in 1 .. Len(v) : v[j] = IF p[j] = 0 THEN Mark ELSE u[p[j]]
    /\ \A j, k \in 1 .. Len(v) : j < k /\ p[j] # 0 /\ p[k] # 0 => p[j] < p[k]
    /\ \A j, k \in 1 .. Len(v) : p[j] # 0 /\ p[k] # 0 => (p[k] = p[j] + 1 <=> k = j + 1)

\* No two occurrences of t overlap.
Apart(t, u) ==
    \A k, l \in 1 .. Len(u) : Occurs(t, u, k) /\ Occurs(t, u, l) /\ k < l => k + Len(t) <= l

\* What is left of u[i ..] when the occurrences of t are marked: every position
\* that is not marked, none where t begins, and none inside an occurrence.
Traces(p, v, u, t, i) ==
    /\ Embeds(p, v, u)
    /\ \A j \in 1 .. Len(v) : p[j] # 0 => p[j] >= i /\ (p[j] = i <=> j = 1)
    /\ \A q \in i .. Len(u) : \/ \E j \in 1 .. Len(v) : p[j] = q
                              \/ \E k \in i .. q : q < k + Len(t) /\ Occurs(t, u, k)
    /\ \A j \in 1 .. Len(v) : p[j] # 0 => ~Occurs(t, u, p[j])
    /\ Apart(t, u) =>
        \A j \in 1 .. Len(v) : p[j] # 0 =>
            \A k \in i .. p[j] : Occurs(t, u, k) => k + Len(t) <= p[j]

\* Lemma: a sequence with one symbol before it.
LEMMA Prefixed ==
    ASSUME NEW X, NEW w \in Seq(X), NEW x \in X
    PROVE  /\ <<x>> \o w \in Seq(X)
           /\ Len(<<x>> \o w) = Len(w) + 1
           /\ (<<x>> \o w)[1] = x
           /\ \A j \in 2 .. Len(w) + 1 : (<<x>> \o w)[j] = w[j - 1]
<1>1. <<x>> \in Seq(X) /\ Len(<<x>>) = 1 /\ <<x>>[1] = x
  OBVIOUS
<1> QED
  BY <1>1

\* Lemma: an occurrence is marked, and the rest follows.
LEMMA TraceMarked ==
    ASSUME NEW X, Mark \in X, NEW u \in Seq(X), NEW t \in Seq(X), t # <<>>,
           NEW i \in 1 .. Len(u), Occurs(t, u, i),
           NEW w \in Seq(X), NEW p, Traces(p, w, u, t, i + Len(t))
    PROVE  \E q : Traces(q, <<Mark>> \o w, u, t, i)
<1> DEFINE v == <<Mark>> \o w
           q == [j \in 1 .. Len(w) + 1 |-> IF j = 1 THEN 0 ELSE p[j - 1]]
<1>0. /\ Len(u) \in Nat /\ Len(t) \in Nat /\ Len(t) >= 1 /\ Len(w) \in Nat
      /\ i + Len(t) <= Len(u) + 1
  BY DEF Occurs
<1>1. Len(v) = Len(w) + 1 /\ v[1] = Mark /\ \A j \in 2 .. Len(w) + 1 : v[j] = w[j - 1]
  BY Prefixed
<1>2. /\ p \in [1 .. Len(w) -> 0 .. Len(u)]
      /\ \A j \in 1 .. Len(w) : w[j] = IF p[j] = 0 THEN Mark ELSE u[p[j]]
      /\ \A j, k \in 1 .. Len(w) : j < k /\ p[j] # 0 /\ p[k] # 0 => p[j] < p[k]
      /\ \A j, k \in 1 .. Len(w) : p[j] # 0 /\ p[k] # 0 => (p[k] = p[j] + 1 <=> k = j + 1)
  BY DEF Traces, Embeds
<1>3. /\ q[1] = 0
      /\ \A j \in 2 .. Len(w) + 1 : q[j] = p[j - 1] /\ j - 1 \in 1 .. Len(w)
      /\ \A j \in 1 .. Len(w) : q[j + 1] = p[j] /\ j + 1 \in 2 .. Len(w) + 1
  BY <1>0
<1>4. q \in [1 .. Len(v) -> 0 .. Len(u)]
  BY <1>0, <1>1, <1>2
<1> HIDE DEF v, q
<1>5. Embeds(q, v, u)
  <2>1. \A j \in 1 .. Len(v) : v[j] = IF q[j] = 0 THEN Mark ELSE u[q[j]]
    <3> SUFFICES ASSUME NEW j \in 1 .. Len(v) PROVE v[j] = IF q[j] = 0 THEN Mark ELSE u[q[j]]
      OBVIOUS
    <3>1. CASE j = 1
      BY <1>1, <1>3, <3>1
    <3>2. CASE j # 1
      <4>1. j \in 2 .. Len(w) + 1
        BY <1>0, <1>1, <3>2
      <4> QED
        BY <1>1, <1>2, <1>3, <4>1, SMTT(30)
    <3> QED
      BY <3>1, <3>2
  <2>2. ASSUME NEW j \in 1 .. Len(v), NEW k \in 1 .. Len(v), q[j] # 0, q[k] # 0
        PROVE  (j < k => q[j] < q[k]) /\ (q[k] = q[j] + 1 <=> k = j + 1)
    <3>1. j \in 2 .. Len(w) + 1 /\ k \in 2 .. Len(w) + 1
      BY <1>0, <1>1, <1>3, <2>2
    <3>2. q[j] = p[j - 1] /\ q[k] = p[k - 1] /\ j - 1 \in 1 .. Len(w) /\ k - 1 \in 1 .. Len(w)
      BY <1>3, <3>1
    <3>3. (j - 1 < k - 1 => q[j] < q[k]) /\ (q[k] = q[j] + 1 <=> k - 1 = j - 1 + 1)
      BY <1>2, <2>2, <3>2
    <3> QED
      BY <3>1, <3>3
  <2> QED
    BY <1>4, <2>1, <2>2 DEF Embeds
<1>6. ASSUME NEW j \in 1 .. Len(v), q[j] # 0
      PROVE  /\ q[j] >= i /\ (q[j] = i <=> j = 1)
             /\ ~Occurs(t, u, q[j])
             /\ Apart(t, u) => \A k \in i .. q[j] : Occurs(t, u, k) => k + Len(t) <= q[j]
  <2>1. j \in 2 .. Len(w) + 1 /\ q[j] = p[j - 1] /\ j - 1 \in 1 .. Len(w)
    BY <1>0, <1>1, <1>3, <1>6
  <2>2. q[j] >= i + Len(t) /\ ~Occurs(t, u, q[j])
    BY <1>6, <2>1 DEF Traces
  <2>3. q[j] \in 1 .. Len(u)
    BY <1>2, <1>6, <2>1
  <2>4. ASSUME Apart(t, u), NEW k \in i .. q[j], Occurs(t, u, k) PROVE k + Len(t) <= q[j]
    <3>1. CASE k >= i + Len(t)
      <4>1. k \in i + Len(t) .. q[j]
        BY <3>1
      <4> QED
        BY <1>6, <2>1, <2>4, <4>1 DEF Traces
    <3>2. CASE k = i
      BY <2>2, <3>2
    <3>3. CASE i < k /\ k < i + Len(t)
      <4>1. k \in 1 .. Len(u)
        BY <1>0, <2>3
      <4> QED
        BY <1>0, <2>4, <3>3, <4>1 DEF Apart
    <3> QED
      BY <1>0, <3>1, <3>2, <3>3
  <2> QED
    BY <1>0, <2>1, <2>2, <2>3, <2>4
<1>7. ASSUME NEW x \in i .. Len(u)
      PROVE  \/ \E j \in 1 .. Len(v) : q[j] = x
             \/ \E k \in i .. x : x < k + Len(t) /\ Occurs(t, u, k)
  <2>1. CASE x < i + Len(t)
    BY <2>1
  <2>2. CASE x >= i + Len(t)
    <3>0. x \in i + Len(t) .. Len(u)
      BY <2>2
    <3>1. CASE \E j \in 1 .. Len(w) : p[j] = x
      <4>1. PICK j \in 1 .. Len(w) : p[j] = x
        BY <3>1
      <4>2. j + 1 \in 1 .. Len(v) /\ q[j + 1] = x
        BY <1>0, <1>1, <1>3, <4>1
      <4> QED
        BY <4>2
    <3>2. CASE \E k \in i + Len(t) .. x : x < k + Len(t) /\ Occurs(t, u, k)
      BY <1>0, <3>2
    <3> QED
      BY <3>0, <3>1, <3>2 DEF Traces
  <2> QED
    BY <1>0, <2>1, <2>2
<1>8. Traces(q, v, u, t, i)
  BY <1>5, <1>6, <1>7 DEF Traces
<1> QED
  BY <1>8 DEF v

\* Lemma: a symbol where t does not begin is kept, and the rest follows.
LEMMA TraceKept ==
    ASSUME NEW X, Mark \in X, NEW u \in Seq(X), NEW t \in Seq(X), t # <<>>,
           NEW i \in 1 .. Len(u), ~Occurs(t, u, i),
           NEW w \in Seq(X), NEW p, Traces(p, w, u, t, i + 1)
    PROVE  \E q : Traces(q, <<u[i]>> \o w, u, t, i)
<1> DEFINE v == <<u[i]>> \o w
           q == [j \in 1 .. Len(w) + 1 |-> IF j = 1 THEN i ELSE p[j - 1]]
<1>0. /\ Len(u) \in Nat /\ Len(t) \in Nat /\ Len(t) >= 1 /\ Len(w) \in Nat /\ u[i] \in X
  OBVIOUS
<1>1. Len(v) = Len(w) + 1 /\ v[1] = u[i] /\ \A j \in 2 .. Len(w) + 1 : v[j] = w[j - 1]
  BY <1>0, Prefixed
<1>2. /\ p \in [1 .. Len(w) -> 0 .. Len(u)]
      /\ \A j \in 1 .. Len(w) : w[j] = IF p[j] = 0 THEN Mark ELSE u[p[j]]
      /\ \A j, k \in 1 .. Len(w) : j < k /\ p[j] # 0 /\ p[k] # 0 => p[j] < p[k]
      /\ \A j, k \in 1 .. Len(w) : p[j] # 0 /\ p[k] # 0 => (p[k] = p[j] + 1 <=> k = j + 1)
      /\ \A j \in 1 .. Len(w) : p[j] # 0 => p[j] >= i + 1 /\ (p[j] = i + 1 <=> j = 1)
  BY DEF Traces, Embeds
<1>3. /\ q[1] = i
      /\ \A j \in 2 .. Len(w) + 1 : q[j] = p[j - 1] /\ j - 1 \in 1 .. Len(w)
      /\ \A j \in 1 .. Len(w) : q[j + 1] = p[j] /\ j + 1 \in 2 .. Len(w) + 1
  BY <1>0
<1>4. q \in [1 .. Len(v) -> 0 .. Len(u)]
  BY <1>0, <1>1, <1>2
<1> HIDE DEF v, q
<1>5. Embeds(q, v, u)
  <2>1. \A j \in 1 .. Len(v) : v[j] = IF q[j] = 0 THEN Mark ELSE u[q[j]]
    <3> SUFFICES ASSUME NEW j \in 1 .. Len(v) PROVE v[j] = IF q[j] = 0 THEN Mark ELSE u[q[j]]
      OBVIOUS
    <3>1. CASE j = 1
      BY <1>1, <1>3, <3>1
    <3>2. CASE j # 1
      <4>1. j \in 2 .. Len(w) + 1
        BY <1>0, <1>1, <3>2
      <4> QED
        BY <1>1, <1>2, <1>3, <4>1
    <3> QED
      BY <3>1, <3>2
  <2>2. ASSUME NEW j \in 1 .. Len(v), NEW k \in 1 .. Len(v), q[j] # 0, q[k] # 0
        PROVE  (j < k => q[j] < q[k]) /\ (q[k] = q[j] + 1 <=> k = j + 1)
    <3>1. CASE j = 1 /\ k = 1
      BY <1>3, <3>1
    <3>2. CASE j = 1 /\ k # 1
      <4>1. k \in 2 .. Len(w) + 1 /\ q[k] = p[k - 1] /\ k - 1 \in 1 .. Len(w)
        BY <1>0, <1>1, <1>3, <3>2
      <4>2. q[k] \in Nat /\ q[k] >= i + 1 /\ (q[k] = i + 1 <=> k - 1 = 1)
        BY <1>2, <2>2, <4>1
      <4> QED
        BY <1>3, <3>2, <4>1, <4>2
    <3>3. CASE j # 1 /\ k = 1
      <4>1. j \in 2 .. Len(w) + 1 /\ q[j] = p[j - 1] /\ j - 1 \in 1 .. Len(w)
        BY <1>0, <1>1, <1>3, <3>3
      <4>2. q[j] \in Nat /\ q[j] >= i + 1
        BY <1>2, <2>2, <4>1
      <4> QED
        BY <1>3, <3>3, <4>1, <4>2
    <3>4. CASE j # 1 /\ k # 1
      <4>1. j \in 2 .. Len(w) + 1 /\ k \in 2 .. Len(w) + 1
        BY <1>0, <1>1, <3>4
      <4>2. q[j] = p[j - 1] /\ q[k] = p[k - 1] /\ j - 1 \in 1 .. Len(w) /\ k - 1 \in 1 .. Len(w)
        BY <1>3, <4>1
      <4>3. (j - 1 < k - 1 => q[j] < q[k]) /\ (q[k] = q[j] + 1 <=> k - 1 = j - 1 + 1)
        BY <1>2, <2>2, <4>2
      <4> QED
        BY <4>1, <4>3
    <3> QED
      BY <3>1, <3>2, <3>3, <3>4
  <2> QED
    BY <1>4, <2>1, <2>2 DEF Embeds
<1>6. ASSUME NEW j \in 1 .. Len(v), q[j] # 0
      PROVE  /\ q[j] >= i /\ (q[j] = i <=> j = 1)
             /\ ~Occurs(t, u, q[j])
             /\ Apart(t, u) => \A k \in i .. q[j] : Occurs(t, u, k) => k + Len(t) <= q[j]
  <2>1. CASE j = 1
    <3>1. q[j] = i
      BY <1>3, <2>1
    <3>2. \A k \in i .. q[j] : k = i
      BY <3>1
    <3> QED
      BY <2>1, <3>1, <3>2
  <2>2. CASE j # 1
    <3>1. j \in 2 .. Len(w) + 1 /\ q[j] = p[j - 1] /\ j - 1 \in 1 .. Len(w)
      BY <1>0, <1>1, <1>3, <2>2
    <3>2. q[j] >= i + 1 /\ q[j] \in Nat
      BY <1>2, <1>6, <3>1
    <3>4. ~Occurs(t, u, q[j])
      BY <1>6, <3>1 DEF Traces
    <3>3. ASSUME Apart(t, u), NEW k \in i .. q[j], Occurs(t, u, k) PROVE k + Len(t) <= q[j]
      <4>1. k \in i + 1 .. q[j]
        <5>1. k # i
          BY <3>3
        <5> QED
          BY <5>1
      <4> QED
        BY <1>6, <3>1, <3>3, <4>1 DEF Traces
    <3> QED
      BY <2>2, <3>2, <3>3, <3>4
  <2> QED
    BY <2>1, <2>2
<1>7. ASSUME NEW x \in i .. Len(u)
      PROVE  \/ \E j \in 1 .. Len(v) : q[j] = x
             \/ \E k \in i .. x : x < k + Len(t) /\ Occurs(t, u, k)
  <2>1. CASE x = i
    BY <1>0, <1>1, <1>3, <2>1
  <2>2. CASE x # i
    <3>0. x \in i + 1 .. Len(u)
      BY <2>2
    <3>1. CASE \E j \in 1 .. Len(w) : p[j] = x
      <4>1. PICK j \in 1 .. Len(w) : p[j] = x
        BY <3>1
      <4>2. j + 1 \in 1 .. Len(v) /\ q[j + 1] = x
        BY <1>0, <1>1, <1>3, <4>1
      <4> QED
        BY <4>2
    <3>2. CASE \E k \in i + 1 .. x : x < k + Len(t) /\ Occurs(t, u, k)
      BY <1>0, <3>2
    <3> QED
      BY <3>0, <3>1, <3>2 DEF Traces
  <2> QED
    BY <2>1, <2>2
<1>8. Traces(q, v, u, t, i)
  BY <1>5, <1>6, <1>7 DEF Traces
<1> QED
  BY <1>8 DEF v

(***************************************************************************)
(* What str.replace leaves of a text, by where it comes from.              *)
(***************************************************************************)
LEMMA ReplaceTrace ==
    ASSUME NEW X, Mark \in X, NEW u \in Seq(X), NEW t \in Seq(X), t # <<>>
    PROVE  Replace(u, t) \in Seq(X) /\ \E p : Traces(p, Replace(u, t), u, t, 1)
<1> DEFINE n == Len(u) + 1
<1>0. n \in Nat /\ n >= 1 /\ Len(u) \in Nat /\ Len(t) \in Nat /\ Len(t) >= 1
  OBVIOUS
<1>1. PICK rest \in [1 .. n -> Seq(X)] :
          /\ Replace(u, t) = rest[1]
          /\ \A i \in 1 .. n : rest[i] = RestAt(rest, u, t, i)
  BY ReplaceRest
<1> DEFINE S == {i \in 1 .. n : \E p : Traces(p, rest[i], u, t, i)}
<1>2. ASSUME NEW i \in 1 .. n, \A j \in i + 1 .. n : j \in S PROVE i \in S
  <2> SUFFICES \E p : Traces(p, rest[i], u, t, i)
    OBVIOUS
  <2>0. rest[i] = RestAt(rest, u, t, i)
    BY <1>1
  <2>1. CASE i > Len(u)
    <3>1. rest[i] = <<>>
      BY <2>0, <2>1 DEF RestAt
    <3>2. Len(rest[i]) = 0 /\ 1 .. Len(rest[i]) = {} /\ i .. Len(u) = {}
      BY <1>0, <2>1, <3>1
    <3> DEFINE p == [j \in 1 .. Len(rest[i]) |-> 0]
    <3>3. p \in [1 .. Len(rest[i]) -> 0 .. Len(u)]
      BY <1>0
    <3> HIDE DEF p
    <3>4. Traces(p, rest[i], u, t, i)
      BY <3>2, <3>3 DEF Traces, Embeds
    <3> QED
      BY <3>4
  <2>2. CASE ~(i > Len(u)) /\ Occurs(t, u, i)
    <3>1. i + Len(t) \in i + 1 .. n /\ i \in 1 .. Len(u)
      BY <1>0, <2>2 DEF Occurs
    <3>2. PICK p : Traces(p, rest[i + Len(t)], u, t, i + Len(t))
      BY <1>2, <3>1
    <3>3. rest[i + Len(t)] \in Seq(X)
      BY <1>0, <3>1
    <3>4. rest[i] = <<Mark>> \o rest[i + Len(t)]
      BY <2>0, <2>2 DEF RestAt
    <3> QED
      BY <2>2, <3>1, <3>2, <3>3, <3>4, TraceMarked
  <2>3. CASE ~(i > Len(u)) /\ ~Occurs(t, u, i)
    <3>1. i + 1 \in i + 1 .. n /\ i \in 1 .. Len(u)
      BY <1>0, <2>3
    <3>2. PICK p : Traces(p, rest[i + 1], u, t, i + 1)
      BY <1>2, <3>1
    <3>3. rest[i + 1] \in Seq(X)
      BY <1>0, <3>1
    <3>4. rest[i] = <<u[i]>> \o rest[i + 1]
      BY <2>0, <2>3 DEF RestAt
    <3> QED
      BY <2>3, <3>1, <3>2, <3>3, <3>4, TraceKept
  <2> QED
    BY <2>1, <2>2, <2>3
<1>3. \E p : Traces(p, rest[1], u, t, 1)
  <2> HIDE DEF n, S
  <2>1. \A i \in 1 .. n : i \in S
    BY <1>0, <1>2, Backward
  <2>2. 1 \in S
    BY <1>0, <2>1
  <2> QED
    BY <2>2 DEF S
<1> QED
  BY <1>0, <1>1, <1>3

-----------------------------------------------------------------------------
\* Positions a .. a + n of a redacted text: none is a mark; they stand for
\* consecutive positions; consecutive positions from p[a] are all left.
Unmasked(p, a, n) == \A d \in 0 .. n : p[a + d] # 0

Straight(p, v, a, n) == \A d \in 0 .. n : a + d \in 1 .. Len(v) /\ p[a + d] = p[a] + d

StillThere(p, v, a, n) == \A d \in 0 .. n : \E j \in 1 .. Len(v) : p[j] = p[a] + d

\* Lemma: a stretch of v without marks is a stretch of u.
LEMMA Stretch ==
    ASSUME NEW u, Len(u) \in Nat, NEW v, Len(v) \in Nat, NEW p, Embeds(p, v, u),
           NEW a \in 1 .. Len(v), NEW n \in Nat, a + n <= Len(v),
           Unmasked(p, a, n)
    PROVE  Straight(p, v, a, n)
<1> USE DEF Unmasked, Straight
<1> DEFINE S == {d \in 0 .. n : p[a + d] = p[a] + d}
<1>0. Len(v) \in Nat /\ Len(u) \in Nat /\ \A d \in 0 .. n : a + d \in 1 .. Len(v)
  OBVIOUS
<1>1. \A j \in 1 .. Len(v) : p[j] \in 0 .. Len(u)
  BY DEF Embeds
<1>2. ASSUME NEW d \in 0 .. n, \A e \in 0 .. d - 1 : e \in S PROVE d \in S
  <2>1. CASE d = 0
    BY <1>0, <1>1, <2>1
  <2>2. CASE d # 0
    <3>1. d - 1 \in 0 .. d - 1 /\ d - 1 \in 0 .. n
      BY <2>2
    <3>2. p[a + (d - 1)] = p[a] + (d - 1)
      BY <1>2, <3>1
    <3>3. /\ a + (d - 1) \in 1 .. Len(v) /\ a + d \in 1 .. Len(v)
          /\ a + d = (a + (d - 1)) + 1
      BY <1>0, <3>1
    <3>4. p[a + d] = p[a + (d - 1)] + 1
      <4>1. p[a + (d - 1)] # 0 /\ p[a + d] # 0
        BY <3>1
      <4>2. \A j, k \in 1 .. Len(v) : p[j] # 0 /\ p[k] # 0 => (p[k] = p[j] + 1 <=> k = j + 1)
        BY DEF Embeds
      <4> QED
        BY <3>3, <4>1, <4>2
    <3>5. p[a] \in Int
      BY <1>1
    <3> QED
      BY <3>2, <3>4, <3>5, SMTT(30)
  <2> QED
    BY <2>1, <2>2
<1> QED
  <2> HIDE DEF S
  <2>1. \A d \in 0 .. n : d \in S
    BY <1>2, Forward
  <2> QED
    BY <1>0, <2>1 DEF S

\* Lemma: a stretch of u that is left as a whole is a stretch of v.
LEMMA StretchLeft ==
    ASSUME NEW u, Len(u) \in Nat, NEW v, Len(v) \in Nat, NEW p, Embeds(p, v, u),
           NEW a \in 1 .. Len(v), p[a] # 0, NEW n \in Nat,
           StillThere(p, v, a, n)
    PROVE  Straight(p, v, a, n)
<1> USE DEF StillThere, Straight
<1> DEFINE S == {d \in 0 .. n : a + d \in 1 .. Len(v) /\ p[a + d] = p[a] + d}
<1>1. p[a] \in 1 .. Len(u) /\ Len(u) \in Nat /\ Len(v) \in Nat
  BY DEF Embeds
<1>2. ASSUME NEW d \in 0 .. n, \A e \in 0 .. d - 1 : e \in S PROVE d \in S
  <2>1. CASE d = 0
    BY <1>1, <2>1
  <2>2. CASE d # 0
    <3>1. d - 1 \in 0 .. d - 1 /\ d - 1 \in 0 .. n
      BY <2>2
    <3>2. a + (d - 1) \in 1 .. Len(v) /\ p[a + (d - 1)] = p[a] + (d - 1)
      BY <1>2, <3>1
    <3>3. PICK j \in 1 .. Len(v) : p[j] = p[a] + d
      OBVIOUS
    <3>4. p[j] = p[a + (d - 1)] + 1 /\ p[j] # 0 /\ p[a + (d - 1)] # 0
      BY <1>1, <3>1, <3>2, <3>3, SMTT(30)
    <3>5. j = (a + (d - 1)) + 1
      BY <3>2, <3>4 DEF Embeds
    <3>6. j = a + d
      BY <3>5
    <3> QED
      BY <3>3, <3>6
  <2> QED
    BY <2>1, <2>2
<1> QED
  <2> HIDE DEF S
  <2>1. \A d \in 0 .. n : d \in S
    BY <1>2, Forward
  <2> QED
    BY <2>1 DEF S

\* The credentials contain no mark: what log.py puts in their place.
Unmarked(t) == t # <<>> /\ \A d \in 1 .. Len(t) : t[d] # Mark

(***************************************************************************)
(* What occurs in a redacted text occurred, undivided, in the text before. *)
(***************************************************************************)
LEMMA OccursBefore ==
    ASSUME NEW X, NEW u \in Seq(X), NEW v \in Seq(X), NEW p, Embeds(p, v, u),
           NEW t \in Seq(X), Unmarked(t), NEW a \in 1 .. Len(v), Occurs(t, v, a)
    PROVE  /\ p[a] \in 1 .. Len(u)
           /\ Occurs(t, u, p[a])
           /\ Straight(p, v, a, Len(t) - 1)
<1> DEFINE n == Len(t) - 1
<1>0. Len(v) \in Nat /\ Len(u) \in Nat /\ Len(t) \in Nat /\ n \in Nat
  BY DEF Unmarked
<1>1. a + Len(t) <= Len(v) + 1 /\ \A d \in 1 .. Len(t) : v[a + d - 1] = t[d]
  BY OccursAt
<1>2. \A j \in 1 .. Len(v) : v[j] = IF p[j] = 0 THEN Mark ELSE u[p[j]]
  BY DEF Embeds
<1>3. ASSUME NEW d \in 0 .. n
      PROVE  a + d \in 1 .. Len(v) /\ p[a + d] # 0 /\ u[p[a + d]] = t[d + 1]
  <2>1. a + d \in 1 .. Len(v) /\ d + 1 \in 1 .. Len(t) /\ a + d = a + (d + 1) - 1
    BY <1>0, <1>1
  <2>2. v[a + d] = t[d + 1] /\ t[d + 1] # Mark
    BY <1>1, <2>1 DEF Unmarked
  <2> QED
    BY <1>2, <2>1, <2>2
<1>4. Straight(p, v, a, n)
  <2>1. a + n <= Len(v)
    BY <1>0, <1>1
  <2>2. Unmasked(p, a, n)
    BY <1>3 DEF Unmasked
  <2> HIDE DEF n
  <2> QED
    BY <1>0, <2>1, <2>2, Stretch
<1>5. \A j \in 1 .. Len(v) : p[j] \in 0 .. Len(u)
  BY DEF Embeds
<1>6. p[a] \in 1 .. Len(u) /\ p[a] + n <= Len(u)
  <2>1. 0 \in 0 .. n /\ n \in 0 .. n /\ a + 0 = a
    BY <1>0
  <2>2. p[a] # 0 /\ a + n \in 1 .. Len(v) /\ p[a + n] = p[a] + n
    BY <1>3, <1>4, <2>1 DEF Straight
  <2> QED
    BY <1>5, <2>2
<1>7. Occurs(t, u, p[a])
  <2>1. p[a] + Len(t) <= Len(u) + 1 /\ p[a] \in Nat \ {0}
    BY <1>0, <1>6
  <2>2. ASSUME NEW d \in 1 .. Len(t) PROVE u[p[a] + d - 1] = t[d]
    <3>1. d - 1 \in 0 .. n /\ (d - 1) + 1 = d /\ p[a] + (d - 1) = p[a] + d - 1
      BY <1>0, <1>6
    <3> QED
      BY <1>3, <1>4, <3>1 DEF Straight
  <2> QED
    BY <2>1, <2>2, OccursAt
<1> QED
  BY <1>4, <1>6, <1>7

\* Lemma: an occurrence of which everything is left occurs still.
LEMMA OccursStill ==
    ASSUME NEW X, NEW u \in Seq(X), NEW v \in Seq(X), NEW p, Embeds(p, v, u),
           NEW t \in Seq(X), t # <<>>, NEW a \in 1 .. Len(v), p[a] # 0,
           Occurs(t, u, p[a]),
           StillThere(p, v, a, Len(t) - 1)
    PROVE  Occurs(t, v, a) /\ Straight(p, v, a, Len(t) - 1)
<1> DEFINE n == Len(t) - 1
<1>0. Len(v) \in Nat /\ Len(u) \in Nat /\ Len(t) \in Nat /\ n \in Nat
  OBVIOUS
<1>1. Straight(p, v, a, n)
  <2>1. StillThere(p, v, a, n)
    OBVIOUS
  <2> HIDE DEF n
  <2> QED
    BY <1>0, <2>1, StretchLeft
<1>2. p[a] \in Nat \ {0}
  BY SMTT(30) DEF Embeds
<1>3. \A d \in 1 .. Len(t) : u[p[a] + d - 1] = t[d]
  <2>1. PICK b \in Nat \ {0} : b = p[a]
    BY <1>2
  <2>2. Occurs(t, u, b)
    BY <2>1
  <2>3. \A d \in 1 .. Len(t) : u[b + d - 1] = t[d]
    BY <2>2, OccursAt
  <2> QED
    BY <2>1, <2>3
<1>4. a + Len(t) <= Len(v) + 1
  <2>1. n \in 0 .. n
    BY <1>0
  <2>2. a + n \in 1 .. Len(v)
    BY <1>1, <2>1 DEF Straight
  <2> QED
    BY <1>0, <2>2
<1>5. ASSUME NEW d \in 1 .. Len(t) PROVE v[a + d - 1] = t[d]
  <2>1. d - 1 \in 0 .. n /\ a + (d - 1) = a + d - 1 /\ p[a] + (d - 1) = p[a] + d - 1
    BY <1>0, <1>2
  <2>2. a + d - 1 \in 1 .. Len(v) /\ p[a + d - 1] = p[a] + d - 1
    BY <1>1, <2>1 DEF Straight
  <2>3. p[a] + d - 1 # 0
    BY <1>2
  <2>4. v[a + d - 1] = u[p[a] + d - 1]
    BY <2>2, <2>3 DEF Embeds
  <2> QED
    BY <1>3, <2>4
<1> QED
  BY <1>1, <1>4, <1>5, OccursAt

\* Lemma: redacting what is redacted already.
LEMMA EmbedsTwice ==
    ASSUME NEW X, NEW x \in Seq(X), NEW u \in Seq(X), NEW v \in Seq(X),
           NEW p, NEW q, Embeds(p, v, u), Embeds(q, u, x)
    PROVE  Embeds([j \in 1 .. Len(v) |-> IF p[j] = 0 THEN 0 ELSE q[p[j]]], v, x)
<1> DEFINE r == [j \in 1 .. Len(v) |-> IF p[j] = 0 THEN 0 ELSE q[p[j]]]
<1>1. /\ p \in [1 .. Len(v) -> 0 .. Len(u)]
      /\ q \in [1 .. Len(u) -> 0 .. Len(x)]
      /\ Len(v) \in Nat /\ Len(u) \in Nat /\ Len(x) \in Nat
  BY DEF Embeds
<1>2. ASSUME NEW j \in 1 .. Len(v), p[j] # 0 PROVE p[j] \in 1 .. Len(u) /\ r[j] = q[p[j]]
  <2>1. p[j] \in 0 .. Len(u)
    BY <1>1
  <2> QED
    BY <1>1, <1>2, <2>1
<1>3. r \in [1 .. Len(v) -> 0 .. Len(x)]
  BY <1>1
<1>4. ASSUME NEW j \in 1 .. Len(v) PROVE v[j] = IF r[j] = 0 THEN Mark ELSE x[r[j]]
  <2>1. CASE p[j] = 0
    BY <2>1 DEF Embeds
  <2>2. CASE p[j] # 0
    BY <1>2, <2>2 DEF Embeds
  <2> QED
    BY <2>1, <2>2
<1>5. ASSUME NEW j \in 1 .. Len(v), NEW k \in 1 .. Len(v), r[j] # 0, r[k] # 0
      PROVE  (j < k => r[j] < r[k]) /\ (r[k] = r[j] + 1 <=> k = j + 1)
  <2>1. p[j] # 0 /\ p[k] # 0
    BY <1>5
  <2>2. /\ p[j] \in 1 .. Len(u) /\ r[j] = q[p[j]]
        /\ p[k] \in 1 .. Len(u) /\ r[k] = q[p[k]]
    BY <1>2, <2>1
  <2>3. (j < k => p[j] < p[k]) /\ (p[k] = p[j] + 1 <=> k = j + 1)
    BY <2>1 DEF Embeds
  <2>4. (p[j] < p[k] => q[p[j]] < q[p[k]]) /\ (q[p[k]] = q[p[j]] + 1 <=> p[k] = p[j] + 1)
    BY <1>5, <2>2 DEF Embeds
  <2> QED
    BY <2>2, <2>3, <2>4
<1> HIDE DEF r
<1>6. Embeds(r, v, x)
  BY <1>3, <1>4, <1>5 DEF Embeds
<1> QED
  BY <1>6 DEF r

-----------------------------------------------------------------------------
(***************************************************************************)
(* str.replace leaves no occurrence of the value it replaces, and makes    *)
(* none of a value that did not occur.                                     *)
(***************************************************************************)
LEMMA NoneAppears ==
    ASSUME NEW X, Mark \in X, NEW u \in Seq(X), NEW s \in Seq(X), s # <<>>,
           NEW t \in Seq(X), Unmarked(t),
           t = s \/ \A i \in 1 .. Len(u) : ~Occurs(t, u, i)
    PROVE  \A i \in 1 .. Len(Replace(u, s)) : ~Occurs(t, Replace(u, s), i)
<1> DEFINE v == Replace(u, s)
<1>1. v \in Seq(X)
  BY ReplaceTrace
<1>2. PICK p : Traces(p, v, u, s, 1)
  BY ReplaceTrace
<1> HIDE DEF v
<1>3. ASSUME NEW i \in 1 .. Len(v), Occurs(t, v, i) PROVE FALSE
  <2>1. Embeds(p, v, u)
    BY <1>2 DEF Traces
  <2>2. p[i] \in 1 .. Len(u) /\ Occurs(t, u, p[i])
    BY <1>1, <1>3, <2>1, OccursBefore
  <2>3. ~Occurs(s, u, p[i])
    BY <1>2, <1>3, <2>2 DEF Traces
  <2> QED
    BY <2>2, <2>3
<1> QED
  BY <1>3 DEF v

\* Position i of a text is inside an occurrence of a value of S.
CoveredBy(S, text, i) ==
    \E s \in S : \E k \in 1 .. i : i < k + Len(s) /\ Occurs(s, text, k)

\* v is what is left of a text outside the occurrences of S.
Masks(p, v, text, S) ==
    /\ Embeds(p, v, text)
    /\ \A i \in 1 .. Len(text) : (\E j \in 1 .. Len(v) : p[j] = i) <=> ~CoveredBy(S, text, i)

\* An occurrence of t meets one of S, or another of t, only inside it.
Fits(t, S, text) ==
    \A s \in S \cup {t} : \A k, l \in 1 .. Len(text) :
        Occurs(t, text, k) /\ Occurs(s, text, l) =>
            \/ k + Len(t) <= l
            \/ l + Len(s) <= k
            \/ l <= k /\ k + Len(t) <= l + Len(s)

(***************************************************************************)
(* Replacing one more value masks what it covers, and nothing else.        *)
(***************************************************************************)
LEMMA MaskStep ==
    ASSUME NEW X, Mark \in X, NEW x \in Seq(X), NEW u \in Seq(X),
           NEW t \in Seq(X), Unmarked(t), NEW S, \A s \in S : s \in Seq(X),
           NEW q, Masks(q, u, x, S), Fits(t, S, x)
    PROVE  \E r : Masks(r, Replace(u, t), x, S \cup {t})
<1> DEFINE v == Replace(u, t)
<1>0. t # <<>> /\ Len(t) \in Nat /\ Len(t) >= 1 /\ Len(u) \in Nat /\ Len(x) \in Nat
  BY DEF Unmarked
<1>1. v \in Seq(X)
  BY <1>0, ReplaceTrace
<1>2. PICK p : Traces(p, v, u, t, 1)
  BY <1>0, ReplaceTrace
<1> HIDE DEF v
<1>3. Embeds(p, v, u) /\ Embeds(q, u, x)
  BY <1>2 DEF Traces, Masks
<1> DEFINE r == [j \in 1 .. Len(v) |-> IF p[j] = 0 THEN 0 ELSE q[p[j]]]
<1>4. Embeds(r, v, x)
  BY <1>1, <1>3, EmbedsTwice
<1>5. \A j \in 1 .. Len(v) : r[j] = IF p[j] = 0 THEN 0 ELSE q[p[j]]
  OBVIOUS
<1>6. \A j \in 1 .. Len(v) : p[j] \in 0 .. Len(u)
  BY <1>3 DEF Embeds
<1>7. \A a \in 1 .. Len(u) : q[a] \in 0 .. Len(x)
  BY <1>3 DEF Embeds
<1> HIDE DEF r
<1>8. Apart(t, u)
  <2> SUFFICES ASSUME NEW k \in 1 .. Len(u), NEW l \in 1 .. Len(u),
                      Occurs(t, u, k), Occurs(t, u, l), k < l, ~(k + Len(t) <= l)
               PROVE  FALSE
    BY DEF Apart
  <2>1. q[k] \in 1 .. Len(x) /\ Occurs(t, x, q[k]) /\ Straight(q, u, k, Len(t) - 1)
    BY <1>3, OccursBefore
  <2>2. q[l] \in 1 .. Len(x) /\ Occurs(t, x, q[l])
    BY <1>3, OccursBefore
  <2>3. q[k + (l - k)] = q[k] + (l - k)
    <3>1. l - k \in 0 .. Len(t) - 1
      BY <1>0
    <3> QED
      BY <2>1, <3>1 DEF Straight
  <2>4. q[l] = q[k] + (l - k)
    BY <2>3
  <2>5. \/ q[k] + Len(t) <= q[l]
        \/ q[l] + Len(t) <= q[k]
        \/ q[l] <= q[k] /\ q[k] + Len(t) <= q[l] + Len(t)
    BY <2>1, <2>2 DEF Fits
  <2> QED
    BY <1>0, <2>1, <2>2, <2>4, <2>5
<1>9. ASSUME NEW i \in 1 .. Len(x), NEW j \in 1 .. Len(v), r[j] = i
      PROVE  ~CoveredBy(S \cup {t}, x, i)
  <2>1. p[j] \in 1 .. Len(u) /\ q[p[j]] = i
    BY <1>5, <1>6, <1>9
  <2>2. ~CoveredBy(S, x, i)
    BY <2>1 DEF Masks
  <2>3. ASSUME NEW k \in 1 .. i, i < k + Len(t), Occurs(t, x, k) PROVE FALSE
    <3>0. k \in 1 .. Len(x) /\ k + Len(t) <= Len(x) + 1
      BY <2>3 DEF Occurs
    <3>1. ASSUME NEW d \in 0 .. Len(t) - 1 PROVE \E a \in 1 .. Len(u) : q[a] = k + d
      <4>1. k + d \in 1 .. Len(x)
        BY <1>0, <3>0
      <4>2. ASSUME NEW s \in S, NEW l \in 1 .. k + d, k + d < l + Len(s), Occurs(s, x, l)
            PROVE  FALSE
        <5>1. l \in 1 .. Len(x) /\ Len(s) \in Nat
          BY <4>1
        <5>2. \/ k + Len(t) <= l
              \/ l + Len(s) <= k
              \/ l <= k /\ k + Len(t) <= l + Len(s)
          BY <2>3, <3>0, <4>2, <5>1 DEF Fits
        <5>3. l <= k /\ k + Len(t) <= l + Len(s)
          BY <1>0, <4>2, <5>1, <5>2
        <5>4. l \in 1 .. i /\ i < l + Len(s)
          BY <1>0, <2>3, <5>1, <5>3
        <5> QED
          BY <2>2, <4>2, <5>4 DEF CoveredBy
      <4>3. ~CoveredBy(S, x, k + d)
        BY <4>2 DEF CoveredBy
      <4> QED
        BY <4>1, <4>3 DEF Masks
    <3>2. PICK a \in 1 .. Len(u) : q[a] = k
      <4>1. 0 \in 0 .. Len(t) - 1 /\ k + 0 = k
        BY <1>0
      <4> QED
        BY <3>1, <4>1
    <3>3. StillThere(q, u, a, Len(t) - 1)
      BY <3>1, <3>2 DEF StillThere
    <3>4. Occurs(t, u, a) /\ Straight(q, u, a, Len(t) - 1)
      <4>1. q[a] # 0 /\ Occurs(t, x, q[a])
        BY <2>3, <3>2
      <4> QED
        BY <1>0, <1>3, <3>3, <4>1, OccursStill
    <3>5. a + (i - k) \in 1 .. Len(u) /\ q[a + (i - k)] = i
      <4>1. i - k \in 0 .. Len(t) - 1
        BY <1>0, <2>3
      <4>2. a + (i - k) \in 1 .. Len(u) /\ q[a + (i - k)] = q[a] + (i - k)
        BY <3>4, <4>1 DEF Straight
      <4> QED
        BY <3>2, <4>2
    <3>6. p[j] = a + (i - k)
      <4>1. \A b, c \in 1 .. Len(u) : b < c /\ q[b] # 0 /\ q[c] # 0 => q[b] < q[c]
        BY <1>3 DEF Embeds
      <4>2. \A b, c \in 1 .. Len(u) : q[b] = i /\ q[c] = i => b = c
        BY <4>1
      <4> QED
        BY <2>1, <3>5, <4>2
    <3>7. a \in 1 .. p[j] /\ p[j] # 0
      BY <2>1, <3>2, <3>6
    <3>8. a + Len(t) <= p[j]
      BY <1>2, <1>8, <3>4, <3>7 DEF Traces
    <3> QED
      BY <1>0, <2>3, <3>6, <3>8
  <2> QED
    BY <2>2, <2>3 DEF CoveredBy
<1>10. ASSUME NEW i \in 1 .. Len(x), ~CoveredBy(S \cup {t}, x, i)
       PROVE  \E j \in 1 .. Len(v) : r[j] = i
  <2>1. ~CoveredBy(S, x, i)
    BY <1>10 DEF CoveredBy
  <2>2. PICK a \in 1 .. Len(u) : q[a] = i
    BY <2>1 DEF Masks
  <2>3. ASSUME NEW k \in 1 .. a, a < k + Len(t), Occurs(t, u, k) PROVE FALSE
    <3>1. k \in 1 .. Len(u)
      OBVIOUS
    <3>2. q[k] \in 1 .. Len(x) /\ Occurs(t, x, q[k]) /\ Straight(q, u, k, Len(t) - 1)
      BY <1>3, <2>3, <3>1, OccursBefore
    <3>3. q[k + (a - k)] = q[k] + (a - k)
      <4>1. a - k \in 0 .. Len(t) - 1
        BY <1>0, <2>3
      <4> QED
        BY <3>2, <4>1 DEF Straight
    <3>4. i = q[k] + (a - k)
      BY <2>2, <3>3
    <3>5. q[k] \in 1 .. i /\ i < q[k] + Len(t)
      BY <1>0, <2>3, <3>2, <3>4
    <3> QED
      BY <1>10, <3>2, <3>5 DEF CoveredBy
  <2>4. PICK j \in 1 .. Len(v) : p[j] = a
    BY <1>2, <2>3 DEF Traces
  <2> QED
    BY <1>5, <2>2, <2>4
<1>11. Masks(r, v, x, S \cup {t})
  BY <1>4, <1>9, <1>10 DEF Masks
<1> QED
  BY <1>11 DEF v

-----------------------------------------------------------------------------
\* S, longest first.
Ordered(order, S) ==
    /\ order \in [1 .. Cardinality(S) -> S]
    /\ Range(order) = S
    /\ \A i, j \in DOMAIN order : i < j => Len(order[i]) >= Len(order[j])

(***************************************************************************)
(* Every finite set of sequences has such an order: one without would have *)
(* a smallest part without, whose shortest element could come last.        *)
(***************************************************************************)
LEMMA OrderExists ==
    ASSUME NEW S, IsFiniteSet(S), \A s \in S : Len(s) \in Nat
    PROVE  \E order : Ordered(order, S)
<1> DEFINE bad == {T \in SUBSET S : ~\E order : Ordered(order, T)}
<1> SUFFICES ASSUME bad # {} PROVE FALSE
  OBVIOUS
<1>0. \A T \in SUBSET S : IsFiniteSet(T)
  BY FS_Subset
<1>1. PICK T \in bad : \A U \in bad : ~(<<U, T>> \in StrictSubsetOrdering(S))
  <2>1. IsWellFoundedOn(StrictSubsetOrdering(S), FiniteSubsetsOf(S))
    BY FS_StrictSubsetOrderingWellFounded
  <2>2. bad \subseteq FiniteSubsetsOf(S) /\ bad # {}
    BY <1>0 DEF FiniteSubsetsOf
  <2> HIDE DEF bad
  <2> QED
    BY <2>1, <2>2, WFMin, Zenon
<1>2. CASE T = {}
  <2>1. Cardinality(T) = 0
    BY <1>2, FS_EmptySet
  <2> DEFINE order == [i \in 1 .. 0 |-> i]
  <2>2. order \in [1 .. Cardinality(T) -> T] /\ DOMAIN order = {}
    BY <2>1
  <2> HIDE DEF order
  <2>3. Ordered(order, T)
    BY <1>2, <2>2 DEF Ordered, Range
  <2> QED
    BY <2>3
<1>3. CASE T # {}
  <2>1. PICK x \in T : \A s \in T : Len(x) <= Len(s)
    <3> DEFINE lengths == {Len(s) : s \in T}
    <3>1. lengths \in SUBSET Nat /\ lengths # {}
      BY <1>3
    <3>2. \E m \in lengths : \A n \in lengths : m <= n
      <4> HIDE DEF lengths
      <4> QED
        BY <3>1, FirstNumber
    <3> QED
      BY <3>2
  <2> DEFINE U == T \ {x}
             n == Cardinality(U)
  <2>2. /\ IsFiniteSet(U) /\ n \in Nat /\ Cardinality(T) = n + 1
    <3>1. IsFiniteSet(T)
      BY <1>0
    <3>2. IsFiniteSet(U) /\ Cardinality(U) = Cardinality(T) - 1
      BY <3>1, FS_RemoveElement
    <3>3. Cardinality(U) \in Nat /\ Cardinality(T) \in Nat
      BY <3>1, <3>2, FS_CardinalityType
    <3> QED
      BY <3>2, <3>3
  <2>3. PICK order : Ordered(order, U)
    <3>1. U \in SUBSET S /\ T \in SUBSET S /\ U \subseteq T /\ U # T
      OBVIOUS
    <3>2. <<U, T>> \in StrictSubsetOrdering(S)
      <4> HIDE DEF U, bad
      <4> QED
        BY <3>1 DEF StrictSubsetOrdering
    <3>3. U \notin bad
      BY <1>1, <3>2
    <3> QED
      BY <3>1, <3>3
  <2> DEFINE longer == [i \in 1 .. n + 1 |-> IF i = n + 1 THEN x ELSE order[i]]
  <2>4. /\ DOMAIN order = 1 .. n
        /\ \A i \in 1 .. n : order[i] \in U
        /\ \A y \in U : \E i \in 1 .. n : order[i] = y
        /\ \A i, j \in 1 .. n : i < j => Len(order[i]) >= Len(order[j])
    BY <2>3 DEF Ordered, Range
  <2>11. \A y \in T : y = x \/ y \in U
    OBVIOUS
  <2>12. U \subseteq T
    OBVIOUS
  <2> HIDE DEF n, U
  <2>5. longer[n + 1] = x /\ \A i \in 1 .. n : longer[i] = order[i]
    BY <2>2
  <2>6. longer \in [1 .. n + 1 -> T]
    BY <2>2, <2>4, <2>12
  <2>7. DOMAIN longer = 1 .. n + 1
    OBVIOUS
  <2>8. \A y \in T : \E i \in 1 .. n + 1 : longer[i] = y
    <3> SUFFICES ASSUME NEW y \in T PROVE \E i \in 1 .. n + 1 : longer[i] = y
      OBVIOUS
    <3> HIDE DEF longer
    <3>1. CASE y = x
      BY <2>2, <2>5, <3>1
    <3>2. CASE y # x
      <4>1. PICK i \in 1 .. n : order[i] = y
        BY <2>4, <2>11, <3>2
      <4>2. i \in 1 .. n + 1
        BY <2>2
      <4> QED
        BY <2>5, <4>1, <4>2
    <3> QED
      BY <3>1, <3>2
  <2>9. ASSUME NEW i \in 1 .. n + 1, NEW j \in 1 .. n + 1, i < j
        PROVE  Len(longer[i]) >= Len(longer[j])
    <3> HIDE DEF longer
    <3>1. i \in 1 .. n
      BY <2>2, <2>9
    <3>2. longer[i] = order[i] /\ order[i] \in T
      BY <2>4, <2>5, <2>12, <3>1
    <3>3. CASE j = n + 1
      <4>1. Len(x) <= Len(order[i]) /\ Len(x) \in Nat /\ Len(order[i]) \in Nat
        BY <2>1, <3>2
      <4> QED
        BY <2>5, <3>2, <3>3, <4>1
    <3>4. CASE j # n + 1
      <4>1. j \in 1 .. n
        BY <2>2, <3>4
      <4> QED
        BY <2>4, <2>5, <2>9, <3>1, <4>1
    <3> QED
      BY <3>3, <3>4
  <2> HIDE DEF longer
  <2>10. Ordered(longer, T)
    <3>1. Range(longer) = T
      BY <2>6, <2>7, <2>8 DEF Range
    <3> QED
      BY <2>2, <2>6, <2>7, <2>9, <3>1 DEF Ordered
  <2> QED
    BY <2>10
<1> QED
  BY <1>2, <1>3

\* Lemma: so have the credentials, and LongestFirst is one.
LEMMA LongestFirstIsOrdered == Ordered(LongestFirst, Secrets)
<1>1. IsFiniteSet(Secrets) /\ \A s \in Secrets : Len(s) \in Nat
  BY TranscriptAssumption
<1>2. \E order : Ordered(order, Secrets)
  BY <1>1, OrderExists
<1> DEFINE Order == [1 .. Cardinality(Secrets) -> Secrets]
           Fine(order) == /\ Range(order) = Secrets
                          /\ \A i, j \in DOMAIN order : i < j => Len(order[i]) >= Len(order[j])
<1>3. \E order \in Order : Fine(order)
  BY <1>2 DEF Ordered
<1>4. LongestFirst = CHOOSE order \in Order : Fine(order)
  BY DEF LongestFirst
<1>5. LongestFirst \in Order /\ Fine(LongestFirst)
  <2> HIDE DEF Order, Fine
  <2> QED
    BY <1>3, <1>4
<1> QED
  BY <1>5 DEF Ordered

\* Lemma: the last of a set of positions.
LEMMA MaxIsLast ==
    ASSUME NEW n \in Nat, NEW s \in SUBSET (1 .. n), s # {}
    PROVE  Max(s) \in s /\ \A i \in s : i <= Max(s)
<1>1. \E i \in s : \A j \in s : j <= i
  BY LastPosition
<1>2. \E i \in s : \A j \in s : i >= j
  BY <1>1
<1>3. Max(s) \in s /\ \A j \in s : Max(s) >= j
  BY <1>2 DEF Max
<1> QED
  BY <1>3

\* What the fold of Redact computes for a set of places in the order.
FoldAt(f, text, order, s) ==
    IF s = {} THEN text ELSE Replace(f[s \ {Max(s)}], order[Max(s)])

\* f has what is left of a text after each value of the order.
OneByOne(f, n, order, text) ==
    /\ Redact(text) = f[n]
    /\ f[0] = text
    /\ \A i \in 0 .. n - 1 : f[i + 1] = Replace(f[i], order[i + 1])

(***************************************************************************)
(* Redact replaces one value after the other.                              *)
(***************************************************************************)
LEMMA RedactOneByOne ==
    ASSUME NEW n \in Nat, DOMAIN LongestFirst = 1 .. n, NEW text
    PROVE  \E f : OneByOne(f, n, LongestFirst, text)
<1> DEFINE order == LongestFirst
<1> DEFINE Solves(f, m) == f = [s \in SUBSET (1 .. m) |-> FoldAt(f, text, order, s)]
           S == {m \in 0 .. n : \E f : Solves(f, m)}
<1>1. ASSUME NEW m \in 0 .. n, \A k \in 0 .. m - 1 : k \in S PROVE m \in S
  <2>1. CASE m = 0
    <3> DEFINE f == [s \in SUBSET (1 .. m) |-> text]
    <3>1. \A s \in SUBSET (1 .. m) : s = {}
      BY <2>1
    <3>2. f = [s \in SUBSET (1 .. m) |-> FoldAt(f, text, order, s)]
      <4>1. \A s \in SUBSET (1 .. m) : FoldAt(f, text, order, s) = text
        BY <3>1 DEF FoldAt
      <4> QED
        BY <4>1
    <3>3. Solves(f, m)
      BY <3>2
    <3> QED
      BY <3>3
  <2>2. CASE m # 0
    <3>1. PICK f : Solves(f, m - 1)
      <4>1. m - 1 \in 0 .. m - 1
        BY <2>2
      <4> QED
        BY <1>1, <4>1
    <3> DEFINE g == [s \in SUBSET (1 .. m) |->
                        IF m \in s THEN Replace(f[s \ {m}], order[m]) ELSE f[s]]
    <3>2. \A s \in SUBSET (1 .. m - 1) : g[s] = f[s] /\ f[s] = FoldAt(f, text, order, s)
      <4>1. \A s \in SUBSET (1 .. m - 1) : s \in SUBSET (1 .. m) /\ m \notin s
        BY <2>2
      <4> QED
        BY <3>1, <4>1
    <3>3. ASSUME NEW s \in SUBSET (1 .. m) PROVE g[s] = FoldAt(g, text, order, s)
      <4>1. CASE m \in s
        <5>1. Max(s) = m
          <6>1. m \in Nat
            OBVIOUS
          <6>2. Max(s) \in s /\ \A i \in s : i <= Max(s)
            BY <4>1, <6>1, MaxIsLast
          <6>3. Max(s) \in 1 .. m /\ m <= Max(s)
            BY <4>1, <6>2
          <6> QED
            BY <6>1, <6>3
        <5>2. s \ {m} \in SUBSET (1 .. m - 1)
          OBVIOUS
        <5>3. g[s] = Replace(f[s \ {m}], order[m])
          BY <4>1
        <5> HIDE DEF g
        <5> QED
          BY <3>2, <4>1, <5>1, <5>2, <5>3 DEF FoldAt
      <4>2. CASE m \notin s
        <5>1. s \in SUBSET (1 .. m - 1)
          BY <4>2
        <5> HIDE DEF g
        <5>2. g[s] = FoldAt(f, text, order, s)
          BY <3>2, <5>1
        <5>3. CASE s = {}
          BY <5>2, <5>3 DEF FoldAt
        <5>4. CASE s # {}
          <6>1. s \ {Max(s)} \in SUBSET (1 .. m - 1)
            BY <5>1
          <6>2. g[s \ {Max(s)}] = f[s \ {Max(s)}]
            BY <3>2, <6>1
          <6> QED
            BY <5>2, <5>4, <6>2 DEF FoldAt
        <5> QED
          BY <5>3, <5>4
      <4> QED
        BY <4>1, <4>2
    <3>4. g = [s \in SUBSET (1 .. m) |-> g[s]]
      OBVIOUS
    <3> HIDE DEF g
    <3>5. Solves(g, m)
      BY <3>3, <3>4
    <3> QED
      BY <3>5
  <2> QED
    BY <2>1, <2>2
<1>2. \E f : Solves(f, n)
  <2> HIDE DEF S
  <2>1. \A m \in 0 .. n : m \in S
    BY <1>1, Forward
  <2>2. n \in S
    BY <2>1
  <2> QED
    BY <2>2 DEF S
<1> DEFINE Equation(f) == f = [s \in SUBSET DOMAIN order |->
                              IF s = {} THEN text
                              ELSE Replace(f[s \ {Max(s)}], order[Max(s)])]
           iter == CHOOSE f : Equation(f)
<1>3. Redact(text) = iter[DOMAIN order]
  BY DEF Redact, FoldLeft, MapThenFoldSet
<1>4. \E f : Equation(f)
  BY <1>2 DEF FoldAt
<1>5. Equation(iter)
  <2> HIDE DEF Equation
  <2> QED
    BY <1>4
<1> HIDE DEF iter
<1>6. \A s \in SUBSET (1 .. n) : iter[s] = FoldAt(iter, text, order, s)
  BY <1>5 DEF FoldAt
<1> HIDE DEF Equation
<1> DEFINE f == [i \in 0 .. n |-> iter[1 .. i]]
<1>7. f[n] = iter[1 .. n] /\ f[0] = text
  <2>1. f[0] = iter[1 .. 0] /\ f[n] = iter[1 .. n]
    OBVIOUS
  <2>2. 1 .. 0 = {} /\ {} \in SUBSET (1 .. n)
    OBVIOUS
  <2>3. iter[{}] = text
    BY <1>6, <2>2 DEF FoldAt
  <2> QED
    BY <2>1, <2>2, <2>3
<1>8. ASSUME NEW i \in 0 .. n - 1 PROVE f[i + 1] = Replace(f[i], order[i + 1])
  <2>0. i \in Nat /\ i + 1 <= n
    OBVIOUS
  <2> DEFINE s == 1 .. i + 1
  <2>1. s \in SUBSET (1 .. n) /\ s # {} /\ i + 1 \in s
    <3>1. \A j \in s : j \in 1 .. n
      BY <2>0
    <3>2. i + 1 \in s
      BY <2>0
    <3> QED
      BY <3>1, <3>2
  <2>2. Max(s) = i + 1
    <3>1. Max(s) \in s /\ \A j \in s : j <= Max(s)
      <4> HIDE DEF s
      <4> QED
        BY <2>1, MaxIsLast
    <3> QED
      BY <2>1, <3>1
  <2>3. s \ {i + 1} = 1 .. i
    OBVIOUS
  <2>4. iter[s] = Replace(iter[1 .. i], order[i + 1])
    <3> HIDE DEF s
    <3> QED
      BY <1>6, <2>1, <2>2, <2>3 DEF FoldAt
  <2>5. f[i + 1] = iter[s] /\ f[i] = iter[1 .. i]
    OBVIOUS
  <2> QED
    BY <2>4, <2>5
<1> HIDE DEF f
<1> QED
  BY <1>3, <1>7, <1>8 DEF OneByOne

-----------------------------------------------------------------------------
\* e lists the positions of K in their order, and there are m of them.
Picks(e, m, K) ==
    /\ e \in [1 .. m -> K]
    /\ \A j, k \in 1 .. m : j < k => e[j] < e[k]
    /\ \A i \in K : \E j \in 1 .. m : e[j] = i

\* Lemma: there is one such list.
LEMMA PicksUnique ==
    ASSUME NEW K \in SUBSET Nat, NEW m \in Nat, NEW n \in Nat, NEW e, NEW d,
           Picks(e, m, K), Picks(d, n, K)
    PROVE  m = n /\ \A j \in 1 .. m : e[j] = d[j]
<1> DEFINE S == {j \in 0 .. m : j >= 1 /\ j <= n => e[j] = d[j]}
<1>1. /\ \A j \in 1 .. m : e[j] \in K /\ e[j] \in Nat
      /\ \A j \in 1 .. n : d[j] \in K /\ d[j] \in Nat
  BY DEF Picks
<1>2. ASSUME NEW j \in 0 .. m, \A k \in 0 .. j - 1 : k \in S PROVE j \in S
  <2> SUFFICES ASSUME j \in 1 .. m, j \in 1 .. n, e[j] # d[j] PROVE FALSE
    OBVIOUS
  <2>1. CASE e[j] < d[j]
    <3>1. PICK k \in 1 .. n : d[k] = e[j]
      BY <1>1 DEF Picks
    <3>2. k < j
      <4>1. \A i, l \in 1 .. n : i < l => d[i] < d[l]
        BY DEF Picks
      <4> QED
        BY <1>1, <2>1, <3>1, <4>1
    <3>3. e[k] = d[k] /\ k \in 1 .. m
      BY <1>2, <3>2
    <3>4. e[k] < e[j]
      BY <3>2, <3>3 DEF Picks
    <3> QED
      BY <1>1, <3>1, <3>3, <3>4
  <2>2. CASE d[j] < e[j]
    <3>1. PICK k \in 1 .. m : e[k] = d[j]
      BY <1>1 DEF Picks
    <3>2. k < j
      <4>1. \A i, l \in 1 .. m : i < l => e[i] < e[l]
        BY DEF Picks
      <4> QED
        BY <1>1, <2>2, <3>1, <4>1
    <3>3. e[k] = d[k] /\ k \in 1 .. n
      BY <1>2, <3>2
    <3>4. d[k] < d[j]
      BY <3>2, <3>3 DEF Picks
    <3> QED
      BY <1>1, <3>1, <3>3, <3>4
  <2> QED
    BY <1>1, <2>1, <2>2
<1>3. \A j \in 1 .. m : j <= n => e[j] = d[j]
  <2> HIDE DEF S
  <2>1. \A j \in 0 .. m : j \in S
    BY <1>2, Forward
  <2> QED
    BY <2>1 DEF S
<1>4. ~(m < n)
  <2> SUFFICES ASSUME m < n PROVE FALSE
    OBVIOUS
  <2>1. m + 1 \in 1 .. n /\ d[m + 1] \in K
    BY <1>1
  <2>2. PICK k \in 1 .. m : e[k] = d[m + 1]
    BY <2>1 DEF Picks
  <2>3. d[k] = d[m + 1] /\ k \in 1 .. n /\ k < m + 1
    BY <1>3, <2>2
  <2>4. d[k] < d[m + 1]
    BY <2>1, <2>3 DEF Picks
  <2> QED
    BY <1>1, <2>1, <2>3, <2>4
<1>5. ~(n < m)
  <2> SUFFICES ASSUME n < m PROVE FALSE
    OBVIOUS
  <2>1. n + 1 \in 1 .. m /\ e[n + 1] \in K
    BY <1>1
  <2>2. PICK k \in 1 .. n : d[k] = e[n + 1]
    BY <2>1 DEF Picks
  <2>3. e[k] = e[n + 1] /\ k \in 1 .. m /\ k < n + 1
    BY <1>3, <2>2
  <2>4. e[k] < e[n + 1]
    BY <2>1, <2>3 DEF Picks
  <2> QED
    BY <1>1, <2>1, <2>3, <2>4
<1> QED
  BY <1>3, <1>4, <1>5

\* What Keep computes at i.
KeepAt(f, text, K, i) ==
    IF i = 0 THEN <<>>
    ELSE IF i \in K THEN Append(f[i - 1], text[i])
    ELSE f[i - 1]

(***************************************************************************)
(* Keep lists the symbols at the positions of K.                           *)
(***************************************************************************)
LEMMA KeepPicks ==
    ASSUME NEW X, NEW text \in Seq(X), NEW K \in SUBSET (1 .. Len(text))
    PROVE  /\ Keep(text, K) \in Seq(X)
           /\ \E e : /\ Picks(e, Len(Keep(text, K)), K)
                     /\ \A j \in 1 .. Len(Keep(text, K)) : Keep(text, K)[j] = text[e[j]]
<1> DEFINE n == Len(text)
           Solves(f, m) == f = [i \in 0 .. m |-> KeepAt(f, text, K, i)]
           S == {m \in 0 .. n : \E f : Solves(f, m)}
<1>0. n \in Nat /\ \A k \in K : k \in Nat /\ 1 <= k /\ k <= n
  OBVIOUS
<1>1. ASSUME NEW m \in 0 .. n, \A k \in 0 .. m - 1 : k \in S PROVE m \in S
  <2>1. CASE m = 0
    <3> DEFINE f == [i \in 0 .. m |-> <<>>]
    <3>1. f = [i \in 0 .. m |-> KeepAt(f, text, K, i)]
      BY <2>1 DEF KeepAt
    <3>2. Solves(f, m)
      BY <3>1
    <3> QED
      BY <3>2
  <2>2. CASE m # 0
    <3>1. PICK f : Solves(f, m - 1)
      <4>1. m - 1 \in 0 .. m - 1
        BY <2>2
      <4> QED
        BY <1>1, <4>1
    <3> DEFINE g == [i \in 0 .. m |-> IF i = m THEN KeepAt(f, text, K, m) ELSE f[i]]
    <3>2. g[m] = KeepAt(f, text, K, m) /\ \A i \in 0 .. m - 1 : g[i] = f[i]
      BY <2>2
    <3>3. g = [i \in 0 .. m |-> g[i]]
      OBVIOUS
    <3> HIDE DEF g
    <3>4. ASSUME NEW i \in 0 .. m PROVE KeepAt(g, text, K, i) = KeepAt(f, text, K, i)
      <4>1. CASE i = 0
        BY <4>1 DEF KeepAt
      <4>2. CASE i # 0
        <5>1. g[i - 1] = f[i - 1]
          BY <3>2, <4>2
        <5> QED
          BY <4>2, <5>1 DEF KeepAt
      <4> QED
        BY <4>1, <4>2
    <3>5. \A i \in 0 .. m - 1 : f[i] = KeepAt(f, text, K, i)
      BY <3>1
    <3>6. \A i \in 0 .. m : g[i] = KeepAt(g, text, K, i)
      BY <2>2, <3>2, <3>4, <3>5
    <3>7. Solves(g, m)
      BY <3>3, <3>6
    <3> QED
      BY <3>7
  <2> QED
    BY <2>1, <2>2
<1>2. \E f : Solves(f, n)
  <2> HIDE DEF S, n
  <2>1. \A m \in 0 .. n : m \in S
    BY <1>0, <1>1, Forward
  <2>2. n \in S
    BY <1>0, <2>1
  <2> QED
    BY <2>2 DEF S
<1> DEFINE Equation(f) == f = [i \in 0 .. Len(text) |->
                              IF i = 0 THEN <<>>
                              ELSE IF i \in K THEN Append(f[i - 1], text[i])
                              ELSE f[i - 1]]
           kept == CHOOSE f : Equation(f)
<1>3. Keep(text, K) = kept[n]
  BY DEF Keep
<1>4. \E f : Equation(f)
  BY <1>2 DEF KeepAt
<1>5. Equation(kept)
  <2> HIDE DEF Equation
  <2> QED
    BY <1>4
<1> HIDE DEF kept
<1>6. \A i \in 0 .. n : kept[i] = KeepAt(kept, text, K, i)
  BY <1>5 DEF KeepAt
<1> HIDE DEF Equation
<1> DEFINE Lists(w, e, i) == /\ Picks(e, Len(w), {k \in K : k <= i})
                             /\ \A j \in 1 .. Len(w) : w[j] = text[e[j]]
           T == {i \in 0 .. n : kept[i] \in Seq(X) /\ \E e : Lists(kept[i], e, i)}
<1>7. ASSUME NEW i \in 0 .. n, \A k \in 0 .. i - 1 : k \in T PROVE i \in T
  <2>0. kept[i] = KeepAt(kept, text, K, i)
    BY <1>6
  <2>1. CASE i = 0
    <3>1. kept[i] = <<>>
      BY <2>0, <2>1 DEF KeepAt
    <3>2. kept[i] \in Seq(X) /\ Len(kept[i]) = 0
      BY <3>1
    <3>5. {k \in K : k <= i} = {}
      <4>1. \A k \in K : ~(k <= i)
        BY <1>0, <2>1
      <4> QED
        BY <4>1
    <3> DEFINE e == [j \in 1 .. 0 |-> 0]
    <3>3. e \in [1 .. 0 -> {}] /\ 1 .. 0 = {}
      OBVIOUS
    <3> HIDE DEF e
    <3>4. Lists(kept[i], e, i)
      BY <3>2, <3>3, <3>5 DEF Picks
    <3> QED
      BY <3>2, <3>4
  <2>2. CASE i # 0
    <3>1. i - 1 \in T /\ i \in 1 .. n
      <4>1. i - 1 \in 0 .. i - 1 /\ i \in 1 .. n
        BY <1>0, <2>2
      <4> HIDE DEF T
      <4> QED
        BY <1>7, <4>1
    <3> DEFINE w == kept[i - 1]
    <3>2. w \in Seq(X) /\ Len(w) \in Nat
      BY <3>1
    <3>3. PICK e : Lists(w, e, i - 1)
      BY <3>1
    <3>4. CASE i \notin K
      <4>1. kept[i] = w
        BY <2>0, <2>2, <3>4 DEF KeepAt
      <4>2. {k \in K : k <= i} = {k \in K : k <= i - 1}
        <5>1. \A k \in K : k <= i <=> k <= i - 1
          BY <1>0, <3>1, <3>4
        <5> QED
          BY <5>1
      <4>3. Lists(kept[i], e, i)
        BY <3>3, <4>1, <4>2
      <4>4. kept[i] \in Seq(X)
        BY <3>2, <4>1
      <4> HIDE DEF Lists
      <4> QED
        BY <4>3, <4>4
    <3>5. CASE i \in K
      <4>1. kept[i] = Append(w, text[i]) /\ text[i] \in X
        BY <2>0, <2>2, <3>1, <3>5 DEF KeepAt
      <4> HIDE DEF w
      <4>2. /\ kept[i] \in Seq(X) /\ Len(kept[i]) = Len(w) + 1
            /\ kept[i][Len(w) + 1] = text[i]
            /\ \A j \in 1 .. Len(w) : kept[i][j] = w[j]
        BY <3>2, <4>1
      <4> DEFINE A == {k \in K : k <= i - 1}
                 B == {k \in K : k <= i}
                 d == [j \in 1 .. Len(w) + 1 |-> IF j = Len(w) + 1 THEN i ELSE e[j]]
      <4>3. /\ e \in [1 .. Len(w) -> A]
            /\ \A j, k \in 1 .. Len(w) : j < k => e[j] < e[k]
            /\ \A x \in A : \E j \in 1 .. Len(w) : e[j] = x
            /\ \A j \in 1 .. Len(w) : w[j] = text[e[j]]
        BY <3>3 DEF Picks
      <4>4. d[Len(w) + 1] = i /\ \A j \in 1 .. Len(w) : d[j] = e[j]
        BY <3>2
      <4>5. i \in B /\ A \subseteq B /\ (\A x \in B : x = i \/ x \in A) /\ \A x \in A : x < i
        <5>1. /\ i \in Nat /\ i <= i
              /\ \A x \in K : /\ x <= i - 1 => x <= i /\ x < i
                              /\ x <= i => x = i \/ x <= i - 1
          BY <1>0, <3>1
        <5> QED
          BY <3>5, <5>1
      <4>6. d \in [1 .. Len(w) + 1 -> B]
        <5>1. ASSUME NEW j \in 1 .. Len(w) + 1 PROVE d[j] \in B
          <6> HIDE DEF A, B, d
          <6>1. CASE j = Len(w) + 1
            BY <4>4, <4>5, <6>1
          <6>2. CASE j # Len(w) + 1
            <7>1. j \in 1 .. Len(w)
              BY <3>2, <6>2
            <7> QED
              BY <4>3, <4>4, <4>5, <7>1
          <6> QED
            BY <6>1, <6>2
        <5> QED
          BY <5>1
      <4> HIDE DEF A, B, d
      <4>7. ASSUME NEW j \in 1 .. Len(w) + 1, NEW k \in 1 .. Len(w) + 1, j < k
            PROVE  d[j] < d[k]
        <5>1. j \in 1 .. Len(w) /\ d[j] = e[j] /\ e[j] \in A
          BY <3>2, <4>3, <4>4, <4>7
        <5>2. CASE k = Len(w) + 1
          BY <4>4, <4>5, <5>1, <5>2
        <5>3. CASE k # Len(w) + 1
          <6>1. k \in 1 .. Len(w) /\ d[k] = e[k]
            BY <3>2, <4>4, <5>3
          <6> QED
            BY <4>3, <4>7, <5>1, <6>1
        <5> QED
          BY <5>2, <5>3
      <4>8. ASSUME NEW x \in B PROVE \E j \in 1 .. Len(w) + 1 : d[j] = x
        <5>1. CASE x = i
          BY <3>2, <4>4, <5>1
        <5>2. CASE x # i
          <6>1. PICK j \in 1 .. Len(w) : e[j] = x
            BY <4>3, <4>5, <5>2
          <6>2. j \in 1 .. Len(w) + 1
            BY <3>2
          <6> QED
            BY <4>4, <6>1, <6>2
        <5> QED
          BY <5>1, <5>2
      <4>9. Picks(d, Len(kept[i]), B)
        BY <4>2, <4>6, <4>7, <4>8 DEF Picks
      <4>10. ASSUME NEW j \in 1 .. Len(kept[i]) PROVE kept[i][j] = text[d[j]]
        <5>1. CASE j = Len(w) + 1
          BY <4>2, <4>4, <5>1
        <5>2. CASE j # Len(w) + 1
          <6>1. j \in 1 .. Len(w)
            BY <3>2, <4>2, <5>2
          <6> QED
            BY <4>2, <4>3, <4>4, <6>1
        <5> QED
          BY <5>1, <5>2
      <4>11. Lists(kept[i], d, i)
        BY <4>9, <4>10 DEF B
      <4> QED
        BY <4>2, <4>11
    <3> QED
      BY <3>4, <3>5
  <2> QED
    BY <2>1, <2>2
<1>8. n \in T
  <2> HIDE DEF T, n
  <2>1. \A i \in 0 .. n : i \in T
    BY <1>0, <1>7, Forward
  <2> QED
    BY <1>0, <2>1
<1>9. {k \in K : k <= n} = K
  BY <1>0
<1> QED
  BY <1>3, <1>8, <1>9

-----------------------------------------------------------------------------
\* The credentials in their order, longest first.
Credentials(n, order) ==
    /\ \A i \in 1 .. n : order[i] \in Secrets /\ Unmarked(order[i])
    /\ \A s \in Secrets : \E i \in 1 .. n : order[i] = s
    /\ \A i, j \in 1 .. n : i < j => Len(order[i]) >= Len(order[j])

\* Lemma: Redact replaces the credentials one after the other.
LEMMA RedactSteps ==
    ASSUME NEW text
    PROVE  \E n \in Nat : \E order, f : Credentials(n, order) /\ OneByOne(f, n, order, text)
<1> DEFINE n == Cardinality(Secrets)
<1>1. n \in Nat
  BY TranscriptAssumption, FS_CardinalityType
<1>2. Ordered(LongestFirst, Secrets)
  BY LongestFirstIsOrdered
<1>3. DOMAIN LongestFirst = 1 .. n
  BY <1>2 DEF Ordered
<1>4. ASSUME NEW s \in Secrets PROVE Unmarked(s)
  <2>1. s \in Seq(Range(s) \ {Mark}) /\ s # <<>>
    BY TranscriptAssumption
  <2>2. \A d \in 1 .. Len(s) : s[d] \in Range(s) \ {Mark}
    BY <2>1
  <2> QED
    BY <2>1, <2>2 DEF Unmarked
<1>5. Credentials(n, LongestFirst)
  BY <1>2, <1>3, <1>4 DEF Ordered, Range, Credentials
<1> HIDE DEF n
<1>6. \E f : OneByOne(f, n, LongestFirst, text)
  BY <1>1, <1>3, RedactOneByOne
<1> QED
  BY <1>1, <1>5, <1>6

(***************************************************************************)
(* No credential occurs in a redacted text.                                *)
(***************************************************************************)
LEMMA RedactHides ==
    ASSUME NEW X, Mark \in X, \A s \in Secrets : s \in Seq(X), NEW text \in Seq(X)
    PROVE  /\ Redact(text) \in Seq(X)
           /\ \A s \in Secrets : \A i \in 1 .. Len(Redact(text)) : ~Occurs(s, Redact(text), i)
<1>a. PICK n \in Nat : \E order, f : Credentials(n, order) /\ OneByOne(f, n, order, text)
  BY RedactSteps
<1>0. PICK order, f : Credentials(n, order) /\ OneByOne(f, n, order, text)
  BY <1>a
<1>1. /\ \A i \in 1 .. n : order[i] \in Secrets /\ Unmarked(order[i])
      /\ \A s \in Secrets : \E i \in 1 .. n : order[i] = s
      /\ \A i, j \in 1 .. n : i < j => Len(order[i]) >= Len(order[j])
      /\ Redact(text) = f[n] /\ f[0] = text
      /\ \A i \in 0 .. n - 1 : f[i + 1] = Replace(f[i], order[i + 1])
  BY <1>0 DEF Credentials, OneByOne
<1> DEFINE Hidden(k) == \A a \in 1 .. k : \A i \in 1 .. Len(f[k]) : ~Occurs(order[a], f[k], i)
           S == {k \in 0 .. n : f[k] \in Seq(X) /\ Hidden(k)}
<1>2. ASSUME NEW k \in 0 .. n, \A j \in 0 .. k - 1 : j \in S PROVE k \in S
  <2>1. CASE k = 0
    BY <1>1, <2>1
  <2>2. CASE k # 0
    <3>1. k - 1 \in 0 .. k - 1 /\ k - 1 \in 0 .. n - 1 /\ (k - 1) + 1 = k /\ k \in 1 .. n
      BY <2>2
    <3> DEFINE u == f[k - 1]
               s == order[k]
    <3>2. u \in Seq(X) /\ Hidden(k - 1)
      <4> HIDE DEF u
      <4>1. k - 1 \in S
        BY <1>2, <3>1
      <4> QED
        BY <4>1 DEF u
    <3>3. f[k] = Replace(u, s)
      BY <1>1, <3>1
    <3>4. s \in Seq(X) /\ Unmarked(s)
      BY <1>1, <3>1
    <3>5. s # <<>>
      BY <3>4 DEF Unmarked
    <3>6. f[k] \in Seq(X)
      <4> HIDE DEF u, s
      <4> QED
        BY <3>2, <3>3, <3>4, <3>5, ReplaceTrace
    <3>7. ASSUME NEW a \in 1 .. k PROVE \A i \in 1 .. Len(f[k]) : ~Occurs(order[a], f[k], i)
      <4> DEFINE t == order[a]
      <4>1. t \in Seq(X) /\ Unmarked(t)
        BY <1>1, <3>1
      <4>2. t = s \/ \A i \in 1 .. Len(u) : ~Occurs(t, u, i)
        <5>1. CASE a = k
          BY <5>1
        <5>2. CASE a # k
          <6>1. a \in 1 .. k - 1
            BY <5>2
          <6> QED
            BY <3>2, <6>1
        <5> QED
          BY <5>1, <5>2
      <4> HIDE DEF u, s, t
      <4>3. \A i \in 1 .. Len(Replace(u, s)) : ~Occurs(t, Replace(u, s), i)
        BY <3>2, <3>4, <3>5, <4>1, <4>2, NoneAppears
      <4> QED
        BY <3>3, <4>3 DEF t
    <3> QED
      BY <3>6, <3>7
  <2> QED
    BY <2>1, <2>2
<1>3. f[n] \in Seq(X) /\ Hidden(n)
  <2>1. \A k \in 0 .. n : k \in S
    <3> HIDE DEF S
    <3> QED
      BY <1>2, Forward
  <2> QED
    BY <2>1
<1>4. ASSUME NEW s \in Secrets, NEW i \in 1 .. Len(f[n]) PROVE ~Occurs(s, f[n], i)
  <2>1. PICK a \in 1 .. n : order[a] = s
    BY <1>1
  <2> QED
    BY <1>3, <2>1
<1> QED
  BY <1>1, <1>3, <1>4

\* An end of s is a beginning of t, without one containing the other.
Overlap(s, t) ==
    \E n \in 1 .. Len(s) - 1 : n < Len(t) /\ \A d \in 1 .. n : s[Len(s) - n + d] = t[d]

\* Lemma: without overlaps occurrences are apart or one inside the other.
LEMMA ApartOrInside ==
    ASSUME NEW X, NEW text \in Seq(X), NEW s \in Seq(X), NEW t \in Seq(X), ~Overlap(s, t),
           NEW k \in 1 .. Len(text), NEW l \in 1 .. Len(text),
           Occurs(s, text, k), Occurs(t, text, l), k < l
    PROVE  k + Len(s) <= l \/ l + Len(t) <= k + Len(s)
<1> SUFFICES ASSUME l < k + Len(s), k + Len(s) < l + Len(t) PROVE FALSE
  OBVIOUS
<1>0. Len(s) \in Nat /\ Len(t) \in Nat
  OBVIOUS
<1>1. \A d \in 1 .. Len(s) : text[k + d - 1] = s[d]
  BY OccursAt
<1>2. \A d \in 1 .. Len(t) : text[l + d - 1] = t[d]
  BY OccursAt
<1> DEFINE n == k + Len(s) - l
<1>3. n \in 1 .. Len(s) - 1 /\ n < Len(t)
  BY <1>0
<1>4. ASSUME NEW d \in 1 .. n PROVE s[Len(s) - n + d] = t[d]
  <2>1. /\ Len(s) - n + d \in 1 .. Len(s) /\ d \in 1 .. Len(t)
        /\ k + (Len(s) - n + d) - 1 = l + d - 1
    BY <1>0, <1>3
  <2>2. text[k + (Len(s) - n + d) - 1] = s[Len(s) - n + d]
    BY <1>1, <2>1
  <2> QED
    BY <1>2, <2>1, <2>2
<1> HIDE DEF n
<1> QED
  BY <1>3, <1>4 DEF Overlap

(***************************************************************************)
(* A redacted text is what is left outside the credentials: no part of one *)
(* remains, as long as none begins with the end of another.                *)
(***************************************************************************)
LEMMA RedactMasks ==
    ASSUME NEW X, Mark \in X, \A s \in Secrets : s \in Seq(X), NEW text \in Seq(X),
           \A s, t \in Secrets : ~Overlap(s, t)
    PROVE  \E p : Masks(p, Redact(text), text, Secrets)
<1>a. PICK n \in Nat : \E order, f : Credentials(n, order) /\ OneByOne(f, n, order, text)
  BY RedactSteps
<1>0. PICK order, f : Credentials(n, order) /\ OneByOne(f, n, order, text)
  BY <1>a
<1>1. /\ \A i \in 1 .. n : order[i] \in Secrets /\ Unmarked(order[i])
      /\ \A s \in Secrets : \E i \in 1 .. n : order[i] = s
      /\ \A i, j \in 1 .. n : i < j => Len(order[i]) >= Len(order[j])
      /\ Redact(text) = f[n] /\ f[0] = text
      /\ \A i \in 0 .. n - 1 : f[i + 1] = Replace(f[i], order[i + 1])
  BY <1>0 DEF Credentials, OneByOne
<1> DEFINE Done(k) == {order[i] : i \in 1 .. k}
           S == {k \in 0 .. n : f[k] \in Seq(X) /\ \E p : Masks(p, f[k], text, Done(k))}
<1>2. ASSUME NEW k \in 0 .. n, \A j \in 0 .. k - 1 : j \in S PROVE k \in S
  <2>1. CASE k = 0
    <3> DEFINE p == [j \in 1 .. Len(text) |-> j]
    <3>1. p \in [1 .. Len(text) -> 0 .. Len(text)] /\ \A j \in 1 .. Len(text) : p[j] = j
      OBVIOUS
    <3> HIDE DEF p
    <3>2. Embeds(p, text, text)
      BY <3>1 DEF Embeds
    <3>3. Done(k) = {}
      BY <2>1
    <3>4. Masks(p, text, text, {})
      BY <3>1, <3>2 DEF Masks, CoveredBy
    <3> QED
      BY <1>1, <2>1, <3>3, <3>4
  <2>2. CASE k # 0
    <3>1. k - 1 \in 0 .. k - 1 /\ k - 1 \in 0 .. n - 1 /\ (k - 1) + 1 = k /\ k \in 1 .. n
      BY <2>2
    <3> DEFINE u == f[k - 1]
               t == order[k]
               D == Done(k - 1)
    <3>2. u \in Seq(X) /\ \E p : Masks(p, u, text, D)
      <4>1. k - 1 \in S
        <5> HIDE DEF S
        <5> QED
          BY <1>2, <3>1
      <4> QED
        BY <4>1
    <3>3. f[k] = Replace(u, t)
      BY <1>1, <3>1
    <3>4. t \in Seq(X) /\ Unmarked(t) /\ t \in Secrets
      BY <1>1, <3>1
    <3>5. t # <<>> /\ Len(t) \in Nat
      BY <3>4 DEF Unmarked
    <3>6. f[k] \in Seq(X)
      <4> HIDE DEF u, t
      <4> QED
        BY <3>2, <3>3, <3>4, <3>5, ReplaceTrace
    <3>7. \A s \in D \cup {t} : s \in Secrets /\ s \in Seq(X) /\ Len(s) >= Len(t)
      <4> SUFFICES ASSUME NEW s \in D \cup {t}
                   PROVE  s \in Secrets /\ s \in Seq(X) /\ Len(s) >= Len(t)
        OBVIOUS
      <4>1. CASE s = t
        <5> HIDE DEF t
        <5> QED
          BY <3>4, <3>5, <4>1
      <4>2. CASE s \in D
        <5>1. PICK i \in 1 .. k - 1 : s = order[i]
          BY <4>2
        <5>2. i \in 1 .. n /\ i < k
          BY <3>1
        <5> QED
          BY <1>1, <3>1, <5>1, <5>2
      <4> QED
        BY <4>1, <4>2
    <3>8. Done(k) = D \cup {t}
      <4>1. 1 .. k = (1 .. k - 1) \cup {k}
        BY <3>1
      <4> QED
        BY <4>1
    <3> HIDE DEF u, t, D, Done
    <3>9. Fits(t, D, text)
      <4> SUFFICES ASSUME NEW s \in D \cup {t}, NEW a \in 1 .. Len(text), NEW b \in 1 .. Len(text),
                          Occurs(t, text, a), Occurs(s, text, b)
                   PROVE  \/ a + Len(t) <= b
                          \/ b + Len(s) <= a
                          \/ b <= a /\ a + Len(t) <= b + Len(s)
        BY DEF Fits
      <4>0. s \in Seq(X) /\ Len(s) >= Len(t) /\ Len(s) \in Nat /\ ~Overlap(s, t) /\ ~Overlap(t, s)
        BY <3>4, <3>7
      <4>1. CASE a < b
        <5>1. a + Len(t) <= b \/ b + Len(s) <= a + Len(t)
          BY <3>4, <4>0, <4>1, ApartOrInside
        <5> QED
          BY <3>5, <4>0, <4>1, <5>1
      <4>2. CASE b < a
        <5>1. b + Len(s) <= a \/ a + Len(t) <= b + Len(s)
          BY <3>4, <4>0, <4>2, ApartOrInside
        <5> QED
          BY <4>2, <5>1
      <4>3. CASE a = b
        BY <3>5, <4>0, <4>3
      <4> QED
        BY <4>1, <4>2, <4>3
    <3>10. \E p : Masks(p, Replace(u, t), text, D \cup {t})
      BY <3>2, <3>4, <3>7, <3>9, MaskStep
    <3> QED
      BY <3>3, <3>6, <3>8, <3>10
  <2> QED
    BY <2>1, <2>2
<1>3. \E p : Masks(p, f[n], text, Done(n))
  <2>1. n \in S
    <3> HIDE DEF S
    <3>1. \A k \in 0 .. n : k \in S
      BY <1>2, Forward
    <3> QED
      BY <3>1
  <2> QED
    BY <2>1
<1>4. Done(n) = Secrets
  BY <1>1
<1> QED
  BY <1>1, <1>3, <1>4

-----------------------------------------------------------------------------
\* Lemma: the text of a recorded line, and the symbols it is made of.
LEMMA TextOfLine ==
    ASSUME TranscriptTypeOK, NEW line \in lines
    PROVE  \E X : /\ Mark \in X
                  /\ \A s \in Secrets : s \in Seq(X)
                  /\ Text(line) \in Seq(X)
                  /\ \A i \in 1 .. Len(Text(line)) : Text(line)[i] # Mark
<1> DEFINE Y == Range(stream) \ {Mark}
           Z == UNION {Range(s) : s \in Secrets}
           X == Y \cup Z \cup {Mark}
           part == SubSeq(stream, line[1], line[2])
           K == {i \in DOMAIN part : part[i] # Control}
<1>1. stream \in Seq(Y)
  BY TranscriptAssumption DEF TranscriptTypeOK
<1>2. line[1] \in 1 .. Len(stream) + 1 /\ line[2] \in 0 .. Len(stream)
  BY <1>1 DEF TranscriptTypeOK
<1> HIDE DEF Y
<1>3. part \in Seq(Y)
  BY <1>1, <1>2
<1>4. Text(line) = Keep(part, K)
  BY DEF Text, Plain
<1> HIDE DEF part
<1>5. K \in SUBSET (1 .. Len(part))
  BY <1>3
<1> HIDE DEF K
<1>6. Text(line) \in Seq(Y)
  BY <1>3, <1>4, <1>5, KeepPicks
<1>7. \A s \in Secrets : s \in Seq(X)
  <2> SUFFICES ASSUME NEW s \in Secrets PROVE s \in Seq(X)
    OBVIOUS
  <2>1. s \in Seq(Range(s) \ {Mark}) /\ Range(s) \ {Mark} \subseteq X
    BY TranscriptAssumption
  <2> HIDE DEF X
  <2> QED
    BY <2>1
<1>8. Y \subseteq X /\ Mark \in X
  <2> HIDE DEF Z
  <2> QED
    OBVIOUS
<1> HIDE DEF X
<1>9. Text(line) \in Seq(X)
  BY <1>6, <1>8
<1>10. \A i \in 1 .. Len(Text(line)) : Text(line)[i] # Mark
  <2>1. \A i \in 1 .. Len(Text(line)) : Text(line)[i] \in Y
    BY <1>6
  <2> QED
    BY <2>1 DEF Y
<1> QED
  BY <1>7, <1>8, <1>9, <1>10

(***************************************************************************)
(* Whatever the credentials are and however they overlap, none of them     *)
(* occurs in what the log shows of a line (log.py, redact).                *)
(***************************************************************************)
NoCredentialShown ==
    \A line \in lines, s \in Secrets :
        LET shown == Redact(Text(line)) IN
        \A i \in 1 .. Len(shown) : ~Occurs(s, shown, i)

\* Lemma: whatever the recorded lines are.
LEMMA HidesEvery ==
    ASSUME TranscriptTypeOK
    PROVE  NoCredentialShown
<1>1. ASSUME NEW line \in lines, NEW s \in Secrets
      PROVE  \A i \in 1 .. Len(Redact(Text(line))) : ~Occurs(s, Redact(Text(line)), i)
  <2> DEFINE text == Text(line)
  <2>1. PICK X : /\ Mark \in X
                 /\ \A t \in Secrets : t \in Seq(X)
                 /\ text \in Seq(X)
    BY TextOfLine
  <2> HIDE DEF text
  <2>2. \A t \in Secrets : \A i \in 1 .. Len(Redact(text)) : ~Occurs(t, Redact(text), i)
    BY <2>1, RedactHides
  <2> QED
    BY <2>2 DEF text
<1> QED
  BY <1>1 DEF NoCredentialShown

\* Theorem: no line of the log shows a credential.
THEOREM CredentialsAreHidden == TranscriptSpec => []NoCredentialShown
<1>1. TranscriptTypeOK => NoCredentialShown
  BY HidesEvery
<1> QED
  BY <1>1, TranscriptTypeCorrect, PTL

(***************************************************************************)
(* What the log shows of a line are the symbols outside every occurrence   *)
(* of every credential: where no credential begins with the end of another *)
(* or of itself, replacing the longest first leaves no fragment of one     *)
(* (log.py, redact).                                                       *)
(***************************************************************************)
LEMMA MasksEvery ==
    ASSUME TranscriptTypeOK, \A s, t \in Secrets : ~Overlap(s, t)
    PROVE  SecretsAreMasked
<1>1. ASSUME NEW line \in lines
      PROVE  LET text == Text(line)
                 shown == Redact(text)
             IN Keep(shown, {i \in DOMAIN shown : shown[i] # Mark})
                 = Keep(text, {i \in DOMAIN text : ~Covered(text, i)})
  <2> DEFINE text == Text(line)
             shown == Redact(text)
             A == {i \in DOMAIN shown : shown[i] # Mark}
             B == {i \in DOMAIN text : ~Covered(text, i)}
             a == Keep(shown, A)
             b == Keep(text, B)
  <2>1. PICK X : /\ Mark \in X
                 /\ \A s \in Secrets : s \in Seq(X)
                 /\ text \in Seq(X)
                 /\ \A i \in 1 .. Len(text) : text[i] # Mark
    BY TextOfLine
  <2> HIDE DEF text
  <2>2. shown \in Seq(X)
    BY <2>1, RedactHides
  <2>3. PICK p : Masks(p, shown, text, Secrets)
    BY <2>1, RedactMasks
  <2> HIDE DEF shown
  <2>4. /\ p \in [1 .. Len(shown) -> 0 .. Len(text)]
        /\ \A j \in 1 .. Len(shown) : shown[j] = IF p[j] = 0 THEN Mark ELSE text[p[j]]
        /\ \A j, k \in 1 .. Len(shown) : j < k /\ p[j] # 0 /\ p[k] # 0 => p[j] < p[k]
    BY <2>3 DEF Masks, Embeds
  <2>5. DOMAIN shown = 1 .. Len(shown) /\ DOMAIN text = 1 .. Len(text)
        /\ Len(shown) \in Nat /\ Len(text) \in Nat
    BY <2>1, <2>2
  <2>6. A \in SUBSET (1 .. Len(shown)) /\ B \in SUBSET (1 .. Len(text))
    BY <2>5
  <2>7. \A j \in A : p[j] \in B /\ shown[j] = text[p[j]] /\ p[j] # 0
    <3> SUFFICES ASSUME NEW j \in A PROVE p[j] \in B /\ shown[j] = text[p[j]] /\ p[j] # 0
      OBVIOUS
    <3>1. j \in 1 .. Len(shown) /\ shown[j] # Mark
      BY <2>5
    <3>2. p[j] # 0 /\ p[j] \in 1 .. Len(text) /\ shown[j] = text[p[j]]
      BY <2>4, <2>5, <3>1
    <3>3. ~CoveredBy(Secrets, text, p[j])
      BY <2>3, <3>1, <3>2 DEF Masks
    <3>4. ~Covered(text, p[j])
      BY <3>3 DEF Covered, CoveredBy
    <3> QED
      BY <2>5, <3>2, <3>4
  <2>8. \A i \in B : \E j \in A : p[j] = i
    <3> SUFFICES ASSUME NEW i \in B PROVE \E j \in A : p[j] = i
      OBVIOUS
    <3>1. i \in 1 .. Len(text) /\ ~CoveredBy(Secrets, text, i)
      BY <2>5 DEF Covered, CoveredBy
    <3>2. PICK j \in 1 .. Len(shown) : p[j] = i
      BY <2>3, <3>1 DEF Masks
    <3>3. shown[j] # Mark
      BY <2>1, <2>4, <3>1, <3>2
    <3> QED
      BY <2>5, <3>2, <3>3
  <2> HIDE DEF A, B
  <2>9. a \in Seq(X) /\ \E e : Picks(e, Len(a), A) /\ \A j \in 1 .. Len(a) : a[j] = shown[e[j]]
    BY <2>2, <2>6, KeepPicks
  <2>10. b \in Seq(X) /\ \E d : Picks(d, Len(b), B) /\ \A j \in 1 .. Len(b) : b[j] = text[d[j]]
    BY <2>1, <2>6, KeepPicks
  <2> HIDE DEF a, b
  <2>11. PICK e : Picks(e, Len(a), A) /\ \A j \in 1 .. Len(a) : a[j] = shown[e[j]]
    BY <2>9
  <2>12. PICK d : Picks(d, Len(b), B) /\ \A j \in 1 .. Len(b) : b[j] = text[d[j]]
    BY <2>10
  <2>13. /\ e \in [1 .. Len(a) -> A]
         /\ \A j, k \in 1 .. Len(a) : j < k => e[j] < e[k]
         /\ \A i \in A : \E j \in 1 .. Len(a) : e[j] = i
    BY <2>11 DEF Picks
  <2> DEFINE c == [j \in 1 .. Len(a) |-> p[e[j]]]
  <2>14. Picks(c, Len(a), B)
    <3>1. \A j \in 1 .. Len(a) : c[j] = p[e[j]] /\ e[j] \in A /\ e[j] \in 1 .. Len(shown)
      BY <2>6, <2>13
    <3>2. c \in [1 .. Len(a) -> B]
      BY <2>7, <2>13
    <3> HIDE DEF c
    <3>3. ASSUME NEW j \in 1 .. Len(a), NEW k \in 1 .. Len(a), j < k PROVE c[j] < c[k]
      <4>1. e[j] < e[k] /\ p[e[j]] # 0 /\ p[e[k]] # 0
        BY <2>7, <2>13, <3>1, <3>3
      <4> QED
        BY <2>4, <3>1, <4>1
    <3>4. ASSUME NEW i \in B PROVE \E j \in 1 .. Len(a) : c[j] = i
      <4>1. PICK k \in A : p[k] = i
        BY <2>8
      <4>2. PICK j \in 1 .. Len(a) : e[j] = k
        BY <2>13
      <4> QED
        BY <3>1, <4>1, <4>2
    <3> QED
      BY <3>2, <3>3, <3>4 DEF Picks
  <2>15. \A j \in 1 .. Len(a) : c[j] = p[e[j]] /\ e[j] \in A
    BY <2>13
  <2> HIDE DEF c
  <2>16. Len(a) = Len(b) /\ \A j \in 1 .. Len(a) : c[j] = d[j]
    <3>1. B \in SUBSET Nat /\ Len(a) \in Nat /\ Len(b) \in Nat
      BY <2>5, <2>6, <2>9, <2>10
    <3>2. Picks(d, Len(b), B)
      BY <2>12
    <3>3. PICK m \in Nat : m = Len(a)
      BY <3>1
    <3>4. PICK n \in Nat : n = Len(b)
      BY <3>1
    <3>5. Picks(c, m, B) /\ Picks(d, n, B)
      BY <2>14, <3>2, <3>3, <3>4
    <3>6. SUFFICES ASSUME NEW f, f = c, Picks(f, m, B) PROVE m = n /\ \A j \in 1 .. m : f[j] = d[j]
      BY <3>3, <3>4, <3>5
    <3>7. m = n
      BY <3>1, <3>5, <3>6, PicksUnique
    <3> QED
      BY <3>1, <3>5, <3>6, <3>7, PicksUnique
  <2>17. \A j \in 1 .. Len(a) : a[j] = b[j]
    BY <2>7, <2>11, <2>12, <2>15, <2>16
  <2>18. a = b
    BY <2>9, <2>10, <2>16, <2>17
  <2> QED
    BY <2>18 DEF a, b, A, B, shown, text
<1> QED
  BY <1>1 DEF SecretsAreMasked

\* Theorem: the log shows exactly what is outside the credentials, and no fragment of one.
THEOREM NoFragmentShown ==
    ASSUME \A s, t \in Secrets : ~Overlap(s, t)
    PROVE  TranscriptSpec => []SecretsAreMasked
<1>1. TranscriptTypeOK => SecretsAreMasked
  BY MasksEvery
<1> QED
  BY <1>1, TranscriptTypeCorrect, PTL
=============================================================================
