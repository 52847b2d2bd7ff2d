------------------------------ MODULE Transcript ------------------------------
(***************************************************************************)
(* What docker/privateerr/generation.py, run_script, makes of the output   *)
(* of one upstream script: chunks from a pipe, lines of bounded length,    *)
(* the server name the script reported, and what log.py, redact, leaves of *)
(* a line for the log.  A line is the interval of its positions in the     *)
(* stream, so that its text is kept once.                                  *)
(***************************************************************************)
EXTENDS Integers, SequencesExt

CONSTANTS
    Streams,    \* what a script may write: sequences of the symbols below
    Names,      \* symbols: WG_HOSTNAME= and a valid server name, as a word
    Secrets,    \* the credentials, sequences of text symbols
    MaxLine,    \* longest line that is kept
    MaxChunk,   \* most that one read returns
    NoName      \* no server name was reported

\* The other symbols: a delimiter (CR or LF), a terminal sequence, the prompt of
\* the upstream script, and, in a log, [redacted].  Any other symbol is text.
Delimiter == "n"
Control == "e"
Prompt == "p"
Mark == "*"

ASSUME TranscriptAssumption ==
    /\ \A s \in Streams : s \in Seq(Range(s) \ {Mark})
    /\ \A s \in Secrets : s \in Seq(Range(s) \ {Mark}) \ {<<>>}
    /\ IsFiniteSet(Secrets)
    /\ MaxLine \in Nat
    /\ MaxChunk \in Nat
    /\ NoName \notin Names
    /\ Delimiter \notin Names

VARIABLES
    stream,     \* everything the script writes before it closes its output
    taken,      \* how much of it has been read
    first,      \* where the buffer begins: it holds stream[first .. taken]
    dropping,   \* the line at the start of the buffer is being discarded
    lines,      \* the lines that were recorded
    hostname,   \* the last server name recorded
    reading     \* read: between reads; split: a chunk is being split

transcriptVars == <<stream, taken, first, dropping, lines, hostname, reading>>

TranscriptTypeOK ==
    /\ stream \in Streams
    /\ taken \in 0 .. Len(stream)
    /\ first \in 1 .. taken + 1
    /\ dropping \in BOOLEAN
    /\ lines \subseteq (1 .. taken + 1) \X (0 .. taken)
    /\ hostname \in Names \cup {NoName}
    /\ reading \in {"read", "split", "done", "failed"}

TranscriptInit ==
    /\ stream \in Streams
    /\ taken = 0
    /\ first = 1
    /\ dropping = FALSE
    /\ lines = {}
    /\ hostname = NoName
    /\ reading = "read"

-----------------------------------------------------------------------------
(* record and redact.                                                      *)

\* What a text has at the positions of K, in their order.
Keep(text, K) ==
    LET kept[i \in 0 .. Len(text)] ==
            IF i = 0 THEN <<>>
            ELSE IF i \in K THEN Append(kept[i - 1], text[i])
            ELSE kept[i - 1]
    IN kept[Len(text)]

Plain(text) == Keep(text, {i \in DOMAIN text : text[i] # Control})

Text(line) == Plain(SubSeq(stream, line[1], line[2]))

Occurs(secret, text, i) ==
    i + Len(secret) <= Len(text) + 1 /\ SubSeq(text, i, i + Len(secret) - 1) = secret

\* str.replace: from left to right, no occurrence overlaps another.
Replace(text, secret) ==
    LET rest[i \in 1 .. Len(text) + 1] ==
            IF i > Len(text) THEN <<>>
            ELSE IF Occurs(secret, text, i) THEN <<Mark>> \o rest[i + Len(secret)]
            ELSE <<text[i]>> \o rest[i + 1]
    IN rest[1]

\* Mutant: the shortest value is replaced first.
ShortestFirst ==
    CHOOSE order \in [1 .. Cardinality(Secrets) -> Secrets] :
        /\ Range(order) = Secrets
        /\ \A i, j \in DOMAIN order : i < j => Len(order[i]) <= Len(order[j])

LongestFirst ==
    CHOOSE order \in [1 .. Cardinality(Secrets) -> Secrets] :
        /\ Range(order) = Secrets
        /\ \A i, j \in DOMAIN order : i < j => Len(order[i]) >= Len(order[j])

\* Values masked for the name they are assigned to are not told apart here.
Redact(text) == FoldLeft(Replace, text, LongestFirst)

Named(line) == {i \in line[1] .. line[2] : stream[i] \in Names}

LastName(line) == stream[CHOOSE i \in Named(line) : \A j \in Named(line) : j <= i]

\* Mutant: the first name that was reported counts.
RecordFirstName(line, next) ==
    IF Text(line) = <<Prompt>>
    THEN reading' = "failed" /\ UNCHANGED <<lines, hostname>>
    ELSE /\ reading' = next
         /\ lines' = lines \cup {line}
         /\ hostname' = IF Named(line) = {} \/ hostname # NoName THEN hostname
                        ELSE LastName(line)

\* A prompt that will never be answered fails the script instead.
Record(line, next) ==
    IF Text(line) = <<Prompt>>
    THEN reading' = "failed" /\ UNCHANGED <<lines, hostname>>
    ELSE /\ reading' = next
         /\ lines' = lines \cup {line}
         /\ hostname' = IF Named(line) = {} THEN hostname ELSE LastName(line)

-----------------------------------------------------------------------------
(* The reading loop.                                                       *)

Take ==
    /\ reading = "read"
    /\ \E n \in 1 .. MaxChunk : taken' = taken + n /\ taken' <= Len(stream)
    /\ reading' = "split"
    /\ UNCHANGED <<stream, first, dropping, lines, hostname>>

Delimiters == {i \in first .. taken : stream[i] = Delimiter}

SplitLine ==
    /\ reading = "split"
    /\ \E i \in Delimiters :
        /\ \A j \in Delimiters : i <= j
        /\ first' = i + 1
        /\ IF ~dropping /\ i - first <= MaxLine
           THEN Record(<<first, i - 1>>, "split")
           ELSE UNCHANGED <<lines, hostname, reading>>
    /\ dropping' = FALSE
    /\ UNCHANGED <<stream, taken>>

\* Mutant: the rest of an oversized line is read as a line of its own.
KeepRestOfLine ==
    /\ reading = "split"
    /\ Delimiters = {}
    /\ reading' = "read"
    /\ IF taken - first + 1 > MaxLine
       THEN first' = taken + 1
       ELSE UNCHANGED first
    /\ UNCHANGED <<stream, taken, dropping, lines, hostname>>

\* What is left of the chunk waits for its delimiter, unless it is too long.
KeepRest ==
    /\ reading = "split"
    /\ Delimiters = {}
    /\ reading' = "read"
    /\ IF taken - first + 1 > MaxLine
       THEN first' = taken + 1 /\ dropping' = TRUE
       ELSE UNCHANGED <<first, dropping>>
    /\ UNCHANGED <<stream, taken, lines, hostname>>

\* The script, and whatever else held the pipe, closed it.
EndOfOutput ==
    /\ reading = "read"
    /\ taken = Len(stream)
    /\ IF first <= taken /\ ~dropping
       THEN Record(<<first, taken>>, "done")
       ELSE reading' = "done" /\ UNCHANGED <<lines, hostname>>
    /\ UNCHANGED <<stream, taken, first, dropping>>

\* Mutant: the deadline is looked at when there is output.
OutOfTimeOnOutput ==
    /\ reading = "read"
    /\ taken < Len(stream)
    /\ reading' = "failed"
    /\ UNCHANGED <<stream, taken, first, dropping, lines, hostname>>

\* The deadline passed, with or without output.
OutOfTime ==
    /\ reading = "read"
    /\ reading' = "failed"
    /\ UNCHANGED <<stream, taken, first, dropping, lines, hostname>>

TranscriptNext == Take \/ SplitLine \/ KeepRest \/ EndOfOutput \/ OutOfTime

TranscriptSpec == TranscriptInit /\ [][TranscriptNext]_transcriptVars

-----------------------------------------------------------------------------
Whole(i, j) ==
    /\ i = 1 \/ stream[i - 1] = Delimiter
    /\ j = Len(stream) \/ stream[j + 1] = Delimiter
    /\ \A k \in i .. j : stream[k] # Delimiter
    /\ j - i < MaxLine

(***************************************************************************)
(* "Drop a whole oversized line so a credential cannot escape redaction in *)
(* fragments" (generation.py:44): wherever the chunks end, what is         *)
(* recorded are whole lines of the output within the limit, and when the   *)
(* output was read to its end, all of them.                                *)
(***************************************************************************)
LinesAreWhole ==
    /\ \A line \in lines : Whole(line[1], line[2])
    /\ reading = "done" =>
        \A i \in 1 .. Len(stream), j \in 0 .. Len(stream) :
            /\ i <= j + 1
            /\ Whole(i, j)
            => <<i, j>> \in lines

(***************************************************************************)
(* The server name of a registration is the last one its script reported   *)
(* in a line that was kept (generation.py, run_script).                    *)
(***************************************************************************)
NameIsLastReported ==
    LET reported == UNION {Named(line) : line \in lines}
    IN IF reported = {} THEN hostname = NoName
       ELSE hostname = stream[CHOOSE i \in reported : \A j \in reported : j <= i]

(***************************************************************************)
(* "Longer overlapping values must be removed before a username can split  *)
(* a password" (log.py:100): what the log shows of a line are the symbols  *)
(* outside every occurrence of every credential, in their order, wherever  *)
(* terminal sequences interrupt a credential.  Where one credential begins *)
(* with the end of another (ab, ba in aba) the end of the second can stay. *)
(***************************************************************************)
Covered(text, i) ==
    \E s \in Secrets : \E k \in 1 .. i : i < k + Len(s) /\ Occurs(s, text, k)

SecretsAreMasked ==
    \A line \in lines :
        LET text == Text(line)
            shown == Redact(text)
        IN Keep(shown, {i \in DOMAIN shown : shown[i] # Mark})
            = Keep(text, {i \in DOMAIN text : ~Covered(text, i)})
=============================================================================
