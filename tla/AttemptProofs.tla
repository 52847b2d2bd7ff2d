---------------------------- MODULE AttemptProofs ----------------------------
(***************************************************************************)
(* Theorems about one recovery attempt: its requests, for all timeouts,    *)
(* limits and numbers of requests (module Client); its metadata, for every *)
(* catalog (module Metadata); and the decision about its candidate, for    *)
(* whatever Gluetun makes of the update.  The theorems about its script's  *)
(* output are in TranscriptProofs.                                         *)
(***************************************************************************)
EXTENDS Attempt, TranscriptProofs

\* The steps of RequestNext, with the choices of the peer and the callers.
LEMMA RequestCases ==
    ASSUME RequestNext
    PROVE  \/ \E c \in Calls : Begin(c)
           \/ \E r \in Responses : Answer(r)
           \/ Install \/ Arm \/ Enter \/ Resolve \/ Connect \/ Breaks \/ ReadReturns
           \/ Close \/ SocketTimesOut \/ Expire \/ Disarm \/ Restore \/ Judge
           \/ Tick \/ Drip \/ ReadChunk \/ NoMoreRequests
  BY DEF RequestNext, Progress

\* The parts of RequestTypeOK.
CallType == pc \in Labels /\ call \in Calls /\ outcome \in Outcomes
HandlerType == handler \in {"kills", "raises"} /\ previous \in {"kills", "raises"}
ResponseType == server \in Responses /\ ended \in BOOLEAN
CountType ==
    /\ alarm \in 0 .. Off
    /\ address \in 1 .. Addresses
    /\ got \in 0 .. Limit + 1
    /\ waited \in Nat /\ elapsed \in Nat /\ requests \in Nat

\* Lemma: The four parts are the type invariant.
LEMMA TypeParts == RequestTypeOK <=> CallType /\ HandlerType /\ ResponseType /\ CountType
  BY DEF RequestTypeOK, CallType, HandlerType, ResponseType, CountType

\* Lemma: The first state has its types.
LEMMA RequestTypeInit == RequestInit => RequestTypeOK
<1> SUFFICES ASSUME RequestInit PROVE RequestTypeOK
  OBVIOUS
<1> USE ClientAssumption DEF RequestInit
<1>1. CallType
  BY DEF CallType, Labels, Calls, Outcomes
<1>2. HandlerType
  BY DEF HandlerType
<1>3. ResponseType
  <2>1. 0 \in 0 .. Limit + 2 /\ "other" \in {"200", "other"}
    OBVIOUS
  <2>2. server = [status |-> "other", size |-> 0, document |-> 0] /\ ended \in BOOLEAN
    OBVIOUS
  <2> HIDE ClientAssumption DEF RequestInit
  <2> QED
    BY <2>1, <2>2, Zenon DEF ResponseType, Responses
<1>4. CountType
  BY DEF CountType, Off
<1> QED
  BY <1>1, <1>2, <1>3, <1>4, TypeParts

\* Lemma: Every step keeps the types of label, call and outcome.
LEMMA CallStep == ASSUME CallType, [RequestNext]_requestVars PROVE CallType'
<1> USE DEF CallType, Labels, Waiting, Outcomes, Goto, Local, Network, Ends
<1>1. CASE Begin(call') /\ call' \in Calls
  BY <1>1 DEF Begin
<1>2. CASE \E r \in Responses : Answer(r)
  BY <1>2 DEF Answer
<1>3. CASE Install \/ Arm \/ Enter \/ Disarm \/ Restore \/ Close \/ Judge
  BY <1>3 DEF Install, Arm, Enter, Disarm, Restore, Close, Judge
<1>4. CASE Resolve \/ Breaks \/ Drip \/ ReadChunk \/ ReadReturns
  BY <1>4 DEF Resolve, Breaks, Drip, ReadChunk, ReadReturns
<1>5. CASE Connect \/ SocketTimesOut \/ Expire
  BY <1>5 DEF Connect, SocketTimesOut, Expire, AddressFails
<1>6. CASE Tick \/ NoMoreRequests \/ UNCHANGED requestVars
  BY <1>6 DEF Tick, NoMoreRequests, requestVars
<1>7. ASSUME NEW c \in Calls, Begin(c) PROVE Begin(call') /\ call' \in Calls
  BY <1>7 DEF Begin
<1> QED
  BY <1>1, <1>2, <1>3, <1>4, <1>5, <1>6, <1>7, RequestCases

\* Lemma: Every step keeps the handlers' types.
LEMMA HandlerStep == ASSUME HandlerType, [RequestNext]_requestVars PROVE HandlerType'
<1> USE DEF HandlerType, Local, Network, deadline
<1>1. CASE Install \/ Restore
  BY <1>1 DEF Install, Restore
<1>2. CASE RequestNext /\ ~Install /\ ~Restore
  BY <1>2, RequestCases DEF Begin, Answer, Arm, Enter, Resolve, Connect, Breaks, ReadReturns,
    Close, SocketTimesOut, Expire, Disarm, Judge, Tick, Drip, ReadChunk, NoMoreRequests, requestVars
<1>3. CASE UNCHANGED requestVars
  BY <1>3 DEF requestVars
<1> QED
  BY <1>1, <1>2, <1>3

\* Lemma: Every step keeps the response's type.
LEMMA ResponseStep == ASSUME ResponseType, [RequestNext]_requestVars PROVE ResponseType'
<1> USE DEF ResponseType, Local, Network, response
<1>1. CASE (\E r \in Responses : Answer(r)) \/ ReadReturns \/ \E c \in Calls : Begin(c)
  BY <1>1 DEF Answer, ReadReturns, Begin
<1>2. CASE RequestNext /\ ~(\E r \in Responses : Answer(r)) /\ ~ReadReturns /\ ~\E c \in Calls : Begin(c)
  BY <1>2, RequestCases DEF Install, Restore, Arm, Enter, Resolve, Connect, Breaks,
    Close, SocketTimesOut, Expire, Disarm, Judge, Tick, Drip, ReadChunk, NoMoreRequests, requestVars
<1>3. CASE UNCHANGED requestVars
  BY <1>3 DEF requestVars
<1> QED
  BY <1>1, <1>2, <1>3

\* Lemma: Every step keeps the counters in their ranges.
LEMMA CountStep == ASSUME CountType, [RequestNext]_requestVars PROVE CountType'
<1> USE ClientAssumption DEF CountType, Off, deadline, time, Goto, Local, Network, Ends
<1>1. CASE \E c \in Calls : Begin(c)
  BY <1>1 DEF Begin
<1>2. CASE \E r \in Responses : Answer(r)
  BY <1>2 DEF Answer
<1>3. CASE Install \/ Arm \/ Enter \/ Disarm \/ Restore \/ Close \/ Judge
  BY <1>3 DEF Install, Arm, Enter, Disarm, Restore, Close, Judge
<1>4. CASE Resolve \/ Breaks \/ Drip
  BY <1>4 DEF Resolve, Breaks, Drip
<1>5. CASE ReadChunk \/ ReadReturns
  BY <1>5 DEF ReadChunk, ReadReturns
<1>6. CASE Connect \/ SocketTimesOut
  BY <1>6 DEF Connect, SocketTimesOut, AddressFails
<1>7. CASE Expire
  BY <1>7 DEF Expire, AddressFails
<1>8. CASE Tick
  BY <1>8 DEF Tick
<1>9. CASE NoMoreRequests \/ UNCHANGED requestVars
  BY <1>9 DEF NoMoreRequests, requestVars
<1> QED
  BY <1>1, <1>2, <1>3, <1>4, <1>5, <1>6, <1>7, <1>8, <1>9, RequestCases

\* Lemma: Every step keeps the types.
LEMMA RequestTypeStep == ASSUME RequestTypeOK, [RequestNext]_requestVars PROVE RequestTypeOK'
<1>1. CallType' /\ HandlerType' /\ ResponseType' /\ CountType'
  BY TypeParts, CallStep, HandlerStep, ResponseStep, CountStep
<1> QED
  BY <1>1 DEF RequestTypeOK, CallType, HandlerType, ResponseType, CountType

(***************************************************************************)
(* The variables keep their types: no address beyond the last is tried and *)
(* at most one chunk beyond the limit is kept (client.py, request).        *)
(***************************************************************************)
THEOREM RequestTypeCorrect == RequestSpec => []RequestTypeOK
  BY RequestTypeInit, RequestTypeStep, PTL DEF RequestSpec

-----------------------------------------------------------------------------
\* Where the alarm may be armed, and where its handler is installed.
AlarmInv ==
    /\ pc \in {"idle", "install", "arm", "restore", "judge"} => alarm = Off
    /\ pc \in Waiting \cup {"arm", "enter", "close", "disarm"} => handler = "raises"
    /\ pc # "killed"

\* Lemma: Every step keeps the alarm and its handler inside the request.
LEMMA AlarmStep ==
    ASSUME RequestTypeOK, AlarmInv, [RequestNext]_requestVars PROVE AlarmInv'
<1> USE ClientAssumption DEF AlarmInv, RequestTypeOK, Labels, Waiting, Off,
            deadline, response, time, Goto, Local, Network, Ends
<1>1. CASE UNCHANGED requestVars
  BY <1>1 DEF requestVars
<1>2. CASE \E c \in Calls : Begin(c)
  BY <1>2 DEF Begin
<1>3. CASE \E r \in Responses : Answer(r)
  BY <1>3 DEF Answer
<1>4. CASE Install \/ Arm \/ Enter
  BY <1>4 DEF Install, Arm, Enter
<1>11. CASE Disarm \/ Restore \/ Close
  BY <1>11 DEF Disarm, Restore, Close
<1>5. CASE Resolve \/ Breaks \/ Drip
  BY <1>5 DEF Resolve, Breaks, Drip
<1>6. CASE Connect \/ SocketTimesOut
  BY <1>6 DEF Connect, SocketTimesOut, AddressFails
<1>7. CASE ReadChunk \/ ReadReturns
  BY <1>7 DEF ReadChunk, ReadReturns
<1>8. CASE Expire
  BY <1>8 DEF Expire, AddressFails, Due
<1>9. CASE Tick
  BY <1>9 DEF Tick
<1>10. CASE Judge \/ NoMoreRequests
  BY <1>10 DEF Judge, NoMoreRequests, requestVars
<1> QED
  BY <1>1, <1>2, <1>3, <1>4, <1>5, <1>6, <1>7, <1>8, <1>9, <1>10, <1>11, RequestCases

(***************************************************************************)
(* The alarm of a request never outlives it, and never meets the default   *)
(* action of SIGALRM, at whatever statement it expires (client.py:79-87).  *)
(***************************************************************************)
THEOREM AlarmConfined == RequestSpec => []AlarmStaysInside
<1>1. RequestInit => AlarmInv
  BY DEF RequestInit, AlarmInv, Waiting
<1>2. RequestTypeOK /\ AlarmInv => AlarmStaysInside
  BY DEF RequestTypeOK, AlarmInv, AlarmStaysInside, Labels, Waiting
<1> QED
  BY <1>1, <1>2, RequestTypeCorrect, AlarmStep, PTL DEF RequestSpec

-----------------------------------------------------------------------------
\* With one address an armed alarm always ends the waits of a request.
BoundInv ==
    /\ pc \in {"install", "arm", "enter"} => elapsed = 0
    /\ pc = "resolve" =>
        /\ elapsed = waited /\ waited <= ResolverTime
        /\ alarm # Off
        /\ alarm > 0 => elapsed + alarm = Timeout
        /\ alarm = 0 => elapsed >= Timeout
    /\ pc # "resolve" /\ alarm # Off => elapsed + alarm = Timeout
    /\ pc \in {"enter", "connect", "answer", "read"} => alarm # Off
    /\ elapsed <= Timeout \/ elapsed <= ResolverTime

\* Lemma: Every step keeps elapsed time and alarm in balance.
LEMMA BoundStep ==
    ASSUME Addresses = 1, RequestTypeOK, AlarmInv, BoundInv, [RequestNext]_requestVars
    PROVE  BoundInv'
<1> USE ClientAssumption DEF BoundInv, RequestTypeOK, Off,
            deadline, response, time, Goto, Local, Network, Ends
<1>1. CASE UNCHANGED requestVars
  BY <1>1 DEF requestVars
<1>2. CASE \E c \in Calls : Begin(c)
  BY <1>2 DEF Begin, AlarmInv
<1>3. CASE \E r \in Responses : Answer(r)
  BY <1>3 DEF Answer
<1>4. CASE Install \/ Arm \/ Enter
  BY <1>4 DEF Install, Arm, Enter, AlarmInv
<1>5. CASE Disarm
  BY <1>5 DEF Disarm, AlarmInv
<1>13. CASE Restore
  BY <1>13 DEF Restore, AlarmInv
<1>14. CASE Close
  BY <1>14 DEF Close
<1>6. CASE Resolve
  BY <1>6 DEF Resolve, Due
<1>7. CASE Breaks \/ Drip
  BY <1>7 DEF Breaks, Drip
<1>8. CASE Connect \/ SocketTimesOut
  BY <1>8 DEF Connect, SocketTimesOut, AddressFails
<1>9. CASE ReadChunk \/ ReadReturns
  BY <1>9 DEF ReadChunk, ReadReturns
<1>10. CASE Expire
  BY <1>10 DEF Expire, AddressFails, Due, AlarmInv, Waiting
<1>11. CASE Tick
  <2>1. CASE pc = "resolve"
    BY <1>11, <2>1 DEF Tick, Due
  <2>2. CASE pc # "resolve"
    BY <1>11, <2>2 DEF Tick, Due, Waiting
  <2> QED
    BY <2>1, <2>2
<1>12. CASE Judge \/ NoMoreRequests
  BY <1>12 DEF Judge, NoMoreRequests, requestVars, AlarmInv
<1> QED
  BY <1>1, <1>2, <1>3, <1>4, <1>5, <1>6, <1>7, <1>8, <1>9, <1>10, <1>11, <1>12, <1>13, <1>14, RequestCases

(***************************************************************************)
(* With one address no request outlasts its timeout, or the resolver,      *)
(* whatever the server sends (client.py:70-87).                            *)
(***************************************************************************)
THEOREM RequestBounded == RequestSpec => []RequestIsBounded
<1>1. CASE Addresses = 1
  <2>1. RequestInit => BoundInv
    BY ClientAssumption DEF RequestInit, BoundInv, Off
  <2>2. RequestInit => AlarmInv
    BY DEF RequestInit, AlarmInv, Waiting
  <2>3. BoundInv => RequestIsBounded
    BY DEF BoundInv, RequestIsBounded
  <2>4. RequestTypeOK /\ AlarmInv /\ BoundInv /\ [RequestNext]_requestVars => BoundInv'
    BY <1>1, BoundStep
  <2>5. RequestTypeOK /\ AlarmInv /\ [RequestNext]_requestVars => AlarmInv'
    BY AlarmStep
  <2> QED
    BY <2>1, <2>2, <2>3, <2>4, <2>5, RequestTypeCorrect, PTL DEF RequestSpec
<1>2. CASE Addresses # 1
  <2>1. RequestIsBounded
    BY <1>2 DEF RequestIsBounded
  <2> QED
    BY <2>1, PTL
<1> QED
  BY <1>1, <1>2

-----------------------------------------------------------------------------
\* What "ok" means from the read to the end of the request.
WholeInv ==
    outcome = "ok" =>
        /\ pc \in {"close", "disarm", "restore", "judge", "idle"}
        /\ server.status = "200" /\ ended /\ got <= Limit
        /\ pc = "idle" /\ call \in {"get", "catalog"} => Parses
        /\ got <= server.size /\ server.document <= server.size

\* The status of a response that is being read.
ReadInv ==
    /\ pc \in Waiting => outcome = "none"
    /\ pc = "read" => server.status = "200"
    /\ pc \in {"install", "arm", "enter"} => outcome = "none"
    /\ server.document <= server.size

\* Lemma: Every step keeps an accepted response whole.
LEMMA WholeStep ==
    ASSUME RequestTypeOK, AlarmInv, ReadInv, WholeInv, [RequestNext]_requestVars
    PROVE  ReadInv' /\ WholeInv'
<1> USE ClientAssumption DEF ReadInv, WholeInv, RequestTypeOK, Waiting, Parses,
            deadline, response, time, Goto, Local, Network, Ends
<1>1. CASE UNCHANGED requestVars
  BY <1>1 DEF requestVars
<1>2. CASE \E c \in Calls : Begin(c)
  BY <1>2 DEF Begin
<1>3. CASE \E r \in Responses : Answer(r)
  BY <1>3 DEF Answer, Responses
<1>4. CASE Install \/ Arm \/ Enter \/ Disarm \/ Restore \/ Close
  BY <1>4 DEF Install, Arm, Enter, Disarm, Restore, Close
<1>5. CASE Resolve \/ Breaks \/ Drip
  BY <1>5 DEF Resolve, Breaks, Drip
<1>6. CASE Connect \/ SocketTimesOut
  BY <1>6 DEF Connect, SocketTimesOut, AddressFails
<1>7. CASE ReadChunk
  BY <1>7 DEF ReadChunk
<1>8. CASE ReadReturns
  BY <1>8 DEF ReadReturns
<1>9. CASE Expire
  BY <1>9 DEF Expire, AddressFails, AlarmInv, Due, Off, Labels
<1>10. CASE Tick
  BY <1>10 DEF Tick
<1>11. CASE Judge
  BY <1>11 DEF Judge
<1>12. CASE NoMoreRequests
  BY <1>12 DEF NoMoreRequests, requestVars
<1> QED
  BY <1>1, <1>2, <1>3, <1>4, <1>5, <1>6, <1>7, <1>8, <1>9, <1>10, <1>11, <1>12, RequestCases

(***************************************************************************)
(* An accepted response is one with status 200 that was read to its end,   *)
(* and its document is not truncated (client.py, request, get, catalog).   *)
(***************************************************************************)
THEOREM AcceptedWhole == RequestSpec => []AcceptedIsWhole
<1>1. RequestInit => AlarmInv /\ ReadInv /\ WholeInv
  BY DEF RequestInit, AlarmInv, ReadInv, WholeInv, Waiting
<1>2. RequestTypeOK /\ WholeInv => AcceptedIsWhole
  <2> SUFFICES ASSUME RequestTypeOK, WholeInv PROVE AcceptedIsWhole
    OBVIOUS
  <2>1. {got, server.size, server.document} \subseteq Nat
    BY DEF RequestTypeOK, Responses
  <2> QED
    BY <2>1 DEF WholeInv, AcceptedIsWhole, Parses
<1> QED
  BY <1>1, <1>2, RequestTypeCorrect, AlarmStep, WholeStep, PTL DEF RequestSpec

-----------------------------------------------------------------------------
(***************************************************************************)
(* A list that has a matching server has a first one.                      *)
(***************************************************************************)
LEMMA FirstPosition ==
    ASSUME NEW n \in Nat, NEW S \in SUBSET (1 .. n), S # {}
    PROVE  \E i \in S : \A j \in S : i <= j
<1> DEFINE T == {n - i : i \in S}
<1>1. T \in SUBSET (0 .. n) /\ T # {}
  <2>1. \A i \in S : n - i \in 0 .. n
    OBVIOUS
  <2>2. PICK i \in S : TRUE
    OBVIOUS
  <2>3. n - i \in T
    OBVIOUS
  <2> QED
    BY <2>1, <2>3, Zenon
<1>2. \E i \in T : \A j \in T : j <= i
  <2> HIDE DEF T
  <2> QED
    BY <1>1, LastPosition
<1>3. PICK i \in S : \A j \in T : j <= n - i
  BY <1>2
<1>4. \A j \in S : n - j <= n - i
  BY <1>3
<1> QED
  BY <1>4

(***************************************************************************)
(* What enrich_metadata makes of a registration: nothing without a match,  *)
(* and else the usable fields of one entry that has its address or its     *)
(* name (generation.py, enrich_metadata).                                  *)
(***************************************************************************)
LEMMA EnrichedByMatch ==
    ASSUME NEW list \in Seq(Advertised), NEW m,
           m \in [name : Names \cup {NoName}, ip : Addressed, region : Regions \cup {Unusable}],
           Enrich(m, list) # m
    PROVE  \E k \in DOMAIN list :
             LET found == list[k] IN
             /\ found.ip = m.ip \/ found.cn = m.name
             /\ Enrich(m, list) =
                  [m EXCEPT !.name = IF found.cn \in ServerNames THEN found.cn ELSE m.name,
                            !.region = IF found.region = Unusable THEN m.region
                                       ELSE found.region]
<1> DEFINE hits == Matches(m, list)
           k == CHOOSE k \in hits : \A l \in hits : k <= l
<1>1. hits # {}
  BY DEF Enrich
<1>2. hits \in SUBSET (1 .. Len(list)) /\ Len(list) \in Nat
  BY DEF Matches
<1>3. \E i \in hits : \A l \in hits : i <= l
  <2> HIDE DEF hits
  <2> QED
    BY <1>1, <1>2, FirstPosition
<1>4. k \in hits
  <2> HIDE DEF hits
  <2> QED
    BY <1>3
<1>5. k \in DOMAIN list /\ (list[k].ip = m.ip \/ list[k].cn = m.name)
  BY <1>4 DEF Matches
<1>6. Enrich(m, list) =
        [m EXCEPT !.name = IF list[k].cn \in ServerNames THEN list[k].cn ELSE @,
                  !.region = IF list[k].region = Unusable THEN @ ELSE list[k].region]
  BY <1>1 DEF Enrich
<1> HIDE DEF k
<1> QED
  BY <1>5, <1>6

(***************************************************************************)
(* Enriched metadata are metadata of the same address; whatever the        *)
(* catalog says, a name the script reported is not lost.                   *)
(***************************************************************************)
LEMMA EnrichKeepsTypes ==
    ASSUME NEW list \in Seq(Advertised), NEW m,
           m \in [name : Names \cup {NoName}, ip : Addressed, region : Regions \cup {Unusable}]
    PROVE  /\ Enrich(m, list) \in
                [name : Names \cup {NoName}, ip : Addressed, region : Regions \cup {Unusable}]
           /\ Enrich(m, list).ip = m.ip
           /\ m.name \in Names => Enrich(m, list).name \in Names
<1>1. CASE Enrich(m, list) = m
  BY <1>1
<1>2. CASE Enrich(m, list) # m
  <2>1. PICK k \in DOMAIN list :
          Enrich(m, list) =
            [m EXCEPT !.name = IF list[k].cn \in ServerNames THEN list[k].cn ELSE m.name,
                      !.region = IF list[k].region = Unusable THEN m.region
                                 ELSE list[k].region]
    BY <1>2, EnrichedByMatch, ZenonT(30)
  <2>2. list[k] \in Advertised
    OBVIOUS
  <2>3. list[k].region \in Regions \cup {Unusable}
    BY <2>2 DEF Advertised
  <2> DEFINE name == IF list[k].cn \in ServerNames THEN list[k].cn ELSE m.name
             region == IF list[k].region = Unusable THEN m.region ELSE list[k].region
  <2>4. name \in Names \cup {NoName} /\ region \in Regions \cup {Unusable}
        /\ (m.name \in Names => name \in Names)
    BY <2>3, AttemptAssumption
  <2>5. Enrich(m, list) = [m EXCEPT !.name = name, !.region = region]
    BY <2>1
  <2> HIDE DEF name, region
  <2> QED
    BY <2>4, <2>5
<1> QED
  BY <1>1, <1>2

-----------------------------------------------------------------------------
(***************************************************************************)
(* An attempt makes its requests one after another through module Client:  *)
(* whatever else it does between them, Gluetun's own steps included, their *)
(* variables only change as RequestNext has it.                            *)
(***************************************************************************)
LEMMA RequestOfStep == ASSUME [AttemptNext]_attemptVars PROVE [RequestNext]_requestVars
<1>1. CASE Ask
  <2>1. Asks[phase] \in Calls /\ Begin(Asks[phase])
    BY <1>1 DEF Ask, Asks, Calls
  <2> QED
    BY <2>1 DEF RequestNext
<1>2. CASE Request
  BY <1>2 DEF Request, RequestNext
<1>3. CASE Respond
  BY <1>3 DEF Respond, RequestNext
<1>4. CASE ~Ask /\ ~Request /\ ~Respond
  BY <1>4 DEF AttemptNext, Decisions, ReadOutput, ScriptSucceeds, ScriptFails, WriteMetadata,
     MetadataTooLate, Retain, Abandon, Submitted, Compare, Decide, Receive, Apply, Rest,
     attemptVars
<1> QED
  BY <1>1, <1>2, <1>3, <1>4

(***************************************************************************)
(* Every attempt implements the client: what holds of its requests holds   *)
(* of a recovery's catalog, submission, read-back and health requests, and *)
(* each starts where the one before it left alarm and handler.             *)
(***************************************************************************)
THEOREM RequestsOfAttempt == AttemptSpec => RequestSpec
<1>1. AttemptInit => RequestInit
  BY DEF AttemptInit
<1> QED
  BY <1>1, RequestOfStep, PTL DEF AttemptSpec, RequestSpec

\* Lemma: what has been read is dropped as a whole.
LEMMA ForgottenOutput == ForgetOutput => LinesInv' /\ NameInv'
<1> SUFFICES ASSUME ForgetOutput PROVE LinesInv' /\ NameInv'
  OBVIOUS
<1>1. /\ stream' = <<>> /\ taken' = 0 /\ first' = 1 /\ dropping' = FALSE
      /\ lines' = {} /\ hostname' = NoName /\ reading' = "done"
  BY DEF ForgetOutput
<1>2. Len(stream') = 0
  BY <1>1
<1>3. TranscriptTypeOK'
  <2>1. stream' \in Streams
    BY <1>1, AttemptAssumption
  <2>2. taken' \in 0 .. Len(stream') /\ first' \in 1 .. taken' + 1
    BY <1>1, <1>2
  <2>3. /\ lines' \subseteq (1 .. taken' + 1) \X (0 .. taken')
        /\ dropping' \in BOOLEAN /\ hostname' \in Names \cup {NoName}
        /\ reading' \in {"read", "split", "done", "failed"}
    BY <1>1
  <2> QED
    BY <2>1, <2>2, <2>3 DEF TranscriptTypeOK
<1>4. RecordedAreWhole'
  BY <1>1 DEF RecordedAreWhole
<1>5. AllAreRecorded'
  BY <1>2 DEF AllAreRecorded
<1>6. NameIsLastReported'
  BY <1>1 DEF NameIsLastReported
<1> QED
  BY <1>1, <1>3, <1>4, <1>5, <1>6 DEF LinesInv, NameInv

\* Lemma: every step of an attempt is one of the reading loop, drops the output
\* or leaves it alone.
LEMMA OutputOfStep ==
    ASSUME [AttemptNext]_attemptVars
    PROVE  [TranscriptNext]_transcriptVars \/ ForgetOutput
<1>1. CASE ReadOutput
  BY <1>1 DEF ReadOutput
<1>2. CASE ScriptSucceeds \/ ScriptFails
  BY <1>2 DEF ScriptSucceeds, ScriptFails
<1>3. CASE ~ReadOutput /\ ~ScriptSucceeds /\ ~ScriptFails
  BY <1>3 DEF AttemptNext, Decisions, WriteMetadata, MetadataTooLate, Retain, Abandon, Ask,
     Submitted, Compare, Decide, Request, Respond, Receive, Apply, Rest, attemptVars
<1> QED
  BY <1>1, <1>2, <1>3

\* Lemma: the invariants of the output hold throughout an attempt.
LEMMA OutputOfAttempt == AttemptSpec => [](LinesInv /\ NameInv)
<1>1. AttemptInit => LinesInv /\ NameInv
  <2> SUFFICES ASSUME TranscriptInit PROVE LinesInv /\ NameInv
    BY DEF AttemptInit
  <2>1. LinesInv
    BY LinesInit
  <2>2. NameInv
    BY TypeInit DEF TranscriptInit, NameInv, NameIsLastReported, InOrder
  <2> QED
    BY <2>1, <2>2
<1>2. LinesInv /\ NameInv /\ [AttemptNext]_attemptVars => (LinesInv /\ NameInv)'
  <2> SUFFICES ASSUME LinesInv, NameInv, [AttemptNext]_attemptVars
               PROVE  LinesInv' /\ NameInv'
    OBVIOUS
  <2>1. CASE [TranscriptNext]_transcriptVars
    BY <2>1, LinesStep, NameStep
  <2>2. CASE ForgetOutput
    BY <2>2, ForgottenOutput
  <2> QED
    BY <2>1, <2>2, OutputOfStep
<1> QED
  BY <1>1, <1>2, PTL DEF AttemptSpec

(***************************************************************************)
(* What client.py and run_script promise holds throughout an attempt: the  *)
(* alarm stays inside its request, a request is bounded and an accepted    *)
(* answer whole, the script's lines and name are those of its output, and  *)
(* no line that is logged shows a credential.                              *)
(***************************************************************************)
THEOREM PartsOfAttempt ==
    AttemptSpec =>
        [](/\ AlarmStaysInside /\ RequestIsBounded /\ AcceptedIsWhole
           /\ LinesAreWhole /\ NameIsLastReported /\ NoCredentialShown)
<1>1. LinesInv => LinesAreWhole
  BY DEF LinesInv, LinesAreWhole, RecordedAreWhole, AllAreRecorded
<1>2. NameInv => NameIsLastReported
  BY DEF NameInv
<1>3. LinesInv => NoCredentialShown
  BY HidesEvery DEF LinesInv
<1> QED
  BY <1>1, <1>2, <1>3, OutputOfAttempt, RequestsOfAttempt, AlarmConfined, RequestBounded,
     AcceptedWhole, PTL

(***************************************************************************)
(* Nor does the log of an attempt show a fragment of a credential, where   *)
(* no credential begins with the end of another (log.py, redact).          *)
(***************************************************************************)
THEOREM NoFragmentInAttempt ==
    ASSUME \A s, t \in Secrets : ~Overlap(s, t)
    PROVE  AttemptSpec => []SecretsAreMasked
<1>1. LinesInv => SecretsAreMasked
  BY MasksEvery DEF LinesInv
<1> QED
  BY <1>1, OutputOfAttempt, PTL

-----------------------------------------------------------------------------
(***************************************************************************)
(* The invariant of an attempt.  A request is the one its phase began, and *)
(* the candidate is undecided until the attempt is over.                   *)
(***************************************************************************)
PhaseInv ==
    /\ phase \in Phases
    /\ phase \in Calls => call = phase
    /\ phase \notin Calls => pc = "idle"
    /\ phase \in {"script", "enrich", "catalog", "retain", "failed"} => pending = "none"
    /\ phase \in {"submit", "apply", "compare", "get", "probe", "healthy"} => pending = "kept"
    /\ phase = "over" => pending \in {"saved", "discarded"}

\* The metadata belong to the registered address and, once they are kept, name
\* its server.
MetadataInv ==
    /\ metadata \in [name : Names \cup {NoName}, ip : Addressed, region : Regions \cup {Unusable}]
    /\ catalog \in Catalogs \cup {<<>>}
    /\ metadata.ip = Endpoint
    /\ phase \in {"script", "enrich", "catalog"} => metadata.region = Unusable
    /\ phase \notin {"script", "enrich", "catalog", "failed"} => metadata.name \in Names

\* Gluetun runs the old key until it applied the update, for good; an answer
\* with another key is what it still runs.
GluetunInv ==
    /\ update \in {"none", "received", "applied"}
    /\ DOMAIN gluetun = DOMAIN Before /\ DOMAIN told = DOMAIN Before
    /\ gluetun.ip \in Addressed /\ told.ip \in Addressed
    /\ update # "applied" => gluetun.key = Old
    /\ told.key = Old \/ (update = "applied" /\ told = gluetun)

\* A candidate whose health is probed, or that is saved, was read back.
DecidedInv ==
    /\ phase \in {"probe", "healthy"} \/ pending = "saved" => ContainsSettings(told, Candidate)
    /\ DiscardedIsNotRun

AttemptInv == PhaseInv /\ MetadataInv /\ GluetunInv /\ DecidedInv

\* Lemma: every step is a decision or leaves phase, metadata and candidate alone.
LEMMA UndecidedStep ==
    ASSUME [AttemptNext]_attemptVars, ~Decisions
    PROVE  UNCHANGED <<phase, metadata, catalog, pending>>
  BY DEF AttemptNext, ReadOutput, Request, Respond, Receive, Apply, Rest, attemptVars, facts

\* Lemma: every step keeps the phase with its request and its candidate.
LEMMA PhaseStep ==
    ASSUME RequestTypeOK, PhaseInv, [AttemptNext]_attemptVars PROVE PhaseInv'
<1> USE DEF PhaseInv, Phases, Calls, Asks
<1>1. CASE ScriptSucceeds \/ ScriptFails \/ MetadataTooLate \/ Retain \/ Abandon
  BY <1>1 DEF ScriptSucceeds, ScriptFails, MetadataTooLate, Retain, Abandon, requestVars
<1>2. CASE WriteMetadata
  BY <1>2 DEF WriteMetadata, requestVars
<1>3. CASE Ask
  BY <1>3 DEF Ask, Begin
<1>4. CASE Submitted \/ Compare \/ Decide
  BY <1>4 DEF Submitted, Compare, Decide, requestVars
<1>5. CASE Request
  <2>1. call' = call
    BY <1>5 DEF Request, Progress, Tick, Drip, ReadChunk, Install, Arm, Enter, Resolve, Connect,
       Breaks, ReadReturns, Close, SocketTimesOut, Expire, Disarm, Restore, Judge, Local, Network
  <2> QED
    BY <1>5, <2>1 DEF Request
<1>6. CASE Respond
  BY <1>6 DEF Respond, Answer, Network
<1>7. CASE ReadOutput \/ Receive \/ Apply \/ Rest \/ UNCHANGED attemptVars
  BY <1>7 DEF ReadOutput, Receive, Apply, Rest, attemptVars, requestVars
<1> QED
  BY <1>1, <1>2, <1>3, <1>4, <1>5, <1>6, <1>7 DEF AttemptNext, Decisions

\* Lemma: every step keeps the metadata those of the registered address.
LEMMA MetadataStep ==
    ASSUME TranscriptTypeOK, PhaseInv, MetadataInv, [AttemptNext]_attemptVars
    PROVE  MetadataInv'
<1>1. CASE ScriptSucceeds
  BY <1>1, AttemptAssumption DEF ScriptSucceeds, MetadataInv, Registered, TranscriptTypeOK
<1>2. CASE WriteMetadata
  <2>1. CASE outcome = "ok" /\ catalog' \in Catalogs /\ metadata' = Enrich(metadata, catalog')
    <3>1. catalog' \in Seq(Advertised)
      BY <2>1, AttemptAssumption
    <3>2. /\ metadata' \in [name : Names \cup {NoName}, ip : Addressed,
                            region : Regions \cup {Unusable}]
          /\ metadata'.ip = metadata.ip
      BY <2>1, <3>1, EnrichKeepsTypes DEF MetadataInv
    <3> QED
      BY <1>2, <2>1, <3>2 DEF WriteMetadata, MetadataInv
  <2>2. CASE UNCHANGED facts
    BY <1>2, <2>2 DEF WriteMetadata, MetadataInv, facts
  <2> QED
    BY <1>2, <2>1, <2>2 DEF WriteMetadata
<1>3. CASE Ask
  BY <1>3 DEF Ask, Asks, MetadataInv, facts
<1>4. CASE ScriptFails \/ MetadataTooLate \/ Retain \/ Abandon
  BY <1>4 DEF ScriptFails, MetadataTooLate, Retain, Abandon, MetadataInv, facts
<1>5. CASE Submitted \/ Compare \/ Decide
  BY <1>5 DEF Submitted, Compare, Decide, MetadataInv, facts
<1>6. CASE ~Decisions
  BY <1>6, UndecidedStep DEF MetadataInv
<1> QED
  BY <1>1, <1>2, <1>3, <1>4, <1>5, <1>6 DEF Decisions

\* Lemma: every step keeps what Gluetun told in agreement with what it runs.
LEMMA GluetunStep ==
    ASSUME MetadataInv, GluetunInv, [AttemptNext]_attemptVars PROVE GluetunInv'
<1>1. CASE Respond
  BY <1>1 DEF Respond, GluetunInv
<1>2. CASE Receive
  BY <1>2 DEF Receive, GluetunInv
<1>3. CASE Apply
  <2>1. PICK kept \in Retained :
          gluetun' = [field \in DOMAIN gluetun |->
                        IF field \in kept THEN Candidate[field] ELSE gluetun[field]]
    BY <1>3 DEF Apply
  <2>2. /\ update = "received" /\ update' = "applied" /\ told' = told
        /\ DOMAIN gluetun = DOMAIN Before /\ gluetun.ip \in Addressed
    BY <1>3 DEF Apply, GluetunInv
  <2>3. "ip" \in DOMAIN Before /\ Candidate["ip"] = metadata.ip
    BY DEF Before, Candidate, Settings
  <2>4. DOMAIN gluetun' = DOMAIN Before
    BY <2>1, <2>2
  <2>5. gluetun'["ip"] \in Addressed
    <3>1. gluetun'["ip"] = IF "ip" \in kept THEN Candidate["ip"] ELSE gluetun["ip"]
      BY <2>1, <2>2, <2>3
    <3>2. Candidate["ip"] \in Addressed
      BY <2>3 DEF MetadataInv
    <3> QED
      BY <2>2, <3>1, <3>2
  <2>6. told.key = Old
    BY <2>2 DEF GluetunInv
  <2> QED
    BY <2>2, <2>4, <2>5, <2>6 DEF GluetunInv
<1>4. CASE ~Respond /\ ~Receive /\ ~Apply
  <2>1. UNCHANGED world
    BY <1>4 DEF AttemptNext, Decisions, ReadOutput, ScriptSucceeds, ScriptFails, WriteMetadata,
       MetadataTooLate, Retain, Abandon, Ask, Submitted, Compare, Decide, Request, Rest,
       attemptVars
  <2> QED
    BY <2>1 DEF world, GluetunInv
<1> QED
  BY <1>1, <1>2, <1>3, <1>4

\* Lemma: what is decided stays true, and is decided on a whole answer only.
LEMMA DecidedStep ==
    ASSUME AcceptedIsWhole, PhaseInv, GluetunInv, DecidedInv, [AttemptNext]_attemptVars
    PROVE  DecidedInv'
<1> DEFINE found == ContainsSettings(told, Candidate)
<1>1. \/ found
      \/ \E field \in Fields : told[field] # Candidate[field]
  <2>1. DOMAIN Candidate = Fields /\ Fields \subseteq DOMAIN told
    BY DEF Candidate, Settings, Fields, GluetunInv, Before
  <2> QED
    BY <2>1 DEF ContainsSettings
<1>2. CASE Compare
  <2>1. /\ phase = "get" /\ pending = "kept" /\ pc = "idle" /\ call = "get"
        /\ UNCHANGED <<requestVars, told, metadata>>
    BY <1>2 DEF Compare, PhaseInv, Calls, facts, world
  <2>2. Candidate' = Candidate
    BY <2>1 DEF Candidate
  <2>3. CASE outcome # "ok"
    BY <1>2, <2>1, <2>3 DEF Compare, DecidedInv, DiscardedIsNotRun
  <2>4. CASE outcome = "ok" /\ found
    BY <1>2, <2>1, <2>2, <2>4 DEF Compare, DecidedInv, DiscardedIsNotRun
  <2>5. CASE outcome = "ok" /\ ~found
    <3>1. server.status = "200" /\ ended /\ got = server.size /\ server.document > 0
      BY <2>1, <2>5 DEF AcceptedIsWhole
    <3>2. phase' = "over" /\ pending' = "discarded"
      BY <1>2, <2>5 DEF Compare
    <3>3. UNCHANGED <<call, server, ended, got>>
      BY <2>1 DEF requestVars, response
    <3> HIDE DEF found
    <3>4. \E field \in Fields : told'[field] # Candidate'[field]
      BY <1>1, <2>1, <2>2, <2>5
    <3>5. DiscardedIsNotRun'
      BY <2>1, <3>1, <3>3, <3>4 DEF DiscardedIsNotRun
    <3> QED
      BY <3>2, <3>5 DEF DecidedInv
  <2> QED
    BY <2>3, <2>4, <2>5
<1>3. CASE Decide
  <2>1. /\ phase = "healthy" /\ UNCHANGED <<told, metadata>>
        /\ pending' \in {"saved", "kept"}
    BY <1>3 DEF Decide, facts, world, PhaseInv
  <2>2. found'
    BY <2>1 DEF DecidedInv, Candidate
  <2> QED
    BY <2>1, <2>2 DEF DecidedInv, DiscardedIsNotRun
<1>4. CASE Ask
  <2>1. UNCHANGED <<told, metadata, pending>> /\ phase \notin {"over"} /\ phase \notin Calls
    BY <1>4 DEF Ask, Asks, facts, world, Calls
  <2>2. phase' \in {"probe", "healthy"} => phase = "probe"
    BY <1>4 DEF Ask, Asks
  <2>3. pending \notin {"saved", "discarded"}
    BY <1>4 DEF Ask, Asks, PhaseInv
  <2> QED
    BY <2>1, <2>2, <2>3 DEF DecidedInv, DiscardedIsNotRun, Candidate
<1>5. CASE ScriptSucceeds \/ ScriptFails \/ WriteMetadata \/ MetadataTooLate \/ Retain \/ Abandon
           \/ Submitted
  <2>1. pending' \in {"none", "kept"} /\ phase' \notin {"probe", "healthy"}
    BY <1>5 DEF ScriptSucceeds, ScriptFails, WriteMetadata, MetadataTooLate, Retain, Abandon,
       Submitted, PhaseInv
  <2> QED
    BY <2>1 DEF DecidedInv, DiscardedIsNotRun
<1>6. CASE Request \/ Respond
  <2>1. phase \in Calls /\ UNCHANGED <<phase, metadata, pending>>
    BY <1>6 DEF Request, Respond, facts
  <2>2. pending \in {"none", "kept"}
    BY <2>1 DEF PhaseInv, Calls
  <2>3. phase = "healthy" => told' = told
    BY <1>6 DEF Request, Respond, world
  <2> QED
    BY <2>1, <2>2, <2>3 DEF DecidedInv, DiscardedIsNotRun, Candidate, Calls
<1>7. CASE ReadOutput \/ Receive \/ Apply \/ Rest \/ UNCHANGED attemptVars
  <2>1. UNCHANGED <<requestVars, phase, metadata, pending, told>>
    BY <1>7 DEF ReadOutput, Receive, Apply, Rest, attemptVars, facts, world
  <2> QED
    BY <2>1 DEF DecidedInv, DiscardedIsNotRun, Candidate, requestVars, response
<1> QED
  BY <1>2, <1>3, <1>4, <1>5, <1>6, <1>7 DEF AttemptNext, Decisions

\* Lemma: an attempt begins with a registration that is not kept yet.
LEMMA AttemptInvInit == AttemptInit => AttemptInv
<1> SUFFICES ASSUME AttemptInit PROVE AttemptInv
  OBVIOUS
<1>1. PhaseInv
  BY DEF AttemptInit, RequestInit, PhaseInv, Phases, Calls
<1>2. MetadataInv
  BY AttemptAssumption DEF AttemptInit, MetadataInv, Registered
<1>3. GluetunInv
  <2>1. gluetun = Before /\ told = Before /\ update = "none"
    BY DEF AttemptInit
  <2>2. Before.key = Old /\ Before.ip \in Addressed
    BY AttemptAssumption DEF Before
  <2> QED
    BY <2>1, <2>2 DEF GluetunInv
<1>4. DecidedInv
  BY DEF AttemptInit, DecidedInv, DiscardedIsNotRun
<1> QED
  BY <1>1, <1>2, <1>3, <1>4 DEF AttemptInv

\* Lemma: the invariant of an attempt, over those of its parts.
LEMMA AttemptInvariant == AttemptSpec => [](RequestTypeOK /\ TranscriptTypeOK /\ AttemptInv)
<1>1. AcceptedIsWhole /\ RequestTypeOK /\ TranscriptTypeOK /\ AttemptInv
        /\ [AttemptNext]_attemptVars => AttemptInv'
  <2> SUFFICES ASSUME AcceptedIsWhole, RequestTypeOK, TranscriptTypeOK, AttemptInv,
                      [AttemptNext]_attemptVars
               PROVE  AttemptInv'
    OBVIOUS
  <2>1. PhaseInv /\ MetadataInv /\ GluetunInv /\ DecidedInv
    BY DEF AttemptInv
  <2>2. PhaseInv'
    BY <2>1, PhaseStep
  <2>3. MetadataInv'
    BY <2>1, MetadataStep
  <2>4. GluetunInv'
    BY <2>1, GluetunStep
  <2>5. DecidedInv'
    BY <2>1, DecidedStep
  <2> QED
    BY <2>2, <2>3, <2>4, <2>5 DEF AttemptInv
<1>2. LinesInv => TranscriptTypeOK
  BY DEF LinesInv
<1> QED
  BY <1>1, <1>2, AttemptInvInit, OutputOfAttempt, RequestsOfAttempt, RequestTypeCorrect,
     AcceptedWhole, PTL DEF AttemptSpec

(***************************************************************************)
(* The variables keep their types, and what is kept as a candidate names   *)
(* its server (generation.py, write_metadata).                             *)
(***************************************************************************)
THEOREM AttemptTypeCorrect == AttemptSpec => []AttemptTypeOK
<1>1. RequestTypeOK /\ TranscriptTypeOK /\ AttemptInv => AttemptTypeOK
  BY DEF AttemptInv, PhaseInv, MetadataInv, GluetunInv, AttemptTypeOK, Phases, Calls, Asks
<1> QED
  BY <1>1, AttemptInvariant, PTL

(***************************************************************************)
(* Whenever Gluetun receives and applies the update, however much of it it *)
(* retains, and whatever becomes of the submission's response, a candidate *)
(* is saved only if Gluetun runs every field of it (supervisor.py,         *)
(* resolve_pending).                                                       *)
(***************************************************************************)
THEOREM SavedRuns == AttemptSpec => []SavedIsRun
<1>1. AttemptInv => SavedIsRun
  <2> SUFFICES ASSUME AttemptInv, pending = "saved" PROVE SavedIsRun
    BY DEF SavedIsRun
  <2>1. ContainsSettings(told, Candidate)
    BY DEF AttemptInv, DecidedInv
  <2>2. /\ DOMAIN Candidate = Fields /\ Candidate["key"] = NewKey
        /\ "key" \in Fields
    BY DEF Candidate, Settings, Fields
  <2>3. \A field \in Fields : told[field] = Candidate[field]
    BY <2>1, <2>2 DEF ContainsSettings
  <2>4. told.key # Old
    BY <2>2, <2>3, AttemptAssumption
  <2>5. update = "applied" /\ told = gluetun
    BY <2>4 DEF AttemptInv, GluetunInv
  <2> QED
    BY <2>3, <2>5 DEF SavedIsRun
<1> QED
  BY <1>1, AttemptInvariant, PTL

(***************************************************************************)
(* A candidate is discarded only on an answer that was read to its end and *)
(* lacks a field of it, for every server and every timing of its requests  *)
(* (supervisor.py, resolve_pending).                                       *)
(***************************************************************************)
THEOREM DiscardedDoesNotRun == AttemptSpec => []DiscardedIsNotRun
<1>1. AttemptInv => DiscardedIsNotRun
  BY DEF AttemptInv, DecidedInv
<1> QED
  BY <1>1, AttemptInvariant, PTL

(***************************************************************************)
(* For every catalog, the name and the region that write_metadata keeps    *)
(* are those the script reported or those of one advertised server with    *)
(* the registered address or that name (generation.py, enrich_metadata).   *)
(***************************************************************************)
THEOREM MetadataOfOneServer == AttemptSpec => MetadataDescribesServer
<1> DEFINE named ==
             \/ metadata'.name = metadata.name
             \/ [ip |-> Endpoint, cn |-> metadata'.name] \in
                  {[ip |-> entry.ip, cn |-> entry.cn] : entry \in Range(catalog')}
           located ==
             \/ metadata'.region = Unusable
             \/ \E entry \in Range(catalog') :
                  /\ entry.region = metadata'.region
                  /\ entry.ip = Endpoint \/ entry.cn = metadata'.name
<1>1. ASSUME MetadataInv, WriteMetadata, phase' = "retain" PROVE named /\ located
  <2>1. CASE metadata' = metadata
    BY <1>1, <2>1 DEF MetadataInv, WriteMetadata
  <2>2. CASE metadata' # metadata
    <3>1. catalog' \in Seq(Advertised) /\ metadata' = Enrich(metadata, catalog')
      BY <1>1, <2>2, AttemptAssumption DEF WriteMetadata, facts
    <3>2. /\ metadata \in [name : Names \cup {NoName}, ip : Addressed,
                           region : Regions \cup {Unusable}]
          /\ metadata.ip = Endpoint /\ metadata.region = Unusable
      BY <1>1 DEF MetadataInv, WriteMetadata
    <3>3. PICK k \in DOMAIN catalog' :
            LET found == catalog'[k] IN
            /\ found.ip = metadata.ip \/ found.cn = metadata.name
            /\ metadata' =
                 [metadata EXCEPT !.name = IF found.cn \in ServerNames THEN found.cn
                                           ELSE metadata.name,
                                  !.region = IF found.region = Unusable THEN metadata.region
                                             ELSE found.region]
      BY <2>2, <3>1, <3>2, EnrichedByMatch, ZenonT(30)
    <3> DEFINE entry == catalog'[k]
    <3>4. entry \in Range(catalog')
      BY DEF Range
    <3> HIDE DEF entry
    <3>5. /\ entry.ip = Endpoint \/ entry.cn = metadata.name
          /\ metadata'.name = IF entry.cn \in ServerNames THEN entry.cn ELSE metadata.name
          /\ metadata'.region = IF entry.region = Unusable THEN Unusable ELSE entry.region
      BY <3>2, <3>3 DEF entry
    <3>6. named
      BY <3>4, <3>5
    <3>7. located
      BY <3>4, <3>5
    <3> QED
      BY <3>6, <3>7
  <2> QED
    BY <2>1, <2>2
<1>2. ASSUME AttemptInv, [AttemptNext]_attemptVars, phase = "catalog", phase' = "retain"
      PROVE  WriteMetadata
  BY <1>2 DEF AttemptNext, Decisions, ReadOutput, ScriptSucceeds, ScriptFails, MetadataTooLate,
     Retain, Abandon, Ask, Asks, Submitted, Compare, Decide, Request, Respond, Receive, Apply,
     Rest, attemptVars
<1>3. AttemptInv /\ [AttemptNext]_attemptVars =>
        [phase = "catalog" /\ phase' = "retain" => named /\ located]_attemptVars
  BY <1>1, <1>2 DEF AttemptInv
<1> QED
  BY <1>3, AttemptInvariant, PTL DEF AttemptSpec, MetadataDescribesServer
=============================================================================
