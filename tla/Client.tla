-------------------------------- MODULE Client --------------------------------
(***************************************************************************)
(* One HTTP request after another through docker/privateerr/client.py: the *)
(* one-shot alarm of deadline around urllib's open and read, with the two  *)
(* statements of its finally clause apart, and what get and catalog make   *)
(* of the body.  The resolver, the sockets and the signal delivery of      *)
(* Python's library are external:                                          *)
(*   - the alarm raises TimeoutError, an OSError, in whatever Python does  *)
(*     next; the resolver's call is not interrupted, a socket's is;        *)
(*   - create_connection catches OSError of one address and tries the next.*)
(* Time passes only where the code waits.  An expired alarm may arrive at  *)
(* once or some statements later, as long as it is armed.                  *)
(***************************************************************************)
EXTENDS Naturals

CONSTANTS
    Timeout,        \* seconds a request may take in total
    SocketTimeout,  \* seconds one wait for a socket may take
    ResolverTime,   \* seconds the resolver may block
    Addresses,      \* addresses of the server's name
    Limit,          \* chunks in the longest accepted body
    MaxRequests     \* bound on the number of requests

ASSUME ClientAssumption ==
    /\ Timeout \in Nat \ {0}
    /\ SocketTimeout \in Nat \ {0}
    /\ Addresses \in Nat \ {0}
    /\ ResolverTime \in Nat
    /\ Limit \in Nat
    /\ MaxRequests \in Nat

VARIABLES
    pc,         \* the next statement; "idle": the supervisor's other work
    call,       \* get, catalog, apply or healthy
    alarm,      \* seconds until ITIMER_REAL expires, or Off
    handler,    \* what SIGALRM does: kill the process, or raise
    previous,   \* the handler deadline will restore
    address,    \* the address being tried
    got,        \* chunks of the body that were read
    outcome,    \* how the request ended
    server,     \* the response: its status, its chunks, those of its document
    ended,      \* the server has ended the body
    waited,     \* seconds in the current wait
    elapsed,    \* seconds since the request began
    requests    \* requests made

deadline == <<alarm, handler, previous>>
response == <<server, ended>>
time == <<waited, elapsed>>
requestVars == <<pc, call, deadline, address, got, outcome, response, time, requests>>

Off == Timeout + 1

Calls == {"get", "catalog", "apply", "healthy"}
Waiting == {"resolve", "connect", "answer", "read"}
Labels == Waiting \cup {"idle", "install", "arm", "enter", "close", "disarm",
                        "restore", "judge", "killed"}
Outcomes == {"none", "ok", "timeout", "unreachable", "rejected",
             "oversized", "invalid"}

\* document: chunks up to the end of the JSON object, 0 if there is none.
Responses == [status : {"200", "other"}, size : 0 .. Limit + 2, document : 0 .. Limit + 2]

RequestTypeOK ==
    /\ pc \in Labels
    /\ call \in Calls
    /\ alarm \in 0 .. Off
    /\ handler \in {"kills", "raises"}
    /\ previous \in {"kills", "raises"}
    /\ address \in 1 .. Addresses
    /\ got \in 0 .. Limit + 1
    /\ outcome \in Outcomes
    /\ server \in Responses
    /\ ended \in BOOLEAN
    /\ waited \in Nat
    /\ elapsed \in Nat
    /\ requests \in Nat

RequestInit ==
    /\ pc = "idle"
    /\ call = "get"
    /\ alarm = Off
    /\ handler = "kills"
    /\ previous = "kills"
    /\ address = 1
    /\ got = 0
    /\ outcome = "none"
    /\ server = [status |-> "other", size |-> 0, document |-> 0]
    /\ ended = FALSE
    /\ waited = 0
    /\ elapsed = 0
    /\ requests = 0

Due == alarm = 0

Goto(label) == pc' = label /\ waited' = 0

-----------------------------------------------------------------------------
(* deadline: install the handler, arm the alarm, and undo both.            *)

Begin(c) ==
    /\ pc = "idle"
    /\ requests < MaxRequests
    /\ requests' = requests + 1
    /\ Goto("install")
    /\ call' = c
    /\ address' = 1
    /\ got' = 0
    /\ outcome' = "none"
    /\ ended' = FALSE
    /\ elapsed' = 0
    /\ UNCHANGED <<deadline, server>>

Local == UNCHANGED <<call, address, got, outcome, response, elapsed, requests>>

Install ==
    /\ pc = "install"
    /\ Goto("arm")
    /\ previous' = handler
    /\ handler' = "raises"
    /\ Local /\ UNCHANGED alarm

Arm ==
    /\ pc = "arm"
    /\ Goto("enter")
    /\ alarm' = Timeout
    /\ Local /\ UNCHANGED <<handler, previous>>

Enter ==
    /\ pc = "enter"
    /\ Goto("resolve")
    /\ Local /\ UNCHANGED deadline

\* Mutant: the handler is restored and the alarm is left armed.
DisarmForgotten ==
    /\ pc = "disarm"
    /\ Goto("restore")
    /\ Local /\ UNCHANGED deadline

Disarm ==
    /\ pc = "disarm"
    /\ Goto("restore")
    /\ alarm' = Off
    /\ Local /\ UNCHANGED <<handler, previous>>

Restore ==
    /\ pc = "restore"
    /\ Goto("judge")
    /\ handler' = previous
    /\ Local /\ UNCHANGED <<alarm, previous>>

-----------------------------------------------------------------------------
(* open and read, in Python's library.                                     *)

Ends(result) ==
    /\ Goto("disarm")
    /\ outcome' = result

\* Mutant: an interrupted connection is tried again at the same address.
AddressRetried(result) ==
    /\ pc = "connect"
    /\ IF result = "timeout" THEN Goto("connect") /\ UNCHANGED <<address, outcome>>
       ELSE Ends(result) /\ UNCHANGED address

\* create_connection: the error of one address leads to the next one.
AddressFails(result) ==
    /\ pc = "connect"
    /\ IF address < Addresses
       THEN Goto("connect") /\ address' = address + 1 /\ UNCHANGED outcome
       ELSE Ends(result) /\ UNCHANGED address

Network == UNCHANGED <<call, handler, previous, elapsed, requests>>

\* An alarm that expired meanwhile is raised as soon as the resolver returns.
Resolve ==
    /\ pc = "resolve"
    /\ \/ ~Due /\ Goto("connect") /\ UNCHANGED <<alarm, outcome>>
       \/ ~Due /\ Ends("unreachable") /\ UNCHANGED alarm
       \/ Due /\ Ends("timeout") /\ alarm' = Off
    /\ Network /\ UNCHANGED <<address, got, response>>

Connect ==
    /\ pc = "connect"
    /\ \/ Goto("answer") /\ UNCHANGED <<address, outcome>>
       \/ AddressFails("unreachable")
    /\ Network /\ UNCHANGED <<alarm, got, response>>

\* A part of the request or of the headers goes through, and the wait is new.
Drip ==
    /\ pc = "answer"
    /\ Goto("answer")
    /\ Local /\ UNCHANGED deadline

\* The request is sent and the status line and the headers have arrived.
Answer(r) ==
    /\ pc = "answer"
    /\ r.document <= r.size
    /\ server' = r
    /\ IF r.status = "200" THEN Goto("read") /\ UNCHANGED outcome ELSE Ends("rejected")
    /\ Network /\ UNCHANGED <<alarm, address, got, ended>>

\* A malformed response, or a connection that breaks.
Breaks ==
    /\ pc \in {"answer", "read"}
    /\ Ends("invalid") \/ Ends("unreachable")
    /\ Network /\ UNCHANGED <<alarm, address, got, response>>

ReadChunk ==
    /\ pc = "read"
    /\ got < server.size /\ got <= Limit
    /\ got' = got + 1
    /\ Goto("read")
    /\ Network /\ UNCHANGED <<alarm, address, outcome, response>>

\* Mutant: the read stops at the limit and takes what it has for the body.
ReadToLimit ==
    /\ pc = "read"
    /\ \/ got = Limit /\ UNCHANGED ended
       \/ got <= server.size /\ ended' = TRUE
    /\ Goto("close")
    /\ outcome' = IF got > Limit THEN "oversized" ELSE "ok"
    /\ Network /\ UNCHANGED <<alarm, address, got, server>>

\* read(limit + 1) returns: it has that much, or the server has ended the
\* body, which need not be complete.
ReadReturns ==
    /\ pc = "read"
    /\ \/ got > Limit /\ UNCHANGED ended
       \/ got <= server.size /\ ended' = TRUE
    /\ Goto("close")
    /\ outcome' = IF got > Limit THEN "oversized" ELSE "ok"
    /\ Network /\ UNCHANGED <<alarm, address, got, server>>

Close ==
    /\ pc = "close"
    /\ Goto("disarm")
    /\ Local /\ UNCHANGED deadline

SocketTimesOut ==
    /\ waited = SocketTimeout
    /\ \/ AddressFails("timeout")
       \/ pc \in {"answer", "read"} /\ Ends("timeout") /\ UNCHANGED address
    /\ Network /\ UNCHANGED <<alarm, got, response>>

-----------------------------------------------------------------------------
(* Time, the alarm, and the callers.                                       *)

\* A socket's wait is over at its timeout, or when the alarm is due.
Tick ==
    /\ pc \in Waiting
    /\ IF pc = "resolve" THEN waited < ResolverTime ELSE waited < SocketTimeout /\ ~Due
    /\ waited' = waited + 1
    /\ elapsed' = elapsed + 1
    /\ alarm' = IF alarm \in 1 .. Timeout THEN alarm - 1 ELSE alarm
    /\ UNCHANGED <<pc, call, handler, previous, address, got, outcome, response, requests>>

\* SIGALRM, unless the resolver holds it back.  Before the try, and in the
\* first statement of its finally clause, it skips the rest of deadline.
Expire ==
    /\ Due
    /\ pc # "resolve"
    /\ alarm' = Off
    /\ IF handler = "kills" THEN Goto("killed") /\ UNCHANGED <<address, outcome>>
       ELSE \/ AddressFails("timeout")
            \/ pc \in {"answer", "read", "close"} /\ Ends("timeout") /\ UNCHANGED address
            \/ /\ pc \in {"enter", "disarm"}
               /\ Goto("judge") /\ outcome' = "timeout" /\ UNCHANGED address
    /\ Network /\ UNCHANGED <<got, response>>

\* json.loads accepts the whole document only: of a get the whole body, of
\* the catalog its first line.
Parses == server.document > 0 /\ got >= IF call = "get" THEN server.size ELSE server.document

Judge ==
    /\ pc = "judge"
    /\ Goto("idle")
    /\ outcome' = IF outcome = "ok" /\ call \in {"get", "catalog"} /\ ~Parses
                  THEN "invalid" ELSE outcome
    /\ UNCHANGED <<call, deadline, address, got, response, elapsed, requests>>

NoMoreRequests == pc = "idle" /\ requests = MaxRequests /\ UNCHANGED requestVars

-----------------------------------------------------------------------------
Progress ==
    \/ Install \/ Arm \/ Enter \/ Resolve \/ Connect \/ Breaks \/ ReadReturns
    \/ Close \/ SocketTimesOut \/ Expire \/ Disarm \/ Restore \/ Judge

RequestNext ==
    \/ Progress \/ Tick \/ Drip \/ ReadChunk \/ NoMoreRequests
    \/ \E c \in Calls : Begin(c)
    \/ \E r \in Responses : Answer(r)

RequestSpec == RequestInit /\ [][RequestNext]_requestVars

\* Time passes, and what is neither a wait nor the server's doing happens.
RequestFairness ==
    /\ WF_requestVars(Tick)
    /\ WF_requestVars(Install \/ Arm \/ Enter \/ Close \/ Disarm \/ Restore \/ Judge)
    /\ WF_requestVars(SocketTimesOut \/ Expire)
    /\ WF_requestVars(pc = "resolve" /\ waited = ResolverTime /\ Resolve)

-----------------------------------------------------------------------------
(***************************************************************************)
(* "Cancel this request's alarm before later work can receive it"          *)
(* (client.py:85): no alarm is armed outside a request, nor while SIGALRM  *)
(* would end the process, wherever the alarm hits the set-up or clean-up.  *)
(***************************************************************************)
AlarmStaysInside ==
    /\ pc \in {"idle", "install", "arm", "judge"} \/ handler = "kills" => alarm = Off
    /\ pc # "killed"

(***************************************************************************)
(* A server with one address holds a request no longer than its timeout,   *)
(* or than the resolver blocked, whatever it sends and when (client.py:70).*)
(***************************************************************************)
RequestIsBounded ==
    Addresses = 1 => elapsed <= Timeout \/ elapsed <= ResolverTime

(***************************************************************************)
(* "Bound DNS, connection setup, and body reads" (client.py:72): a request *)
(* never takes longer than its timeout.                                    *)
(***************************************************************************)
TotalDeadline == elapsed <= Timeout

(***************************************************************************)
(* A response counts only with status 200, read to the end the server gave *)
(* it and within the limit; what get and catalog return is no truncated    *)
(* document (client.py, request, get, catalog).                            *)
(***************************************************************************)
AcceptedIsWhole ==
    pc = "idle" /\ outcome = "ok" =>
        /\ server.status = "200" /\ ended /\ got <= Limit
        /\ call = "get" => got = server.size /\ server.document > 0
        /\ call = "catalog" => got >= server.document /\ server.document > 0
=============================================================================
