------------------------------- MODULE Attempt -------------------------------
(***************************************************************************)
(* One recovery attempt from the output of the registering script to the   *)
(* decision about its candidate: generation.py, run_script and             *)
(* write_metadata, and supervisor.py, recover and resolve_pending, with    *)
(* every request they make in the detail of module Client and the script's *)
(* output in that of module Transcript.  Gluetun is external: it receives  *)
(* an update once it was sent, applies it before or after it answers or    *)
(* the client gave up, and may not retain all of it.                       *)
(***************************************************************************)
EXTENDS Client, Transcript, Metadata

CONSTANTS
    Catalogs,   \* what the catalog may list
    Endpoint,   \* the server this attempt registers at
    Selected,   \* the names a selected endpoint may bring, none for run_setup
    NewKey,     \* the key it registers
    Old,        \* a value of Gluetun's settings before the update
    Retained    \* the sets of fields Gluetun may retain of an update

Fields == {"key", "ip", "name"}

ASSUME AttemptAssumption ==
    /\ \A catalog \in Catalogs : catalog \in Seq(Advertised)
    /\ ServerNames = Names
    /\ Nameless = NoName
    /\ Endpoint \in Addressed
    /\ Selected \subseteq Names
    /\ Old # NewKey
    /\ Retained \subseteq SUBSET Fields
    /\ <<>> \in Streams

VARIABLES
    phase,      \* where the attempt is; while a request runs, its call
    metadata,   \* what privateerr.env says
    catalog,    \* the catalog it was enriched from
    pending,    \* the candidate: none, kept, saved or discarded
    gluetun,    \* Gluetun's connection settings, and one unrelated field
    update,     \* the submitted settings: none, received or applied
    told        \* the settings in Gluetun's last answer

facts == <<metadata, catalog>>
world == <<gluetun, update, told>>
attemptVars == <<requestVars, transcriptVars, phase, facts, pending, world>>

\* The requests, by the phase that begins them.
Asks == [enrich |-> "catalog", submit |-> "apply", compare |-> "get", probe |-> "healthy"]

Phases == {"script", "retain", "over", "failed"} \cup DOMAIN Asks \cup Calls

AttemptTypeOK ==
    /\ RequestTypeOK
    /\ TranscriptTypeOK
    /\ phase \in Phases
    /\ metadata \in [name : Names \cup {NoName}, ip : Addressed, region : Regions \cup {Unusable}]
    /\ catalog \in Catalogs \cup {<<>>}
    /\ pending \in {"none", "kept", "saved", "discarded"}
    /\ {gluetun.ip, told.ip} \subseteq Addressed
    /\ update \in {"none", "received", "applied"}
    /\ pending = "none" \/ metadata.name \in Names

Before == [key |-> Old, ip |-> Endpoint, name |-> Old, unrelated |-> Old]

AttemptInit ==
    /\ RequestInit
    /\ TranscriptInit
    /\ phase = "script"
    /\ metadata = Registered(NoName, Endpoint)
    /\ catalog = <<>>
    /\ pending = "none"
    /\ gluetun = Before
    /\ update = "none"
    /\ told = Before

Candidate == Settings(NewKey, metadata)

-----------------------------------------------------------------------------
(* The script, and the metadata of its registration.                       *)

ReadOutput ==
    /\ phase = "script"
    /\ TranscriptNext
    /\ UNCHANGED <<requestVars, phase, facts, pending, world>>

ForgetOutput ==
    /\ stream' = <<>>
    /\ taken' = 0
    /\ first' = 1
    /\ dropping' = FALSE
    /\ lines' = {}
    /\ hostname' = NoName
    /\ reading' = "done"

\* The server is called what run_setup reported, or, once recovery has selected an
\* endpoint, what that is called, whatever its two scripts print.
ScriptSucceeds ==
    /\ phase = "script"
    /\ reading = "done"
    /\ \E name \in {hostname} \cup Selected : metadata' = Registered(name, Endpoint)
    /\ phase' = "enrich"
    /\ ForgetOutput
    /\ UNCHANGED <<requestVars, catalog, pending, world>>

\* Its exit status, the deadline or the prompt.
ScriptFails ==
    /\ phase = "script"
    /\ reading \in {"done", "failed"}
    /\ phase' = "failed"
    /\ ForgetOutput
    /\ UNCHANGED <<requestVars, facts, pending, world>>

\* Mutant: a server without a name is no failure.
WriteMetadataUnnamed ==
    /\ phase = "catalog"
    /\ pc = "idle"
    /\ \/ /\ outcome = "ok"
          /\ catalog' \in Catalogs
          /\ metadata' = Enrich(metadata, catalog')
       \/ outcome # "ok" /\ UNCHANGED facts
    /\ phase' = "retain"
    /\ UNCHANGED <<requestVars, transcriptVars, pending, world>>

\* write_metadata after its request: an unavailable catalog is no failure, a
\* server without a name is one.
WriteMetadata ==
    /\ phase = "catalog"
    /\ pc = "idle"
    /\ \/ /\ outcome = "ok"
          /\ catalog' \in Catalogs
          /\ metadata' = Enrich(metadata, catalog')
       \/ outcome # "ok" /\ UNCHANGED facts
    /\ phase' = IF metadata'.name \in Names THEN "retain" ELSE "failed"
    /\ UNCHANGED <<requestVars, transcriptVars, pending, world>>

\* The deadline passed meanwhile.
MetadataTooLate ==
    /\ phase \in {"enrich", "catalog"}
    /\ pc = "idle"
    /\ phase' = "failed"
    /\ UNCHANGED <<requestVars, transcriptVars, facts, pending, world>>

-----------------------------------------------------------------------------
(* The candidate: kept, submitted, read back and decided.                  *)

Retain ==
    /\ phase = "retain"
    /\ phase' = "submit"
    /\ pending' = "kept"
    /\ catalog' = <<>>
    /\ UNCHANGED <<requestVars, transcriptVars, metadata, world>>

\* recover asks for status and health first (module Stack): the tunnel came
\* back, the operator stopped it, or Gluetun does not answer.
Abandon ==
    /\ phase = "retain"
    /\ phase' = "failed"
    /\ catalog' = <<>>
    /\ UNCHANGED <<requestVars, transcriptVars, metadata, pending, world>>

Ask ==
    /\ phase \in DOMAIN Asks
    /\ Begin(Asks[phase])
    /\ phase' = Asks[phase]
    /\ UNCHANGED <<transcriptVars, facts, pending, world>>

\* However the submission ended, the next step reads the settings back.
Submitted ==
    /\ phase = "apply"
    /\ pc = "idle"
    /\ phase' = "compare"
    /\ UNCHANGED <<requestVars, transcriptVars, facts, pending, world>>

\* Mutant: an answer that cannot be used counts as a refusal.
CompareOrRefuse ==
    /\ phase = "get"
    /\ pc = "idle"
    /\ IF outcome = "ok" /\ ContainsSettings(told, Candidate)
       THEN phase' = "probe" /\ UNCHANGED pending
       ELSE phase' = "over" /\ pending' = "discarded"
    /\ UNCHANGED <<requestVars, transcriptVars, facts, world>>

Compare ==
    /\ phase = "get"
    /\ pc = "idle"
    /\ IF outcome # "ok" THEN phase' = "compare" /\ UNCHANGED pending
       ELSE IF ContainsSettings(told, Candidate) THEN phase' = "probe" /\ UNCHANGED pending
       ELSE phase' = "over" /\ pending' = "discarded"
    /\ UNCHANGED <<requestVars, transcriptVars, facts, world>>

\* Healthy, publish saves it (module Store); unhealthy, it stays pending.
Decide ==
    /\ phase = "healthy"
    /\ pc = "idle"
    /\ IF outcome = "ok" THEN phase' = "over" /\ pending' = "saved"
       ELSE phase' = "compare" /\ UNCHANGED pending
    /\ UNCHANGED <<requestVars, transcriptVars, facts, world>>

-----------------------------------------------------------------------------
(* Requests in progress, and Gluetun.                                      *)

Request ==
    /\ phase \in Calls
    /\ Progress \/ Tick \/ Drip \/ ReadChunk
    /\ UNCHANGED <<transcriptVars, phase, facts, pending, world>>

Respond ==
    /\ phase \in Calls
    /\ \E r \in Responses : Answer(r)
    /\ told' = IF phase = "get" THEN gluetun ELSE told
    /\ UNCHANGED <<transcriptVars, phase, facts, pending, gluetun, update>>

Receive ==
    /\ phase = "apply"
    /\ pc = "answer"
    /\ update = "none"
    /\ update' = "received"
    /\ UNCHANGED <<requestVars, transcriptVars, phase, facts, pending, gluetun, told>>

Apply ==
    /\ update = "received"
    /\ update' = "applied"
    /\ \E kept \in Retained :
        gluetun' = [field \in DOMAIN gluetun |->
                        IF field \in kept THEN Candidate[field] ELSE gluetun[field]]
    /\ UNCHANGED <<requestVars, transcriptVars, phase, facts, pending, told>>

Finished ==
    \/ phase \in {"over", "failed"}
    \/ phase \in DOMAIN Asks /\ requests = MaxRequests

Rest == Finished /\ UNCHANGED attemptVars

-----------------------------------------------------------------------------
Decisions ==
    \/ ScriptSucceeds \/ ScriptFails \/ WriteMetadata \/ MetadataTooLate
    \/ Retain \/ Abandon \/ Ask \/ Submitted \/ Compare \/ Decide

AttemptNext ==
    ReadOutput \/ Decisions \/ Request \/ Respond \/ Receive \/ Apply \/ Rest

AttemptSpec == AttemptInit /\ [][AttemptNext]_attemptVars

\* The supervisor goes on, and time passes for its requests and its script.
AttemptFairness ==
    /\ RequestFairness
    /\ WF_attemptVars(Decisions)
    /\ WF_attemptVars(ReadOutput /\ (SplitLine \/ KeepRest \/ OutOfTime))

FairAttemptSpec == AttemptSpec /\ AttemptFairness

-----------------------------------------------------------------------------
(***************************************************************************)
(* The metadata name one server: its name is the one the script reported   *)
(* or the selected endpoint's, or else the catalog's for the registered    *)
(* address, and a region is only given that advertises this address or     *)
(* this name (generation.py, write_metadata and enrich_metadata).          *)
(***************************************************************************)
MetadataDescribesServer ==
    [][phase = "catalog" /\ phase' = "retain" =>
        /\ \/ metadata'.name = metadata.name
           \/ [ip |-> Endpoint, cn |-> metadata'.name] \in
                {[ip |-> entry.ip, cn |-> entry.cn] : entry \in Range(catalog')}
        /\ \/ metadata'.region = Unusable
           \/ \E entry \in Range(catalog') :
                /\ entry.region = metadata'.region
                /\ entry.ip = Endpoint \/ entry.cn = metadata'.name]_attemptVars

(***************************************************************************)
(* Only a pair "now verified against the running tunnel"                   *)
(* (supervisor.py:249) is saved: Gluetun applied the update and listed     *)
(* every field of it in an answer read to its end, whenever it received    *)
(* the update and whatever became of the submission's own response.        *)
(***************************************************************************)
SavedIsRun ==
    pending = "saved" =>
        /\ update = "applied"
        /\ \A field \in Fields : gluetun[field] = Candidate[field] /\ told[field] = Candidate[field]

(***************************************************************************)
(* A candidate is given up only on a whole answer of Gluetun that lacks a  *)
(* field of it: no time-out, error status or truncated answer "must be     *)
(* mistaken for an unapplied update" (supervisor.py:259).                  *)
(***************************************************************************)
DiscardedIsNotRun ==
    pending = "discarded" =>
        /\ call = "get" /\ server.status = "200" /\ ended
        /\ got = server.size /\ server.document > 0
        /\ \E field \in Fields : told[field] # Candidate[field]

(***************************************************************************)
(* "A slow or malformed server cannot hold the recovery loop indefinitely" *)
(* (client.py:12-13), nor a script that stays silent: an attempt ends,     *)
(* whatever the script, the catalog and Gluetun do.                        *)
(***************************************************************************)
RecoveryEnds == <>Finished
=============================================================================
