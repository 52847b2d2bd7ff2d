-------------------------------- MODULE Store --------------------------------
(***************************************************************************)
(* The saved WireGuard configuration of docker/privateerr/settings.py, at  *)
(* the level of file operations: two published files, their `.new`         *)
(* replacements, the commit directory (journal) and the pending directory. *)
(* One process, the Supervisor, runs Store.retain, Store.publish and       *)
(* Store.resume; it can die between any two operations and is restarted,   *)
(* and an operation can raise OSError.  A generated pair is abstracted to  *)
(* the version both of its files come from; connection_settings accepts    *)
(* two files exactly when they name the same endpoint.                     *)
(***************************************************************************)
EXTENDS Naturals

CONSTANTS
    Versions,       \* generated pairs
    Endpoint,       \* the endpoint each version's two files name
    None,           \* a file that does not exist
    Torn,           \* a file opened for writing whose copy has not finished
    StorageFaults,  \* the callers whose file operations may raise OSError
    MaxFaults       \* bound on crashes and storage errors

\* Who is using the files: run's resume and first generation, recover keeping a
\* candidate, and resolve_pending publishing, rejecting or discarding it.
Callers == {"resume", "start", "candidate", "resolve", "mismatch", "reject"}

ASSUME StoreAssumption ==
    /\ None \notin Versions
    /\ Torn \notin Versions
    /\ None # Torn
    /\ StorageFaults \subseteq Callers
    /\ MaxFaults \in Nat

Files == {"wg0", "env"}
Dirs == {"journal", "pending"}
Content == Versions \cup {None, Torn}

VARIABLES
    published,  \* wg0.conf and privateerr.env as Gluetun reads them
    new,        \* their `.new` replacements
    copy,       \* the two files inside each directory
    ready,      \* the directories that hold a `ready` marker
    there,      \* the directories that exist
    stage,      \* the version in the generator's temporary directory
    mode,       \* does this process reuse a saved pair (automatic recovery)
    op,         \* the caller of the file operation in progress
    at,         \* the file a copy loop is working on
    pc,         \* the next file operation
    faults      \* crashes and storage errors so far

files == <<published, new, copy, ready, there>>
vars == <<published, new, copy, ready, there, stage, mode, op, at, pc, faults>>

Ops == Callers \cup {"none"}
Labels == {"down", "boot", "drop", "select", "idle",
           "validate", "clear", "mkdir", "open", "write", "mark",
           "opennew", "writenew", "rename", "sweep", "discard"}

TypeOK ==
    /\ published \in [Files -> Content]
    /\ new \in [Files -> Content]
    /\ copy \in [Dirs -> [Files -> Content]]
    /\ ready \subseteq Dirs
    /\ there \subseteq Dirs
    /\ stage \in Versions \cup {None}
    /\ mode \in {"recover", "generate"}
    /\ op \in Ops
    /\ at \in Files
    /\ pc \in Labels
    /\ faults \in 0..MaxFaults

(***************************************************************************)
(* connection_settings: both files are readable and name one endpoint.     *)
(* Two versions registered at the same endpoint are indistinguishable.     *)
(***************************************************************************)
Valid(pair) ==
    /\ pair["wg0"] \in Versions
    /\ pair["env"] \in Versions
    /\ Endpoint[pair["wg0"]] = Endpoint[pair["env"]]

\* Where retain writes: recover keeps a candidate, publish keeps a journal.
Target == IF op = "candidate" THEN "pending" ELSE "journal"

\* The pair that retain or publish was given.
Source ==
    IF op \in {"start", "candidate"} THEN [f \in Files |-> stage]
    ELSE IF op = "resume" THEN copy["journal"]
    ELSE copy["pending"]

Init ==
    /\ \E v \in Versions \cup {None} : published = [f \in Files |-> v]
    /\ new = [f \in Files |-> None]
    /\ copy = [d \in Dirs |-> [f \in Files |-> None]]
    /\ ready = {}
    /\ there = {}
    /\ stage = None
    /\ mode = "recover"
    /\ op = "none"
    /\ at = "wg0"
    /\ pc = "down"
    /\ faults = 0

-----------------------------------------------------------------------------
(* How a file operation ends, and how its caller is left.                  *)

Goto(label) == pc' = label /\ UNCHANGED <<stage, mode, op, at, faults>>

Loop(label, file) == pc' = label /\ at' = file /\ UNCHANGED <<stage, mode, op, faults>>

\* The caller is done; leaving `with generate()` removes the staging directory.
Return(label) ==
    /\ pc' = label
    /\ op' = "none"
    /\ stage' = None
    /\ at' = "wg0"
    /\ UNCHANGED <<mode, faults>>

\* An OSError or InvalidSettings ends the process during startup and while an
\* incomplete candidate is removed; step and resolve_pending catch the others.
Raised == IF op \in {"resume", "start", "reject"} THEN "down" ELSE "idle"

\* shutil.rmtree visits directory entries in no particular order.
RemoveEntry(d) ==
    /\ \/ /\ d \in ready
          /\ ready' = ready \ {d}
          /\ UNCHANGED copy
       \/ \E f \in Files :
            /\ copy[d][f] # None
            /\ copy' = [copy EXCEPT ![d][f] = None]
            /\ UNCHANGED ready
    /\ UNCHANGED <<published, new, there, stage, mode, op, at, pc, faults>>

RemoveDirectory(d) ==
    /\ d \notin ready
    /\ copy[d] = [f \in Files |-> None]
    /\ there' = there \ {d}
    /\ UNCHANGED <<published, new, copy, ready>>

-----------------------------------------------------------------------------
(* Startup: Supervisor.run up to the readiness marker.                     *)

\* The container's restart policy starts the process again.
Restart ==
    /\ pc = "down"
    /\ mode' \in {"recover", "generate"}
    /\ pc' = "boot"
    /\ UNCHANGED <<files, stage, op, at, faults>>

\* Mutant: an interrupted save is finished only on the way to a fresh generation.
ResumeUnlessReusing ==
    /\ pc = "boot"
    /\ "journal" \in ready
    /\ mode = "generate"
    /\ pc' = "validate"
    /\ op' = "resume"
    /\ UNCHANGED <<files, stage, mode, at, faults>>

ResumePublish ==
    /\ pc = "boot"
    /\ "journal" \in ready
    /\ pc' = "validate"
    /\ op' = "resume"
    /\ UNCHANGED <<files, stage, mode, at, faults>>

\* Mutant: startup removes the commit directory without looking for the marker.
ResumeDiscardAny ==
    /\ pc = "boot"
    /\ pc' = "drop"
    /\ op' = "resume"
    /\ UNCHANGED <<files, stage, mode, at, faults>>

ResumeDiscard ==
    /\ pc = "boot"
    /\ "journal" \notin ready
    /\ pc' = "drop"
    /\ op' = "resume"
    /\ UNCHANGED <<files, stage, mode, at, faults>>

DropEntry == pc = "drop" /\ RemoveEntry("journal")

DropDone == pc = "drop" /\ RemoveDirectory("journal") /\ Return("select")

\* Automatic recovery starts from a saved pair that validates.
Reuse ==
    /\ pc = "select"
    /\ mode = "recover"
    /\ Valid(published)
    /\ Return("idle")
    /\ UNCHANGED files

Generate ==
    /\ pc = "select"
    /\ mode = "generate" \/ ~Valid(published)
    /\ stage' \in Versions
    /\ op' = "start"
    /\ pc' = "validate"
    /\ UNCHANGED <<files, mode, at, faults>>

-----------------------------------------------------------------------------
(* Monitoring: the calls Supervisor.step makes on the store.               *)

Monitoring == pc = "idle" /\ mode = "recover"

Call(caller, label) ==
    /\ op' = caller
    /\ pc' = label
    /\ UNCHANGED <<files, mode, at, faults>>

PendingUsable == "pending" \in ready /\ Valid(copy["pending"])

\* recover retains a fresh candidate once the earlier one is resolved, or is
\* applied and unhealthy.
Candidate ==
    /\ Monitoring
    /\ "pending" \notin there \/ PendingUsable
    /\ stage' \in Versions
    /\ Call("candidate", "clear")

ResolveIncomplete ==
    /\ Monitoring
    /\ "pending" \in there \ ready
    /\ UNCHANGED stage
    /\ Call("reject", "discard")

ResolveMismatch ==
    /\ Monitoring
    /\ PendingUsable
    /\ UNCHANGED stage
    /\ Call("mismatch", "discard")

\* Mutant: the pending directory is removed first and published afterwards.
ResolveRemovesFirst ==
    /\ Monitoring
    /\ PendingUsable
    /\ UNCHANGED stage
    /\ Call("resolve", "discard")

ResolvePublish ==
    /\ Monitoring
    /\ PendingUsable
    /\ UNCHANGED stage
    /\ Call("resolve", "validate")

DiscardEntry == pc = "discard" /\ RemoveEntry("pending")

DiscardDone == pc = "discard" /\ RemoveDirectory("pending") /\ Return("idle")

-----------------------------------------------------------------------------
(* Store.retain.                                                           *)

ClearEntry == pc = "clear" /\ RemoveEntry(Target)

ClearDone == pc = "clear" /\ RemoveDirectory(Target) /\ Goto("mkdir")

\* Mutant: mkdir(exist_ok=True) accepts what rmtree could not remove.
MakeDirectoryExistOk ==
    /\ pc = "mkdir"
    /\ there' = there \cup {Target}
    /\ Loop("open", "wg0")
    /\ UNCHANGED <<published, new, copy, ready>>

MakeDirectory ==
    /\ pc = "mkdir"
    /\ Target \notin there
    /\ there' = there \cup {Target}
    /\ Loop("open", "wg0")
    /\ UNCHANGED <<published, new, copy, ready>>

\* mkdir without exist_ok, after rmtree ignored an error.
DirectoryExists ==
    /\ pc = "mkdir"
    /\ Target \in there
    /\ Return(Raised)
    /\ UNCHANGED files

OpenCopy ==
    /\ pc = "open"
    /\ copy' = [copy EXCEPT ![Target][at] = Torn]
    /\ Goto("write")
    /\ UNCHANGED <<published, new, ready, there>>

WriteCopy ==
    /\ pc = "write"
    /\ copy' = [copy EXCEPT ![Target][at] = Source[at]]
    /\ IF at = "wg0" THEN Loop("open", "env") ELSE Goto("mark")
    /\ UNCHANGED <<published, new, ready, there>>

MarkReady ==
    /\ pc = "mark"
    /\ Valid(copy[Target])
    /\ ready' = ready \cup {Target}
    /\ IF op = "candidate" THEN Return("idle") ELSE Loop("opennew", "wg0")
    /\ UNCHANGED <<published, new, copy, there>>

-----------------------------------------------------------------------------
(* Store.publish.                                                          *)

Validate ==
    /\ pc = "validate"
    /\ Valid(Source)
    /\ IF op = "resume" THEN Loop("opennew", "wg0") ELSE Goto("clear")
    /\ UNCHANGED files

ValidateFails ==
    /\ pc = "validate"
    /\ ~Valid(Source)
    /\ Return(Raised)
    /\ UNCHANGED files

\* Mutant: the published file is overwritten in place.
OpenInPlace ==
    /\ pc = "opennew"
    /\ published' = [published EXCEPT ![at] = Torn]
    /\ Goto("writenew")
    /\ UNCHANGED <<new, copy, ready, there>>

OpenReplacement ==
    /\ pc = "opennew"
    /\ new' = [new EXCEPT ![at] = Torn]
    /\ Goto("writenew")
    /\ UNCHANGED <<published, copy, ready, there>>

WriteReplacement ==
    /\ pc = "writenew"
    /\ new' = [new EXCEPT ![at] = copy["journal"][at]]
    /\ Goto("rename")
    /\ UNCHANGED <<published, copy, ready, there>>

\* Mutant: the journal is removed after the first of the two replacements.
RenameOnlyFirst ==
    /\ pc = "rename"
    /\ published' = [published EXCEPT ![at] = new[at]]
    /\ new' = [new EXCEPT ![at] = None]
    /\ Goto("sweep")
    /\ UNCHANGED <<copy, ready, there>>

Rename ==
    /\ pc = "rename"
    /\ published' = [published EXCEPT ![at] = new[at]]
    /\ new' = [new EXCEPT ![at] = None]
    /\ IF at = "wg0" THEN Loop("opennew", "env") ELSE Goto("sweep")
    /\ UNCHANGED <<copy, ready, there>>

SweepEntry == pc = "sweep" /\ RemoveEntry("journal")

SweepDone ==
    /\ pc = "sweep"
    /\ RemoveDirectory("journal")
    /\ CASE op = "resume" -> Return("select")
         [] op = "start" -> Return("idle")
         [] OTHER -> Goto("discard")

-----------------------------------------------------------------------------
(* Failures.                                                               *)

\* SIGKILL, or SIGTERM: Shutdown is a BaseException no handler here catches.
Crash ==
    /\ pc # "down"
    /\ faults < MaxFaults
    /\ faults' = faults + 1
    /\ pc' = "down"
    /\ op' = "none"
    /\ stage' = None
    /\ at' = "wg0"
    /\ UNCHANGED <<files, mode>>

StorageError(labels, label) ==
    /\ op \in StorageFaults
    /\ faults < MaxFaults
    /\ pc \in labels
    /\ faults' = faults + 1
    /\ pc' = label
    /\ UNCHANGED <<files, mode>>

OperationRaises ==
    /\ StorageError({"validate", "mkdir", "open", "write", "mark", "opennew",
                     "writenew", "rename", "sweep", "discard"}, Raised)
    /\ op' = "none"
    /\ stage' = None
    /\ at' = "wg0"

\* rmtree(..., ignore_errors=True) leaves what it could not remove and goes on.
ClearIgnoresError == StorageError({"clear"}, "mkdir") /\ UNCHANGED <<stage, op, at>>

DropIgnoresError ==
    /\ StorageError({"drop"}, "select")
    /\ op' = "none"
    /\ UNCHANGED <<stage, at>>

-----------------------------------------------------------------------------
Startup ==
    \/ Restart \/ ResumePublish \/ ResumeDiscard \/ DropEntry \/ DropDone
    \/ Reuse \/ Generate

Monitor ==
    \/ Candidate \/ ResolveIncomplete \/ ResolveMismatch \/ ResolvePublish

Retain ==
    \/ ClearEntry \/ ClearDone \/ MakeDirectory \/ DirectoryExists
    \/ OpenCopy \/ WriteCopy \/ MarkReady

Publish ==
    \/ Validate \/ ValidateFails \/ OpenReplacement \/ WriteReplacement
    \/ Rename \/ SweepEntry \/ SweepDone

Discard == DiscardEntry \/ DiscardDone

Failure == Crash \/ OperationRaises \/ ClearIgnoresError \/ DropIgnoresError

Next == Startup \/ Monitor \/ Retain \/ Publish \/ Discard \/ Failure

\* The process keeps executing and the container is restarted; nothing obliges
\* a recovery to begin or a fault to occur.
Fairness == WF_vars(Startup \/ Retain \/ Publish \/ Discard)

Spec == Init /\ [][Next]_vars
FairSpec == Spec /\ Fairness

-----------------------------------------------------------------------------
Matched == published["wg0"] = published["env"]

OneVersion(pair) == pair["wg0"] \in Versions /\ pair["env"] = pair["wg0"]

Complete(d) == OneVersion(copy[d])

(***************************************************************************)
(* The commit point, while no publication of a pending candidate is left   *)
(* half done by a storage error.  Until the two published files come from one version, *)
(* the commit directory is ready, holds both source copies of one version, *)
(* and wg0.conf already is that version: a restart can finish the save     *)
(* (settings.py, publish and resume).                                      *)
(***************************************************************************)
MixedPairIsJournaled ==
    ~Matched =>
        /\ "journal" \in ready
        /\ "journal" \in there
        /\ Complete("journal")
        /\ published["wg0"] = copy["journal"]["wg0"]

(***************************************************************************)
(* Whatever a ready directory still holds was written completely, and all  *)
(* of it comes from one version, whichever removal, retry or crash came    *)
(* before: the marker is written last and no copy is written under it      *)
(* (settings.py, retain).                                                  *)
(***************************************************************************)
ReadyHoldsOneVersion ==
    \A d \in ready : \E v \in Versions :
        \A f \in Files : copy[d][f] \in {v, None}

(***************************************************************************)
(* Gluetun never finds a published file missing or half written once it    *)
(* existed: a published file only changes to a complete version that the   *)
(* ready commit directory holds (settings.py, publish).                    *)
(***************************************************************************)
PublishedFromJournal ==
    [][\A f \in Files :
        published'[f] # published[f] =>
            /\ "journal" \in ready
            /\ published'[f] \in Versions
            /\ published'[f] = copy["journal"][f]]_vars

(***************************************************************************)
(* A complete pending candidate is given up only when a newer candidate    *)
(* replaces it, Gluetun does not run it, or both published files are it    *)
(* (supervisor.py, resolve_pending and recover).                           *)
(***************************************************************************)
PendingKeptUntilSaved ==
    [][("pending" \in ready /\ Complete("pending") /\ ~("pending" \in ready /\ Complete("pending"))')
        => \/ op \in {"candidate", "mismatch"}
           \/ \A f \in Files : published[f] = copy["pending"][f]]_vars

(***************************************************************************)
(* An interrupted save is finished: a mixed pair does not stay mixed       *)
(* (settings.py, resume).                                                  *)
(***************************************************************************)
MixedPairIsRepaired == ~Matched ~> Matched

(***************************************************************************)
(* When resume looks at the commit directory, "A ready marker identifies a *)
(* complete pair" (settings.py:287).                                       *)
(***************************************************************************)
ReadyMarksCompletePair ==
    pc = "boot" /\ "journal" \in ready => Valid(copy["journal"])

(***************************************************************************)
(* "A complete commit directory is retained so startup can finish an       *)
(* interrupted publication" (settings.py:258-259), in every state in which *)
(* the process has stopped.                                                *)
(***************************************************************************)
InterruptedSaveCanBeFinished == pc = "down" => (Matched \/ "journal" \in ready)

-----------------------------------------------------------------------------
\* The pair a restart would establish.
SavedVersion ==
    IF "journal" \in ready /\ Complete("journal") THEN copy["journal"]["wg0"]
    ELSE IF Matched THEN published["wg0"]
    ELSE Torn

\* The version a publication in progress was asked to save.
PublishedJob ==
    CASE op = "start" -> stage
      [] op = "resolve" /\ pc # "discard" -> copy["pending"]["wg0"]
      [] OTHER -> None

Atomic == INSTANCE SavedPair WITH saved <- SavedVersion, job <- PublishedJob

(***************************************************************************)
(* publish is atomic across crashes: the store behaves as one register     *)
(* whose commit point is the journal's ready marker (settings.py, publish).*)
(***************************************************************************)
PublishIsAtomic == Atomic!Spec
=============================================================================
