-------------------------------- MODULE Stack --------------------------------
(***************************************************************************)
(* The recovery loop across its processes: the Supervisor                  *)
(* (docker/privateerr/supervisor.py), Gluetun behind its entrypoint        *)
(* wrapper (docker/gluetun/gluetun-entrypoint-wrapper.sh) and the files    *)
(* they share.  Each call of Gluetun's API and each phase of a publication *)
(* is one step, so the processes interleave between them.  Gluetun itself  *)
(* is external: it holds its settings in memory, reads the saved pair when *)
(* its container starts, and may fail or restart at any time.              *)
(*                                                                         *)
(* Module Store has the file operations behind each phase used here: a     *)
(* directory cut short in its making is Incomplete, one cut short in its   *)
(* removal may be Broken.  Module Monitor has the timers that decide when  *)
(* an unhealthy probe leads to recover, a choice left open here.  Recovery *)
(* is enabled and starts from a saved pair.                                *)
(***************************************************************************)
EXTENDS Naturals

CONSTANTS
    Versions,       \* registrations: a matching wg0.conf and privateerr.env
    None,
    Incomplete,     \* a directory without its ready marker
    Broken,         \* a directory with its ready marker and a copy missing
    Bounds          \* how often the environment may cause each fault:
                    \* every behaviour has one of these budgets

Faults == {"outage", "reload", "crash", "storage", "stop", "late"}

ASSUME StackAssumption ==
    /\ None \notin Versions
    /\ Incomplete \notin Versions \cup {None}
    /\ Broken \notin Versions \cup {None, Incomplete}
    /\ Bounds \subseteq [Faults -> Nat]

VARIABLES
    pc,         \* the supervisor's next call
    startup,    \* run has not begun to monitor
    candidate,  \* the version in recover's staging directory
    wg0, env,   \* the versions of the two published files
    journal,    \* what .privateerr-commit holds
    pending,    \* what .privateerr-pending holds
    gluetun,    \* its container: down, in the wrapper, or serving the API
    names,      \* the version Gluetun's server name comes from
    active,     \* the version of its other connection settings
    late,       \* an update Gluetun received and has not applied yet
    vpn,        \* running, or stopped by the operator
    live,       \* the registrations that carry traffic
    left,       \* the faults the environment may still cause
    ran,        \* history: the versions Gluetun was running when compared
    unread,     \* history: pending not compared since a submission or a crash
    torn        \* history: a mixed pair lost the complete copies to repair it

supervisor == <<pc, startup, candidate>>
files == <<wg0, env, journal, pending>>
container == <<gluetun, names, active, late>>
history == <<ran, unread, torn>>
world == <<vpn, live, left>>
vars == <<supervisor, files, container, history, world>>

Labels == {"down", "boot", "status", "reject", "readback", "confirm", "commit",
           "replace_wg0", "replace_env", "sweep", "discard", "probe",
           "settings", "generate", "recheck", "reprobe", "retain", "put"}

Directory == Versions \cup {None, Incomplete, Broken}

TypeOK ==
    /\ pc \in Labels
    /\ startup \in BOOLEAN
    /\ candidate \in Versions \cup {None}
    /\ wg0 \in Versions /\ env \in Versions
    /\ journal \in Directory /\ pending \in Directory
    /\ gluetun \in {"down", "waiting", "passed", "sourced", "up"}
    /\ names \in Versions \cup {None}
    /\ active \in Versions \cup {None}
    /\ late \in Versions \cup {None}
    /\ ran \subseteq Versions
    /\ unread \in BOOLEAN
    /\ torn \in BOOLEAN
    /\ vpn \in {"running", "stopped"}
    /\ live \subseteq Versions
    /\ left \in [Faults -> Nat]

Init ==
    /\ pc = "boot"
    /\ startup = TRUE
    /\ candidate = None
    /\ wg0 \in Versions
    /\ env = wg0
    /\ journal = None
    /\ pending = None
    /\ gluetun = "down"
    /\ names = None
    /\ active = None
    /\ late = None
    /\ ran = {}
    /\ unread = FALSE
    /\ torn = FALSE
    /\ vpn = "running"
    /\ live \in {{}, {wg0}}
    /\ left \in Bounds

Answers == gluetun = "up"

Running(v) == Answers /\ active = v /\ names = v

\* The health listener answers for the tunnel of the running settings.
Healthy == Answers /\ vpn = "running" /\ active \in live

Saved(v) == wg0 = v /\ env = v

Spend(fault) ==
    /\ left[fault] > 0
    /\ left' = [left EXCEPT ![fault] = @ - 1]

-----------------------------------------------------------------------------
(* The supervisor observes: run's startup, step and resolve_pending.       *)

Goto(label) == pc' = label /\ UNCHANGED <<startup, candidate>>

\* step returns and the next one begins; leaving recover removes its staging.
EndStep == pc' = "status" /\ candidate' = None /\ UNCHANGED startup

\* Mutant: startup publishes a commit directory without its marker.
BootIgnoresMarker ==
    /\ pc = "boot"
    /\ journal # Broken
    /\ IF journal # None
       THEN Goto("replace_wg0") /\ UNCHANGED journal
       ELSE pc' = "status" /\ startup' = FALSE /\ journal' = None /\ UNCHANGED candidate
    /\ UNCHANGED <<wg0, env, pending, container, history, world>>

\* resume: finish a complete journal, discard an incomplete one.
Boot ==
    /\ pc = "boot"
    /\ journal # Broken
    /\ IF journal \in Versions
       THEN Goto("replace_wg0") /\ UNCHANGED journal
       ELSE pc' = "status" /\ startup' = FALSE /\ journal' = None /\ UNCHANGED candidate
    /\ UNCHANGED <<wg0, env, pending, container, history, world>>

\* A journal that is marked ready and lacks a copy ends the process, each time.
BootFails ==
    /\ pc = "boot"
    /\ journal = Broken
    /\ Goto("down")
    /\ UNCHANGED <<files, container, history, world>>

\* APIUnavailable, or the operator stopped the VPN: step returns.
StatusDefers ==
    /\ pc = "status"
    /\ ~Answers \/ vpn = "stopped"
    /\ EndStep
    /\ UNCHANGED <<files, container, history, world>>

Status ==
    /\ pc = "status"
    /\ Answers /\ vpn = "running"
    /\ pending # Broken
    /\ Goto(CASE pending = None -> "probe"
              [] pending = Incomplete -> "reject"
              [] OTHER -> "readback")
    /\ UNCHANGED <<files, container, history, world>>

\* A pending directory that is marked ready and lacks a copy is UNAVAILABLE.
PendingUnreadable ==
    /\ pc = "status"
    /\ Answers /\ vpn = "running"
    /\ pending = Broken
    /\ EndStep
    /\ UNCHANGED <<files, container, history, world>>

\* Mutant: a candidate that cannot be compared does not end the step.
ReadbackSkipped ==
    /\ pc = "readback"
    /\ ~Answers
    /\ Goto("probe")
    /\ UNCHANGED <<files, container, history, world>>

ReadbackUnavailable ==
    /\ pc = "readback"
    /\ ~Answers
    /\ EndStep
    /\ UNCHANGED <<files, container, history, world>>

\* Mutant: health alone decides; the settings are not compared.
ReadbackTrusts ==
    /\ pc = "readback"
    /\ Answers
    /\ Goto("confirm")
    /\ ran' = IF Running(pending) THEN ran \cup {pending} ELSE ran
    /\ unread' = FALSE
    /\ UNCHANGED <<torn, files, container, world>>

\* contains_settings decides between confirming and discarding the candidate.
Readback ==
    /\ pc = "readback"
    /\ Answers
    /\ Goto(IF Running(pending) THEN "confirm" ELSE "discard")
    /\ ran' = IF Running(pending) THEN ran \cup {pending} ELSE ran
    /\ unread' = FALSE
    /\ UNCHANGED <<torn, files, container, world>>

Confirm ==
    /\ pc = "confirm"
    /\ Goto(IF Healthy THEN "commit" ELSE "probe")
    /\ UNCHANGED <<files, container, history, world>>

\* The timers decide whether an unhealthy probe leads to recover.
Probe ==
    /\ pc = "probe"
    /\ EndStep
    /\ UNCHANGED <<files, container, history, world>>

\* Mutant: no new registration while an unhealthy candidate is pending.
DueUnlessPending ==
    /\ pc = "probe"
    /\ pending = None
    /\ ~Healthy
    /\ Goto("settings")
    /\ UNCHANGED <<files, container, history, world>>

Due ==
    /\ pc = "probe"
    /\ ~Healthy
    /\ Goto("settings")
    /\ UNCHANGED <<files, container, history, world>>

-----------------------------------------------------------------------------
(* The supervisor saves: publish, and the removals of resolve_pending.     *)

Saving(label) ==
    /\ pc' = label
    /\ UNCHANGED <<startup, candidate, container, history, world>>

Commit ==
    /\ pc = "commit"
    /\ Saving("replace_wg0")
    /\ journal' = pending
    /\ UNCHANGED <<wg0, env, pending>>

ReplaceConfig ==
    /\ pc = "replace_wg0"
    /\ Saving("replace_env")
    /\ wg0' = journal
    /\ UNCHANGED <<env, journal, pending>>

ReplaceMetadata ==
    /\ pc = "replace_env"
    /\ Saving("sweep")
    /\ env' = journal
    /\ UNCHANGED <<wg0, journal, pending>>

\* Mutant: the commit directory is left behind.
SweepForgotten ==
    /\ pc = "sweep"
    /\ pc' = IF startup THEN "status" ELSE "discard"
    /\ startup' = FALSE
    /\ UNCHANGED <<candidate, files, container, history, world>>

\* Startup leaves the pending candidate to the first step.
Sweep ==
    /\ pc = "sweep"
    /\ journal' = None
    /\ pc' = IF startup THEN "status" ELSE "discard"
    /\ startup' = FALSE
    /\ UNCHANGED <<candidate, wg0, env, pending, container, history, world>>

Discard ==
    /\ pc \in {"discard", "reject"}
    /\ Saving("probe")
    /\ pending' = None
    /\ UNCHANGED <<wg0, env, journal>>

-----------------------------------------------------------------------------
(* The supervisor recovers: recover.                                       *)

\* An API call of recover that is not answered ends the step.
RecoverUnavailable ==
    /\ pc \in {"settings", "recheck"}
    /\ ~Answers
    /\ EndStep
    /\ UNCHANGED <<files, container, history, world>>

Settings ==
    /\ pc = "settings"
    /\ Answers
    /\ Goto("generate")
    /\ UNCHANGED <<files, container, history, world>>

GenerateFails ==
    /\ pc = "generate"
    /\ EndStep
    /\ UNCHANGED <<files, container, history, world>>

\* A new registration; PIA may serve it or not.
Generate(works) ==
    /\ pc = "generate"
    /\ pc' = "recheck"
    /\ candidate' \in Versions \ {wg0, env, journal, pending, active, names, late}
    /\ live' = IF works THEN live \cup {candidate'} ELSE live \ {candidate'}
    /\ UNCHANGED <<startup, files, container, history, vpn, left>>

Recheck ==
    /\ pc = "recheck"
    /\ Answers
    /\ IF vpn = "running" THEN Goto("reprobe") ELSE EndStep
    /\ UNCHANGED <<files, container, history, world>>

Reprobe ==
    /\ pc = "reprobe"
    /\ IF Healthy THEN EndStep ELSE Goto("retain")
    /\ UNCHANGED <<files, container, history, world>>

RetainCandidate ==
    /\ pc = "retain"
    /\ Goto("put")
    /\ pending' = candidate
    /\ unread' = TRUE
    /\ UNCHANGED <<ran, torn, wg0, env, journal, container, world>>

\* The update takes effect, whether or not its response arrives.
PutApplied ==
    /\ pc = "put"
    /\ Answers
    /\ active' = candidate
    /\ names' = candidate
    /\ EndStep
    /\ UNCHANGED <<gluetun, late, files, history, world>>

\* No response, and Gluetun never applies the update.
PutLost ==
    /\ pc = "put"
    /\ EndStep
    /\ UNCHANGED <<container, files, history, world>>

\* No response in time, and Gluetun still works on the update.
PutLate ==
    /\ pc = "put"
    /\ Answers
    /\ late = None
    /\ Spend("late")
    /\ late' = candidate
    /\ EndStep
    /\ UNCHANGED <<gluetun, names, active, files, history, vpn, live>>

-----------------------------------------------------------------------------
(* Failures of the supervisor.                                             *)

\* What rmtree leaves of a directory when it is cut short: it removes the
\* marker and the copies in any order.
Removing(directory) ==
    {directory, Incomplete} \cup (IF directory \in Versions THEN {Broken} ELSE {})

\* retain removes what it replaces, and marks the new directory last.
Replacing(directory) == Removing(directory) \cup {None}

InterruptedJournal ==
    CASE pc = "commit" -> Replacing(journal)
      [] pc = "sweep" -> Removing(journal)
      [] OTHER -> {journal}

InterruptedPending ==
    CASE pc = "retain" -> Replacing(pending)
      [] pc \in {"discard", "reject"} -> Removing(pending)
      [] OTHER -> {pending}

\* Mutant: a storage error is taken for an update that was not applied.
InterruptedDropsPending ==
    /\ journal' \in InterruptedJournal
    /\ pending' = None
    /\ torn' = (torn \/ (wg0 # env /\ journal' \notin Versions))
    /\ UNCHANGED <<wg0, env>>

\* A directory being written or removed when the operation is cut short.
Interrupted ==
    /\ journal' \in InterruptedJournal
    /\ pending' \in InterruptedPending
    /\ torn' = (torn \/ (wg0 # env /\ journal' \notin Versions))
    /\ UNCHANGED <<wg0, env>>

Dies ==
    /\ pc' = "down"
    /\ startup' = TRUE
    /\ candidate' = None
    /\ unread' = (pending \in Versions)
    /\ UNCHANGED <<ran, container, vpn, live>>

Crash ==
    /\ pc # "down"
    /\ Spend("crash")
    /\ Interrupted
    /\ Dies

\* step and resolve_pending catch OSError; startup, and the removal of an
\* incomplete candidate, do not.
StorageError ==
    /\ pc \in {"commit", "replace_wg0", "replace_env", "sweep", "discard", "reject", "retain"}
    /\ Spend("storage")
    /\ Interrupted
    /\ IF startup \/ pc = "reject" THEN Dies
       ELSE EndStep /\ UNCHANGED <<ran, unread, container, vpn, live>>

\* resume ignores the error of removing an incomplete journal, which stays.
BootCannotDiscard ==
    /\ pc = "boot"
    /\ journal = Incomplete
    /\ Spend("storage")
    /\ pc' = "status"
    /\ startup' = FALSE
    /\ UNCHANGED <<candidate, files, container, history, vpn, live>>

Restart ==
    /\ pc = "down"
    /\ Goto("boot")
    /\ UNCHANGED <<files, container, history, world>>

-----------------------------------------------------------------------------
(* Gluetun: its container, its wrapper, its API and its tunnel.            *)

Container(state) ==
    /\ gluetun' = state
    /\ UNCHANGED <<supervisor, files, history, live>>

ContainerStarts ==
    /\ gluetun = "down"
    /\ Container("waiting")
    /\ UNCHANGED <<names, active, late, vpn, left>>

\* Mutant: the wrapper waits for the metadata only.
WrapperIgnoresCommit ==
    /\ gluetun = "waiting"
    /\ Container("passed")
    /\ UNCHANGED <<names, active, late, vpn, left>>

\* The loop ends when the metadata is there and the commit directory is not.
WrapperPasses ==
    /\ gluetun = "waiting"
    /\ journal = None
    /\ Container("passed")
    /\ UNCHANGED <<names, active, late, vpn, left>>

WrapperTimesOut ==
    /\ gluetun = "waiting"
    /\ journal # None
    /\ Container("down")
    /\ UNCHANGED <<names, active, late, vpn, left>>

SourceMetadata ==
    /\ gluetun = "passed"
    /\ Container("sourced")
    /\ names' = env
    /\ UNCHANGED <<active, late, vpn, left>>

\* The original entrypoint reads wg0.conf and starts the VPN.
ReadConfig ==
    /\ gluetun = "sourced"
    /\ Container("up")
    /\ active' = wg0
    /\ vpn' = "running"
    /\ UNCHANGED <<names, late, left>>

Reload ==
    /\ gluetun # "down"
    /\ Spend("reload")
    /\ Container("down")
    /\ names' = None
    /\ active' = None
    /\ late' = None
    /\ UNCHANGED vpn

ApplyLate ==
    /\ Answers
    /\ late # None
    /\ active' = late
    /\ names' = late
    /\ late' = None
    /\ UNCHANGED <<gluetun, supervisor, files, history, world>>

TunnelFails ==
    /\ Healthy
    /\ Spend("outage")
    /\ live' = live \ {active}
    /\ UNCHANGED <<supervisor, files, container, history, vpn>>

\* A network disturbance ends, and a registration that was kept works again.
TunnelReturns ==
    /\ Answers
    /\ active \notin live
    /\ Spend("outage")
    /\ live' = live \cup {active}
    /\ UNCHANGED <<supervisor, files, container, history, vpn>>

OperatorStops ==
    /\ Answers
    /\ vpn = "running"
    /\ Spend("stop")
    /\ vpn' = "stopped"
    /\ UNCHANGED <<supervisor, files, container, history, live>>

OperatorStarts ==
    /\ vpn = "stopped"
    /\ vpn' = "running"
    /\ UNCHANGED <<supervisor, files, container, history, live, left>>

-----------------------------------------------------------------------------
Observe ==
    \/ Restart \/ Boot \/ BootFails \/ StatusDefers \/ Status \/ PendingUnreadable
    \/ ReadbackUnavailable \/ Readback \/ Confirm

Save == Commit \/ ReplaceConfig \/ ReplaceMetadata \/ Sweep \/ Discard

Recover ==
    \/ RecoverUnavailable \/ Settings \/ Recheck \/ Reprobe \/ RetainCandidate

Submit == PutApplied \/ PutLost \/ PutLate

Wrapper ==
    \/ ContainerStarts \/ WrapperPasses \/ WrapperTimesOut
    \/ SourceMetadata \/ ReadConfig

Environment ==
    \/ Crash \/ StorageError \/ BootCannotDiscard \/ Reload \/ ApplyLate \/ TunnelFails
    \/ TunnelReturns \/ OperatorStops \/ OperatorStarts

Next ==
    \/ Observe \/ Probe \/ Due \/ Save \/ Recover \/ GenerateFails
    \/ Generate(TRUE) \/ Generate(FALSE) \/ Submit \/ Wrapper \/ Environment

Spec == Init /\ [][Next]_vars

\* Both processes keep running and are restarted by Docker.  A tunnel that stays
\* unhealthy is due for recovery again and again (module Monitor); of the
\* registrations attempted again and again one works, and of the submissions of
\* working registrations one takes effect.
Fairness ==
    /\ WF_vars(Observe \/ Probe \/ Save \/ Recover \/ GenerateFails \/ Submit)
    /\ WF_vars(Wrapper)
    /\ SF_vars(Due)
    /\ SF_vars(Generate(TRUE))
    /\ SF_vars(PutApplied /\ candidate \in live)

FairSpec == Spec /\ Fairness

-----------------------------------------------------------------------------
(***************************************************************************)
(* "An uncertain API response is reconciled before another candidate is    *)
(* generated" (docs/automatic-recovery.md:134): no registration is made    *)
(* while a candidate that was submitted, or found after a crash, has not   *)
(* been compared with Gluetun's settings.                                  *)
(***************************************************************************)
ReconciledBeforeGenerating ==
    pc \in {"settings", "generate", "recheck", "reprobe"} /\ pending \in Versions => ~unread

(***************************************************************************)
(* Only settings Gluetun was found to run are saved while it is monitored: *)
(* whatever the two files and the journal are replaced with has been read  *)
(* back from Gluetun, across crashes, late updates and repeated attempts.  *)
(***************************************************************************)
OnlyReadBackIsSaved ==
    [][/\ journal' \in Versions /\ journal' # journal => journal' \in ran
       /\ wg0' # wg0 => wg0' \in ran
       /\ env' # env => env' \in ran]_vars

\* The pair a restart would establish, and the version being published.  A
\* restart does nothing with a broken journal: the two files stay as they are.
SavedVersion ==
    IF journal \in Versions THEN journal
    ELSE IF wg0 = env THEN wg0
    ELSE Incomplete

PublishedJob ==
    CASE pc = "commit" -> pending
      [] pc \in {"replace_wg0", "replace_env", "sweep"} -> journal
      [] OTHER -> None

Atomic == INSTANCE SavedPair WITH saved <- SavedVersion, job <- PublishedJob

(***************************************************************************)
(* What a restart would establish is one register for all processes: only  *)
(* the supervisor's commit changes it, to the candidate it confirmed,      *)
(* wherever a process dies and an operation fails, except where a save     *)
(* that failed half way is tried again (settings.py, publish, resume).     *)
(***************************************************************************)
SavesAreAtomic ==
    /\ Atomic!Init
    /\ [][\/ pc = "commit" /\ journal \in Versions /\ ~Saved(journal)
          \/ Atomic!Next]_(Atomic!vars)

(***************************************************************************)
(* The wrapper lets Gluetun begin only on a matching pair: whenever its    *)
(* loop ends, no publication is half done, wherever a process was killed   *)
(* and storage failed, except where the retry of a half failed save was    *)
(* cut short too and the complete copies are gone                          *)
(* (gluetun-entrypoint-wrapper.sh; settings.py, retain).                   *)
(***************************************************************************)
WrapperPassesOnMatchingPair == [][WrapperPasses => wg0 = env \/ torn]_vars

\* Of the initial state: the budget of this behaviour has no storage error, or
\* no update that Gluetun applies after the client gave up.
StorageIsGood == left["storage"] = 0
UpdatesAreTimely == left["late"] = 0

(***************************************************************************)
(* With good storage and updates that Gluetun applies in time or never, a  *)
(* sustained outage ends: the supervisor brings the tunnel back, unless    *)
(* the operator stopped it, or a kill within rmtree left a marker without  *)
(* its copies: such a journal ends every start, such a candidate every     *)
(* step (supervisor.py, recover; settings.py:287; supervisor.py:240).      *)
(***************************************************************************)
OutageEnds ==
    StorageIsGood /\ UpdatesAreTimely =>
        ((Answers /\ ~Healthy)
            ~> (Healthy \/ vpn = "stopped" \/ Broken \in {journal, pending}))

(***************************************************************************)
(* A candidate that runs and stays healthy when a step begins is saved,    *)
(* whatever storage errors and crashes interrupt the publication, unless   *)
(* a kill within the removal of a complete journal left its marker without *)
(* the copies (supervisor.py, resolve_pending; settings.py, publish).      *)
(***************************************************************************)
ConfirmedIsSaved ==
    \A v \in Versions :
        (pc = "status" /\ pending = v /\ Running(v) /\ Healthy)
            ~> (Saved(v) \/ ~Running(v) \/ ~Healthy \/ journal = Broken)

(***************************************************************************)
(* Gluetun, once down, comes up again: neither process waits for the other *)
(* for ever ("avoiding a circular startup dependency", architecture.md:40; *)
(* "retained candidates are reconciled on monitoring cycles",              *)
(* docs/automatic-recovery.md:156).                                        *)
(***************************************************************************)
GluetunComesUp == ~Answers ~> Answers

(***************************************************************************)
(* What is left of it: with good storage, whatever is killed or restarted, *)
(* and wherever but within the removal of the journal, whose marker may    *)
(* outlive its copies (supervisor.py, run; gluetun-entrypoint-wrapper.sh). *)
(***************************************************************************)
GluetunComesUpOnGoodStorage ==
    StorageIsGood => (~Answers ~> (Answers \/ journal = Broken))
=============================================================================
