-------------------------------- MODULE Startup --------------------------------
(***************************************************************************)
(* From the start of Privateerr's container to its readiness, and what     *)
(* Gluetun does meanwhile: main, Config.from_environment, Supervisor.run,  *)
(* install_gluetun_scripts, check_recovery_directory, the readiness marker *)
(* with its health check, and Gluetun's entrypoint wrapper.  Containers    *)
(* are restarted by Docker, removed and created again by the operator,     *)
(* with other settings or a newer image; storage breaks and is repaired.   *)
(*                                                                         *)
(* The marker lives in the container and survives its restarts; scripts,   *)
(* published pair and commit directory are shared with Gluetun and survive *)
(* its removal.  Module Store has the file operations of a publication.    *)
(***************************************************************************)
EXTENDS Naturals

CONSTANTS
    MaxImage,     \* bound on upgrades
    MaxKills,     \* bound on kills and removals
    MaxBreaks,    \* bound on storage failures
    MaxSaves      \* bound on recovery's publications

ASSUME StartupAssumption ==
    /\ MaxImage \in Nat \ {0}
    /\ MaxKills \in Nat
    /\ MaxBreaks \in Nat
    /\ MaxSaves \in Nat

Scripts == {"wrapper", "hook"}
Places == {"config", "scripts", "log", "marker"}

VARIABLES
    container,          \* Privateerr's: absent, running or exited
    image,              \* the release it runs
    recover, keepalive, \* its settings
    pc,                 \* the next operation of main and run
    op,                 \* what a publication is for
    reuse,              \* run found a valid saved pair
    prepared,           \* the shared directories exist
    marker,             \* the readiness marker exists
    scripts,            \* the release each installed script comes from, 0 if absent
    pair,               \* the two published files
    journal,            \* the commit directory
    broken,             \* the places that cannot be written
    gluetun,            \* its container: absent, in the wrapper, or past it
    saved,              \* history: a pair was saved since the files were last removed
    left                \* what the environment may still do

settings == <<image, recover, keepalive>>
process == <<container, pc, op, reuse>>
files == <<prepared, scripts, pair, journal, saved>>
world == <<broken, gluetun, left>>
vars == <<container, image, recover, keepalive, pc, op, reuse, marker, prepared,
          scripts, pair, journal, broken, gluetun, saved, left>>

Labels == {"none", "config", "prepare", "clear", "log", "install", "install hook",
           "resume", "saved", "check", "generate", "retain", "copy",
           "replace wg0", "replace env", "sweep", "mark", "serving"}

TypeOK ==
    /\ container \in {"absent", "running", "exited"}
    /\ image \in 1..MaxImage
    /\ recover \in BOOLEAN
    /\ keepalive \in BOOLEAN
    /\ pc \in Labels
    /\ pc = "none" <=> container # "running"
    /\ op \in {"resume", "generate", "save"}
    /\ reuse \in BOOLEAN
    /\ marker \in BOOLEAN
    /\ prepared \in BOOLEAN
    /\ scripts \in [Scripts -> 0..MaxImage]
    /\ pair \in {"none", "half", "mixed", "valid"}
    /\ journal \in {"none", "incomplete", "complete"}
    /\ broken \subseteq Places
    /\ gluetun \in {"absent", "waiting", "up"}
    /\ saved \in BOOLEAN
    /\ left \in [{"kill", "break", "save"} -> Nat]

Init ==
    /\ container = "absent"
    /\ image = 1
    /\ recover = FALSE
    /\ keepalive = FALSE
    /\ pc = "none"
    /\ op = "resume"
    /\ reuse = FALSE
    /\ marker = FALSE
    /\ prepared = FALSE
    /\ scripts = [s \in Scripts |-> 0]
    /\ pair = "none"
    /\ journal = "none"
    /\ broken = {}
    /\ gluetun = "absent"
    /\ saved = FALSE
    /\ left = [kill |-> MaxKills, break |-> MaxBreaks, save |-> MaxSaves]

OneShot == ~keepalive /\ ~recover

Spend(what) == left[what] > 0 /\ left' = [left EXCEPT ![what] = @ - 1]

-----------------------------------------------------------------------------
(* main and run.                                                           *)

Goto(label) == pc' = label /\ UNCHANGED <<container, op, reuse>>

Exit == container' = "exited" /\ pc' = "none" /\ UNCHANGED <<op, reuse>>

Accepted == recover => keepalive

\* Recovery needs keepalive; anything else wrong with the settings is alike.
Configure ==
    /\ pc = "config"
    /\ IF Accepted THEN Goto("prepare") ELSE Exit
    /\ UNCHANGED <<settings, marker, files, world>>

Prepare ==
    /\ pc = "prepare"
    /\ prepared \/ broken = {}
    /\ prepared' = TRUE
    /\ Goto("clear")
    /\ UNCHANGED <<settings, marker, scripts, pair, journal, saved, world>>

\* Mutant: an existing marker is kept until it is written again.
ClearKeepsMarker ==
    /\ pc = "clear"
    /\ Goto("log")
    /\ UNCHANGED <<settings, marker, files, world>>

Clear ==
    /\ pc = "clear"
    /\ ~marker \/ "marker" \notin broken
    /\ marker' = FALSE
    /\ Goto("log")
    /\ UNCHANGED <<settings, files, world>>

OpenLog ==
    /\ pc = "log"
    /\ "log" \notin broken
    /\ Goto(IF OneShot THEN "resume" ELSE "install")
    /\ UNCHANGED <<settings, marker, files, world>>

\* Both scripts are staged before the first is replaced.
InstallWrapper ==
    /\ pc = "install"
    /\ "scripts" \notin broken
    /\ scripts' = [scripts EXCEPT !["wrapper"] = image]
    /\ Goto("install hook")
    /\ UNCHANGED <<settings, marker, prepared, pair, journal, saved, world>>

InstallHook ==
    /\ pc = "install hook"
    /\ "scripts" \notin broken
    /\ scripts' = [scripts EXCEPT !["hook"] = image]
    /\ Goto("resume")
    /\ UNCHANGED <<settings, marker, prepared, pair, journal, saved, world>>

\* Mutant: an interrupted publication is dropped instead of finished.
ResumeDrops ==
    /\ pc = "resume"
    /\ journal' = IF "config" \in broken THEN journal ELSE "none"
    /\ Goto("saved")
    /\ UNCHANGED <<settings, marker, prepared, scripts, pair, saved, world>>

\* An incomplete journal is removed with errors ignored.
Resume ==
    /\ pc = "resume"
    /\ IF journal = "complete"
       THEN /\ pc' = "replace wg0"
            /\ op' = "resume"
            /\ UNCHANGED <<container, reuse, journal>>
       ELSE /\ journal' = IF "config" \in broken THEN journal ELSE "none"
            /\ Goto("saved")
    /\ UNCHANGED <<settings, marker, prepared, scripts, pair, saved, world>>

FindSaved ==
    /\ pc = "saved"
    /\ reuse' = (recover /\ pair = "valid")
    /\ pc' = "check"
    /\ UNCHANGED <<container, op, settings, marker, files, world>>

\* Mutant: a directory that cannot be written ends every startup.
CheckIsStrict ==
    /\ pc = "check"
    /\ IF "config" \in broken THEN Exit
       ELSE IF reuse THEN Goto("mark") ELSE Goto("generate")
    /\ UNCHANGED <<settings, marker, files, world>>

Check ==
    /\ pc = "check"
    /\ IF reuse THEN Goto("mark")
       ELSE IF "config" \in broken THEN Exit ELSE Goto("generate")
    /\ UNCHANGED <<settings, marker, files, world>>

Generate ==
    /\ pc = "generate"
    /\ pc' = "retain"
    /\ op' = "generate"
    /\ UNCHANGED <<container, reuse, settings, marker, files, world>>

GenerateFails ==
    /\ pc = "generate"
    /\ Exit
    /\ UNCHANGED <<settings, marker, files, world>>

Mark ==
    /\ pc = "mark"
    /\ "marker" \notin broken
    /\ marker' = TRUE
    /\ Goto("serving")
    /\ UNCHANGED <<settings, files, world>>

OneShotEnds ==
    /\ pc = "serving"
    /\ OneShot
    /\ Exit
    /\ UNCHANGED <<settings, marker, files, world>>

-----------------------------------------------------------------------------
(* Store.publish, for a resumed, a generated or a recovered pair.          *)

\* A candidate that Gluetun was seen to run is saved (resolve_pending).
Save ==
    /\ pc = "serving"
    /\ recover
    /\ "config" \notin broken
    /\ Spend("save")
    /\ pc' = "retain"
    /\ op' = "save"
    /\ UNCHANGED <<container, reuse, settings, marker, files, broken, gluetun>>

Retain ==
    /\ pc = "retain"
    /\ "config" \notin broken
    /\ journal' = "incomplete"
    /\ Goto("copy")
    /\ UNCHANGED <<settings, marker, prepared, scripts, pair, saved, world>>

Copy ==
    /\ pc = "copy"
    /\ "config" \notin broken
    /\ journal' = "complete"
    /\ Goto("replace wg0")
    /\ UNCHANGED <<settings, marker, prepared, scripts, pair, saved, world>>

\* Mutant: the commit directory is removed by the first replacement.
ReplaceConfigSweeps ==
    /\ pc = "replace wg0"
    /\ "config" \notin broken
    /\ pair' = IF pair \in {"none", "half"} THEN "half" ELSE "mixed"
    /\ journal' = "none"
    /\ Goto("replace env")
    /\ UNCHANGED <<settings, marker, prepared, scripts, saved, world>>

ReplaceConfig ==
    /\ pc = "replace wg0"
    /\ "config" \notin broken
    /\ pair' = IF pair \in {"none", "half"} THEN "half" ELSE "mixed"
    /\ Goto("replace env")
    /\ UNCHANGED <<settings, marker, prepared, scripts, journal, saved, world>>

ReplaceMetadata ==
    /\ pc = "replace env"
    /\ "config" \notin broken
    /\ pair' = "valid"
    /\ saved' = TRUE
    /\ Goto("sweep")
    /\ UNCHANGED <<settings, marker, prepared, scripts, journal, world>>

Sweep ==
    /\ pc = "sweep"
    /\ "config" \notin broken
    /\ journal' = "none"
    /\ Goto(CASE op = "resume" -> "saved" [] op = "generate" -> "mark" [] op = "save" -> "serving")
    /\ UNCHANGED <<settings, marker, prepared, scripts, pair, saved, world>>

\* Where each operation writes; a directory that exists need not be prepared.
Writes ==
    [p \in Labels |->
        CASE p = "prepare" -> IF prepared THEN {} ELSE Places
          [] p \in {"clear", "mark"} -> {"marker"}
          [] p = "log" -> {"log"}
          [] p \in {"install", "install hook"} -> {"scripts"}
          [] p \in {"retain", "copy", "replace wg0", "replace env", "sweep"} -> {"config"}
          [] OTHER -> {}]

\* filesystem_operation reports the error and main returns 1.
Fails ==
    /\ Writes[pc] \cap broken # {}
    /\ pc = "clear" => marker
    /\ Exit
    /\ UNCHANGED <<settings, marker, files, world>>

-----------------------------------------------------------------------------
(* Docker, the operator and the storage.                                   *)

Restart ==
    /\ container = "exited"
    /\ ~OneShot
    /\ container' = "running"
    /\ pc' = "config"
    /\ UNCHANGED <<op, reuse, settings, marker, files, world>>

Kill ==
    /\ container = "running"
    /\ Spend("kill")
    /\ Exit
    /\ UNCHANGED <<settings, marker, files, broken, gluetun>>

\* The containers are removed, or stopped, and the shared files with them or not.
Remove ==
    /\ container # "absent"
    /\ Spend("kill")
    /\ container' \in {"absent", "exited"}
    /\ pc' = "none"
    /\ gluetun' = "absent"
    /\ \/ UNCHANGED files
       \/ /\ prepared' = FALSE
          /\ scripts' = [s \in Scripts |-> 0]
          /\ pair' = "none"
          /\ journal' = "none"
          /\ saved' = FALSE
    /\ UNCHANGED <<op, reuse, settings, marker, broken>>

Create ==
    /\ container = "absent"
    /\ container' = "running"
    /\ pc' = "config"
    /\ marker' = FALSE
    /\ image' \in image..MaxImage
    /\ recover' \in BOOLEAN
    /\ keepalive' \in BOOLEAN
    /\ UNCHANGED <<op, reuse, files, world>>

\* A save of a confirmed candidate is spared: what becomes of it is in module
\* Store (StorageFaults) and in Stack.
Break ==
    /\ Spend("break")
    /\ \E place \in Places \ broken :
        /\ place = "config" => ~(marker /\ Writes[pc] = {"config"})
        /\ broken' = broken \cup {place}
    /\ UNCHANGED <<process, settings, marker, files, gluetun>>

Repair ==
    /\ \E place \in broken : broken' = broken \ {place}
    /\ UNCHANGED <<process, settings, marker, files, gluetun, left>>

\* privateerr-healthcheck, on which Compose waits before Gluetun's first start.
HealthcheckPasses == container = "running" /\ marker

GluetunStarts ==
    /\ gluetun = "absent"
    /\ HealthcheckPasses
    /\ scripts["wrapper"] # 0
    /\ gluetun' = "waiting"
    /\ UNCHANGED <<process, settings, marker, files, broken, left>>

WrapperPasses ==
    /\ gluetun = "waiting"
    /\ pair \in {"mixed", "valid"} /\ journal = "none"
    /\ gluetun' = "up"
    /\ UNCHANGED <<process, settings, marker, files, broken, left>>

\* Docker restarts Gluetun without asking for Privateerr's health.
GluetunRestarts ==
    /\ gluetun = "up"
    /\ gluetun' = "waiting"
    /\ UNCHANGED <<process, settings, marker, files, broken, left>>

-----------------------------------------------------------------------------
Proceed ==
    \/ Configure \/ Prepare \/ Clear \/ OpenLog \/ InstallWrapper \/ InstallHook
    \/ Resume \/ FindSaved \/ Check \/ Generate \/ GenerateFails \/ Mark
    \/ OneShotEnds \/ Retain \/ Copy \/ ReplaceConfig \/ ReplaceMetadata \/ Sweep
    \/ Fails \/ Restart

Operate == Kill \/ Remove \/ Create \/ Break \/ Repair

Next ==
    \/ Proceed \/ Save \/ Operate
    \/ GluetunStarts \/ WrapperPasses \/ GluetunRestarts

Spec == Init /\ [][Next]_vars

\* The process goes on and Docker restarts it; nothing is repaired by itself.
FairSpec == Spec /\ WF_vars(Proceed)
-----------------------------------------------------------------------------
(***************************************************************************)
(* Once this process has cleared the marker of an earlier one, a passing   *)
(* health check means that a complete pair is saved or will be before      *)
(* Gluetun reads it, and that both scripts are the image's, whatever the   *)
(* operator removed while Privateerr was stopped (supervisor.py, main).    *)
(***************************************************************************)
HealthyIsPrepared ==
    HealthcheckPasses /\ pc \notin {"config", "prepare", "clear"} =>
        /\ pair = "valid" \/ journal = "complete"
        /\ ~OneShot => \A s \in Scripts : scripts[s] = image

(***************************************************************************)
(* A restart never costs a registration: with recovery enabled nothing is  *)
(* generated while the files hold a saved pair, even one whose publication *)
(* was interrupted (supervisor.py, run; settings.py, resume).              *)
(***************************************************************************)
SavedIsReused == pc = "generate" /\ recover => ~saved

(***************************************************************************)
(* Gluetun never starts on half a pair, whichever of the two containers    *)
(* starts, stops or is removed first (gluetun-entrypoint-wrapper.sh).      *)
(***************************************************************************)
GluetunStartsOnValidPair ==
    [][gluetun = "waiting" /\ gluetun' = "up" => pair = "valid"]_vars

(***************************************************************************)
(* "probe failure warns without preventing Gluetun startup"                *)
(* (architecture.md:40): with a saved pair and recovery enabled, Privateerr*)
(* becomes ready even if its configuration directory cannot be written,    *)
(* unless an incomplete commit directory is left in it (settings.py:291).  *)
(***************************************************************************)
SavedPairIsServed ==
    <>[](/\ container # "absent"
         /\ recover /\ keepalive
         /\ pair = "valid" /\ journal = "none"
         /\ broken \subseteq {"config"})
      => []<>(pc = "serving")
=============================================================================
