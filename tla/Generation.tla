------------------------------ MODULE Generation ------------------------------
(***************************************************************************)
(* One registration attempt after another (docker/privateerr/generation.py):*)
(* Generator.generate, run_script, stop_group and reap_children, with the  *)
(* upstream scripts they run.  A script is the direct child of the         *)
(* supervisor and leads a process group; it may start a helper, which      *)
(* stays in the group and can outlive it.  The supervisor is PID 1 of its  *)
(* container: orphans become its children, and its exit ends them all.     *)
(* SIGTERM raises Shutdown between any two operations.                     *)
(*                                                                         *)
(* Supervisor.run decides what surrounds the attempts.  Startup runs the   *)
(* whole upstream setup, unless recovery finds a saved pair to reuse, and  *)
(* its failure ends the process.  Afterwards recovery steps for ever,      *)
(* keepalive mode only waits, and one-shot mode ends.                      *)
(*                                                                         *)
(* What the scripts print and what the catalog holds is abstracted: a      *)
(* script ends with status zero or not, and metadata is written or not.    *)
(***************************************************************************)
EXTENDS Integers

CONSTANTS
    None,
    Timeout,      \* config.generation_timeout
    Grace,        \* how long stop_group waits after SIGTERM
    Overrun,      \* how far the catalog request may outlast its timeout
    MaxAttempts,  \* bound on attempts
    MaxExits      \* bound on shutdowns and crashes

ASSUME GenerationAssumption ==
    /\ None \notin Nat
    /\ Timeout \in Nat
    /\ Grace \in Nat
    /\ Overrun \in Nat
    /\ MaxAttempts \in Nat
    /\ MaxExits \in Nat

Modes == {"recover", "keepalive", "one-shot"}
Attempts == 1..MaxAttempts
Scripts == {"run_setup", "get_token", "connect"}
Process == [attempt : Attempts, script : Scripts, kind : {"child", "helper"}]

VARIABLES
    mode,       \* config.recover, config.keepalive without it, or neither
    monitoring, \* startup is over and recovery steps
    pc,         \* the supervisor's next operation
    attempt,    \* the current or last attempt
    script,     \* the script it runs
    outcome,    \* what propagates: nothing, an exception, or Shutdown
    held,       \* the attempt whose token was read
    collected,  \* the direct child's status has been collected
    elapsed,    \* time since the attempt began
    until,      \* its deadline
    graceEnd,   \* when stop_group stops waiting
    staged,     \* the attempts whose staging directory exists
    live,       \* the upstream processes that run
    dying,      \* those that SIGKILL has hit
    zombies,    \* those that have exited and are not collected
    status,     \* the exit status of the current direct child
    token,      \* the attempt that wrote TOKEN_PATH, if the file exists
    exits

running == <<mode, monitoring>>
attempting == <<attempt, script, held>>
time == <<elapsed, until, graceEnd>>
processes == <<live, dying, zombies>>
vars == <<mode, monitoring, pc, attempt, script, outcome, held, collected, elapsed,
          until, graceEnd, staged, live, dying, zombies, status, token, exits>>

\* No attempt is under way: before startup's, between the steps of recovery, in
\* keepalive's endless wait, or without a container.
Resting == {"start", "idle", "rest", "exited"}

Labels == Resting \cup
    {"launch", "launched", "reading", "waiting", "term", "grace", "kill",
     "collect", "reap", "read token", "unlink token", "metadata", "catalog",
     "ready", "unstage"}

TypeOK ==
    /\ mode \in Modes
    /\ monitoring \in BOOLEAN
    /\ pc \in Labels
    /\ attempt \in 0..MaxAttempts
    /\ script \in Scripts
    /\ outcome \in {"ok", "failed", "shutdown"}
    /\ held \in Attempts \cup {None}
    /\ collected \in BOOLEAN
    /\ elapsed \in Nat
    /\ until \in Nat
    /\ graceEnd \in Nat
    /\ staged \subseteq Attempts
    /\ live \subseteq Process
    /\ dying \subseteq Process
    /\ zombies \subseteq Process
    /\ status \in {"running", "zero", "nonzero"}
    /\ token \in Attempts \cup {None}
    /\ exits \in 0..MaxExits

Init ==
    /\ mode \in Modes
    /\ monitoring = FALSE
    /\ pc = "start"
    /\ attempt = 0
    /\ script = "run_setup"
    /\ outcome = "ok"
    /\ held = None
    /\ collected = TRUE
    /\ elapsed = 0
    /\ until = 0
    /\ graceEnd = 0
    /\ staged = {}
    /\ live = {}
    /\ dying = {}
    /\ zombies = {}
    /\ status = "running"
    /\ token = None
    /\ exits = 0

Of(kind) == [attempt |-> attempt, script |-> script, kind |-> kind]

Child == Of("child")
Group == {Of("child"), Of("helper")}

-----------------------------------------------------------------------------
(* Supervisor.run: what precedes an attempt.                               *)

\* Recovery reuses a valid saved pair.
Reuse ==
    /\ pc = "start"
    /\ mode = "recover"
    /\ pc' = "idle"
    /\ monitoring' = TRUE
    /\ UNCHANGED <<mode, attempting, outcome, collected, time, staged, processes,
                   status, token, exits>>

\* Mutant: step does not collect exited children.
StepForgets ==
    /\ pc = "idle"
    /\ UNCHANGED <<running, pc, attempting, outcome, collected, time, staged,
                   processes, status, token, exits>>

\* Supervisor.step collects exited children and may find nothing else to do.
Step ==
    /\ pc = "idle"
    /\ zombies' = {}
    /\ UNCHANGED <<running, pc, attempting, outcome, collected, time, staged, live,
                   dying, status, token, exits>>

-----------------------------------------------------------------------------
(* Generator.generate.                                                     *)

Begin ==
    /\ attempt < MaxAttempts
    /\ attempt' = attempt + 1
    /\ elapsed' = 0
    /\ until' = Timeout
    /\ staged' = staged \cup {attempt'}
    /\ outcome' = "ok"
    /\ held' = None
    /\ pc' = "launch"
    /\ UNCHANGED <<running, collected, graceEnd, live, dying, status, token, exits>>

Setup ==
    /\ pc = "start"
    /\ Begin
    /\ script' = "run_setup"
    /\ UNCHANGED zombies

\* Recovery fetches a token for the endpoint it selected; with a dedicated IP it
\* runs the upstream setup.
Recover ==
    /\ pc = "idle"
    /\ Begin
    /\ script' \in {"run_setup", "get_token"}
    /\ zombies' = {}

Goto(label) ==
    /\ pc' = label
    /\ UNCHANGED <<running, attempting, staged, token, exits>>

\* An exception leaves generate through the removal of its staging directory.
Fails ==
    /\ outcome' = "failed"
    /\ Goto("unstage")
    /\ UNCHANGED <<collected, time, processes, status>>

ReadToken ==
    /\ pc = "read token"
    /\ token # None
    /\ \E usable \in BOOLEAN :
        /\ outcome' = IF usable THEN "ok" ELSE "failed"
        /\ held' = IF usable THEN token ELSE held
    /\ pc' = "unlink token"
    /\ UNCHANGED <<running, attempt, script, collected, time, staged, processes,
                   status, token, exits>>

\* Mutant: the token file is kept for the next registration.
UnlinkKeepsToken ==
    /\ pc = "unlink token"
    /\ IF outcome = "ok" THEN script' = "connect" /\ pc' = "launch"
                         ELSE script' = script /\ pc' = "unstage"
    /\ UNCHANGED <<running, attempt, held, outcome, collected, time, staged,
                   processes, status, token, exits>>

UnlinkToken ==
    /\ pc = "unlink token"
    /\ token' = None
    /\ IF outcome = "ok" THEN script' = "connect" /\ pc' = "launch"
                         ELSE script' = script /\ pc' = "unstage"
    /\ UNCHANGED <<running, attempt, held, outcome, collected, time, staged,
                   processes, status, exits>>

\* write_metadata reads the registration's endpoint, and asks for the catalog
\* with what is left of the deadline as the timeout.
RequestCatalog ==
    /\ pc = "metadata"
    /\ elapsed < until
    /\ Goto("catalog")
    /\ UNCHANGED <<outcome, collected, time, processes, status>>

\* A catalog that cannot be had is done without; the deadline is checked last.
WriteMetadata ==
    /\ pc = "catalog"
    /\ elapsed < until
    /\ Goto("ready")
    /\ UNCHANGED <<outcome, collected, time, processes, status>>

\* The registration's files are not usable, or cannot be read or written.
MetadataFails == pc \in {"metadata", "catalog"} /\ Fails

MetadataLate ==
    /\ pc \in {"metadata", "catalog"}
    /\ elapsed >= until
    /\ Fails

\* The caller retains or publishes the candidate.
Used ==
    /\ pc = "ready"
    /\ Goto("unstage")
    /\ UNCHANGED <<outcome, collected, time, processes, status>>

Unstage ==
    /\ pc = "unstage"
    /\ outcome # "shutdown"
    /\ monitoring
    /\ pc' = "idle"
    /\ staged' = staged \ {attempt}
    /\ UNCHANGED <<running, attempting, outcome, collected, time, processes, status,
                   token, exits>>

\* The end of PID 1 is the end of every process in its container.
ContainerEnds ==
    /\ pc' = "exited"
    /\ live' = {}
    /\ dying' = {}
    /\ zombies' = {}
    /\ UNCHANGED <<running, attempting, outcome, collected, time, status, token>>

\* Startup has its files: run goes on as its mode says.
StartupEnds ==
    /\ pc = "unstage"
    /\ outcome = "ok"
    /\ ~monitoring
    /\ mode # "one-shot"
    /\ pc' = IF mode = "recover" THEN "idle" ELSE "rest"
    /\ monitoring' = (mode = "recover")
    /\ staged' = staged \ {attempt}
    /\ UNCHANGED <<mode, attempting, outcome, collected, time, processes, status,
                   token, exits>>

\* One-shot mode is done, or startup failed.
ProcessEnds ==
    /\ pc = "unstage"
    /\ ~monitoring
    /\ outcome = "failed" \/ (outcome = "ok" /\ mode = "one-shot")
    /\ staged' = staged \ {attempt}
    /\ ContainerEnds
    /\ UNCHANGED exits

-----------------------------------------------------------------------------
(* Generator.run_script.                                                   *)

\* Mutant: each script gets the whole timeout.
LaunchRenewsDeadline ==
    /\ pc = "launch"
    /\ Goto("launched")
    /\ live' = live \cup {Child}
    /\ until' = elapsed + Timeout
    /\ collected' = FALSE
    /\ status' = "running"
    /\ UNCHANGED <<outcome, elapsed, graceEnd, dying, zombies>>

Launch ==
    /\ pc = "launch"
    /\ Goto("launched")
    /\ live' = live \cup {Child}
    /\ collected' = FALSE
    /\ status' = "running"
    /\ UNCHANGED <<outcome, time, dying, zombies>>

LaunchFails == pc = "launch" /\ Fails

EnterTry ==
    /\ pc = "launched"
    /\ Goto("reading")
    /\ UNCHANGED <<outcome, collected, time, processes, status>>

\* The last holder of the pipe closed it; the direct child may still run.  When
\* that is, or whether it ever is, is up to the scripts.
EndOfOutput ==
    /\ pc = "reading"
    /\ elapsed < until
    /\ Goto("waiting")
    /\ UNCHANGED <<outcome, collected, time, processes, status>>

\* Interactive input was requested, or reading or logging failed.
OutputFails ==
    /\ pc = "reading"
    /\ elapsed < until
    /\ outcome' = "failed"
    /\ Goto("term")
    /\ UNCHANGED <<collected, time, processes, status>>

Exited ==
    /\ pc = "waiting"
    /\ Child \in zombies
    /\ zombies' = zombies \ {Child}
    /\ collected' = TRUE
    /\ outcome' = IF status = "zero" THEN "ok" ELSE "failed"
    /\ Goto("term")
    /\ UNCHANGED <<time, live, dying, status>>

\* Mutant: the output is read without a timeout.
DeadlineWhileWaiting ==
    /\ pc = "waiting"
    /\ elapsed >= until
    /\ outcome' = "failed"
    /\ Goto("term")
    /\ UNCHANGED <<collected, time, processes, status>>

DeadlinePasses ==
    /\ pc \in {"reading", "waiting"}
    /\ elapsed >= until
    /\ outcome' = "failed"
    /\ Goto("term")
    /\ UNCHANGED <<collected, time, processes, status>>

-----------------------------------------------------------------------------
(* stop_group and reap_children.                                           *)

Terminate ==
    /\ pc = "term"
    /\ Goto("grace")
    /\ graceEnd' = elapsed + Grace
    /\ UNCHANGED <<outcome, collected, elapsed, until, processes, status>>

\* process.wait returns at once for a child that was collected before.
GraceEnds ==
    /\ pc = "grace"
    /\ collected \/ Child \in zombies \/ elapsed >= graceEnd
    /\ collected' = (collected \/ Child \in zombies)
    /\ zombies' = zombies \ {Child}
    /\ Goto("kill")
    /\ UNCHANGED <<outcome, time, live, dying, status>>

\* Mutant: only the direct child is killed.
KillChild ==
    /\ pc = "kill"
    /\ live' = live \ {Child}
    /\ dying' = dying \cup (live \cap {Child})
    /\ Goto("collect")
    /\ UNCHANGED <<outcome, collected, time, zombies, status>>

KillGroup ==
    /\ pc = "kill"
    /\ live' = live \ Group
    /\ dying' = dying \cup (live \cap Group)
    /\ Goto("collect")
    /\ UNCHANGED <<outcome, collected, time, zombies, status>>

Collect ==
    /\ pc = "collect"
    /\ collected \/ Child \in zombies
    /\ collected' = TRUE
    /\ zombies' = zombies \ {Child}
    /\ Goto("reap")
    /\ UNCHANGED <<outcome, time, live, dying, status>>

\* Helpers that SIGKILL has hit may still be dying.
Reap ==
    /\ pc = "reap"
    /\ zombies' = {}
    /\ Goto(IF outcome # "ok" THEN "unstage"
            ELSE IF script = "get_token" THEN "read token"
            ELSE "metadata")
    /\ UNCHANGED <<outcome, collected, time, live, dying, status>>

-----------------------------------------------------------------------------
(* The upstream scripts.                                                   *)

Upstream ==
    UNCHANGED <<running, pc, attempting, outcome, collected, time, staged, exits>>

StartsHelper ==
    /\ Child \in live
    /\ Of("helper") \notin live \cup dying \cup zombies
    /\ live' = live \cup {Of("helper")}
    /\ Upstream /\ UNCHANGED <<dying, zombies, status, token>>

WritesToken ==
    /\ \E p \in live :
        /\ p.script = "get_token"
        /\ token' = p.attempt
    /\ Upstream /\ UNCHANGED <<processes, status>>

\* get_token succeeds only after it has written the token.
ChildExits ==
    /\ Child \in live
    /\ live' = live \ {Child}
    /\ zombies' = zombies \cup {Child}
    /\ status' \in {"zero", "nonzero"}
    /\ script = "get_token" /\ status' = "zero" => token = attempt
    /\ Upstream /\ UNCHANGED <<dying, token>>

\* A running script collects its helper; an orphan is left to PID 1.
HelperExits ==
    /\ \E p \in live :
        /\ p.kind = "helper"
        /\ live' = live \ {p}
        /\ zombies' = IF [p EXCEPT !.kind = "child"] \in live THEN zombies ELSE zombies \cup {p}
    /\ Upstream /\ UNCHANGED <<dying, status, token>>

Dies ==
    /\ \E p \in dying :
        /\ dying' = dying \ {p}
        /\ zombies' = zombies \cup {p}
        /\ status' = IF p = Child THEN "nonzero" ELSE status
    /\ Upstream /\ UNCHANGED <<live, token>>

\* Time passes only where the supervisor waits, and no longer than it does.  The
\* catalog request may outlast its timeout: name resolution and every address
\* after the first are not under its alarm (module Client).
Tick ==
    /\ \/ pc \in {"reading", "waiting"} /\ elapsed < until
       \/ pc = "grace" /\ ~collected /\ Child \notin zombies /\ elapsed < graceEnd
       \/ pc = "catalog" /\ elapsed < until + Overrun
    /\ elapsed' = elapsed + 1
    /\ UNCHANGED <<running, pc, attempting, outcome, collected, until, graceEnd, staged,
                   processes, status, token, exits>>

-----------------------------------------------------------------------------
(* Shutdown, crash and restart.                                            *)

\* Where the handlers around each operation lead Shutdown: the two `finally`
\* blocks of run_script and stop_group, the one of the token, or out of generate.
Unwind ==
    CASE pc \in {"reading", "waiting"} -> "term"
      [] pc = "grace" -> "kill"
      [] pc = "read token" -> "unlink token"
      [] OTHER -> "unstage"

Spend == exits < MaxExits /\ exits' = exits + 1

\* A later signal is ignored.  Popen may be interrupted after it has forked.  A
\* signal between attempts, or while staging is being removed, is a Crash.
Shutdown ==
    /\ pc \notin Resting \cup {"unstage"}
    /\ outcome # "shutdown"
    /\ Spend
    /\ outcome' = "shutdown"
    /\ pc' = Unwind
    /\ live' \in IF pc = "launch" THEN {live, live \cup {Child}} ELSE {live}
    /\ UNCHANGED <<running, attempting, collected, time, staged, dying, zombies, status,
                   token>>

\* A script that still runs may write while its directory is being removed.
ShutdownEnds ==
    /\ pc = "unstage"
    /\ outcome = "shutdown"
    /\ \/ staged' = staged \ {attempt}
       \/ live # {} /\ UNCHANGED staged
    /\ ContainerEnds
    /\ UNCHANGED exits

Crash ==
    /\ pc # "exited"
    /\ Spend
    /\ ContainerEnds
    /\ UNCHANGED staged

Restart ==
    /\ pc = "exited"
    /\ pc' = "start"
    /\ monitoring' = FALSE
    /\ outcome' = "ok"
    /\ UNCHANGED <<mode, attempting, collected, time, staged, processes, status, token, exits>>

-----------------------------------------------------------------------------
\* What the supervisor does by itself, and what ends each of its waits.
Supervise ==
    \/ Reuse \/ Setup \/ ReadToken \/ UnlinkToken
    \/ RequestCatalog \/ MetadataLate \/ Used \/ Unstage \/ StartupEnds \/ ProcessEnds
    \/ Launch \/ EnterTry \/ Exited \/ DeadlinePasses
    \/ Terminate \/ GraceEnds \/ KillGroup \/ Collect \/ Reap \/ ShutdownEnds

\* What scripts, the catalog's server and the file system may do, or never do.
Outside ==
    \/ EndOfOutput \/ OutputFails \/ LaunchFails \/ WriteMetadata \/ MetadataFails
    \/ StartsHelper \/ WritesToken \/ ChildExits \/ HelperExits

Next ==
    \/ Step \/ Recover \/ Supervise \/ Outside \/ Dies \/ Tick
    \/ Shutdown \/ Crash \/ Restart

Spec == Init /\ [][Next]_vars

\* The supervisor runs, recovery steps again and again, time passes and a killed
\* process dies.  Nothing is assumed of a script, not even that its output ends;
\* nor that the catalog is answered, that recovery is ever needed, or that a
\* container that ended is started again.
Fairness ==
    /\ WF_vars(Supervise)
    /\ WF_vars(Step)
    /\ WF_vars(Dies)
    /\ WF_vars(Tick)

FairSpec == Spec /\ Fairness
-----------------------------------------------------------------------------
Running == {"launched", "reading", "waiting", "term", "grace", "kill"}

(***************************************************************************)
(* Upstream scripts never overlap: an upstream process runs only while its *)
(* own invocation is active, so that the next script, the caller of        *)
(* generate and the removal of staging find no process of an earlier one,  *)
(* helpers included.  A Shutdown that misses a `finally` is excepted until *)
(* the container ends (generation.py, run_script and stop_group).          *)
(***************************************************************************)
OneInvocationAtATime ==
    \A p \in live :
        /\ p \in Group
        /\ pc \in Running \/ (pc = "unstage" /\ outcome = "shutdown")

(***************************************************************************)
(* The token used for a registration was fetched by the same attempt, and  *)
(* its file is gone before the registration starts, whatever an earlier    *)
(* attempt left behind (generation.py, generate).                          *)
(***************************************************************************)
TokenIsOwn ==
    script = "connect" => held = attempt /\ token = None

(***************************************************************************)
(* Scripts and metadata share one deadline.  A candidate is handed over    *)
(* only before it; the scripts of an attempt and their cleanup last one    *)
(* grace period longer at most, a killed process's death aside; and only   *)
(* the catalog request, after the last script, may keep the attempt longer *)
(* than that, by as much as a request outlasts its timeout                 *)
(* (generation.py, remaining, stop_group and write_metadata).              *)
(***************************************************************************)
DeadlineIsShared ==
    /\ pc = "ready" => elapsed < Timeout
    /\ \/ elapsed <= Timeout + Grace
       \/ script # "get_token" /\ elapsed <= Timeout + Overrun

(***************************************************************************)
(* Every attempt ends, whatever its scripts do: silent for ever, talkative *)
(* without end, detached from their output or ignoring SIGTERM             *)
(* (generation.py, run_script).                                            *)
(***************************************************************************)
AttemptEnds == pc \notin Resting ~> pc \in Resting

(***************************************************************************)
(* With recovery, no exited process stays uncollected under PID 1, although *)
(* one may still be dying when run_script reaps (generation.py,            *)
(* reap_children).  Not so in keepalive mode, which never reaps again: a   *)
(* helper that dies after startup's reaping stays a zombie for as long as  *)
(* the container runs (supervisor.py:504-508).                             *)
(***************************************************************************)
ExitedAreCollected == mode = "recover" /\ zombies # {} ~> zombies = {}
=============================================================================
