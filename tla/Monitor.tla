------------------------------- MODULE Monitor -------------------------------
(***************************************************************************)
(* The timers of Supervisor.step (docker/privateerr/supervisor.py): when   *)
(* an outage counts as sustained, when the next registration may be        *)
(* attempted, and how the retry delay grows.  One action per way through   *)
(* step; what Gluetun answers, and how long a call takes, is chosen by the *)
(* environment.  The clock is monotonic and shared by every restart of the *)
(* process; `clock` is the time at which the next step begins.             *)
(***************************************************************************)
EXTENDS Integers

CONSTANTS
    FailureSeconds,  \* config.failure_seconds: startup grace and threshold
    Cooldowns,       \* what config.cooldown, the first retry delay, may be
    Interval,        \* config.interval: wait between steps
    MaxDelay,        \* bound on the delay, one hour in the code
    ProbeTime,       \* longest time step spends before it reads the clock
    RecoverTime,     \* longest time recover takes
    MaxTime,         \* bound on the clock
    NoTime           \* failed_since is None

\* Config.from_environment accepts whole seconds from 1; a cooldown may exceed
\* the bound on the delay (1..9999 against 3600).
ASSUME MonitorAssumption ==
    /\ FailureSeconds \in Nat \ {0}
    /\ Cooldowns \subseteq Nat \ {0}
    /\ Interval \in Nat \ {0}
    /\ MaxDelay \in Nat \ {0}
    /\ ProbeTime \in Nat
    /\ RecoverTime \in Nat
    /\ MaxTime \in Nat
    /\ NoTime \notin Int

VARIABLES
    cooldown,   \* config.cooldown of this process
    clock,
    failedSince,
    nextAttempt,
    delay,
    \* History: what the properties compare the timers with.
    started,    \* when this process began
    broken,     \* when evidence against a continuous outage was last seen
    ignored,    \* whether resolve_pending saw some that the outage outlived
    paused,     \* when a step last returned before probing the tunnel
    lastStart,  \* when the last attempt began
    lastEnd,    \* when it ended
    owed,       \* the delay it announced, 0 before the process's first
    rested      \* whether step has found the tunnel healthy since

timers == <<failedSince, nextAttempt, delay>>
attempt == <<lastStart, lastEnd, owed>>
process == <<cooldown, started>>
vars == <<cooldown, clock, failedSince, nextAttempt, delay, started, broken,
          ignored, paused, lastStart, lastEnd, owed, rested>>

TypeOK ==
    /\ cooldown \in Cooldowns
    /\ clock \in Nat
    /\ failedSince \in Nat \cup {NoTime}
    /\ nextAttempt \in Nat
    /\ delay \in Nat \ {0}
    /\ started \in Nat
    /\ broken \in Nat
    /\ ignored \in BOOLEAN
    /\ paused \in Nat
    /\ lastStart \in Nat
    /\ lastEnd \in Nat
    /\ owed \in Nat
    /\ rested \in BOOLEAN

\* Supervisor.__init__, then run's wait before monitoring.
Init ==
    /\ cooldown \in Cooldowns
    /\ clock = FailureSeconds
    /\ failedSince = NoTime
    /\ nextAttempt = 0
    /\ delay = cooldown
    /\ started = 0
    /\ broken = 0
    /\ ignored = FALSE
    /\ paused = 0
    /\ lastStart = 0
    /\ lastEnd = 0
    /\ owed = 0
    /\ rested = FALSE

Smaller(a, b) == IF a < b THEN a ELSE b

\* run waits between steps.
StepEnds(time) == clock' = time + Interval

\* resolve_pending makes requests of its own (supervisor.py:238-260): one that
\* is not answered, or a probe that finds the tunnel healthy before the save
\* fails or before the step's own probe, is evidence against the outage that no
\* timer registers.
Resolving(time) ==
    \E seen \in BOOLEAN :
        /\ broken' = IF seen THEN time ELSE broken
        /\ ignored' = (ignored \/ (seen /\ failedSince # NoTime))

\* Mutant: an unreachable API leaves the outage running.
UnreachableKeepsOutage ==
    /\ clock < MaxTime
    /\ \E d \in 0..ProbeTime :
        /\ StepEnds(clock + d)
        /\ broken' = clock + d
    /\ ignored' = FALSE
    /\ UNCHANGED <<timers, process, paused, attempt, rested>>

\* The control API did not answer, or answered with an unknown status.
Unreachable ==
    /\ clock < MaxTime
    /\ \E d \in 0..ProbeTime :
        /\ StepEnds(clock + d)
        /\ broken' = clock + d
    /\ failedSince' = NoTime
    /\ ignored' = FALSE
    /\ UNCHANGED <<nextAttempt, delay, process, paused, attempt, rested>>

\* Mutant: a step that defers resets the retry delay.
DeferredResetsDelay ==
    /\ clock < MaxTime
    /\ \E d \in 0..ProbeTime :
        /\ StepEnds(clock + d)
        /\ paused' = clock + d
        /\ Resolving(clock + d)
    /\ delay' = cooldown
    /\ UNCHANGED <<failedSince, nextAttempt, process, attempt, rested>>

\* The VPN is stopped or changing state, or a pending update cannot be checked
\* or saved (Pending.UNAVAILABLE): step returns and keeps its timers.
Deferred ==
    /\ clock < MaxTime
    /\ \E d \in 0..ProbeTime :
        /\ StepEnds(clock + d)
        /\ paused' = clock + d
        /\ Resolving(clock + d)
    /\ UNCHANGED <<timers, process, attempt, rested>>

Healthy ==
    /\ clock < MaxTime
    /\ \E d \in 0..ProbeTime :
        /\ StepEnds(clock + d)
        /\ broken' = clock + d
    /\ failedSince' = NoTime
    /\ delay' = cooldown
    /\ ignored' = FALSE
    /\ rested' = TRUE
    /\ UNCHANGED <<nextAttempt, process, paused, attempt>>

Since(now) == IF failedSince = NoTime THEN now ELSE failedSince

\* Mutant: the cooldown is not compared with the clock.
DueByThresholdOnly(now) == now - Since(now) >= FailureSeconds

Due(now) == now - Since(now) >= FailureSeconds /\ now >= nextAttempt

Unhealthy ==
    /\ clock < MaxTime
    /\ \E d \in 0..ProbeTime :
        LET now == clock + d IN
        /\ ~Due(now)
        /\ failedSince' = Since(now)
        /\ StepEnds(now)
        /\ Resolving(now)
    /\ UNCHANGED <<nextAttempt, delay, process, paused, attempt, rested>>

\* Mutant: the delay is doubled before the next attempt is scheduled.
AttemptDoublesFirst ==
    /\ clock < MaxTime
    /\ \E d \in 0..ProbeTime, w \in 0..RecoverTime :
        LET now == clock + d
            end == now + w
        IN
        /\ Due(now)
        /\ nextAttempt' = end + 2 * delay
        /\ failedSince' = end
        /\ lastStart' = now
        /\ lastEnd' = end
        /\ StepEnds(end)
        /\ \E seen \in BOOLEAN : broken' = IF seen THEN now ELSE broken
    /\ delay' = Smaller(delay * 2, MaxDelay)
    /\ owed' = delay
    /\ ignored' = FALSE
    /\ rested' = FALSE
    /\ UNCHANGED <<process, paused>>

\* recover returns, submits a candidate or raises: the retry is bounded alike.
\* resolve_pending may have seen evidence earlier in the same step.
Attempt ==
    /\ clock < MaxTime
    /\ \E d \in 0..ProbeTime, w \in 0..RecoverTime :
        LET now == clock + d
            end == now + w
        IN
        /\ Due(now)
        /\ nextAttempt' = end + delay
        /\ failedSince' = end
        /\ lastStart' = now
        /\ lastEnd' = end
        /\ StepEnds(end)
        /\ \E seen \in BOOLEAN : broken' = IF seen THEN now ELSE broken
    /\ delay' = Smaller(delay * 2, MaxDelay)
    /\ owed' = delay
    /\ ignored' = FALSE
    /\ rested' = FALSE
    /\ UNCHANGED <<process, paused>>

\* The process dies and comes back, its settings perhaps changed: its timers
\* start afresh.
Restart ==
    /\ clock < MaxTime
    /\ started' = clock
    /\ clock' = clock + FailureSeconds
    /\ cooldown' \in Cooldowns
    /\ failedSince' = NoTime
    /\ nextAttempt' = 0
    /\ delay' = cooldown'
    /\ broken' = clock
    /\ ignored' = FALSE
    /\ owed' = 0
    /\ rested' = FALSE
    /\ UNCHANGED <<paused, lastStart, lastEnd>>

Next ==
    \/ Unreachable \/ Deferred \/ Healthy \/ Unhealthy \/ Attempt \/ Restart

Spec == Init /\ [][Next]_vars

-----------------------------------------------------------------------------
AttemptStarts == lastStart' # lastStart

(***************************************************************************)
(* A registration is attempted no earlier than one failure threshold after *)
(* the previous attempt ended and, within one process, no earlier than the *)
(* delay the previous attempt announced, whatever was observed in between: *)
(* a healthy probe resets the delay but not the time of the next attempt.  *)
(***************************************************************************)
AttemptsAreSpaced ==
    [][AttemptStarts =>
        /\ lastStart' >= lastEnd + FailureSeconds
        /\ lastStart' >= lastEnd + owed]_vars

(***************************************************************************)
(* An attempt needs an outage.  The process had begun at least a grace     *)
(* period and a threshold earlier.  For a whole threshold before the       *)
(* attempt step found neither the API unreachable nor the tunnel healthy,  *)
(* and neither did resolve_pending, except while the outage already ran:   *)
(* what resolve_pending sees then resets no timer (supervisor.py:238-260), *)
(* so an attempt may follow it at once, even in the same step.             *)
(***************************************************************************)
AttemptNeedsOutage ==
    [][AttemptStarts =>
        /\ lastStart' >= started + 2 * FailureSeconds
        /\ ~ignored /\ broken' = broken =>
              lastStart' >= broken + FailureSeconds]_vars

(***************************************************************************)
(* Retries stay frequent enough: while step keeps probing an unhealthy     *)
(* tunnel, an attempt begins within one interval of the time at which both *)
(* the threshold and the announced delay have passed.                      *)
(***************************************************************************)
OutageIsAnswered ==
    failedSince # NoTime /\ paused < failedSince =>
        \/ clock < failedSince + FailureSeconds + Interval
        \/ clock < lastEnd + owed + Interval

(***************************************************************************)
(* The cooldown "doubles on failures to one hour"                          *)
(* (docs/automatic-recovery.md:173).  The first delay an attempt announces *)
(* in its process, or after step found the tunnel healthy, is the          *)
(* configured one, whatever its size; every other is twice the one before  *)
(* it, or the bound.  An unreachable API, a deferred step or an attempt    *)
(* that submitted nothing resets no delay, and a configured delay above    *)
(* the bound falls to it at the second attempt (supervisor.py, step).      *)
(***************************************************************************)
DelayDoublesToOneHour ==
    [][AttemptStarts =>
        owed' = IF owed = 0 \/ rested THEN cooldown
                ELSE Smaller(2 * owed, MaxDelay)]_vars
=============================================================================
