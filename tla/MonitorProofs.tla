---------------------------- MODULE MonitorProofs ----------------------------
(***************************************************************************)
(* Theorems about the timers of Supervisor.step, for every setting of the  *)
(* threshold, cooldown and interval and every duration of the calls.       *)
(***************************************************************************)
EXTENDS Monitor, TLAPS

\* The types of everything but the two flags.
Counted ==
    /\ cooldown \in Cooldowns
    /\ clock \in Nat
    /\ failedSince \in Nat \cup {NoTime}
    /\ nextAttempt \in Nat
    /\ delay \in Nat \ {0}
    /\ started \in Nat
    /\ broken \in Nat
    /\ paused \in Nat
    /\ lastStart \in Nat
    /\ lastEnd \in Nat
    /\ owed \in Nat

\* What has happened lies before the next step.
PastIsPast ==
    /\ lastEnd <= clock
    /\ broken <= clock
    /\ started + FailureSeconds <= clock
    /\ owed > 0 => lastEnd < clock

\* An outage is younger than the last attempt, the startup grace period and all
\* the good evidence the timers did not ignore.
OutageIsRecent ==
    failedSince # NoTime =>
        /\ failedSince <= clock
        /\ failedSince >= lastEnd
        /\ ~ignored => failedSince >= broken
        /\ failedSince >= started + FailureSeconds

\* The retry timer is the end of this process's last attempt plus its delay.
RetryIsOwed == nextAttempt = IF owed = 0 THEN 0 ELSE lastEnd + owed

\* Nothing is ignored without an outage.
NothingIgnored == failedSince = NoTime => ~ignored

\* The current delay is the configured one, or follows from the announced one.
DelayFollows ==
    delay = IF owed = 0 \/ rested THEN cooldown ELSE Smaller(2 * owed, MaxDelay)

TimerInv ==
    /\ TypeOK
    /\ PastIsPast
    /\ OutageIsRecent
    /\ RetryIsOwed
    /\ NothingIgnored
    /\ DelayFollows
    /\ OutageIsAnswered

\* Lemma: Every step keeps the types.
LEMMA TypeStep == TypeOK /\ [Next]_vars => TypeOK'
<1> SUFFICES ASSUME TypeOK, [Next]_vars PROVE TypeOK'
  OBVIOUS
<1>1. (ignored \in BOOLEAN /\ rested \in BOOLEAN)'
  <2> USE DEF TypeOK
  <2>1. CASE Unreachable
    BY <2>1, Zenon DEF Unreachable
  <2>2. CASE Deferred
    BY <2>2, Zenon DEF Deferred, Resolving
  <2>3. CASE Healthy
    BY <2>3, Zenon DEF Healthy
  <2>4. CASE Unhealthy
    BY <2>4, Zenon DEF Unhealthy, Resolving
  <2>5. CASE Attempt
    BY <2>5, Zenon DEF Attempt
  <2>6. CASE Restart
    BY <2>6, Zenon DEF Restart
  <2>7. CASE UNCHANGED vars
    BY <2>7, Zenon DEF vars
  <2> QED
    BY <2>1, <2>2, <2>3, <2>4, <2>5, <2>6, <2>7 DEF Next
<1>2. Counted'
  <2> USE MonitorAssumption DEF TypeOK, Counted, StepEnds, Smaller, timers,
        attempt, process
  <2>1. CASE Unreachable
    BY <2>1 DEF Unreachable
  <2>2. CASE Deferred
    BY <2>2 DEF Deferred, Resolving
  <2>3. CASE Healthy
    BY <2>3 DEF Healthy
  <2>4. CASE Unhealthy
    BY <2>4 DEF Unhealthy, Resolving, Due, Since
  <2>5. CASE Attempt
    BY <2>5 DEF Attempt, Due, Since
  <2>6. CASE Restart
    BY <2>6 DEF Restart
  <2>7. CASE UNCHANGED vars
    BY <2>7 DEF vars
  <2> QED
    BY <2>1, <2>2, <2>3, <2>4, <2>5, <2>6, <2>7 DEF Next
<1> QED
  BY <1>1, <1>2, Zenon DEF TypeOK, Counted

\* Lemma: Every step keeps the delay in its relation to the announced one.
LEMMA DelayStep == TypeOK /\ DelayFollows /\ [Next]_vars => DelayFollows'
<1> SUFFICES ASSUME TypeOK, DelayFollows, [Next]_vars PROVE DelayFollows'
  OBVIOUS
<1> USE MonitorAssumption DEF TypeOK, DelayFollows, Smaller,
      timers, attempt, process
<1>1. CASE Unreachable
  BY <1>1 DEF Unreachable
<1>2. CASE Deferred
  BY <1>2 DEF Deferred, Resolving
<1>3. CASE Healthy
  BY <1>3 DEF Healthy
<1>4. CASE Unhealthy
  BY <1>4 DEF Unhealthy, Resolving, Due, Since
<1>5. CASE Attempt
  BY <1>5 DEF Attempt, Due, Since
<1>6. CASE Restart
  BY <1>6 DEF Restart
<1>7. CASE UNCHANGED vars
  BY <1>7 DEF vars
<1> QED
  BY <1>1, <1>2, <1>3, <1>4, <1>5, <1>6, <1>7 DEF Next

\* Lemma: Every step keeps the timers in their relation to the remembered instants.
LEMMA TimeStep == TimerInv /\ [Next]_vars => (PastIsPast /\ OutageIsRecent /\ RetryIsOwed
                  /\ NothingIgnored /\ OutageIsAnswered)'
<1> SUFFICES ASSUME TimerInv, [Next]_vars PROVE (PastIsPast /\ OutageIsRecent /\ RetryIsOwed
                  /\ NothingIgnored /\ OutageIsAnswered)'
  OBVIOUS
<1> USE MonitorAssumption DEF TimerInv, TypeOK, PastIsPast, OutageIsRecent,
      RetryIsOwed, NothingIgnored, OutageIsAnswered, StepEnds, timers,
      attempt, process
<1>1. CASE Unreachable
  BY <1>1 DEF Unreachable
<1>2. CASE Deferred
  BY <1>2 DEF Deferred, Resolving
<1>3. CASE Healthy
  BY <1>3 DEF Healthy
<1>4. CASE Unhealthy
  BY <1>4 DEF Unhealthy, Resolving, Due, Since
<1>5. CASE Attempt
  BY <1>5 DEF Attempt, Due, Since
<1>6. CASE Restart
  BY <1>6 DEF Restart
<1>7. CASE UNCHANGED vars
  BY <1>7 DEF vars
<1> QED
  BY <1>1, <1>2, <1>3, <1>4, <1>5, <1>6, <1>7 DEF Next

\* Lemma: Every step keeps the invariant.
LEMMA TimerStep == TimerInv /\ [Next]_vars => TimerInv'
BY TypeStep, DelayStep, TimeStep DEF TimerInv

\* Lemma: The invariant holds in every behaviour.
LEMMA TimerInvariant == Spec => []TimerInv
<1>1. Init => TimerInv
  <2> SUFFICES ASSUME Init PROVE TimerInv
    OBVIOUS
  <2>1. TypeOK
    <3>1. ignored \in BOOLEAN /\ rested \in BOOLEAN
      BY Zenon DEF Init
    <3>2. Counted
      BY MonitorAssumption DEF Init, Counted
    <3> QED
      BY <3>1, <3>2, Zenon DEF TypeOK, Counted
  <2> QED
    BY <2>1, MonitorAssumption DEF Init, TimerInv, PastIsPast, OutageIsRecent,
         RetryIsOwed, NothingIgnored, DelayFollows, OutageIsAnswered
<1> QED
  BY <1>1, TimerStep, PTL DEF Spec

\* The variables of Monitor keep their types (supervisor.py, step).
THEOREM TypeCorrect == Spec => []TypeOK
BY TimerInvariant, PTL DEF TimerInv

\* An attempt is the only step that moves lastStart, and it is due.
LEMMA AttemptIsDue ==
    ASSUME TimerInv, [Next]_vars, AttemptStarts
    PROVE  /\ lastStart' >= clock
           /\ failedSince # NoTime
           /\ lastStart' >= failedSince + FailureSeconds
           /\ lastStart' >= nextAttempt
           /\ owed' = delay
           /\ ~ignored /\ broken' = broken => failedSince >= broken
<1>1. Attempt
  BY DEF Next, vars, AttemptStarts, Unreachable, Deferred, Healthy, Unhealthy,
       Restart, attempt
<1> QED
  BY <1>1, MonitorAssumption
  DEF Attempt, Due, Since, TimerInv, TypeOK, OutageIsRecent

\* No two attempts come closer than the threshold, nor, within one process, than
\* the delay announced by the first (supervisor.py, step).
THEOREM Spacing == Spec => AttemptsAreSpaced
<1>1. TimerInv /\ [Next]_vars =>
        [AttemptStarts =>
            /\ lastStart' >= lastEnd + FailureSeconds
            /\ lastStart' >= lastEnd + owed]_vars
  <2> SUFFICES ASSUME TimerInv, [Next]_vars, AttemptStarts
               PROVE  /\ lastStart' >= lastEnd + FailureSeconds
                      /\ lastStart' >= lastEnd + owed
    OBVIOUS
  <2>1. TimerInv'
    BY TimerStep
  <2> QED
    BY <2>1, AttemptIsDue, MonitorAssumption
    DEF TimerInv, TypeOK, PastIsPast, OutageIsRecent, RetryIsOwed
<1> QED
  BY <1>1, TimerInvariant, PTL DEF Spec, AttemptsAreSpaced

\* An attempt follows a whole grace period and threshold of its process, and a
\* whole threshold without a healthy probe or an unreachable API other than those
\* resolve_pending met while the outage ran.
THEOREM OutageBeforeAttempt == Spec => AttemptNeedsOutage
<1>1. TimerInv /\ [Next]_vars =>
        [AttemptStarts =>
            /\ lastStart' >= started + 2 * FailureSeconds
            /\ ~ignored /\ broken' = broken =>
                  lastStart' >= broken + FailureSeconds]_vars
  <2> SUFFICES ASSUME TimerInv, [Next]_vars, AttemptStarts
               PROVE  /\ lastStart' >= started + 2 * FailureSeconds
                      /\ ~ignored /\ broken' = broken =>
                            lastStart' >= broken + FailureSeconds
    OBVIOUS
  <2>1. TimerInv'
    BY TimerStep
  <2> QED
    BY <2>1, AttemptIsDue, MonitorAssumption DEF TimerInv, TypeOK, OutageIsRecent
<1> QED
  BY <1>1, TimerInvariant, PTL DEF Spec, AttemptNeedsOutage

\* While step keeps probing an unhealthy tunnel, an attempt is at most one
\* interval late.
THEOREM AttemptInTime == Spec => []OutageIsAnswered
<1> QED
  BY TimerInvariant, PTL DEF TimerInv

\* Every announced delay is the configured one or follows from the one before,
\* for every cooldown, below or above the bound.
THEOREM DelayDoubles == Spec => DelayDoublesToOneHour
<1>1. TimerInv /\ [Next]_vars =>
        [AttemptStarts =>
            owed' = IF owed = 0 \/ rested THEN cooldown
                    ELSE Smaller(2 * owed, MaxDelay)]_vars
  BY AttemptIsDue DEF TimerInv, DelayFollows
<1> QED
  BY <1>1, TimerInvariant, PTL DEF Spec, DelayDoublesToOneHour
=============================================================================
