--------------------------- MODULE GenerationProofs ---------------------------
(***************************************************************************)
(* Theorems about Generation: for every timeout, grace period and number   *)
(* of attempts, shutdowns and crashes, scripts never overlap, a            *)
(* registration uses the token of its own attempt, and an attempt lasts no *)
(* longer than its timeout and the larger of one grace period and the      *)
(* catalog request's overrun.                                              *)
(***************************************************************************)
EXTENDS Generation, TLAPS

\* An attempt is under way; without it a process would have no attempt to name.
ActiveInv == pc \notin Resting => attempt # 0

\* Shutdown is not pending where generate goes on after a script.
OwnInv ==
    /\ OneInvocationAtATime
    /\ pc \in {"start", "idle", "rest", "launch", "read token", "metadata", "catalog",
               "ready"} => outcome # "shutdown"

\* From the exit of get_token to the use of its token.
TokenInv ==
    /\ TokenIsOwn
    /\ script = "get_token" =>
         /\ pc \in {"launched", "reading", "waiting"} /\ status = "zero" => token = attempt
         /\ pc \in {"term", "grace", "kill", "collect", "reap"} /\ outcome = "ok"
              => token = attempt
    /\ pc = "read token" => token = attempt
    /\ pc = "unlink token" /\ outcome = "ok" => held = attempt

\* Only the grace period of an attempt that failed, and the catalog request,
\* lie behind the deadline.
DeadlineInv ==
    /\ DeadlineIsShared
    /\ until <= Timeout
    /\ pc \in {"launch", "launched", "reading", "waiting", "term", "read token",
               "unlink token", "metadata"} => elapsed <= Timeout
    /\ pc = "grace" => graceEnd <= Timeout + Grace
    /\ pc \in {"grace", "kill", "collect", "reap"} /\ outcome = "ok" => elapsed <= Timeout
    /\ pc \in {"term", "grace"} /\ outcome = "ok" => collected
    /\ pc \in {"metadata", "catalog"} => script # "get_token"

IInv == TypeOK /\ ActiveInv /\ OwnInv /\ TokenInv /\ DeadlineInv

-----------------------------------------------------------------------------
\* The current group is made of processes, as long as an attempt is under way.
LEMMA GroupTyped ==
    ASSUME TypeOK, attempt # 0
    PROVE  Group \subseteq Process /\ Child \in Group /\ Of("helper") \in Group
  BY GenerationAssumption DEF TypeOK, Group, Child, Of, Process, Attempts

\* A member of the group carries the current attempt and script.
LEMMA GroupMember ==
    ASSUME NEW p \in Group
    PROVE  p.attempt = attempt /\ p.script = script
<1>1. CASE p = Of("child")
  BY <1>1 DEF Of
<1>2. CASE p = Of("helper")
  BY <1>2 DEF Of
<1> QED
  BY <1>1, <1>2 DEF Group

\* A tick before the deadline does not pass it.
LEMMA OneMore ==
    ASSUME TypeOK, elapsed < until, until <= Timeout
    PROVE  elapsed + 1 <= Timeout /\ elapsed + 1 <= Timeout + Grace
  BY GenerationAssumption DEF TypeOK

\* The invariant holds when the supervisor starts.
LEMMA InitHolds == Init => IInv
<1> SUFFICES ASSUME Init PROVE IInv
  OBVIOUS
<1>1. TypeOK
  <2>1. mode \in Modes /\ monitoring \in BOOLEAN /\ collected \in BOOLEAN
    BY Zenon DEF Init
  <2>2. attempt \in 0..MaxAttempts /\ exits \in 0..MaxExits
    BY GenerationAssumption DEF Init
  <2>3. elapsed \in Nat /\ until \in Nat /\ graceEnd \in Nat
    BY DEF Init
  <2> QED
    BY <2>1, <2>2, <2>3, Zenon DEF Init, TypeOK, Labels, Resting, Scripts
<1>2. ActiveInv /\ OwnInv /\ TokenInv
  BY DEF Init, ActiveInv, Resting, OwnInv, OneInvocationAtATime, TokenInv, TokenIsOwn
<1>3. DeadlineInv
  BY GenerationAssumption DEF Init, DeadlineInv, DeadlineIsShared
<1> QED
  BY <1>1, <1>2, <1>3 DEF IInv

\* Every step keeps the types, and an attempt under way has a number.
LEMMA TypeStep == ASSUME IInv, [Next]_vars PROVE TypeOK' /\ ActiveInv'
<1> USE GenerationAssumption DEF IInv, TypeOK, ActiveInv,
        running, attempting, time, processes
<1>1. CASE Reuse
  BY <1>1 DEF Reuse, Labels, Resting
<1>2. CASE Step
  BY <1>2 DEF Step
<1>3. CASE Setup
  BY <1>3 DEF Setup, Begin, Labels, Resting, Scripts, Attempts
<1>4. CASE Recover
  BY <1>4 DEF Recover, Begin, Labels, Resting, Scripts, Attempts
<1>5. CASE ReadToken
  BY <1>5 DEF ReadToken, Labels, Resting, Attempts
<1>6. CASE UnlinkToken
  BY <1>6 DEF UnlinkToken, Labels, Resting, Scripts
<1>7. CASE RequestCatalog
  BY <1>7 DEF RequestCatalog, Goto, Labels, Resting
<1>8. CASE WriteMetadata
  BY <1>8 DEF WriteMetadata, Goto, Labels, Resting
<1>9. CASE MetadataFails
  BY <1>9 DEF MetadataFails, Fails, Goto, Labels, Resting
<1>10. CASE MetadataLate
  BY <1>10 DEF MetadataLate, Fails, Goto, Labels, Resting
<1>11. CASE Used
  BY <1>11 DEF Used, Goto, Labels, Resting
<1>12. CASE Unstage
  BY <1>12 DEF Unstage, Labels, Resting
<1>13. CASE StartupEnds
  BY <1>13 DEF StartupEnds, Labels, Resting
<1>14. CASE ProcessEnds
  BY <1>14 DEF ProcessEnds, ContainerEnds, Labels, Resting
<1>15. CASE Launch
  BY <1>15, GroupTyped DEF Launch, Goto, Labels, Resting, Attempts
<1>16. CASE LaunchFails
  BY <1>16 DEF LaunchFails, Fails, Goto, Labels, Resting
<1>17. CASE EnterTry
  BY <1>17 DEF EnterTry, Goto, Labels, Resting
<1>18. CASE EndOfOutput
  BY <1>18 DEF EndOfOutput, Goto, Labels, Resting
<1>19. CASE OutputFails
  BY <1>19 DEF OutputFails, Goto, Labels, Resting
<1>20. CASE Exited
  BY <1>20 DEF Exited, Goto, Labels, Resting
<1>21. CASE DeadlinePasses
  BY <1>21 DEF DeadlinePasses, Goto, Labels, Resting
<1>22. CASE Terminate
  BY <1>22 DEF Terminate, Goto, Labels, Resting
<1>23. CASE GraceEnds
  BY <1>23 DEF GraceEnds, Goto, Labels, Resting
<1>24. CASE KillGroup
  BY <1>24 DEF KillGroup, Goto, Labels, Resting
<1>25. CASE Collect
  BY <1>25 DEF Collect, Goto, Labels, Resting
<1>26. CASE Reap
  BY <1>26 DEF Reap, Goto, Labels, Resting
<1>27. CASE ShutdownEnds
  BY <1>27 DEF ShutdownEnds, ContainerEnds, Labels, Resting
<1>28. CASE Restart
  BY <1>28 DEF Restart, Labels, Resting
<1>29. CASE StartsHelper
  <2>1. Of("helper") \in Process
    BY <1>29, GroupTyped DEF StartsHelper, Child, Of, Process, Attempts
  <2> QED
    BY <1>29, <2>1 DEF StartsHelper, Upstream
<1>30. CASE WritesToken
  BY <1>30 DEF WritesToken, Upstream, Process, Attempts
<1>31. CASE ChildExits
  BY <1>31 DEF ChildExits, Upstream
<1>32. CASE HelperExits
  BY <1>32 DEF HelperExits, Upstream
<1>33. CASE Dies
  BY <1>33 DEF Dies, Upstream
<1>34. CASE Tick
  BY <1>34 DEF Tick
<1>35. CASE Shutdown
  <2>1. exits' \in 0..MaxExits
    BY <1>35 DEF Shutdown, Spend
  <2>2. live' \subseteq Process
    BY <1>35, GroupTyped DEF Shutdown
  <2>3. pc' \in Labels \ Resting /\ pc \notin Resting
    BY <1>35 DEF Shutdown, Unwind, Labels, Resting
  <2> QED
    BY <1>35, <2>1, <2>2, <2>3 DEF Shutdown
<1>36. CASE Crash
  <2>1. exits' \in 0..MaxExits
    BY <1>36 DEF Crash, Spend
  <2> QED
    BY <1>36, <2>1 DEF Crash, ContainerEnds, Labels, Resting
<1>37. CASE UNCHANGED vars
  BY <1>37 DEF vars
<1> QED
  BY <1>1, <1>2, <1>3, <1>4, <1>5, <1>6, <1>7, <1>8, <1>9, <1>10, <1>11,
     <1>12, <1>13, <1>14, <1>15, <1>16, <1>17, <1>18, <1>19, <1>20, <1>21, <1>22,
     <1>23, <1>24, <1>25, <1>26, <1>27, <1>28, <1>29, <1>30, <1>31, <1>32, <1>33,
     <1>34, <1>35, <1>36, <1>37
  DEF Next, Supervise, Outside

\* Every step keeps the ownership of processes (run_script, stop_group).
LEMMA OwnStep == ASSUME IInv, [Next]_vars PROVE OwnInv'
<1> USE GenerationAssumption DEF IInv, TypeOK, OwnInv, OneInvocationAtATime, Running, Group, Child, Of, attempting, processes
<1>1. CASE Reuse
  BY <1>1 DEF Reuse
<1>2. CASE Step
  BY <1>2 DEF Step
<1>3. CASE Setup
  BY <1>3 DEF Setup, Begin
<1>4. CASE Recover
  BY <1>4 DEF Recover, Begin
<1>5. CASE ReadToken
  BY <1>5 DEF ReadToken
<1>6. CASE UnlinkToken
  BY <1>6 DEF UnlinkToken
<1>7. CASE RequestCatalog
  BY <1>7 DEF RequestCatalog, Goto
<1>8. CASE WriteMetadata
  BY <1>8 DEF WriteMetadata, Goto
<1>9. CASE MetadataFails
  BY <1>9 DEF MetadataFails, Fails, Goto
<1>10. CASE MetadataLate
  BY <1>10 DEF MetadataLate, Fails, Goto
<1>11. CASE Used
  BY <1>11 DEF Used, Goto
<1>12. CASE Unstage
  BY <1>12 DEF Unstage
<1>13. CASE StartupEnds
  BY <1>13 DEF StartupEnds
<1>14. CASE ProcessEnds
  BY <1>14 DEF ProcessEnds, ContainerEnds
<1>15. CASE Launch
  BY <1>15 DEF Launch, Goto
<1>16. CASE LaunchFails
  BY <1>16 DEF LaunchFails, Fails, Goto
<1>17. CASE EnterTry
  BY <1>17 DEF EnterTry, Goto
<1>18. CASE EndOfOutput
  BY <1>18 DEF EndOfOutput, Goto
<1>19. CASE OutputFails
  BY <1>19 DEF OutputFails, Goto
<1>20. CASE Exited
  BY <1>20 DEF Exited, Goto
<1>21. CASE DeadlinePasses
  BY <1>21 DEF DeadlinePasses, Goto
<1>22. CASE Terminate
  BY <1>22 DEF Terminate, Goto
<1>23. CASE GraceEnds
  BY <1>23 DEF GraceEnds, Goto
<1>24. CASE KillGroup
  BY <1>24 DEF KillGroup, Goto
<1>25. CASE Collect
  BY <1>25 DEF Collect, Goto
<1>26. CASE Reap
  BY <1>26 DEF Reap, Goto
<1>27. CASE ShutdownEnds
  BY <1>27 DEF ShutdownEnds, ContainerEnds
<1>28. CASE Restart
  BY <1>28 DEF Restart
<1>29. CASE StartsHelper
  BY <1>29 DEF StartsHelper, Upstream
<1>30. CASE WritesToken
  BY <1>30 DEF WritesToken, Upstream, Process
<1>31. CASE ChildExits
  BY <1>31 DEF ChildExits, Upstream
<1>32. CASE HelperExits
  BY <1>32 DEF HelperExits, Upstream
<1>33. CASE Dies
  BY <1>33 DEF Dies, Upstream
<1>34. CASE Tick
  BY <1>34 DEF Tick
<1>35. CASE Shutdown
  BY <1>35 DEF Shutdown, Spend, Unwind
<1>36. CASE Crash
  BY <1>36 DEF Crash, Spend, ContainerEnds
<1>37. CASE UNCHANGED vars
  BY <1>37 DEF vars
<1> QED
  BY <1>1, <1>2, <1>3, <1>4, <1>5, <1>6, <1>7, <1>8, <1>9, <1>10, <1>11,
     <1>12, <1>13, <1>14, <1>15, <1>16, <1>17, <1>18, <1>19, <1>20, <1>21, <1>22,
     <1>23, <1>24, <1>25, <1>26, <1>27, <1>28, <1>29, <1>30, <1>31, <1>32, <1>33,
     <1>34, <1>35, <1>36, <1>37
  DEF Next, Supervise, Outside

\* Every step keeps the ownership of the token (generate).
LEMMA TokenStep == ASSUME IInv, [Next]_vars PROVE TokenInv'
<1> USE GenerationAssumption DEF IInv, TypeOK, OwnInv, OneInvocationAtATime, TokenInv, TokenIsOwn, Group, Child, Of, attempting, processes
<1>1. CASE Reuse
  BY <1>1 DEF Reuse
<1>2. CASE Step
  BY <1>2 DEF Step
<1>3. CASE Setup
  BY <1>3 DEF Setup, Begin, Attempts
<1>4. CASE Recover
  BY <1>4 DEF Recover, Begin, Attempts
<1>5. CASE ReadToken
  BY <1>5 DEF ReadToken
<1>6. CASE UnlinkToken
  BY <1>6 DEF UnlinkToken
<1>7. CASE RequestCatalog
  BY <1>7 DEF RequestCatalog, Goto
<1>8. CASE WriteMetadata
  BY <1>8 DEF WriteMetadata, Goto
<1>9. CASE MetadataFails
  BY <1>9 DEF MetadataFails, Fails, Goto
<1>10. CASE MetadataLate
  BY <1>10 DEF MetadataLate, Fails, Goto
<1>11. CASE Used
  BY <1>11 DEF Used, Goto
<1>12. CASE Unstage
  BY <1>12 DEF Unstage
<1>13. CASE StartupEnds
  BY <1>13 DEF StartupEnds
<1>14. CASE ProcessEnds
  BY <1>14 DEF ProcessEnds, ContainerEnds
<1>15. CASE Launch
  BY <1>15 DEF Launch, Goto
<1>16. CASE LaunchFails
  BY <1>16 DEF LaunchFails, Fails, Goto
<1>17. CASE EnterTry
  BY <1>17 DEF EnterTry, Goto
<1>18. CASE EndOfOutput
  BY <1>18 DEF EndOfOutput, Goto
<1>19. CASE OutputFails
  BY <1>19 DEF OutputFails, Goto
<1>20. CASE Exited
  BY <1>20 DEF Exited, Goto
<1>21. CASE DeadlinePasses
  BY <1>21 DEF DeadlinePasses, Goto
<1>22. CASE Terminate
  BY <1>22 DEF Terminate, Goto
<1>23. CASE GraceEnds
  BY <1>23 DEF GraceEnds, Goto
<1>24. CASE KillGroup
  BY <1>24 DEF KillGroup, Goto
<1>25. CASE Collect
  BY <1>25 DEF Collect, Goto
<1>26. CASE Reap
  BY <1>26 DEF Reap, Goto
<1>27. CASE ShutdownEnds
  BY <1>27 DEF ShutdownEnds, ContainerEnds
<1>28. CASE Restart
  BY <1>28 DEF Restart
<1>29. CASE StartsHelper
  BY <1>29 DEF StartsHelper, Upstream
<1>30. CASE WritesToken
  <2>1. PICK p \in live : p.script = "get_token" /\ token' = p.attempt
    BY <1>30 DEF WritesToken
  <2>2. p.script = script /\ p.attempt = attempt
    <3>1. p \in Group
      BY <2>1
    <3> QED
      BY <3>1, GroupMember
  <2>3. script = "get_token" /\ token' = attempt
    BY <2>1, <2>2
  <2>4. UNCHANGED <<pc, attempt, script, held, outcome, status>>
    BY <1>30 DEF WritesToken, Upstream
  <2>5. pc # "unlink token"
    BY <2>1 DEF Running
  <2> QED
    BY <2>3, <2>4, <2>5
<1>31. CASE ChildExits
  BY <1>31 DEF ChildExits, Upstream
<1>32. CASE HelperExits
  BY <1>32 DEF HelperExits, Upstream
<1>33. CASE Dies
  BY <1>33 DEF Dies, Upstream
<1>34. CASE Tick
  BY <1>34 DEF Tick
<1>35. CASE Shutdown
  BY <1>35 DEF Shutdown, Spend, Unwind
<1>36. CASE Crash
  BY <1>36 DEF Crash, Spend, ContainerEnds
<1>37. CASE UNCHANGED vars
  BY <1>37 DEF vars
<1> QED
  BY <1>1, <1>2, <1>3, <1>4, <1>5, <1>6, <1>7, <1>8, <1>9, <1>10, <1>11,
     <1>12, <1>13, <1>14, <1>15, <1>16, <1>17, <1>18, <1>19, <1>20, <1>21, <1>22,
     <1>23, <1>24, <1>25, <1>26, <1>27, <1>28, <1>29, <1>30, <1>31, <1>32, <1>33,
     <1>34, <1>35, <1>36, <1>37
  DEF Next, Supervise, Outside

\* Every step keeps the shared deadline (remaining, stop_group).
LEMMA DeadlineStep == ASSUME IInv, [Next]_vars PROVE DeadlineInv'
<1> USE GenerationAssumption DEF IInv, TypeOK, DeadlineInv, DeadlineIsShared, attempting, time
<1>1. CASE Reuse
  BY <1>1 DEF Reuse
<1>2. CASE Step
  BY <1>2 DEF Step
<1>3. CASE Setup
  BY <1>3 DEF Setup, Begin
<1>4. CASE Recover
  BY <1>4 DEF Recover, Begin
<1>5. CASE ReadToken
  BY <1>5 DEF ReadToken
<1>6. CASE UnlinkToken
  BY <1>6 DEF UnlinkToken
<1>7. CASE RequestCatalog
  BY <1>7 DEF RequestCatalog, Goto
<1>8. CASE WriteMetadata
  BY <1>8 DEF WriteMetadata, Goto
<1>9. CASE MetadataFails
  BY <1>9 DEF MetadataFails, Fails, Goto
<1>10. CASE MetadataLate
  BY <1>10 DEF MetadataLate, Fails, Goto
<1>11. CASE Used
  BY <1>11 DEF Used, Goto
<1>12. CASE Unstage
  BY <1>12 DEF Unstage
<1>13. CASE StartupEnds
  BY <1>13 DEF StartupEnds
<1>14. CASE ProcessEnds
  BY <1>14 DEF ProcessEnds, ContainerEnds
<1>15. CASE Launch
  BY <1>15 DEF Launch, Goto
<1>16. CASE LaunchFails
  BY <1>16 DEF LaunchFails, Fails, Goto
<1>17. CASE EnterTry
  BY <1>17 DEF EnterTry, Goto
<1>18. CASE EndOfOutput
  BY <1>18 DEF EndOfOutput, Goto
<1>19. CASE OutputFails
  BY <1>19 DEF OutputFails, Goto
<1>20. CASE Exited
  BY <1>20 DEF Exited, Goto
<1>21. CASE DeadlinePasses
  BY <1>21 DEF DeadlinePasses, Goto
<1>22. CASE Terminate
  BY <1>22 DEF Terminate, Goto
<1>23. CASE GraceEnds
  BY <1>23 DEF GraceEnds, Goto
<1>24. CASE KillGroup
  BY <1>24 DEF KillGroup, Goto
<1>25. CASE Collect
  BY <1>25 DEF Collect, Goto
<1>26. CASE Reap
  BY <1>26 DEF Reap, Goto
<1>27. CASE ShutdownEnds
  BY <1>27 DEF ShutdownEnds, ContainerEnds
<1>28. CASE Restart
  BY <1>28 DEF Restart
<1>29. CASE StartsHelper
  BY <1>29 DEF StartsHelper, Upstream
<1>30. CASE WritesToken
  BY <1>30 DEF WritesToken, Upstream, Process
<1>31. CASE ChildExits
  BY <1>31 DEF ChildExits, Upstream
<1>32. CASE HelperExits
  BY <1>32 DEF HelperExits, Upstream
<1>33. CASE Dies
  BY <1>33 DEF Dies, Upstream
<1>34. CASE Tick
  <2>1. UNCHANGED <<pc, outcome, until, graceEnd, collected>> /\ elapsed' = elapsed + 1
    BY <1>34 DEF Tick
  <2>2. CASE pc \in {"reading", "waiting"} /\ elapsed < until
    <3>1. elapsed + 1 <= Timeout /\ elapsed + 1 <= Timeout + Grace
      BY <2>2, OneMore
    <3> QED
      BY <2>1, <2>2, <3>1
  <2>3. CASE pc = "grace" /\ ~collected /\ elapsed < graceEnd
    <3>1. outcome # "ok"
      BY <2>3
    <3> QED
      BY <2>1, <2>3, <3>1
  <2>4. CASE pc = "catalog" /\ elapsed < until + Overrun
    <3>1. elapsed + 1 <= Timeout + Overrun
      BY <2>4
    <3>2. script' # "get_token"
      BY <1>34, <2>4 DEF Tick
    <3> QED
      BY <2>1, <2>4, <3>1, <3>2
  <2> QED
    BY <1>34, <2>2, <2>3, <2>4 DEF Tick
<1>35. CASE Shutdown
  BY <1>35 DEF Shutdown, Spend, Unwind
<1>36. CASE Crash
  BY <1>36 DEF Crash, Spend, ContainerEnds
<1>37. CASE UNCHANGED vars
  BY <1>37 DEF vars
<1> QED
  BY <1>1, <1>2, <1>3, <1>4, <1>5, <1>6, <1>7, <1>8, <1>9, <1>10, <1>11,
     <1>12, <1>13, <1>14, <1>15, <1>16, <1>17, <1>18, <1>19, <1>20, <1>21, <1>22,
     <1>23, <1>24, <1>25, <1>26, <1>27, <1>28, <1>29, <1>30, <1>31, <1>32, <1>33,
     <1>34, <1>35, <1>36, <1>37
  DEF Next, Supervise, Outside

\* The four parts together are inductive.
LEMMA InductiveInvariant == Spec => []IInv
<1>1. IInv /\ [Next]_vars => IInv'
  <2> SUFFICES ASSUME IInv, [Next]_vars PROVE IInv'
    OBVIOUS
  <2> QED
    BY TypeStep, OwnStep, TokenStep, DeadlineStep DEF IInv
<1> QED
  BY InitHolds, <1>1, PTL DEF Spec

-----------------------------------------------------------------------------
\* The variables of Generation keep their types.
THEOREM TypeCorrect == Spec => []TypeOK
<1>1. IInv => TypeOK
  BY DEF IInv
<1> QED
  BY InductiveInvariant, <1>1, PTL

\* No upstream process outlives its invocation, Shutdown within a `finally`
\* excepted (generation.py, run_script and stop_group).
THEOREM ScriptsNeverOverlap == Spec => []OneInvocationAtATime
<1>1. IInv => OneInvocationAtATime
  BY DEF IInv, OwnInv
<1> QED
  BY InductiveInvariant, <1>1, PTL

\* A registration uses the token its own attempt fetched, and no token file is
\* left when it starts (generation.py, generate).
THEOREM TokenOfItsAttempt == Spec => []TokenIsOwn
<1>1. IInv => TokenIsOwn
  BY DEF IInv, TokenInv
<1> QED
  BY InductiveInvariant, <1>1, PTL

\* The scripts of an attempt and their cleanup end within its timeout and one
\* grace period, only the catalog request may last longer, and no candidate is
\* used after the deadline (generation.py, remaining, stop_group, write_metadata).
THEOREM AttemptIsBounded == Spec => []DeadlineIsShared
<1>1. IInv => DeadlineIsShared
  BY DEF IInv, DeadlineInv
<1> QED
  BY InductiveInvariant, <1>1, PTL
=============================================================================
