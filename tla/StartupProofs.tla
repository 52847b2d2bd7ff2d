----------------------------- MODULE StartupProofs -----------------------------
(***************************************************************************)
(* Theorems about Startup: for every number of upgrades, kills, removals,  *)
(* storage failures and saves, readiness means that the pair and both      *)
(* scripts are there, no saved pair is registered anew, and Gluetun starts *)
(* on a whole pair.                                                        *)
(***************************************************************************)
EXTENDS Startup, TLAPS

\* The type invariant in four parts, by what changes together.
ProcessType ==
    /\ container \in {"absent", "running", "exited"}
    /\ pc \in Labels
    /\ pc = "none" <=> container # "running"
    /\ op \in {"resume", "generate", "save"}
    /\ reuse \in BOOLEAN

SettingType ==
    /\ image \in 1..MaxImage
    /\ recover \in BOOLEAN
    /\ keepalive \in BOOLEAN
    /\ marker \in BOOLEAN

FileType ==
    /\ prepared \in BOOLEAN
    /\ scripts \in [Scripts -> 0..MaxImage]
    /\ pair \in {"none", "half", "mixed", "valid"}
    /\ journal \in {"none", "incomplete", "complete"}
    /\ saved \in BOOLEAN

WorldType ==
    /\ broken \subseteq Places
    /\ gluetun \in {"absent", "waiting", "up"}
    /\ left \in [{"kill", "break", "save"} -> Nat]

Starting == {"none", "config", "prepare", "clear"}
Installing == {"log", "install", "install hook"}
Publishing == {"retain", "copy", "replace wg0", "replace env", "sweep"}

\* The commit directory is used up before it is made again.
JournalInv ==
    /\ pc \in {"saved", "check", "generate", "mark", "serving", "retain"}
         => journal # "complete"
    /\ pc \in {"replace wg0", "replace env", "sweep"} => journal = "complete"

\* Half a pair never stands alone, and a saved one is not lost.
PairInv ==
    /\ pair \in {"half", "mixed"} => journal = "complete"
    /\ saved => pair = "valid" \/ journal = "complete"
    /\ pc \in {"sweep", "mark", "serving"} => pair = "valid"
    /\ pc \in {"retain", "copy"} /\ op = "save" => pair = "valid"
    /\ pc = "check" => (reuse <=> recover /\ pair = "valid")
    /\ pc = "generate" /\ recover => pair # "valid"

\* Once cleared, the marker is back only when run has reached its end.
MarkerInv ==
    marker /\ pc \notin Starting
        => pc = "serving" \/ (pc \in Publishing /\ op = "save")

\* The scripts this process installed stay until it ends.
ScriptsInv ==
    ~OneShot =>
        /\ pc = "install hook" => scripts["wrapper"] = image
        /\ pc \notin Starting \cup Installing => \A s \in Scripts : scripts[s] = image

IInv == TypeOK /\ JournalInv /\ PairInv /\ MarkerInv /\ ScriptsInv

-----------------------------------------------------------------------------
\* Lemma: The four parts are the type invariant.
LEMMA TypeParts == TypeOK <=> ProcessType /\ SettingType /\ FileType /\ WorldType
  BY DEF TypeOK, ProcessType, SettingType, FileType, WorldType

\* The invariant holds before the first start.
LEMMA InitHolds == Init => IInv
<1> SUFFICES ASSUME Init PROVE IInv
  OBVIOUS
<1>1. ProcessType
  BY DEF Init, ProcessType, Labels
<1>2. SettingType
  <2>1. 1 \in 1..MaxImage
    BY StartupAssumption
  <2> QED
    BY <2>1 DEF Init, SettingType
<1>3. FileType
  <2>1. scripts \in [Scripts -> 0..MaxImage]
    BY StartupAssumption DEF Init
  <2> QED
    BY <2>1 DEF Init, FileType
<1>4. WorldType
  BY StartupAssumption DEF Init, WorldType
<1>5. JournalInv /\ PairInv /\ MarkerInv /\ ScriptsInv
  BY DEF Init, JournalInv, PairInv, MarkerInv, ScriptsInv, Starting
<1> QED
  BY <1>1, <1>2, <1>3, <1>4, <1>5, TypeParts DEF IInv

\* A step of the process, a kill or a restart leaves it at an operation of run,
\* or at none when it does not run.
LEMMA ProcessStep == ASSUME ProcessType, [Next]_vars PROVE ProcessType'
<1> USE DEF ProcessType, Labels, process
<1>1. CASE Configure
  BY <1>1 DEF Configure, Goto, Exit
<1>2. CASE Prepare \/ Clear \/ OpenLog \/ InstallWrapper \/ InstallHook
  BY <1>2 DEF Prepare, Goto, Clear, OpenLog, InstallWrapper, InstallHook
<1>3. CASE Resume
  BY <1>3 DEF Resume, Goto
<1>4. CASE FindSaved
  BY <1>4 DEF FindSaved
<1>5. CASE Check
  BY <1>5 DEF Check, Goto, Exit
<1>6. CASE Generate
  BY <1>6 DEF Generate
<1>7. CASE GenerateFails \/ OneShotEnds \/ Fails
  BY <1>7 DEF GenerateFails, Exit, OneShotEnds, Fails
<1>8. CASE Mark
  BY <1>8 DEF Mark, Goto
<1>9. CASE Retain \/ Copy \/ ReplaceConfig \/ ReplaceMetadata
  BY <1>9 DEF Retain, Goto, Copy, ReplaceConfig, ReplaceMetadata
<1>10. CASE Sweep
  BY <1>10 DEF Sweep, Goto
<1>11. CASE Restart
  BY <1>11 DEF Restart
<1>12. CASE Save
  BY <1>12 DEF Save, Spend
<1>13. CASE Kill
  BY <1>13 DEF Kill, Exit, Spend
<1>14. CASE Remove
  BY <1>14 DEF Remove, Spend
<1>15. CASE Create
  BY <1>15 DEF Create
<1>16. CASE Break \/ Repair \/ GluetunStarts \/ WrapperPasses \/
          GluetunRestarts
  BY <1>16 DEF Break, Spend, Repair, GluetunStarts, WrapperPasses,
      GluetunRestarts
<1>17. CASE UNCHANGED vars
  BY <1>17 DEF vars
<1> QED
  BY <1>1, <1>2, <1>3, <1>4, <1>5, <1>6, <1>7, <1>8, <1>9, <1>10, <1>11,
     <1>12, <1>13, <1>14, <1>15, <1>16, <1>17
  DEF Next, Proceed, Operate

\* The settings change with the container, the marker with clear and mark.
LEMMA SettingStep == ASSUME SettingType, [Next]_vars PROVE SettingType'
<1> USE StartupAssumption DEF SettingType, settings
<1>1. CASE Clear
  BY <1>1 DEF Clear, Goto
<1>2. CASE Mark
  BY <1>2 DEF Mark, Goto
<1>3. CASE Create
  <2>1. image' \in 1..MaxImage
    BY <1>3 DEF Create
  <2> QED
    BY <1>3, <2>1 DEF Create
<1>4. CASE Configure \/ Prepare \/ OpenLog \/ InstallWrapper \/
          InstallHook \/ Resume \/ FindSaved \/ Check \/ Generate \/
          GenerateFails \/ OneShotEnds \/ Retain \/ Copy \/ ReplaceConfig
          \/ ReplaceMetadata \/ Sweep \/ Fails \/ Restart \/ Save \/ Kill
          \/ Remove \/ Break \/ Repair \/ GluetunStarts \/ WrapperPasses
          \/ GluetunRestarts
  BY <1>4 DEF Configure, Goto, Exit, Prepare, OpenLog, InstallWrapper,
      InstallHook, Resume, FindSaved, Check, Generate, GenerateFails,
      OneShotEnds, Retain, Copy, ReplaceConfig, ReplaceMetadata, Sweep,
      Fails, Restart, Save, Spend, Kill, Remove, Break, Repair,
      GluetunStarts, WrapperPasses, GluetunRestarts
<1>5. CASE UNCHANGED vars
  BY <1>5 DEF vars
<1> QED
  BY <1>1, <1>2, <1>3, <1>4, <1>5
  DEF Next, Proceed, Operate

\* An installed script comes from the running image.
LEMMA FileStep == ASSUME FileType, SettingType, [Next]_vars PROVE FileType'
<1> USE StartupAssumption DEF FileType, SettingType, files
<1>1. CASE Prepare
  BY <1>1 DEF Prepare, Goto
<1>2. CASE InstallWrapper
  <2>1. image \in 0..MaxImage
    OBVIOUS
  <2>2. scripts' \in [Scripts -> 0..MaxImage]
    BY <1>2, <2>1 DEF InstallWrapper
  <2> QED
    BY <1>2, <2>2 DEF InstallWrapper
<1>3. CASE InstallHook
  <2>1. image \in 0..MaxImage
    OBVIOUS
  <2>2. scripts' \in [Scripts -> 0..MaxImage]
    BY <1>3, <2>1 DEF InstallHook
  <2> QED
    BY <1>3, <2>2 DEF InstallHook
<1>4. CASE Resume
  BY <1>4 DEF Resume, Goto
<1>5. CASE Retain \/ Copy
  BY <1>5 DEF Retain, Goto, Copy
<1>6. CASE ReplaceConfig
  BY <1>6 DEF ReplaceConfig, Goto
<1>7. CASE ReplaceMetadata
  BY <1>7 DEF ReplaceMetadata, Goto
<1>8. CASE Sweep
  BY <1>8 DEF Sweep, Goto
<1>9. CASE Remove
  <2>1. CASE UNCHANGED files
    BY <2>1
  <2>2. CASE ~(UNCHANGED files)
    <3>1. scripts' \in [Scripts -> 0..MaxImage]
      BY <1>9, <2>2 DEF Remove
    <3> QED
      BY <1>9, <2>2, <3>1 DEF Remove
  <2> QED
    BY <2>1, <2>2
<1>10. CASE Configure \/ Clear \/ OpenLog \/ FindSaved \/ Check \/
          Generate \/ GenerateFails \/ Mark \/ OneShotEnds \/ Fails \/
          Restart \/ Save \/ Kill \/ Create \/ Break \/ Repair \/
          GluetunStarts \/ WrapperPasses \/ GluetunRestarts
  BY <1>10 DEF Configure, Goto, Exit, Clear, OpenLog, FindSaved, Check,
      Generate, GenerateFails, Mark, OneShotEnds, Fails, Restart, Save,
      Spend, Kill, Create, Break, Repair, GluetunStarts, WrapperPasses,
      GluetunRestarts
<1>11. CASE UNCHANGED vars
  BY <1>11 DEF vars
<1> QED
  BY <1>1, <1>2, <1>3, <1>4, <1>5, <1>6, <1>7, <1>8, <1>9, <1>10, <1>11
  DEF Next, Proceed, Operate

\* Storage, Gluetun's container and the budgets.
LEMMA WorldStep == ASSUME WorldType, [Next]_vars PROVE WorldType'
<1> USE DEF WorldType, world
<1>1. CASE Save
  BY <1>1 DEF Save, Spend
<1>2. CASE Kill
  BY <1>2 DEF Kill, Exit, Spend
<1>3. CASE Remove
  BY <1>3 DEF Remove, Spend
<1>4. CASE Break
  BY <1>4 DEF Break, Spend
<1>5. CASE Repair
  BY <1>5 DEF Repair
<1>6. CASE GluetunStarts \/ WrapperPasses \/ GluetunRestarts
  BY <1>6 DEF GluetunStarts, WrapperPasses, GluetunRestarts
<1>7. CASE Configure \/ Prepare \/ Clear \/ OpenLog \/ InstallWrapper \/
          InstallHook \/ Resume \/ FindSaved \/ Check \/ Generate \/
          GenerateFails \/ Mark \/ OneShotEnds \/ Retain \/ Copy \/
          ReplaceConfig \/ ReplaceMetadata \/ Sweep \/ Fails \/ Restart \/
          Create
  BY <1>7 DEF Configure, Goto, Exit, Prepare, Clear, OpenLog,
      InstallWrapper, InstallHook, Resume, FindSaved, Check, Generate,
      GenerateFails, Mark, OneShotEnds, Retain, Copy, ReplaceConfig,
      ReplaceMetadata, Sweep, Fails, Restart, Create
<1>8. CASE UNCHANGED vars
  BY <1>8 DEF vars
<1> QED
  BY <1>1, <1>2, <1>3, <1>4, <1>5, <1>6, <1>7, <1>8
  DEF Next, Proceed, Operate

\* Every step keeps the journal and the pair as the next operation needs them.
LEMMA PairStep ==
    ASSUME ProcessType, JournalInv, PairInv, [Next]_vars
    PROVE  JournalInv' /\ PairInv'
<1> USE DEF ProcessType, Labels, JournalInv, PairInv,
        settings, process, files, world
<1>1. CASE Configure
  BY <1>1 DEF Configure, Goto, Exit
<1>2. CASE Prepare
  BY <1>2 DEF Prepare, Goto
<1>3. CASE Clear
  BY <1>3 DEF Clear, Goto
<1>4. CASE OpenLog
  BY <1>4 DEF OpenLog, Goto
<1>5. CASE InstallWrapper
  BY <1>5 DEF InstallWrapper, Goto
<1>6. CASE InstallHook
  BY <1>6 DEF InstallHook, Goto
<1>7. CASE Resume
  BY <1>7 DEF Resume, Goto
<1>8. CASE FindSaved
  BY <1>8 DEF FindSaved
<1>9. CASE Check
  BY <1>9 DEF Check, Goto, Exit
<1>10. CASE Generate
  BY <1>10 DEF Generate
<1>11. CASE GenerateFails
  BY <1>11 DEF GenerateFails, Exit
<1>12. CASE Mark
  BY <1>12 DEF Mark, Goto
<1>13. CASE OneShotEnds
  BY <1>13 DEF OneShotEnds, Exit
<1>14. CASE Fails
  BY <1>14 DEF Fails, Exit
<1>15. CASE Kill
  BY <1>15 DEF Kill, Exit, Spend
<1>16. CASE Retain
  BY <1>16 DEF Retain, Goto
<1>17. CASE Copy
  BY <1>17 DEF Copy, Goto
<1>18. CASE ReplaceConfig
  BY <1>18 DEF ReplaceConfig, Goto
<1>19. CASE ReplaceMetadata
  BY <1>19 DEF ReplaceMetadata, Goto
<1>20. CASE Sweep
  BY <1>20 DEF Sweep, Goto
<1>21. CASE Restart
  BY <1>21 DEF Restart
<1>22. CASE Save
  BY <1>22 DEF Save, Spend
<1>23. CASE Remove
  <2>1. pc' = "none"
    BY <1>23 DEF Remove
  <2>2. CASE UNCHANGED files
    BY <2>1, <2>2
  <2>3. CASE pair' = "none" /\ saved' = FALSE
    BY <2>1, <2>3
  <2> QED
    BY <1>23, <2>2, <2>3 DEF Remove
<1>24. CASE Create
  BY <1>24 DEF Create
<1>25. CASE Break
  BY <1>25 DEF Break, Spend
<1>26. CASE Repair
  BY <1>26 DEF Repair
<1>27. CASE GluetunStarts
  BY <1>27 DEF GluetunStarts
<1>28. CASE WrapperPasses
  BY <1>28 DEF WrapperPasses
<1>29. CASE GluetunRestarts
  BY <1>29 DEF GluetunRestarts
<1>30. CASE UNCHANGED vars
  BY <1>30 DEF vars
<1> QED
  BY <1>1, <1>2, <1>3, <1>4, <1>5, <1>6, <1>7, <1>8, <1>9, <1>10, <1>11,
     <1>12, <1>13, <1>14, <1>15, <1>16, <1>17, <1>18, <1>19, <1>20, <1>21,
     <1>22, <1>23, <1>24, <1>25, <1>26, <1>27, <1>28, <1>29, <1>30
  DEF Next, Proceed, Operate

\* Every step keeps what the marker and the scripts stand for.
LEMMA ReadyStep ==
    ASSUME ProcessType, FileType, MarkerInv, ScriptsInv, [Next]_vars
    PROVE  MarkerInv' /\ ScriptsInv'
<1> USE DEF ProcessType, FileType, Labels, Scripts, MarkerInv, ScriptsInv, OneShot,
        Starting, Installing, Publishing, settings, process, files, world
<1>1. CASE Configure
  BY <1>1 DEF Configure, Goto, Exit
<1>2. CASE Prepare
  BY <1>2 DEF Prepare, Goto
<1>3. CASE Clear
  BY <1>3 DEF Clear, Goto
<1>4. CASE OpenLog
  BY <1>4 DEF OpenLog, Goto
<1>5. CASE InstallWrapper
  BY <1>5 DEF InstallWrapper, Goto
<1>6. CASE InstallHook
  BY <1>6 DEF InstallHook, Goto
<1>7. CASE Resume
  BY <1>7 DEF Resume, Goto
<1>8. CASE FindSaved
  BY <1>8 DEF FindSaved
<1>9. CASE Check
  BY <1>9 DEF Check, Goto, Exit
<1>10. CASE Generate
  BY <1>10 DEF Generate
<1>11. CASE GenerateFails
  BY <1>11 DEF GenerateFails, Exit
<1>12. CASE Mark
  BY <1>12 DEF Mark, Goto
<1>13. CASE OneShotEnds
  BY <1>13 DEF OneShotEnds, Exit
<1>14. CASE Fails
  BY <1>14 DEF Fails, Exit
<1>15. CASE Kill
  BY <1>15 DEF Kill, Exit, Spend
<1>16. CASE Retain
  BY <1>16 DEF Retain, Goto
<1>17. CASE Copy
  BY <1>17 DEF Copy, Goto
<1>18. CASE ReplaceConfig
  BY <1>18 DEF ReplaceConfig, Goto
<1>19. CASE ReplaceMetadata
  BY <1>19 DEF ReplaceMetadata, Goto
<1>20. CASE Sweep
  BY <1>20 DEF Sweep, Goto
<1>21. CASE Restart
  BY <1>21 DEF Restart
<1>22. CASE Save
  BY <1>22 DEF Save, Spend
<1>23. CASE Remove
  BY <1>23 DEF Remove, Spend
<1>24. CASE Create
  BY <1>24 DEF Create
<1>25. CASE Break
  BY <1>25 DEF Break, Spend
<1>26. CASE Repair
  BY <1>26 DEF Repair
<1>27. CASE GluetunStarts
  BY <1>27 DEF GluetunStarts
<1>28. CASE WrapperPasses
  BY <1>28 DEF WrapperPasses
<1>29. CASE GluetunRestarts
  BY <1>29 DEF GluetunRestarts
<1>30. CASE UNCHANGED vars
  BY <1>30 DEF vars
<1> QED
  BY <1>1, <1>2, <1>3, <1>4, <1>5, <1>6, <1>7, <1>8, <1>9, <1>10, <1>11,
     <1>12, <1>13, <1>14, <1>15, <1>16, <1>17, <1>18, <1>19, <1>20, <1>21,
     <1>22, <1>23, <1>24, <1>25, <1>26, <1>27, <1>28, <1>29, <1>30
  DEF Next, Proceed, Operate

\* The parts together are inductive.
LEMMA InductiveInvariant == Spec => []IInv
<1>1. IInv /\ [Next]_vars => IInv'
  <2> SUFFICES ASSUME IInv, [Next]_vars PROVE IInv'
    OBVIOUS
  <2>1. ProcessType /\ SettingType /\ FileType /\ WorldType
    BY TypeParts DEF IInv
  <2>2. TypeOK'
    BY <2>1, ProcessStep, SettingStep, FileStep, WorldStep
    DEF TypeOK, ProcessType, SettingType, FileType, WorldType
  <2> QED
    BY <2>1, <2>2, PairStep, ReadyStep DEF IInv
<1> QED
  BY InitHolds, <1>1, PTL DEF Spec

-----------------------------------------------------------------------------
\* The variables of Startup keep their types.
THEOREM TypeCorrect == Spec => []TypeOK
<1>1. IInv => TypeOK
  BY DEF IInv
<1> QED
  BY InductiveInvariant, <1>1, PTL

\* A health check that passes after main cleared an older marker finds the pair
\* and both scripts prepared (supervisor.py, run and main).
THEOREM ReadyIsPrepared == Spec => []HealthyIsPrepared
<1>1. IInv => HealthyIsPrepared
  BY DEF IInv, TypeOK, Labels, JournalInv, PairInv, MarkerInv, ScriptsInv,
         Starting, Installing, Publishing, HealthyIsPrepared, HealthcheckPasses
<1> QED
  BY InductiveInvariant, <1>1, PTL

\* With recovery enabled a saved pair is never registered anew
\* (supervisor.py, run; settings.py, resume).
THEOREM SavedIsNotRegistered == Spec => []SavedIsReused
<1>1. IInv => SavedIsReused
  BY DEF IInv, JournalInv, PairInv, SavedIsReused
<1> QED
  BY InductiveInvariant, <1>1, PTL

\* Gluetun never starts on half a pair (gluetun-entrypoint-wrapper.sh).
THEOREM WholePair == Spec => GluetunStartsOnValidPair
<1>1. IInv /\ [Next]_vars
        => [gluetun = "waiting" /\ gluetun' = "up" => pair = "valid"]_vars
  <2> SUFFICES ASSUME IInv, [Next]_vars, gluetun = "waiting", gluetun' = "up"
               PROVE  pair = "valid"
    OBVIOUS
  <2>1. CASE WrapperPasses
    BY <2>1 DEF WrapperPasses, IInv, PairInv
  <2>2. CASE Configure \/ Prepare \/ Clear \/ OpenLog \/ InstallWrapper \/
            InstallHook \/ Resume \/ FindSaved \/ Check \/ Generate \/
            GenerateFails \/ Mark \/ OneShotEnds \/ Retain \/ Copy \/
            ReplaceConfig \/ ReplaceMetadata \/ Sweep \/ Fails \/ Restart \/
            Save \/ Kill \/ Remove \/ Create \/ Break \/ Repair \/
            GluetunStarts \/ GluetunRestarts
    BY <2>2 DEF Configure, Goto, Exit, Prepare, Clear, OpenLog,
        InstallWrapper, InstallHook, Resume, FindSaved, Check, Generate,
        GenerateFails, Mark, OneShotEnds, Retain, Copy, ReplaceConfig,
        ReplaceMetadata, Sweep, Fails, Restart, Save, Spend, Kill, Remove,
        Create, Break, Repair, GluetunStarts, GluetunRestarts, world
  <2>3. CASE UNCHANGED vars
    BY <2>3 DEF vars
  <2> QED
    BY <2>1, <2>2, <2>3 DEF Next, Proceed, Operate
<1> QED
  BY InductiveInvariant, <1>1, PTL DEF Spec, GluetunStartsOnValidPair
=============================================================================
