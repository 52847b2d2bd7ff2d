----------------------------- MODULE StackProofs -----------------------------
(***************************************************************************)
(* Theorems about the processes of Stack together, for any number of       *)
(* registrations and any budget of faults: what is saved was read back,    *)
(* nothing is registered over an unread candidate, and Gluetun begins on a *)
(* matching pair while there are complete copies to repair a mixed one.    *)
(***************************************************************************)
EXTENDS Stack, TLAPS

\* Where an operation uses a directory or a candidate, it is a version; so is
\* what Gluetun runs.
HoldsVersion ==
    /\ pc \in {"replace_wg0", "replace_env", "sweep"} => journal \in Versions
    /\ pc \in {"readback", "confirm", "commit"} => pending \in Versions
    /\ pc \in {"recheck", "reprobe", "retain", "put"} => candidate \in Versions
    /\ gluetun = "up" => active \in Versions

StackInv == TypeOK /\ HoldsVersion

\* What is on its way into the files has been read back.
ReadBack ==
    /\ journal \in Versions => journal \in ran
    /\ pc \in {"confirm", "commit"} => pending \in ran

\* From the comparison to the end of its step a pending candidate is read; a
\* publication that startup resumes comes before any step.
Compared ==
    /\ pc \in {"down", "boot"} => startup
    /\ pending \in Versions /\ unread =>
        /\ pc \in {"replace_wg0", "replace_env", "sweep"} => startup
        /\ pc \notin {"confirm", "commit", "discard", "reject", "probe", "settings",
                      "generate", "recheck", "reprobe", "retain"}

\* What a publication has done so far; no storage error undoes it.
SavedSoFar ==
    /\ pc \in {"replace_env", "sweep"} => wg0 = journal
    /\ pc = "sweep" => env = journal

\* The complete copies of a mixed pair are in the commit directory, or gone.
MixedInJournal == wg0 # env => journal \in Versions \/ torn

-----------------------------------------------------------------------------
(***************************************************************************)
(* Wrapper, container, tunnel and operator: they change neither the        *)
(* supervisor nor the files.                                               *)
(***************************************************************************)
Outside ==
    \/ Wrapper \/ Reload \/ ApplyLate \/ TunnelFails \/ TunnelReturns
    \/ OperatorStops \/ OperatorStarts

\* Lemma: the supervisor and the files are the same after a step of the outside.
LEMMA OutsideLeavesFiles ==
    Outside => UNCHANGED <<supervisor, files, history>>
BY DEF Outside, Wrapper, ContainerStarts, WrapperPasses, WrapperTimesOut,
        SourceMetadata, ReadConfig, Reload, ApplyLate, TunnelFails,
        TunnelReturns, OperatorStops, OperatorStarts, Container, history

\* Lemma: a fault that is used up stays used up.
LEMMA OutsideSpends ==
    ASSUME TypeOK, Outside, NEW fault \in Faults, left[fault] = 0
    PROVE  left'[fault] = 0
BY DEF Outside, Wrapper, ContainerStarts, WrapperPasses, WrapperTimesOut,
        SourceMetadata, ReadConfig, Reload, ApplyLate, TunnelFails,
        TunnelReturns, OperatorStops, OperatorStarts, Container, Spend, world,
        TypeOK

\* Lemma: spending a fault leaves a budget.
LEMMA SpendType ==
    ASSUME TypeOK, NEW fault \in Faults, Spend(fault)
    PROVE  left' \in [Faults -> Nat]
BY DEF TypeOK, Spend

\* Lemma: a save that is interrupted leaves directories the next start knows.
LEMMA InterruptedType ==
    ASSUME TypeOK, Interrupted
    PROVE  journal' \in Directory /\ pending' \in Directory
BY DEF TypeOK, Interrupted, InterruptedJournal, InterruptedPending, Removing, Replacing,
       Directory

\* Lemma: an interruption takes complete copies away, and brings none.
LEMMA InterruptedSave ==
    ASSUME Interrupted
    PROVE  /\ UNCHANGED <<wg0, env>>
           /\ \/ journal' = journal
              \/ pc \in {"commit", "sweep"} /\ journal' \notin Versions
           /\ \/ pending' = pending
              \/ pc \in {"retain", "discard", "reject"} /\ pending' \notin Versions
           /\ wg0 # env /\ journal' \notin Versions => torn'
           /\ torn => torn'
           /\ torn' \in BOOLEAN
<1> USE StackAssumption DEF Interrupted
<1>1. \/ journal' = journal
      \/ pc \in {"commit", "sweep"} /\ journal' \notin Versions
  BY DEF InterruptedJournal, Removing, Replacing
<1>2. \/ pending' = pending
      \/ pc \in {"retain", "discard", "reject"} /\ pending' \notin Versions
  BY DEF InterruptedPending, Removing, Replacing
<1>3. /\ wg0 # env /\ journal' \notin Versions => torn'
      /\ torn => torn'
      /\ torn' \in BOOLEAN
  BY Zenon
<1> QED
  BY <1>1, <1>2, <1>3

\* Lemma: every step keeps the types, and a version where one is used.
LEMMA TypeStep == StackInv /\ [Next]_vars => StackInv'
<1> SUFFICES ASSUME StackInv, [Next]_vars PROVE StackInv'
  OBVIOUS
<1>0. /\ Versions \subseteq Directory /\ {None, Incomplete, Broken} \subseteq Directory
      /\ \A held \in Directory \ Versions : held \in {None, Incomplete, Broken}
      /\ None \notin Versions /\ Incomplete \notin Versions /\ Broken \notin Versions
  BY StackAssumption DEF Directory
<1> USE <1>0 DEF StackInv, TypeOK, HoldsVersion, Labels, Answers,
      supervisor, files, container, history, world
<1>1. CASE Restart
  BY <1>1 DEF Restart, Goto
<1>2. CASE Boot
  <2>1. CASE journal \in Versions
    BY <1>2, <2>1 DEF Boot, Goto
  <2>2. CASE journal \notin Versions
    <3>1. pc' = "status" /\ startup' = FALSE /\ journal' = None /\ candidate' = candidate
      BY <1>2, <2>2 DEF Boot
    <3>2. UNCHANGED <<wg0, env, pending, container, history, world>>
      BY <1>2 DEF Boot
    <3> QED
      BY <3>1, <3>2
  <2> QED
    BY <2>1, <2>2
<1>3. CASE StatusDefers \/ PendingUnreadable
  BY <1>3 DEF StatusDefers, PendingUnreadable, EndStep
<1>4. CASE Status \/ BootFails
  BY <1>4 DEF Status, BootFails, Goto
<1>5. CASE ReadbackUnavailable
  BY <1>5 DEF ReadbackUnavailable, EndStep
<1>6. CASE Readback
  BY <1>6 DEF Readback, Goto
<1>7. CASE Confirm
  BY <1>7 DEF Confirm, Goto
<1>8. CASE Probe
  BY <1>8 DEF Probe, EndStep
<1>9. CASE Due
  BY <1>9 DEF Due, Goto
<1>10. CASE Commit
  BY <1>10 DEF Commit, Saving
<1>11. CASE ReplaceConfig
  BY <1>11 DEF ReplaceConfig, Saving
<1>12. CASE ReplaceMetadata
  BY <1>12 DEF ReplaceMetadata, Saving
<1>13. CASE Sweep
  <2>1. pc' \in {"status", "discard"} /\ startup' = FALSE /\ journal' = None
    BY <1>13 DEF Sweep
  <2>2. UNCHANGED <<candidate, wg0, env, pending, container, history, world>>
    BY <1>13 DEF Sweep
  <2>3. startup' \in BOOLEAN /\ unread' \in BOOLEAN /\ torn' \in BOOLEAN
    BY <2>1, <2>2
  <2>4. journal' \in Directory /\ pc' \in Labels
    BY <2>1
  <2>5. TypeOK'
    BY <2>2, <2>3, <2>4
  <2>6. HoldsVersion'
    BY <2>1, <2>2
  <2> QED
    BY <2>5, <2>6
<1>14. CASE Discard
  BY <1>14 DEF Discard, Saving
<1>15. CASE RecoverUnavailable
  BY <1>15 DEF RecoverUnavailable, EndStep
<1>16. CASE Settings
  BY <1>16 DEF Settings, Goto
<1>17. CASE GenerateFails
  BY <1>17 DEF GenerateFails, EndStep
<1>18. CASE Generate(TRUE) \/ Generate(FALSE)
  BY <1>18 DEF Generate
<1>19. CASE Recheck
  BY <1>19 DEF Recheck, Goto, EndStep
<1>20. CASE Reprobe
  BY <1>20 DEF Reprobe, Goto, EndStep
<1>21. CASE RetainCandidate
  BY <1>21 DEF RetainCandidate, Goto
<1>22. CASE PutApplied
  BY <1>22 DEF PutApplied, EndStep
<1>23. CASE PutLost
  BY <1>23 DEF PutLost, EndStep
<1>24. CASE PutLate
  <2>1. left' \in [Faults -> Nat]
    BY <1>24, SpendType DEF PutLate, EndStep, Faults
  <2> QED
    BY <1>24, <2>1 DEF PutLate, EndStep
<1>25. CASE Crash
  <2>1. /\ left' \in [Faults -> Nat]
        /\ journal' \in Directory /\ pending' \in Directory
    BY <1>25, SpendType, InterruptedType DEF Crash, Faults
  <2> QED
    BY <1>25, <2>1, InterruptedSave DEF Crash, Dies
<1>26. CASE StorageError
  <2>1. /\ left' \in [Faults -> Nat]
        /\ journal' \in Directory /\ pending' \in Directory
    BY <1>26, SpendType, InterruptedType DEF StorageError, Faults
  <2>2. CASE Dies
    BY <1>26, <2>1, <2>2, InterruptedSave DEF StorageError, Dies
  <2>3. CASE EndStep /\ UNCHANGED <<ran, unread, container, vpn, live>>
    BY <1>26, <2>1, <2>3, InterruptedSave DEF StorageError, EndStep
  <2> QED
    BY <1>26, <2>2, <2>3 DEF StorageError
<1>27. CASE ContainerStarts
  BY <1>27 DEF ContainerStarts, Container
<1>28. CASE WrapperPasses
  BY <1>28 DEF WrapperPasses, Container
<1>29. CASE WrapperTimesOut
  BY <1>29 DEF WrapperTimesOut, Container
<1>30. CASE SourceMetadata
  BY <1>30 DEF SourceMetadata, Container
<1>31. CASE ReadConfig
  BY <1>31 DEF ReadConfig, Container
<1>32. CASE Reload
  <2>1. left' \in [Faults -> Nat]
    BY <1>32, SpendType DEF Reload, Container, Faults
  <2> QED
    BY <1>32, <2>1 DEF Reload, Container
<1>33. CASE ApplyLate
  BY <1>33 DEF ApplyLate
<1>34. CASE TunnelFails
  <2>1. left' \in [Faults -> Nat]
    BY <1>34, SpendType DEF TunnelFails, Faults
  <2> QED
    BY <1>34, <2>1 DEF TunnelFails
<1>35. CASE TunnelReturns
  <2>1. left' \in [Faults -> Nat]
    BY <1>35, SpendType DEF TunnelReturns, Faults
  <2> QED
    BY <1>35, <2>1 DEF TunnelReturns
<1>36. CASE OperatorStops
  <2>1. left' \in [Faults -> Nat]
    BY <1>36, SpendType DEF OperatorStops, Faults
  <2> QED
    BY <1>36, <2>1 DEF OperatorStops
<1>37. CASE OperatorStarts
  BY <1>37 DEF OperatorStarts
<1>38. CASE BootCannotDiscard
  <2>1. left' \in [Faults -> Nat]
    BY <1>38, SpendType DEF BootCannotDiscard, Faults
  <2> QED
    BY <1>38, <2>1 DEF BootCannotDiscard
<1>39. CASE UNCHANGED vars
  BY <1>39 DEF vars
<1> QED
  BY <1>1, <1>2, <1>3, <1>4, <1>5, <1>6, <1>7, <1>8, <1>9, <1>10, <1>11, <1>12,
          <1>13, <1>14, <1>15, <1>16, <1>17, <1>18, <1>19, <1>20, <1>21, <1>22,
          <1>23, <1>24, <1>25, <1>26, <1>27, <1>28, <1>29, <1>30, <1>31, <1>32,
          <1>33, <1>34, <1>35, <1>36, <1>37, <1>38, <1>39
  DEF Next, Observe, Save, Recover, Submit, Wrapper, Environment

\* Lemma: the types hold in every behaviour.
LEMMA StackInvariant == Spec => []StackInv
<1>1. Init => StackInv
  BY StackAssumption DEF Init, StackInv, TypeOK, HoldsVersion, Labels, Directory
<1> QED
  BY <1>1, TypeStep, PTL DEF Spec

(***************************************************************************)
(* The variables of Stack keep their types.                                *)
(***************************************************************************)
THEOREM TypeCorrect == Spec => []TypeOK
BY StackInvariant, PTL DEF StackInv

-----------------------------------------------------------------------------

\* Lemma: a candidate reaches the commit directory only through a read-back.
LEMMA ReadBackStep == StackInv /\ ReadBack /\ [Next]_vars => ReadBack'
<1> SUFFICES ASSUME StackInv, ReadBack, [Next]_vars PROVE ReadBack'
  OBVIOUS
<1> USE StackAssumption DEF StackInv, HoldsVersion, Directory,
      ReadBack, supervisor, files, history
<1>1. CASE Restart
  BY <1>1 DEF Restart, Goto
<1>2. CASE Boot
  <2>1. CASE journal \in Versions
    BY <1>2, <2>1 DEF Boot, Goto
  <2>2. CASE journal \notin Versions
    BY <1>2, <2>2 DEF Boot, Goto
  <2> QED
    BY <2>1, <2>2
<1>3. CASE StatusDefers \/ PendingUnreadable
  BY <1>3 DEF StatusDefers, PendingUnreadable, EndStep
<1>4. CASE Status \/ BootFails
  BY <1>4 DEF Status, BootFails, Goto
<1>5. CASE ReadbackUnavailable
  BY <1>5 DEF ReadbackUnavailable, EndStep
<1>6. CASE Readback
  BY <1>6 DEF Readback, Goto
<1>7. CASE Confirm
  BY <1>7 DEF Confirm, Goto
<1>8. CASE Probe
  BY <1>8 DEF Probe, EndStep
<1>9. CASE Due
  BY <1>9 DEF Due, Goto
<1>10. CASE Commit
  BY <1>10 DEF Commit, Saving
<1>11. CASE ReplaceConfig
  BY <1>11 DEF ReplaceConfig, Saving
<1>12. CASE ReplaceMetadata
  BY <1>12 DEF ReplaceMetadata, Saving
<1>13. CASE Sweep
  BY <1>13 DEF Sweep
<1>14. CASE Discard
  BY <1>14 DEF Discard, Saving
<1>15. CASE RecoverUnavailable
  BY <1>15 DEF RecoverUnavailable, EndStep
<1>16. CASE Settings
  BY <1>16 DEF Settings, Goto
<1>17. CASE GenerateFails
  BY <1>17 DEF GenerateFails, EndStep
<1>18. CASE Generate(TRUE) \/ Generate(FALSE)
  BY <1>18 DEF Generate
<1>19. CASE Recheck
  BY <1>19 DEF Recheck, Goto, EndStep
<1>20. CASE Reprobe
  BY <1>20 DEF Reprobe, Goto, EndStep
<1>21. CASE RetainCandidate
  BY <1>21 DEF RetainCandidate, Goto
<1>22. CASE PutApplied
  BY <1>22 DEF PutApplied, EndStep
<1>23. CASE PutLost
  BY <1>23 DEF PutLost, EndStep
<1>24. CASE PutLate
  BY <1>24 DEF PutLate, EndStep, Spend
<1>25. CASE Crash
  BY <1>25, InterruptedSave DEF Crash, Spend, Dies
<1>26. CASE StorageError
  <2>1. CASE startup \/ pc = "reject"
    BY <1>26, <2>1, InterruptedSave DEF StorageError, Spend, Dies
  <2>2. CASE ~(startup \/ pc = "reject")
    BY <1>26, <2>2, InterruptedSave DEF StorageError, Spend, EndStep
  <2> QED
    BY <2>1, <2>2
<1>27. CASE Outside
  BY <1>27, OutsideLeavesFiles
<1>28. CASE BootCannotDiscard
  BY <1>28 DEF BootCannotDiscard, Spend
<1>29. CASE UNCHANGED vars
  BY <1>29 DEF vars
<1> QED
  BY <1>1, <1>2, <1>3, <1>4, <1>5, <1>6, <1>7, <1>8, <1>9, <1>10, <1>11, <1>12,
          <1>13, <1>14, <1>15, <1>16, <1>17, <1>18, <1>19, <1>20, <1>21, <1>22,
          <1>23, <1>24, <1>25, <1>26, <1>27, <1>28, <1>29
  DEF Next, Observe, Save, Recover, Submit, Wrapper, Environment, Outside

(***************************************************************************)
(* Only settings that Gluetun was found to run get into the commit         *)
(* directory and the two files, for any number of crashes, late updates    *)
(* and storage errors.                                                     *)
(***************************************************************************)
THEOREM SavedWasReadBack == Spec => OnlyReadBackIsSaved
<1>1. Init => ReadBack
  BY StackAssumption DEF Init, ReadBack
<1>2. StackInv /\ ReadBack /\ ReadBack' /\ [Next]_vars =>
        [/\ journal' \in Versions /\ journal' # journal => journal' \in ran
         /\ wg0' # wg0 => wg0' \in ran
         /\ env' # env => env' \in ran]_vars
  <2> SUFFICES ASSUME StackInv, ReadBack, Next
               PROVE  /\ journal' \in Versions /\ journal' # journal => journal' \in ran
                      /\ wg0' # wg0 => wg0' \in ran
                      /\ env' # env => env' \in ran
    OBVIOUS
  <2> USE StackAssumption DEF StackInv, HoldsVersion, ReadBack, files
  <2>1. CASE Restart
    BY <2>1 DEF Restart, Goto
  <2>2. CASE Boot
    <3>1. CASE journal \in Versions
      BY <2>2, <3>1 DEF Boot, Goto
    <3>2. CASE journal \notin Versions
      BY <2>2, <3>2 DEF Boot, Goto
    <3> QED
      BY <3>1, <3>2
  <2>3. CASE StatusDefers \/ PendingUnreadable
    BY <2>3 DEF StatusDefers, PendingUnreadable, EndStep
  <2>4. CASE Status \/ BootFails
    BY <2>4 DEF Status, BootFails, Goto
  <2>5. CASE ReadbackUnavailable
    BY <2>5 DEF ReadbackUnavailable, EndStep
  <2>6. CASE Readback
    BY <2>6 DEF Readback, Goto
  <2>7. CASE Confirm
    BY <2>7 DEF Confirm, Goto
  <2>8. CASE Probe
    BY <2>8 DEF Probe, EndStep
  <2>9. CASE Due
    BY <2>9 DEF Due, Goto
  <2>10. CASE Commit
    BY <2>10 DEF Commit, Saving
  <2>11. CASE ReplaceConfig
    BY <2>11 DEF ReplaceConfig, Saving
  <2>12. CASE ReplaceMetadata
    BY <2>12 DEF ReplaceMetadata, Saving
  <2>13. CASE Sweep
    BY <2>13 DEF Sweep
  <2>14. CASE Discard
    BY <2>14 DEF Discard, Saving
  <2>15. CASE RecoverUnavailable
    BY <2>15 DEF RecoverUnavailable, EndStep
  <2>16. CASE Settings
    BY <2>16 DEF Settings, Goto
  <2>17. CASE GenerateFails
    BY <2>17 DEF GenerateFails, EndStep
  <2>18. CASE Generate(TRUE) \/ Generate(FALSE)
    BY <2>18 DEF Generate
  <2>19. CASE Recheck
    BY <2>19 DEF Recheck, Goto, EndStep
  <2>20. CASE Reprobe
    BY <2>20 DEF Reprobe, Goto, EndStep
  <2>21. CASE RetainCandidate
    BY <2>21 DEF RetainCandidate, Goto
  <2>22. CASE PutApplied
    BY <2>22 DEF PutApplied, EndStep
  <2>23. CASE PutLost
    BY <2>23 DEF PutLost, EndStep
  <2>24. CASE PutLate
    BY <2>24 DEF PutLate, EndStep, Spend
  <2>25. CASE Crash
    BY <2>25, InterruptedSave DEF Crash, Spend, Dies
  <2>26. CASE StorageError
    <3>1. CASE startup \/ pc = "reject"
      BY <2>26, <3>1, InterruptedSave DEF StorageError, Spend, Dies
    <3>2. CASE ~(startup \/ pc = "reject")
      BY <2>26, <3>2, InterruptedSave DEF StorageError, Spend, EndStep
    <3> QED
      BY <3>1, <3>2
  <2>27. CASE Outside
    BY <2>27, OutsideLeavesFiles
  <2>28. CASE BootCannotDiscard
    BY <2>28 DEF BootCannotDiscard
  <2> QED
    BY <2>1, <2>2, <2>3, <2>4, <2>5, <2>6, <2>7, <2>8, <2>9, <2>10, <2>11, <2>12,
            <2>13, <2>14, <2>15, <2>16, <2>17, <2>18, <2>19, <2>20, <2>21, <2>22,
            <2>23, <2>24, <2>25, <2>26, <2>27, <2>28
    DEF Next, Observe, Save, Recover, Submit, Wrapper, Environment, Outside
<1> QED
  BY <1>1, <1>2, ReadBackStep, StackInvariant, PTL DEF Spec, OnlyReadBackIsSaved

-----------------------------------------------------------------------------

\* Lemma: an unread candidate meets no operation behind the comparison.
LEMMA ComparedStep == StackInv /\ Compared /\ [Next]_vars => Compared'
<1> SUFFICES ASSUME StackInv, Compared, [Next]_vars PROVE Compared'
  OBVIOUS
<1> USE StackAssumption DEF StackInv, HoldsVersion, Directory,
      Compared, supervisor, files, history
<1>1. CASE Restart
  BY <1>1 DEF Restart, Goto
<1>2. CASE Boot
  <2>1. CASE journal \in Versions
    BY <1>2, <2>1 DEF Boot, Goto
  <2>2. CASE journal \notin Versions
    BY <1>2, <2>2 DEF Boot, Goto
  <2> QED
    BY <2>1, <2>2
<1>3. CASE StatusDefers \/ PendingUnreadable
  BY <1>3 DEF StatusDefers, PendingUnreadable, EndStep
<1>4. CASE Status \/ BootFails
  BY <1>4 DEF Status, BootFails, Goto
<1>5. CASE ReadbackUnavailable
  BY <1>5 DEF ReadbackUnavailable, EndStep
<1>6. CASE Readback
  BY <1>6 DEF Readback, Goto
<1>7. CASE Confirm
  BY <1>7 DEF Confirm, Goto
<1>8. CASE Probe
  BY <1>8 DEF Probe, EndStep
<1>9. CASE Due
  BY <1>9 DEF Due, Goto
<1>10. CASE Commit
  BY <1>10 DEF Commit, Saving
<1>11. CASE ReplaceConfig
  BY <1>11 DEF ReplaceConfig, Saving
<1>12. CASE ReplaceMetadata
  BY <1>12 DEF ReplaceMetadata, Saving
<1>13. CASE Sweep
  BY <1>13 DEF Sweep
<1>14. CASE Discard
  BY <1>14 DEF Discard, Saving
<1>15. CASE RecoverUnavailable
  BY <1>15 DEF RecoverUnavailable, EndStep
<1>16. CASE Settings
  BY <1>16 DEF Settings, Goto
<1>17. CASE GenerateFails
  BY <1>17 DEF GenerateFails, EndStep
<1>18. CASE Generate(TRUE) \/ Generate(FALSE)
  BY <1>18 DEF Generate
<1>19. CASE Recheck
  BY <1>19 DEF Recheck, Goto, EndStep
<1>20. CASE Reprobe
  BY <1>20 DEF Reprobe, Goto, EndStep
<1>21. CASE RetainCandidate
  BY <1>21 DEF RetainCandidate, Goto
<1>22. CASE PutApplied
  BY <1>22 DEF PutApplied, EndStep
<1>23. CASE PutLost
  BY <1>23 DEF PutLost, EndStep
<1>24. CASE PutLate
  BY <1>24 DEF PutLate, EndStep, Spend
<1>25. CASE Crash
  BY <1>25, InterruptedSave DEF Crash, Spend, Dies
<1>26. CASE StorageError
  <2>1. CASE startup \/ pc = "reject"
    BY <1>26, <2>1, InterruptedSave DEF StorageError, Spend, Dies
  <2>2. CASE ~(startup \/ pc = "reject")
    BY <1>26, <2>2, InterruptedSave DEF StorageError, Spend, EndStep
  <2> QED
    BY <2>1, <2>2
<1>27. CASE Outside
  BY <1>27, OutsideLeavesFiles
<1>28. CASE BootCannotDiscard
  BY <1>28 DEF BootCannotDiscard, Spend
<1>29. CASE UNCHANGED vars
  BY <1>29 DEF vars
<1> QED
  BY <1>1, <1>2, <1>3, <1>4, <1>5, <1>6, <1>7, <1>8, <1>9, <1>10, <1>11, <1>12,
          <1>13, <1>14, <1>15, <1>16, <1>17, <1>18, <1>19, <1>20, <1>21, <1>22,
          <1>23, <1>24, <1>25, <1>26, <1>27, <1>28, <1>29
  DEF Next, Observe, Save, Recover, Submit, Wrapper, Environment, Outside

(***************************************************************************)
(* No registration is made while a candidate that was submitted, or found  *)
(* after a crash, has not been compared with Gluetun's settings, for any   *)
(* number of faults.                                                       *)
(***************************************************************************)
THEOREM ReconciledFirst == Spec => []ReconciledBeforeGenerating
<1>1. Init => Compared
  BY StackAssumption DEF Init, Compared
<1>2. Compared => ReconciledBeforeGenerating
  BY DEF Compared, ReconciledBeforeGenerating
<1> QED
  BY <1>1, <1>2, ComparedStep, StackInvariant, PTL DEF Spec

-----------------------------------------------------------------------------

\* The steps that touch what a restart would establish, or begin or end a save.
SavingLabels == {"commit", "replace_wg0", "replace_env", "sweep"}

Saves ==
    \/ Boot \/ Confirm \/ Commit \/ ReplaceConfig \/ ReplaceMetadata \/ Sweep
    \/ Crash \/ StorageError

\* Lemma: all other steps are outside every save and leave its files alone.
LEMMA OthersDoNotSave ==
    ASSUME [Next]_vars, ~Saves
    PROVE  /\ UNCHANGED <<wg0, env, journal>>
           /\ \/ UNCHANGED <<pc, pending>>
              \/ pc \notin SavingLabels /\ pc' \notin SavingLabels
<1> USE DEF SavingLabels
<1>1. CASE Outside \/ UNCHANGED vars
  BY <1>1, OutsideLeavesFiles DEF supervisor, files, vars
<1>2. CASE Restart \/ BootFails \/ BootCannotDiscard \/ StatusDefers \/ PendingUnreadable
  BY <1>2 DEF Restart, BootFails, BootCannotDiscard, StatusDefers, PendingUnreadable, Goto,
     EndStep, files
<1>6. CASE Status \/ ReadbackUnavailable \/ Readback
  BY <1>6 DEF Status, ReadbackUnavailable, Readback, Goto, EndStep, files
<1>3. CASE Probe \/ Due \/ Discard \/ RecoverUnavailable \/ Settings \/ GenerateFails
  BY <1>3 DEF Probe, Due, Discard, RecoverUnavailable, Settings, GenerateFails, Saving, Goto,
     EndStep, files
<1>4. CASE Generate(TRUE) \/ Generate(FALSE) \/ Recheck \/ Reprobe \/ RetainCandidate
  BY <1>4 DEF Generate, Recheck, Reprobe, RetainCandidate, Goto, EndStep, files
<1>5. CASE PutApplied \/ PutLost \/ PutLate
  BY <1>5 DEF PutApplied, PutLost, PutLate, EndStep, files
<1> QED
  BY <1>1, <1>2, <1>3, <1>4, <1>5, <1>6
  DEF Saves, Next, Observe, Save, Recover, Submit, Wrapper, Environment, Outside

\* Lemma: an error and a crash change at most the directory in use.
LEMMA FaultEndsSave ==
    ASSUME Crash \/ StorageError
    PROVE  /\ Interrupted
           /\ UNCHANGED <<wg0, env>> /\ pc' \in {"down", "status"}
           /\ \/ journal' = journal
              \/ pc \in {"commit", "sweep"} /\ journal' \notin Versions
  BY InterruptedSave DEF Crash, StorageError, Dies, EndStep

\* Lemma: a publication goes on from what it has done.
LEMMA SavedSoFarStep == SavedSoFar /\ [Next]_vars => SavedSoFar'
<1> SUFFICES ASSUME SavedSoFar, [Next]_vars PROVE SavedSoFar'
  OBVIOUS
<1> USE DEF SavedSoFar, SavingLabels
<1>1. CASE ~Saves
  BY <1>1, OthersDoNotSave
<1>2. CASE Boot \/ Confirm \/ Commit
  BY <1>2 DEF Boot, Confirm, Commit, Saving, Goto
<1>3. CASE ReplaceConfig \/ ReplaceMetadata \/ Sweep
  BY <1>3 DEF ReplaceConfig, ReplaceMetadata, Sweep, Saving
<1>4. CASE Crash \/ StorageError
  BY <1>4, FaultEndsSave
<1> QED
  BY <1>1, <1>2, <1>3, <1>4 DEF Saves

\* Lemma: a mixed pair stays in the commit directory until it is repaired, or
\* its retry is cut short.
LEMMA MixedStep ==
    StackInv /\ SavedSoFar /\ MixedInJournal /\ [Next]_vars => MixedInJournal'
<1> SUFFICES ASSUME StackInv, SavedSoFar, MixedInJournal, [Next]_vars
             PROVE  MixedInJournal'
  OBVIOUS
<1> USE DEF MixedInJournal
<1>0. /\ pc \in {"replace_wg0", "replace_env", "sweep"} => journal \in Versions
      /\ pc = "commit" => pending \in Versions
  BY DEF StackInv, HoldsVersion
<1>1. CASE ~Saves
  <2>1. UNCHANGED <<wg0, env, journal>>
    BY <1>1, OthersDoNotSave
  <2>2. UNCHANGED torn
    BY <1>1 DEF Saves, Next, Observe, Save, Recover, Submit, Wrapper, Environment, history, vars,
       Restart, BootFails, StatusDefers, PendingUnreadable, Status, ReadbackUnavailable, Readback,
       Probe, Due, Discard, Saving, RecoverUnavailable, Settings, GenerateFails, Generate, Recheck,
       Reprobe, RetainCandidate, PutApplied, PutLost, PutLate, ContainerStarts, WrapperPasses,
       WrapperTimesOut, SourceMetadata, ReadConfig, Container, BootCannotDiscard, Reload,
       ApplyLate, TunnelFails, TunnelReturns, OperatorStops, OperatorStarts
  <2> QED
    BY <2>1, <2>2
<1>2. CASE Boot \/ Confirm
  BY <1>2 DEF Boot, Confirm, files, history
<1>3. CASE Commit \/ ReplaceConfig \/ ReplaceMetadata
  BY <1>0, <1>3 DEF Commit, ReplaceConfig, ReplaceMetadata, Saving
<1>4. CASE Sweep
  BY <1>4 DEF Sweep, SavedSoFar
<1>5. CASE Crash \/ StorageError
  BY <1>5, FaultEndsSave, InterruptedSave
<1> QED
  BY <1>1, <1>2, <1>3, <1>4, <1>5 DEF Saves

(***************************************************************************)
(* Gluetun begins only on a matching pair, for any number of crashes,      *)
(* storage errors, restarts and late updates, but for a mixed pair whose   *)
(* complete copies a retry of the save took away.                          *)
(***************************************************************************)
THEOREM BeginsOnMatchingPair == Spec => WrapperPassesOnMatchingPair
<1>1. Init => SavedSoFar /\ MixedInJournal
  BY DEF Init, SavedSoFar, MixedInJournal
<1>2. MixedInJournal /\ [Next]_vars => [WrapperPasses => wg0 = env \/ torn]_vars
  BY StackAssumption DEF MixedInJournal, WrapperPasses
<1> QED
  BY <1>1, <1>2, MixedStep, SavedSoFarStep, StackInvariant, PTL
  DEF Spec, WrapperPassesOnMatchingPair

-----------------------------------------------------------------------------
\* Lemma: each step of the processes is one of the register, or changes nothing
\* that it shows; only the retry of a failed save may take the saved pair away.
LEMMA AtomicStep ==
    ASSUME StackInv, SavedSoFar, [Next]_vars
    PROVE  \/ pc = "commit" /\ journal \in Versions /\ ~Saved(journal)
           \/ [Atomic!Next]_(Atomic!vars)
<1> USE StackAssumption DEF SavedVersion, PublishedJob, SavingLabels, Saved,
      Atomic!Next, Atomic!Begin, Atomic!Commit, Atomic!End, Atomic!vars
<1>0. /\ pc \in {"replace_wg0", "replace_env", "sweep"} => journal \in Versions
      /\ pc = "commit" => pending \in Versions
      /\ pc = "confirm" => pending \in Versions
      /\ wg0 \in Versions /\ env \in Versions
      /\ journal \in Versions \cup {None, Incomplete, Broken}
  BY DEF StackInv, TypeOK, HoldsVersion, Directory
<1>1. CASE ~Saves
  BY <1>1, OthersDoNotSave
<1>2. CASE Boot
  BY <1>0, <1>2 DEF Boot, Goto
<1>3. CASE Confirm
  BY <1>0, <1>3 DEF Confirm, Goto, files
<1>4. CASE Commit
  BY <1>0, <1>4 DEF Commit, Saving
<1>5. CASE ReplaceConfig \/ ReplaceMetadata
  BY <1>0, <1>5 DEF ReplaceConfig, ReplaceMetadata, Saving
<1>6. CASE Sweep
  BY <1>0, <1>6 DEF Sweep, SavedSoFar
<1>7. CASE Crash \/ StorageError
  <2>1. /\ UNCHANGED <<wg0, env>> /\ pc' \in {"down", "status"}
        /\ \/ journal' = journal
           \/ pc \in {"commit", "sweep"} /\ journal' \notin Versions
    BY <1>7, FaultEndsSave
  <2>2. PublishedJob' = None /\ (pc \notin SavingLabels => PublishedJob = None)
    BY <2>1
  <2>3. CASE journal' = journal
    BY <1>0, <2>1, <2>2, <2>3
  <2>4. CASE pc = "sweep" /\ journal' \notin Versions
    BY <1>0, <2>1, <2>2, <2>4 DEF SavedSoFar
  <2>5. CASE pc = "commit" /\ journal' \notin Versions /\ journal \notin Versions
    BY <1>0, <2>1, <2>2, <2>5
  <2>6. CASE pc = "commit" /\ journal' \notin Versions /\ Saved(journal)
    BY <1>0, <2>1, <2>2, <2>6
  <2> QED
    BY <2>1, <2>3, <2>4, <2>5, <2>6
<1> QED
  BY <1>1, <1>2, <1>3, <1>4, <1>5, <1>6, <1>7 DEF Saves

(***************************************************************************)
(* The processes together keep one saved pair: it changes only in one step *)
(* and to the candidate that is being published, for any number of crashes *)
(* and storage errors and any interleaving with Gluetun, but for the retry *)
(* of a save that failed half way.                                         *)
(***************************************************************************)
THEOREM StackImplementsSavedPair == Spec => SavesAreAtomic
<1>1. Init => SavedSoFar
  BY DEF Init, SavedSoFar
<1>2. Init => Atomic!Init
  BY StackAssumption DEF Init, Atomic!Init, SavedVersion, PublishedJob
<1>3. StackInv /\ SavedSoFar /\ [Next]_vars =>
        [\/ pc = "commit" /\ journal \in Versions /\ ~Saved(journal)
         \/ Atomic!Next]_(Atomic!vars)
  BY AtomicStep
<1> QED
  BY <1>1, <1>2, <1>3, SavedSoFarStep, StackInvariant, PTL DEF Spec, SavesAreAtomic

-----------------------------------------------------------------------------
\* On good storage a commit directory belongs to a publication in progress, or
\* to one that a restarting supervisor is about to finish.
CommitInUse ==
    /\ left["storage"] = 0
    /\ journal # None => pc \in {"down", "boot", "replace_wg0", "replace_env", "sweep"}

\* Lemma: every step keeps the commit directory in use.
LEMMA CommitInUseStep == StackInv /\ CommitInUse /\ [Next]_vars => CommitInUse'
<1> SUFFICES ASSUME StackInv, CommitInUse, [Next]_vars PROVE CommitInUse'
  OBVIOUS
<1> USE DEF CommitInUse, StackInv, TypeOK, Faults, world, history, container
<1>1. CASE Outside \/ UNCHANGED vars
  BY <1>1, OutsideLeavesFiles, OutsideSpends DEF vars, supervisor, files
<1>2. CASE Crash
  BY <1>2, InterruptedSave DEF Crash, Spend, Dies
<1>3. CASE StorageError \/ BootCannotDiscard
  BY <1>3 DEF StorageError, BootCannotDiscard, Spend
<1>4. CASE Boot
  BY <1>4 DEF Boot, Goto
<1>5. CASE Commit \/ ReplaceConfig \/ ReplaceMetadata \/ Sweep
  BY <1>5 DEF Commit, ReplaceConfig, ReplaceMetadata, Sweep, Saving
<1>6. CASE Restart \/ BootFails \/ StatusDefers \/ PendingUnreadable
  BY <1>6 DEF Restart, BootFails, StatusDefers, PendingUnreadable, Goto, EndStep, files
<1>11. CASE Status \/ ReadbackUnavailable \/ Readback \/ Confirm
  BY <1>11 DEF Status, ReadbackUnavailable, Readback, Confirm, Goto, EndStep, files
<1>7. CASE Probe \/ Due \/ Discard \/ RecoverUnavailable \/ Settings \/ GenerateFails
  BY <1>7 DEF Probe, Due, Discard, RecoverUnavailable, Settings, GenerateFails, Saving, Goto,
     EndStep, files
<1>8. CASE Generate(TRUE) \/ Generate(FALSE) \/ Recheck \/ Reprobe \/ RetainCandidate
  BY <1>8 DEF Generate, Recheck, Reprobe, RetainCandidate, Goto, EndStep, files
<1>9. CASE PutApplied \/ PutLost
  BY <1>9 DEF PutApplied, PutLost, EndStep, files
<1>10. CASE PutLate
  BY <1>10 DEF PutLate, Spend, EndStep, files
<1> QED
  BY <1>1, <1>2, <1>3, <1>4, <1>5, <1>6, <1>7, <1>8, <1>9, <1>10, <1>11
  DEF Next, Observe, Save, Recover, Submit, Wrapper, Environment, Outside

(***************************************************************************)
(* The safe side of GluetunComesUpOnGoodStorage: while the wrapper waits   *)
(* for the commit directory, the supervisor is at an operation that needs  *)
(* no answer of Gluetun, so that neither waits for the other               *)
(* (architecture.md:40).                                                   *)
(***************************************************************************)
THEOREM NoCircularWait ==
    ASSUME \A budget \in Bounds : budget["storage"] = 0
    PROVE  Spec => [](gluetun = "waiting" /\ journal # None =>
                        pc \in {"down", "boot", "replace_wg0", "replace_env", "sweep"})
<1>1. Init => CommitInUse
  BY DEF Init, CommitInUse
<1>2. CommitInUse => (gluetun = "waiting" /\ journal # None =>
                        pc \in {"down", "boot", "replace_wg0", "replace_env", "sweep"})
  BY DEF CommitInUse
<1> QED
  BY <1>1, <1>2, CommitInUseStep, StackInvariant, PTL DEF Spec
=============================================================================
