----------------------------- MODULE StoreProofs -----------------------------
(***************************************************************************)
(* Theorems about Store for every set of versions, every assignment of     *)
(* endpoints and every number of faults.                                   *)
(***************************************************************************)
EXTENDS Store, TLAPS

RetainLabels == {"clear", "mkdir", "open", "write", "mark"}
ReplaceLabels == {"opennew", "writenew", "rename"}

\* Which caller can be at which file operation.
CallerFits ==
    /\ pc = "validate" => op \in {"resume", "start", "resolve"}
    /\ pc \in RetainLabels => op \in {"start", "candidate", "resolve"}
    /\ pc \in ReplaceLabels \cup {"sweep"} => op \in {"resume", "start", "resolve"}
    /\ pc = "discard" => op \in {"resolve", "mismatch", "reject"}
    /\ pc = "drop" => op = "resume"
    /\ pc \in {"down", "boot", "select", "idle"} => op = "none"

\* retain and publish are only given a pair that comes from one version.
SourceIsOneVersion ==
    op \in {"start", "candidate"} \/ (op = "resolve" /\ pc # "discard") => OneVersion(Source)

\* What retain has copied so far, into a directory without a marker.
CopiedSoFar ==
    /\ pc \in {"open", "write", "mark"} => Target \in there \ ready
    /\ pc \in {"open", "write"} /\ at = "env" => copy[Target]["wg0"] = Source["wg0"]
    /\ pc = "mark" =>
          /\ copy[Target]["wg0"] = Source["wg0"]
          /\ copy[Target]["env"] = Source["env"]

\* publish replaces files from a ready and complete journal.
ReplacesFromJournal ==
    /\ pc = "validate" /\ op = "resume" => "journal" \in ready
    /\ pc \in ReplaceLabels => "journal" \in ready /\ Complete("journal")
    /\ pc = "rename" => new[at] = copy["journal"][at]

ReadyInv ==
    /\ TypeOK
    /\ CallerFits
    /\ ready \subseteq there
    /\ SourceIsOneVersion
    /\ CopiedSoFar
    /\ ReplacesFromJournal
    /\ ReadyHoldsOneVersion

\* A ready journal exists only from publish's commit point to its removal, and
\* the removal starts when both published files are the journaled version.
JournalOnlyInPublish ==
    /\ pc \in {"drop", "select", "idle", "discard"} \cup RetainLabels => "journal" \notin ready
    /\ pc = "validate" /\ op # "resume" => "journal" \notin ready
    /\ pc \in ReplaceLabels /\ at = "env" => published["wg0"] = copy["journal"]["wg0"]
    /\ pc = "sweep" =>
          /\ Matched
          /\ \A f \in Files : copy["journal"][f] \in {published["wg0"], None}

JournalInv == MixedPairIsJournaled /\ JournalOnlyInPublish

-----------------------------------------------------------------------------
\* Removing one directory entry changes one marker or empties one file.
LEMMA RemoveEntryStep ==
    ASSUME TypeOK, NEW d \in Dirs, RemoveEntry(d)
    PROVE  /\ UNCHANGED <<published, new, there, stage, mode, op, at, pc, faults>>
           /\ ready' \subseteq ready
           /\ \A e \in Dirs \ {d} : e \in ready => e \in ready'
           /\ copy' \in [Dirs -> [Files -> Content]]
           /\ \A e \in Dirs, f \in Files : copy'[e][f] \in {copy[e][f], None}
           /\ \A e \in Dirs \ {d} : copy'[e] = copy[e]
<1>1. CASE UNCHANGED copy
  BY <1>1 DEF RemoveEntry, TypeOK
<1>2. CASE UNCHANGED ready /\ \E f \in Files : copy' = [copy EXCEPT ![d][f] = None]
  <2>1. PICK f \in Files : copy' = [copy EXCEPT ![d][f] = None]
    BY <1>2
  <2>2. /\ copy' \in [Dirs -> [Files -> Content]]
        /\ \A e \in Dirs, g \in Files : copy'[e][g] \in {copy[e][g], None}
        /\ \A e \in Dirs \ {d} : copy'[e] = copy[e]
    BY <2>1 DEF TypeOK, Content
  <2> QED
    BY <1>2, <2>2 DEF RemoveEntry
<1> QED
  BY <1>1, <1>2 DEF RemoveEntry

\* Lemma: Every step keeps the types.
LEMMA TypeStep == TypeOK /\ [Next]_vars => TypeOK'
<1> SUFFICES ASSUME TypeOK, [Next]_vars PROVE TypeOK'
  OBVIOUS
<1> USE StoreAssumption DEF TypeOK, Files, Dirs, Content, Ops, Callers, Labels, files
<1>1. CASE Restart
  BY <1>1 DEF Restart
<1>2. CASE ResumePublish
  BY <1>2 DEF ResumePublish
<1>3. CASE ResumeDiscard
  BY <1>3 DEF ResumeDiscard
<1>4. CASE DropEntry
  BY <1>4, RemoveEntryStep DEF DropEntry
<1>5. CASE DropDone
  BY <1>5 DEF DropDone, RemoveDirectory, Return
<1>6. CASE Reuse
  BY <1>6 DEF Reuse, Return
<1>7. CASE Generate
  BY <1>7 DEF Generate
<1>8. CASE Candidate
  BY <1>8 DEF Candidate, Monitoring, Call
<1>9. CASE ResolveIncomplete
  BY <1>9 DEF ResolveIncomplete, Monitoring, Call
<1>10. CASE ResolveMismatch
  BY <1>10 DEF ResolveMismatch, Monitoring, Call
<1>11. CASE ResolvePublish
  BY <1>11 DEF ResolvePublish, Monitoring, Call
<1>12. CASE ClearEntry
  BY <1>12, RemoveEntryStep DEF ClearEntry, Target
<1>13. CASE ClearDone
  BY <1>13 DEF ClearDone, RemoveDirectory, Goto, Target
<1>14. CASE MakeDirectory
  BY <1>14 DEF MakeDirectory, Loop, Target
<1>15. CASE DirectoryExists
  BY <1>15 DEF DirectoryExists, Return, Raised
<1>16. CASE OpenCopy
  BY <1>16 DEF OpenCopy, Goto, Target
<1>17. CASE WriteCopy
  BY <1>17 DEF WriteCopy, Loop, Goto, Target, Source
<1>18. CASE MarkReady
  BY <1>18 DEF MarkReady, Return, Loop, Target
<1>19. CASE Validate
  BY <1>19 DEF Validate, Loop, Goto
<1>20. CASE ValidateFails
  BY <1>20 DEF ValidateFails, Return, Raised
<1>21. CASE OpenReplacement
  BY <1>21 DEF OpenReplacement, Goto
<1>22. CASE WriteReplacement
  BY <1>22 DEF WriteReplacement, Goto
<1>23. CASE Rename
  BY <1>23 DEF Rename, Loop, Goto
<1>24. CASE SweepEntry
  BY <1>24, RemoveEntryStep DEF SweepEntry
<1>25. CASE SweepDone
  BY <1>25 DEF SweepDone, RemoveDirectory, Return, Goto
<1>26. CASE DiscardEntry
  BY <1>26, RemoveEntryStep DEF DiscardEntry
<1>27. CASE DiscardDone
  BY <1>27 DEF DiscardDone, RemoveDirectory, Return
<1>28. CASE Crash
  BY <1>28 DEF Crash
<1>29. CASE OperationRaises
  BY <1>29 DEF OperationRaises, StorageError, Raised
<1>30. CASE ClearIgnoresError
  BY <1>30 DEF ClearIgnoresError, StorageError
<1>31. CASE DropIgnoresError
  BY <1>31 DEF DropIgnoresError, StorageError
<1>32. CASE UNCHANGED vars
  BY <1>32 DEF vars
<1> QED
  BY <1>1, <1>2, <1>3, <1>4, <1>5, <1>6, <1>7, <1>8, <1>9, <1>10, <1>11, <1>12, <1>13, <1>14, <1>15, <1>16, <1>17, <1>18, <1>19, <1>20, <1>21, <1>22, <1>23, <1>24, <1>25, <1>26, <1>27, <1>28, <1>29, <1>30, <1>31, <1>32
     DEF Next, Startup, Monitor, Retain, Publish, Discard, Failure

\* Lemma: Every step keeps what a ready directory holds.
LEMMA ReadyStep == ReadyInv /\ [Next]_vars => ReadyInv'
<1> SUFFICES ASSUME ReadyInv, [Next]_vars, TypeOK' PROVE ReadyInv'
  BY TypeStep DEF ReadyInv
<1> USE StoreAssumption DEF TypeOK, Files, Dirs, Content, Ops, Callers, Labels,
      files, RetainLabels, ReplaceLabels, OneVersion, Complete, Source, Target,
      CallerFits, SourceIsOneVersion, CopiedSoFar, ReplacesFromJournal,
      ReadyHoldsOneVersion, ReadyInv
<1>1. CASE Restart
  BY <1>1 DEF Restart
<1>2. CASE ResumePublish
  BY <1>2 DEF ResumePublish
<1>3. CASE ResumeDiscard
  BY <1>3 DEF ResumeDiscard
<1>4. CASE DropEntry
  BY <1>4, RemoveEntryStep DEF DropEntry
<1>5. CASE DropDone
  BY <1>5 DEF DropDone, RemoveDirectory, Return
<1>6. CASE Reuse
  BY <1>6 DEF Reuse, Return
<1>7. CASE Generate
  BY <1>7 DEF Generate
<1>8. CASE Candidate
  BY <1>8 DEF Candidate, Monitoring, Call
<1>9. CASE ResolveIncomplete
  BY <1>9 DEF ResolveIncomplete, Monitoring, Call
<1>10. CASE ResolveMismatch
  BY <1>10 DEF ResolveMismatch, Monitoring, Call
<1>11. CASE ResolvePublish
  BY <1>11 DEF ResolvePublish, Monitoring, Call, PendingUsable, Valid
<1>12. CASE ClearEntry
  BY <1>12, RemoveEntryStep DEF ClearEntry
<1>13. CASE ClearDone
  BY <1>13 DEF ClearDone, RemoveDirectory, Goto, Target
<1>14. CASE MakeDirectory
  BY <1>14 DEF MakeDirectory, Loop, Target
<1>15. CASE DirectoryExists
  BY <1>15 DEF DirectoryExists, Return, Raised
<1>16. CASE OpenCopy
  BY <1>16 DEF OpenCopy, Goto, Target
<1>17. CASE WriteCopy
  BY <1>17 DEF WriteCopy, Loop, Goto, Target
<1>18. CASE MarkReady
  <2>1. Complete(Target)
    BY <1>18 DEF MarkReady
  <2>2. \E v \in Versions : \A f \in Files : copy[Target][f] \in {v, None}
    BY <2>1, copy[Target]["wg0"] \in Versions
  <2>3. ReadyHoldsOneVersion'
    BY <1>18, <2>2 DEF MarkReady
  <2>4. CASE op = "candidate"
    <3>1. pc' = "idle" /\ op' = "none"
      BY <1>18, <2>4 DEF MarkReady, Return
    <3>2. ready' \subseteq there'
      BY <1>18 DEF MarkReady
    <3> QED
      BY <2>3, <3>1, <3>2
  <2>5. CASE op # "candidate"
    <3>1. /\ Target = "journal" /\ pc' = "opennew"
          /\ UNCHANGED <<op, stage, copy>>
      BY <1>18, <2>5 DEF MarkReady, Loop
    <3>2. "journal" \in ready' /\ ready' \subseteq there'
      BY <1>18, <3>1 DEF MarkReady
    <3> HIDE DEF Target
    <3>3. Complete("journal")'
      BY <2>1, <3>1
    <3>4. op \in {"start", "resolve"}
      <4>1. pc = "mark"
        BY <1>18 DEF MarkReady
      <4> QED
        BY <4>1, <2>5 DEF CallerFits, RetainLabels
    <3>5. SourceIsOneVersion'
      <4>1. OneVersion(Source)
        BY <1>18, <3>4 DEF MarkReady
      <4>2. Source' = Source
        BY <3>1 DEF Source
      <4> QED
        BY <4>1, <4>2 DEF SourceIsOneVersion
    <3> QED
      BY <2>3, <3>1, <3>2, <3>3, <3>4, <3>5
  <2> QED
    BY <2>4, <2>5
<1>19. CASE Validate
  BY <1>19 DEF Validate, Loop, Goto, Valid
<1>20. CASE ValidateFails
  BY <1>20 DEF ValidateFails, Return, Raised
<1>21. CASE OpenReplacement
  BY <1>21 DEF OpenReplacement, Goto
<1>22. CASE WriteReplacement
  BY <1>22 DEF WriteReplacement, Goto
<1>23. CASE Rename
  BY <1>23 DEF Rename, Loop, Goto
<1>24. CASE SweepEntry
  BY <1>24, RemoveEntryStep DEF SweepEntry
<1>25. CASE SweepDone
  BY <1>25 DEF SweepDone, RemoveDirectory, Return, Goto
<1>26. CASE DiscardEntry
  BY <1>26, RemoveEntryStep DEF DiscardEntry
<1>27. CASE DiscardDone
  BY <1>27 DEF DiscardDone, RemoveDirectory, Return
<1>28. CASE Crash
  BY <1>28 DEF Crash
<1>29. CASE OperationRaises
  BY <1>29 DEF OperationRaises, StorageError, Raised
<1>30. CASE ClearIgnoresError
  BY <1>30 DEF ClearIgnoresError, StorageError
<1>31. CASE DropIgnoresError
  BY <1>31 DEF DropIgnoresError, StorageError
<1>32. CASE UNCHANGED vars
  BY <1>32 DEF vars
<1> QED
  BY <1>1, <1>2, <1>3, <1>4, <1>5, <1>6, <1>7, <1>8, <1>9, <1>10, <1>11, <1>12, <1>13, <1>14, <1>15, <1>16, <1>17, <1>18, <1>19, <1>20, <1>21, <1>22, <1>23, <1>24, <1>25, <1>26, <1>27, <1>28, <1>29, <1>30, <1>31, <1>32
     DEF Next, Startup, Monitor, Retain, Publish, Discard, Failure

\* Lemma: Every step keeps what the journal says of the two files.
LEMMA JournalStep ==
    ASSUME "resolve" \notin StorageFaults
    PROVE  ReadyInv /\ JournalInv /\ [Next]_vars => JournalInv'
<1> SUFFICES ASSUME ReadyInv, JournalInv, [Next]_vars PROVE JournalInv'
  OBVIOUS
<1>ready. ReadyInv'
  BY ReadyStep
<1> USE StoreAssumption, <1>ready DEF ReadyInv, TypeOK, Files, Dirs, Content, Ops,
      Callers, Labels, files, RetainLabels, ReplaceLabels, OneVersion, Complete,
      Target, CallerFits, CopiedSoFar, ReplacesFromJournal, Matched,
      MixedPairIsJournaled, JournalOnlyInPublish, JournalInv
<1>1. CASE Restart
  BY <1>1 DEF Restart
<1>2. CASE ResumePublish
  BY <1>2 DEF ResumePublish
<1>3. CASE ResumeDiscard
  BY <1>3 DEF ResumeDiscard
<1>4. CASE DropEntry
  BY <1>4, RemoveEntryStep DEF DropEntry
<1>5. CASE DropDone
  BY <1>5 DEF DropDone, RemoveDirectory, Return
<1>6. CASE Reuse
  BY <1>6 DEF Reuse, Return
<1>7. CASE Generate
  BY <1>7 DEF Generate
<1>8. CASE Candidate
  BY <1>8 DEF Candidate, Monitoring, Call
<1>9. CASE ResolveIncomplete
  BY <1>9 DEF ResolveIncomplete, Monitoring, Call
<1>10. CASE ResolveMismatch
  BY <1>10 DEF ResolveMismatch, Monitoring, Call
<1>11. CASE ResolvePublish
  BY <1>11 DEF ResolvePublish, Monitoring, Call, PendingUsable, Valid
<1>12. CASE ClearEntry
  BY <1>12, RemoveEntryStep DEF ClearEntry
<1>13. CASE ClearDone
  BY <1>13 DEF ClearDone, RemoveDirectory, Goto, Target
<1>14. CASE MakeDirectory
  BY <1>14 DEF MakeDirectory, Loop, Target
<1>15. CASE DirectoryExists
  BY <1>15 DEF DirectoryExists, Return, Raised
<1>16. CASE OpenCopy
  BY <1>16 DEF OpenCopy, Goto, Target
<1>17. CASE WriteCopy
  BY <1>17 DEF WriteCopy, Loop, Goto, Target
<1>18. CASE MarkReady
  BY <1>18 DEF MarkReady, Return, Loop, Target
<1>19. CASE Validate
  BY <1>19 DEF Validate, Loop, Goto, Valid
<1>20. CASE ValidateFails
  BY <1>20 DEF ValidateFails, Return, Raised
<1>21. CASE OpenReplacement
  BY <1>21 DEF OpenReplacement, Goto
<1>22. CASE WriteReplacement
  BY <1>22 DEF WriteReplacement, Goto
<1>23. CASE Rename
  BY <1>23 DEF Rename, Loop, Goto
<1>24. CASE SweepEntry
  BY <1>24, RemoveEntryStep DEF SweepEntry
<1>25. CASE SweepDone
  BY <1>25 DEF SweepDone, RemoveDirectory, Return, Goto
<1>26. CASE DiscardEntry
  BY <1>26, RemoveEntryStep DEF DiscardEntry
<1>27. CASE DiscardDone
  BY <1>27 DEF DiscardDone, RemoveDirectory, Return
<1>28. CASE Crash
  BY <1>28 DEF Crash
<1>29. CASE OperationRaises
  BY <1>29 DEF OperationRaises, StorageError, Raised
<1>30. CASE ClearIgnoresError
  BY <1>30 DEF ClearIgnoresError, StorageError
<1>31. CASE DropIgnoresError
  BY <1>31 DEF DropIgnoresError, StorageError
<1>32. CASE UNCHANGED vars
  BY <1>32 DEF vars
<1> QED
  BY <1>1, <1>2, <1>3, <1>4, <1>5, <1>6, <1>7, <1>8, <1>9, <1>10, <1>11, <1>12, <1>13, <1>14, <1>15, <1>16, <1>17, <1>18, <1>19, <1>20, <1>21, <1>22, <1>23, <1>24, <1>25, <1>26, <1>27, <1>28, <1>29, <1>30, <1>31, <1>32
     DEF Next, Startup, Monitor, Retain, Publish, Discard, Failure

-----------------------------------------------------------------------------
\* The variables keep their types: what a file or a program counter can hold.
THEOREM TypeCorrect == Spec => []TypeOK
<1>1. Init => TypeOK
  BY StoreAssumption DEF Init, TypeOK, Files, Dirs, Content, Ops, Labels
<1> QED
  BY <1>1, TypeStep, PTL DEF Spec

\* Lemma: ReadyInv holds in every behaviour.
LEMMA ReadyInvariant == Spec => []ReadyInv
<1>1. Init => ReadyInv
  BY StoreAssumption DEF Init, ReadyInv, TypeOK, Files, Dirs, Content, Ops, Labels,
       CallerFits, SourceIsOneVersion, CopiedSoFar, ReplacesFromJournal,
       ReadyHoldsOneVersion, RetainLabels, ReplaceLabels
<1> QED
  BY <1>1, ReadyStep, PTL DEF Spec

\* Every copy a ready marker covers was written completely and comes from one
\* version, whatever crashes and storage errors happen in retain, publish and
\* the removals (settings.py).
THEOREM ReadyCopiesAgree == Spec => []ReadyHoldsOneVersion
<1> QED
  BY ReadyInvariant, PTL DEF ReadyInv

\* A published file only changes to a complete version held by the ready commit
\* directory (settings.py, publish).
THEOREM PublishedComesFromJournal == Spec => PublishedFromJournal
<1>1. ReadyInv /\ [Next]_vars =>
        [\A f \in Files :
            published'[f] # published[f] =>
                /\ "journal" \in ready
                /\ published'[f] \in Versions
                /\ published'[f] = copy["journal"][f]]_vars
  <2> SUFFICES ASSUME ReadyInv, Next, NEW f \in Files, published'[f] # published[f]
               PROVE  /\ "journal" \in ready
                      /\ published'[f] \in Versions
                      /\ published'[f] = copy["journal"][f]
    OBVIOUS
  <2>1. Rename
    BY DEF Next, Startup, Monitor, Retain, Publish, Discard, Failure,
         Restart, ResumePublish, ResumeDiscard, DropEntry, DropDone, Reuse, Generate,
         Candidate, ResolveIncomplete, ResolveMismatch, ResolvePublish, ClearEntry,
         ClearDone, MakeDirectory, DirectoryExists, OpenCopy, WriteCopy, MarkReady,
         Validate, ValidateFails, OpenReplacement, WriteReplacement, SweepEntry,
         SweepDone, DiscardEntry, DiscardDone, Crash, OperationRaises,
         ClearIgnoresError, DropIgnoresError, StorageError, RemoveEntry,
         RemoveDirectory, Call, files
  <2>2. f = at
    BY <2>1 DEF Rename, ReadyInv, TypeOK
  <2> QED
    BY <2>1, <2>2 DEF Rename, ReadyInv, TypeOK, ReplacesFromJournal, ReplaceLabels,
         Complete, OneVersion, Files
<1> QED
  BY <1>1, ReadyInvariant, PTL DEF Spec, PublishedFromJournal

\* The commit point: while the published files come from different versions, a
\* ready and complete journal already holds the version wg0.conf was replaced
\* with, so resume can finish the save after any crash.  Storage errors may
\* occur in every call except the publication of a pending candidate.
THEOREM InterruptedSaveIsRecoverable ==
    ASSUME "resolve" \notin StorageFaults
    PROVE  Spec => []MixedPairIsJournaled
<1>1. Init => JournalInv
  BY DEF Init, JournalInv, MixedPairIsJournaled, JournalOnlyInPublish, Matched,
       RetainLabels, ReplaceLabels, Files
<1>2. ReadyInv /\ JournalInv /\ [Next]_vars => JournalInv'
  BY JournalStep
<1> QED
  BY <1>1, <1>2, ReadyInvariant, PTL DEF Spec, JournalInv

-----------------------------------------------------------------------------
\* A complete candidate is at risk where its directory is removed: rejected, it
\* has no marker; published, the files it holds are those of the saved pair.
CandidateInv ==
    /\ op = "reject" => "pending" \notin ready
    /\ op = "resolve" =>
        \A f \in Files :
            /\ pc \in ReplaceLabels => copy["journal"][f] = copy["pending"][f]
            /\ pc \in ReplaceLabels /\ at = "env" => published["wg0"] = copy["pending"]["wg0"]
            /\ pc = "sweep" => published[f] = copy["pending"][f]
            /\ pc = "discard" => copy["pending"][f] \in {published[f], None}

\* Lemma: every step keeps it, whatever storage errors come in between.
LEMMA CandidateStep == ReadyInv /\ CandidateInv /\ [Next]_vars => CandidateInv'
<1> SUFFICES ASSUME ReadyInv, CandidateInv, [Next]_vars PROVE CandidateInv'
  OBVIOUS
<1> USE StoreAssumption DEF ReadyInv, TypeOK, Files, Dirs, Content, Ops,
      Callers, Labels, files, RetainLabels, ReplaceLabels,
      Target, Source, CallerFits, CopiedSoFar, ReplacesFromJournal, CandidateInv
<1>1. CASE Startup
  <2>1. CASE DropEntry
    BY <2>1, RemoveEntryStep DEF DropEntry
  <2>2. CASE DropDone
    BY <2>2 DEF DropDone, RemoveDirectory, Return
  <2>3. CASE Restart \/ ResumePublish \/ ResumeDiscard \/ Reuse \/ Generate
    BY <2>3 DEF Restart, ResumePublish, ResumeDiscard, Reuse, Return, Generate
  <2> QED
    BY <1>1, <2>1, <2>2, <2>3 DEF Startup
<1>2. CASE Monitor
  BY <1>2 DEF Monitor, Candidate, ResolveIncomplete, ResolveMismatch, ResolvePublish,
       Monitoring, Call, PendingUsable
<1>3. CASE ClearEntry
  BY <1>3, RemoveEntryStep DEF ClearEntry
<1>4. CASE ClearDone
  BY <1>4 DEF ClearDone, RemoveDirectory, Goto
<1>5. CASE MakeDirectory \/ DirectoryExists
  BY <1>5 DEF MakeDirectory, DirectoryExists, Loop, Return, Raised
<1>6. CASE OpenCopy
  BY <1>6 DEF OpenCopy, Goto
<1>7. CASE WriteCopy
  BY <1>7 DEF WriteCopy, Loop, Goto
<1>8. CASE MarkReady
  BY <1>8 DEF MarkReady, Return, Loop
<1>9. CASE Validate \/ ValidateFails
  BY <1>9 DEF Validate, ValidateFails, Loop, Goto, Return, Raised
<1>10. CASE OpenReplacement \/ WriteReplacement
  BY <1>10 DEF OpenReplacement, WriteReplacement, Goto
<1>11. CASE Rename
  BY <1>11 DEF Rename, Loop, Goto
<1>12. CASE SweepEntry
  BY <1>12, RemoveEntryStep DEF SweepEntry
<1>13. CASE SweepDone
  BY <1>13 DEF SweepDone, RemoveDirectory, Return, Goto
<1>14. CASE DiscardEntry
  BY <1>14, RemoveEntryStep DEF DiscardEntry
<1>15. CASE DiscardDone
  BY <1>15 DEF DiscardDone, RemoveDirectory, Return
<1>16. CASE Failure
  BY <1>16 DEF Failure, Crash, OperationRaises, ClearIgnoresError,
       DropIgnoresError, StorageError, Raised
<1>17. CASE UNCHANGED vars
  BY <1>17 DEF vars
<1> QED
  BY <1>1, <1>2, <1>3, <1>4, <1>5, <1>6, <1>7, <1>8, <1>9, <1>10, <1>11, <1>12,
     <1>13, <1>14, <1>15, <1>16, <1>17 DEF Next, Retain, Publish, Discard

\* Lemma: only a newer candidate, a mismatch or a finished save takes a complete
\* candidate away.
LEMMA CandidateLost ==
    ASSUME ReadyInv, CandidateInv, Next, op \notin {"candidate", "mismatch"},
           "pending" \in ready, Complete("pending"),
           ~("pending" \in ready /\ Complete("pending"))'
    PROVE  \A f \in Files : published[f] = copy["pending"][f]
<1> USE StoreAssumption DEF ReadyInv, TypeOK, Files, Dirs, files, Target, Complete, OneVersion
<1>1. DiscardEntry \/ DiscardDone
  <2>1. ASSUME NEW d \in Dirs, RemoveEntry(d), d # "pending" PROVE FALSE
    BY <2>1, RemoveEntryStep
  <2>2. ~DropEntry /\ ~SweepEntry
    BY <2>1 DEF DropEntry, SweepEntry
  <2>3. ~ClearEntry
    BY <2>1 DEF ClearEntry
  <2>4. ~OpenCopy /\ ~WriteCopy
    BY DEF OpenCopy, WriteCopy
  <2>5. ~MarkReady
    BY DEF MarkReady
  <2> QED
    BY <2>2, <2>3, <2>4, <2>5 DEF Next, Startup, Monitor, Retain, Publish, Discard, Failure,
         Restart, ResumePublish, ResumeDiscard, DropDone, Reuse, Generate,
         Candidate, ResolveIncomplete, ResolveMismatch, ResolvePublish,
         ClearDone, MakeDirectory, DirectoryExists,
         Validate, ValidateFails, OpenReplacement, WriteReplacement, Rename,
         SweepDone, Crash, OperationRaises,
         ClearIgnoresError, DropIgnoresError, StorageError, RemoveDirectory, Call
<1>2. pc = "discard" /\ op \in {"resolve", "reject"}
  BY <1>1 DEF DiscardEntry, DiscardDone, CallerFits
<1> QED
  BY <1>2 DEF CandidateInv

\* A complete pending candidate is given up only for a newer one, for one that
\* Gluetun does not run, or when both published files are it, whatever crashes
\* and storage errors happen (supervisor.py, resolve_pending).
THEOREM CandidateIsKept == Spec => PendingKeptUntilSaved
<1>1. Init => CandidateInv
  BY DEF Init, CandidateInv
<1>2. ReadyInv /\ CandidateInv /\ [Next]_vars =>
        [("pending" \in ready /\ Complete("pending")
            /\ ~("pending" \in ready /\ Complete("pending"))')
         => \/ op \in {"candidate", "mismatch"}
            \/ \A f \in Files : published[f] = copy["pending"][f]]_vars
  BY CandidateLost
<1> QED
  BY <1>1, <1>2, CandidateStep, ReadyInvariant, PTL DEF Spec, PendingKeptUntilSaved

-----------------------------------------------------------------------------
\* Each file operation is a step of the register SavedPair, or changes nothing
\* it shows: the register's Commit is MarkReady of the journal.
LEMMA AtomicStep ==
    ASSUME "resolve" \notin StorageFaults
    PROVE  ReadyInv /\ JournalInv /\ [Next]_vars => [Atomic!Next]_(Atomic!vars)
<1> SUFFICES ASSUME ReadyInv, JournalInv, [Next]_vars
             PROVE  [Atomic!Next]_(Atomic!vars)
  OBVIOUS
<1> USE StoreAssumption DEF ReadyInv, TypeOK, Files, Dirs, Content, Ops,
      Callers, Labels, files, RetainLabels, ReplaceLabels, OneVersion, Complete,
      Target, Source, CallerFits, SourceIsOneVersion, CopiedSoFar, ReplacesFromJournal, Matched,
      ReadyHoldsOneVersion, MixedPairIsJournaled, JournalOnlyInPublish, JournalInv,
      SavedVersion, PublishedJob, Atomic!Next, Atomic!Begin, Atomic!Commit,
      Atomic!End, Atomic!vars
<1>1. CASE Restart
  BY <1>1 DEF Restart
<1>2. CASE ResumePublish
  BY <1>2 DEF ResumePublish
<1>3. CASE ResumeDiscard
  BY <1>3 DEF ResumeDiscard
<1>4. CASE DropEntry
  BY <1>4, RemoveEntryStep DEF DropEntry
<1>5. CASE DropDone
  BY <1>5 DEF DropDone, RemoveDirectory, Return
<1>6. CASE Reuse
  BY <1>6 DEF Reuse, Return
<1>7. CASE Generate
  BY <1>7 DEF Generate
<1>8. CASE Candidate
  BY <1>8 DEF Candidate, Monitoring, Call
<1>9. CASE ResolveIncomplete
  BY <1>9 DEF ResolveIncomplete, Monitoring, Call
<1>10. CASE ResolveMismatch
  BY <1>10 DEF ResolveMismatch, Monitoring, Call
<1>11. CASE ResolvePublish
  BY <1>11 DEF ResolvePublish, Monitoring, Call, PendingUsable, Valid
<1>12. CASE ClearEntry
  BY <1>12, RemoveEntryStep DEF ClearEntry
<1>13. CASE ClearDone
  BY <1>13 DEF ClearDone, RemoveDirectory, Goto, Target
<1>14. CASE MakeDirectory
  BY <1>14 DEF MakeDirectory, Loop, Target
<1>15. CASE DirectoryExists
  BY <1>15 DEF DirectoryExists, Return, Raised
<1>16. CASE OpenCopy
  BY <1>16 DEF OpenCopy, Goto, Target
<1>17. CASE WriteCopy
  BY <1>17 DEF WriteCopy, Loop, Goto, Target
<1>18. CASE MarkReady
  BY <1>18 DEF MarkReady, Return, Loop, Target
<1>19. CASE Validate
  BY <1>19 DEF Validate, Loop, Goto, Valid
<1>20. CASE ValidateFails
  BY <1>20 DEF ValidateFails, Return, Raised
<1>21. CASE OpenReplacement
  BY <1>21 DEF OpenReplacement, Goto
<1>22. CASE WriteReplacement
  BY <1>22 DEF WriteReplacement, Goto
<1>23. CASE Rename
  BY <1>23 DEF Rename, Loop, Goto
<1>24. CASE SweepEntry
  BY <1>24, RemoveEntryStep DEF SweepEntry
<1>25. CASE SweepDone
  BY <1>25 DEF SweepDone, RemoveDirectory, Return, Goto
<1>26. CASE DiscardEntry
  BY <1>26, RemoveEntryStep DEF DiscardEntry
<1>27. CASE DiscardDone
  BY <1>27 DEF DiscardDone, RemoveDirectory, Return
<1>28. CASE Crash
  BY <1>28 DEF Crash
<1>29. CASE OperationRaises
  BY <1>29 DEF OperationRaises, StorageError, Raised
<1>30. CASE ClearIgnoresError
  BY <1>30 DEF ClearIgnoresError, StorageError
<1>31. CASE DropIgnoresError
  BY <1>31 DEF DropIgnoresError, StorageError
<1>32. CASE UNCHANGED vars
  BY <1>32 DEF vars
<1> QED
  BY <1>1, <1>2, <1>3, <1>4, <1>5, <1>6, <1>7, <1>8, <1>9, <1>10, <1>11, <1>12, <1>13, <1>14, <1>15, <1>16, <1>17, <1>18, <1>19, <1>20, <1>21, <1>22, <1>23, <1>24, <1>25, <1>26, <1>27, <1>28, <1>29, <1>30, <1>31, <1>32
     DEF Next, Startup, Monitor, Retain, Publish, Discard, Failure

\* publish is atomic: the store implements the register SavedPair, across
\* crashes anywhere and storage errors in every call except the publication of
\* a pending candidate.
THEOREM StoreImplementsSavedPair ==
    ASSUME "resolve" \notin StorageFaults
    PROVE  Spec => PublishIsAtomic
<1>1. Init => JournalInv
  BY DEF Init, JournalInv, MixedPairIsJournaled, JournalOnlyInPublish, Matched,
       RetainLabels, ReplaceLabels, Files
<1>2. ReadyInv /\ JournalInv /\ [Next]_vars => JournalInv'
  BY JournalStep
<1>3. Init => Atomic!Init
  BY DEF Init, Atomic!Init, SavedVersion, PublishedJob, Matched, Files
<1>4. ReadyInv /\ JournalInv /\ [Next]_vars => [Atomic!Next]_(Atomic!vars)
  BY AtomicStep
<1> QED
  BY <1>1, <1>2, <1>3, <1>4, ReadyInvariant, PTL DEF Spec, PublishIsAtomic, Atomic!Spec
=============================================================================
