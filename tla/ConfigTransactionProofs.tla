----------------------- MODULE ConfigTransactionProofs -----------------------
(***************************************************************************)
(* Theorems about ConfigTransaction, for every set of runs, processes,     *)
(* transports, files, contents and faults.                                 *)
(***************************************************************************)
EXTENDS ConfigTransaction, TLAPS

USE DEF Content
USE DEF editVars, lockVars, planVars, resultVars, klipperVars

-----------------------------------------------------------------------------
(* Type correctness: what the shared steps of the actions keep.            *)

\* The positions, without the sets that group them.
LEMMA Positions ==
  Position = {"idle", "file", "interrupted", "done", "preflight", "review",
              "snapshot", "publish", "compare", "replace", "record",
              "moonraker", "restart", "waitready", "firmware", "active",
              "failed", "revalidate", "recheck", "verify", "reverify",
              "diagnose", "restored", "rverify", "rmoonraker", "rrestart",
              "rready"}
  BY DEF Position, Forward, Rollback, ReviewedScans, PlannedScans,
         RestoredScans, Scans

\* Moving to a position of the program.
LEMMA GotoType ==
  ASSUME TypeOK, NEW t \in Txn, NEW step \in Position, Goto(t, step)
  PROVE  pc' \in [Txn -> Position]
  BY DEF Goto, TypeOK

\* Starting a loop over files.
LEMMA LoopType ==
  ASSUME TypeOK, NEW t \in Txn, NEW step \in Position,
         NEW names \in SUBSET Files, Loop(t, step, names)
  PROVE  pc' \in [Txn -> Position] /\ todo' \in [Txn -> SUBSET Files]
  BY DEF Goto, Loop, TypeOK

\* Returning a result.
LEMMA ReturnType ==
  ASSUME TypeOK, NEW t \in Txn, NEW state \in Outcome,
         NEW recovered \in {"none", "ok", "failed"},
         Return(t, state, recovered)
  PROVE  /\ outcome' \in [Txn -> Outcome]
         /\ rollback' \in [Txn -> {"none", "ok", "failed"}]
         /\ holding' \in SUBSET Txn
         /\ fileLock' \in Txn \cup {Free}
         /\ pc' \in [Txn -> Position]
  BY Positions DEF Return, Goto, TypeOK

\* Raising inside the publication.
LEMMA RaiseType ==
  ASSUME TypeOK, NEW t \in Txn, NEW reason \in Cause, Raise(t, reason)
  PROVE  cause' \in [Txn -> Cause] /\ pc' \in [Txn -> Position]
  BY Positions DEF Raise, Goto, TypeOK

\* Returning from the rollback.
LEMMA RollbackReturnsType ==
  ASSUME TypeOK, NEW t \in Txn, NEW recovered \in BOOLEAN,
         RollbackReturns(t, recovered)
  PROVE  /\ outcome' \in [Txn -> Outcome]
         /\ rollback' \in [Txn -> {"none", "ok", "failed"}]
         /\ holding' \in SUBSET Txn
         /\ fileLock' \in Txn \cup {Free}
         /\ pc' \in [Txn -> Position]
<1>1. FailureState(cause[t]) \in Outcome /\ "ROLLBACK_FAILED" \in Outcome
  BY DEF FailureState, Outcome
<1> QED
  BY <1>1, ReturnType DEF RollbackReturns

\* Entering the rollback.
LEMMA StartRollbackType ==
  ASSUME TypeOK, NEW t \in Txn, StartRollback(t)
  PROVE  /\ outcome' \in [Txn -> Outcome]
         /\ rollback' \in [Txn -> {"none", "ok", "failed"}]
         /\ holding' \in SUBSET Txn
         /\ fileLock' \in Txn \cup {Free}
         /\ pc' \in [Txn -> Position]
         /\ todo' \in [Txn -> SUBSET Files]
<1>1. FailureState(cause[t]) \in Outcome
  BY DEF FailureState, Outcome
<1> QED
  BY <1>1, Positions, ReturnType, LoopType DEF StartRollback, TypeOK

\* A failed activation, on either way.
LEMMA ActivationFailsType ==
  ASSUME TypeOK, NEW t \in Txn, ActivationFails(t)
  PROVE  /\ outcome' \in [Txn -> Outcome]
         /\ rollback' \in [Txn -> {"none", "ok", "failed"}]
         /\ holding' \in SUBSET Txn
         /\ fileLock' \in Txn \cup {Free}
         /\ pc' \in [Txn -> Position]
         /\ cause' \in [Txn -> Cause]
  BY RollbackReturnsType, RaiseType DEF ActivationFails, TypeOK, Cause

\* Replacing a file.
LEMMA PublishType ==
  ASSUME TypeOK, NEW t \in Txn, Publish(t)
  PROVE  /\ live' \in [Files -> Content]
         /\ author' \in [Files -> Txn \cup {Free}]
         /\ displaced' \in [Txn -> [Files -> Content \cup {NotSaved}]]
         /\ touched' \in [Txn -> SUBSET Files]
         /\ raced' \in [Txn -> SUBSET Files]
<1>1. target[t] \in Files /\ Generated[t][target[t]] \in Content
  BY ConfigAssumption DEF TypeOK
<1>2. live' \in [Files -> Content] /\ author' \in [Files -> Txn \cup {Free}]
  BY <1>1 DEF Publish, TypeOK
<1>3. displaced' \in [Txn -> [Files -> Content \cup {NotSaved}]]
  BY <1>1 DEF Publish, TypeOK
<1>4. touched' \in [Txn -> SUBSET Files] /\ raced' \in [Txn -> SUBSET Files]
  BY <1>1 DEF Publish, TypeOK
<1> QED
  BY <1>2, <1>3, <1>4

\* Passing an exception on after recording a write.
LEMMA ReraiseType ==
  ASSUME TypeOK, NEW t \in Txn, Reraise(t)
  PROVE  /\ pc' \in [Txn -> Position]
         /\ fileLock' \in Txn \cup {Free}
         /\ holding' \in SUBSET Txn
  BY Positions DEF Reraise, Goto, TypeOK

-----------------------------------------------------------------------------
(* Type correctness of the actions.                                        *)

\* The initial states have the declared types.
LEMMA TypeInit == Init => TypeOK
  BY ConfigAssumption, Positions DEF Init, TypeOK, Cause, Outcome

\* What a run does by itself keeps the types.
LEMMA TypeWork ==
  ASSUME TypeOK, NEW t \in Txn, Work(t)
  PROVE  TypeOK'
<1> USE ConfigAssumption, Positions DEF TypeOK, Outcome, Cause
<1>1. CASE EnterProcess(t)
  BY <1>1, GotoType, LoopType DEF EnterProcess
<1>2. CASE AcquireFileLock(t)
  BY <1>2, LoopType DEF AcquireFileLock
<1>3. CASE FileLockTimeout(t)
  BY <1>3, ReturnType DEF FileLockTimeout
<1>4. CASE ReadBaseline(t)
  BY <1>4, LoopType DEF ReadBaseline
<1>5. CASE PreflightFails(t)
  BY <1>5, ReturnType DEF PreflightFails
<1>6. CASE ScanFile(t)
  BY <1>6 DEF ScanFile
<1>7. CASE ReviewedStateConflict(t)
  BY <1>7, ReturnType DEF ReviewedStateConflict
<1>8. CASE Revalidated(t)
  BY <1>8, GotoType DEF Revalidated
<1>9. CASE TakeSnapshot(t)
  BY <1>9, LoopType DEF TakeSnapshot, Changed, Artifacts
<1>10. CASE SnapshotFails(t)
  BY <1>10, ReturnType DEF SnapshotFails
<1>11. CASE Rechecked(t)
  BY <1>11, LoopType DEF Rechecked, Changed, Artifacts
<1>12. CASE PickArtifact(t)
  <2>1. PICK f \in NextArtifacts(t) : target' = [target EXCEPT ![t] = f]
    BY <1>12 DEF PickArtifact
  <2>2. target' \in [Txn -> Files]
    BY <2>1 DEF NextArtifacts
  <2> QED
    BY <1>12, <2>2, GotoType DEF PickArtifact
<1>13. CASE PickConflict(t)
  BY <1>13, RaiseType DEF PickConflict
<1>14. CASE CompareStaged(t)
  BY <1>14, GotoType DEF CompareStaged
<1>15. CASE ReplaceFile(t)
  BY <1>15, LoopType, PublishType DEF ReplaceFile
<1>16. CASE UploadRaises(t)
  BY <1>16, GotoType DEF UploadRaises
<1>17. CASE ReplaceThenRaise(t)
  BY <1>17, GotoType, PublishType DEF ReplaceThenRaise
<1>18. CASE RecordPossibleWrite(t)
  BY <1>18, ReraiseType DEF RecordPossibleWrite
<1>19. CASE RecordUnreadable(t)
  BY <1>19, ReraiseType DEF RecordUnreadable
<1>20. CASE PlanMismatch(t)
  BY <1>20, RaiseType DEF PlanMismatch
<1>21. CASE DeferActivation(t)
  BY <1>21, ReturnType DEF DeferActivation
<1>22. CASE BeginActivation(t)
  BY <1>22, GotoType DEF BeginActivation
<1>23. CASE RestartMoonraker(t)
  BY <1>23, GotoType DEF RestartMoonraker
<1>24. CASE RestartMoonrakerFails(t)
  BY <1>24, ActivationFailsType DEF RestartMoonrakerFails
<1>25. CASE RestartKlipper(t)
  BY <1>25, GotoType DEF RestartKlipper, KlipperRestarts
<1>26. CASE RestartKlipperFails(t)
  BY <1>26, ActivationFailsType DEF RestartKlipperFails, KlipperRestarts
<1>27. CASE VerifyFirmware(t)
  BY <1>27, GotoType, LoopType DEF VerifyFirmware
<1>28. CASE FirmwareMismatch(t)
  BY <1>28, RaiseType DEF FirmwareMismatch
<1>29. CASE VerifyActive(t)
  BY <1>29, LoopType DEF VerifyActive
<1>30. CASE ActiveMismatch(t)
  BY <1>30, RaiseType DEF ActiveMismatch
<1>31. CASE Commit(t)
  BY <1>31, ReturnType DEF Commit
<1>32. CASE PreserveProposal(t)
  BY <1>32, StartRollbackType DEF PreserveProposal
<1>33. CASE PreserveProposalFails(t)
  BY <1>33, ReturnType DEF PreserveProposalFails
<1>34. CASE RollbackMismatch(t)
  BY <1>34, RollbackReturnsType DEF RollbackMismatch
<1>35. CASE RollbackDiagnosed(t)
  BY <1>35, LoopType DEF RollbackDiagnosed
<1>36. CASE RollbackInactive(t)
  BY <1>36, RollbackReturnsType DEF RollbackInactive
<1>37. CASE RollbackActivates(t)
  BY <1>37, GotoType DEF RollbackActivates
<1>38. CASE RollbackVerified(t)
  BY <1>38, RollbackReturnsType DEF RollbackVerified
<1>39. CASE HandleInterrupt(t)
  BY <1>39, StartRollbackType DEF HandleInterrupt
<1> QED
  BY <1>1, <1>2, <1>3, <1>4, <1>5, <1>6, <1>7, <1>8, <1>9, <1>10, <1>11,
     <1>12, <1>13, <1>14, <1>15, <1>16, <1>17, <1>18, <1>19, <1>20, <1>21,
     <1>22, <1>23, <1>24, <1>25, <1>26, <1>27, <1>28, <1>29, <1>30, <1>31,
     <1>32, <1>33, <1>34, <1>35, <1>36, <1>37, <1>38, <1>39 DEF Work

\* Waiting for Klipper keeps the types.
LEMMA TypePoll ==
  ASSUME TypeOK, NEW t \in Txn, Poll(t)
  PROVE  TypeOK'
<1> USE ConfigAssumption, Positions DEF TypeOK, Outcome, Cause
<1>1. CASE SampleReady(t)
  <2>1. samples' = [samples EXCEPT ![t] = IF samples[t] = 0 THEN 1 ELSE 2]
    BY <1>1 DEF SampleReady
  <2>2. samples' \in [Txn -> 0 .. 2]
    BY <2>1
  <2> QED
    BY <1>1, <2>2, GotoType, LoopType DEF SampleReady
<1>2. CASE SampleNotReady(t)
  BY <1>2 DEF SampleNotReady
<1>3. CASE ReadyFails(t)
  BY <1>3, ActivationFailsType DEF ReadyFails
<1> QED
  BY <1>1, <1>2, <1>3 DEF Poll

\* The operator's answers keep the types.
LEMMA TypeOperator ==
  ASSUME TypeOK, NEW t \in Txn, Operator(t)
  PROVE  TypeOK'
<1> USE ConfigAssumption, Positions DEF TypeOK, Outcome, Cause
<1>1. CASE RejectPlan(t)
  BY <1>1, ReturnType DEF RejectPlan
<1>2. CASE DeclinePlan(t)
  BY <1>2, ReturnType DEF DeclinePlan
<1>3. CASE AcceptPlan(t)
  BY <1>3, LoopType DEF AcceptPlan
<1>4. CASE Interrupt(t)
  <2>1. CASE cause[t] = "interrupt"
    BY <1>4, <2>1, RollbackReturnsType DEF Interrupt
  <2>2. CASE cause[t] # "interrupt"
    <3>1. cause' = [cause EXCEPT ![t] = "interrupt"]
      BY <1>4, <2>2, Zenon DEF Interrupt
    <3>2. cause' \in [Txn -> Cause]
      BY <3>1
    <3> QED
      BY <1>4, <2>2, <3>2, GotoType DEF Interrupt
  <2> QED
    BY <2>1, <2>2
<1> QED
  BY <1>1, <1>2, <1>3, <1>4 DEF Operator

\* The editor, Klipper and a crash keep the types.
LEMMA TypeEnvironment ==
  ASSUME TypeOK, Environment
  PROVE  TypeOK'
<1>1. ASSUME NEW f \in Files, NEW content \in Content, EditFile(f, content)
      PROVE  TypeOK'
  BY <1>1, ConfigAssumption DEF EditFile, TypeOK
<1>2. CASE ForeignRestart
  BY <1>2, ConfigAssumption DEF ForeignRestart, KlipperRestarts, TypeOK
<1>3. CASE KlipperStarts
  BY <1>3, ConfigAssumption DEF KlipperStarts, TypeOK
<1>4. CASE KlipperFails
  BY <1>4, ConfigAssumption DEF KlipperFails, TypeOK
<1>5. ASSUME NEW p \in Process, Crash(p)
      PROVE  TypeOK'
  BY <1>5, ConfigAssumption DEF Crash, TypeOK, Position, Outcome
<1> QED
  BY <1>1, <1>2, <1>3, <1>4, <1>5 DEF Environment

\* Every step, and every stutter, keeps the types.
LEMMA TypeNext ==
  ASSUME TypeOK, [Next]_vars
  PROVE  TypeOK'
<1>1. CASE UNCHANGED vars
  BY <1>1 DEF vars, TypeOK
<1>2. CASE Next
  BY <1>2, TypeWork, TypePoll, TypeOperator, TypeEnvironment DEF Next
<1> QED
  BY <1>1, <1>2

\* Every variable keeps its type: in particular no run counts more than two
\* Ready samples and no lock is held by anything but a run.
THEOREM TypeCorrect == Spec => []TypeOK
  BY TypeInit, TypeNext, PTL DEF Spec

-----------------------------------------------------------------------------
(* The inductive invariant of publication.                                 *)

\* Before the originals of the plan are durable.
Early == {"idle", "file", "preflight", "review", "revalidate", "snapshot"}

Publishing == {"publish", "compare", "replace"}

\* Ctrl+C is the cause of nothing that still runs inside the file lock, and
\* of everything that left it by an exception.
CauseInv(t) ==
    /\ pc[t] \in {"idle", "file"} \cup (Forward \ {"record"})
        => cause[t] # "interrupt"
    /\ pc[t] = "interrupted" => cause[t] = "interrupt"

\* Serialized, for one run.
LockInv(t) ==
    /\ Cooperating(t) /\ pc[t] \in Forward \cup Rollback
    /\ cause[t] # "interrupt" \/ pc[t] = "record"
    => fileLock = t

\* A run that has no snapshot yet has overwritten nothing.
EarlyInv(t) ==
    pc[t] \in Early =>
        \A f \in Files : displaced[t][f] = NotSaved /\ author[f] # t

\* Only a plan the transport can condition is carried out.
PlanInv(t) ==
    pc[t] \in {"revalidate", "snapshot", "recheck"} \cup Publishing
        => PlanIsConditional(t)

\* The snapshot holds the reviewed bytes of what is going to be replaced.
SnapshotInv(t) ==
    pc[t] \in {"recheck"} \cup Publishing
        => \A f \in Changed(t) : snapshot[t][f] = baseline[t][f]

\* The loop over the changed artifacts: what it left behind is published, and
\* printer.cfg is the last one.
OrderInv(t) ==
    /\ pc[t] \in Publishing =>
        /\ todo[t] \subseteq Changed(t)
        /\ \A f \in Changed(t) \ todo[t] : displaced[t][f] # NotSaved
    /\ pc[t] \in {"compare", "replace"} =>
        /\ target[t] \in todo[t]
        /\ target[t] = Root => todo[t] = {Root}

\* Inside the last window only the external editor, or nobody, has changed
\* the target since it was compared; an absent target is compared again by
\* the replacement itself.
WindowInv(t) ==
    pc[t] = "replace" =>
        \/ target[t] \in raced[t]
        \/ baseline[t][target[t]] = Absent
        \/ live[target[t]] = baseline[t][target[t]]

IncludesInv(t) ==
    author[Root] = t => \A f \in Changed(t) : displaced[t][f] # NotSaved

RecoverInv(t) ==
    \A f \in Files :
        displaced[t][f] # NotSaved /\ f \notin raced[t]
            => snapshot[t][f] = displaced[t][f]

RunInv(t) == CauseInv(t) /\ LockInv(t)

PublicationInv(t) ==
    /\ EarlyInv(t) /\ PlanInv(t) /\ SnapshotInv(t) /\ OrderInv(t)
    /\ WindowInv(t) /\ IncludesInv(t) /\ RecoverInv(t)

IInv == TypeOK /\ \A t \in Txn : RunInv(t) /\ PublicationInv(t)

-----------------------------------------------------------------------------
(* What the shared steps do to the control state.                          *)

\* Only the position of the run itself changes.
LEMMA GotoEffect ==
  ASSUME TypeOK, NEW t \in Txn, NEW step, Goto(t, step)
  PROVE  pc'[t] = step /\ \A u \in Txn \ {t} : pc'[u] = pc[u]
  BY DEF Goto, TypeOK

\* Only the position and the loop of the run itself change.
LEMMA LoopEffect ==
  ASSUME TypeOK, NEW t \in Txn, NEW step, NEW names, Loop(t, step, names)
  PROVE  /\ pc'[t] = step /\ todo'[t] = names
         /\ \A u \in Txn \ {t} : pc'[u] = pc[u] /\ todo'[u] = todo[u]
  BY DEF Loop, Goto, TypeOK

\* A result ends the run, and frees no lock of another run.
LEMMA ReturnEffect ==
  ASSUME TypeOK, NEW t \in Txn, NEW state, NEW recovered,
         Return(t, state, recovered)
  PROVE  /\ pc'[t] = "done"
         /\ \A u \in Txn \ {t} : pc'[u] = pc[u]
         /\ \A u \in Txn \ {t} : fileLock = u => fileLock' = u
  BY DEF Return, Goto, TypeOK

\* An exception leads to the handler.
LEMMA RaiseEffect ==
  ASSUME TypeOK, NEW t \in Txn, NEW reason, Raise(t, reason)
  PROVE  /\ pc'[t] = "failed" /\ cause'[t] = reason
         /\ \A u \in Txn \ {t} : pc'[u] = pc[u] /\ cause'[u] = cause[u]
  BY DEF Raise, Goto, TypeOK

\* The end of a rollback ends the run.
LEMMA RollbackReturnsEffect ==
  ASSUME TypeOK, NEW t \in Txn, NEW recovered, RollbackReturns(t, recovered)
  PROVE  /\ pc'[t] = "done"
         /\ \A u \in Txn \ {t} : pc'[u] = pc[u]
         /\ \A u \in Txn \ {t} : fileLock = u => fileLock' = u
  BY ReturnEffect DEF RollbackReturns

\* The handler returns or starts to diagnose.
LEMMA StartRollbackEffect ==
  ASSUME TypeOK, NEW t \in Txn, StartRollback(t)
  PROVE  /\ pc'[t] = "done" \/ (pc'[t] = "diagnose" /\ fileLock' = fileLock)
         /\ \A u \in Txn \ {t} : pc'[u] = pc[u] /\ todo'[u] = todo[u]
         /\ \A u \in Txn \ {t} : fileLock = u => fileLock' = u
<1>1. CASE written[t] = {}
  <2>1. Return(t, FailureState(cause[t]), "none") /\ todo' = todo
    BY <1>1, Zenon DEF StartRollback
  <2>2. /\ pc'[t] = "done"
        /\ \A u \in Txn \ {t} : pc'[u] = pc[u]
        /\ \A u \in Txn \ {t} : fileLock = u => fileLock' = u
    BY <2>1, ReturnEffect
  <2> QED
    BY <2>1, <2>2
<1>2. CASE written[t] # {}
  BY <1>2, LoopEffect DEF StartRollback
<1> QED
  BY <1>1, <1>2

\* A failed activation ends the rollback or starts the handler.
LEMMA ActivationFailsEffect ==
  ASSUME TypeOK, NEW t \in Txn, ActivationFails(t)
  PROVE  /\ \/ pc'[t] = "done"
            \/ /\ pc[t] \notin Rollback /\ fileLock' = fileLock
               /\ pc'[t] = "failed" /\ cause'[t] = "activation"
         /\ \A u \in Txn \ {t} : pc'[u] = pc[u] /\ cause'[u] = cause[u]
         /\ \A u \in Txn \ {t} : fileLock = u => fileLock' = u
  BY RollbackReturnsEffect, RaiseEffect DEF ActivationFails

\* Ctrl+C leaves the file lock; an error stays inside.
LEMMA ReraiseEffect ==
  ASSUME TypeOK, NEW t \in Txn, Reraise(t)
  PROVE  /\ \/ cause[t] = "interrupt" /\ pc'[t] = "interrupted"
            \/ /\ cause[t] # "interrupt" /\ pc'[t] = "failed"
               /\ fileLock' = fileLock
         /\ \A u \in Txn \ {t} : pc'[u] = pc[u]
         /\ \A u \in Txn \ {t} : fileLock = u => fileLock' = u
<1>1. Goto(t, IF cause[t] = "interrupt" THEN "interrupted" ELSE "failed")
  BY DEF Reraise
<1>2. /\ cause[t] # "interrupt" => fileLock' = fileLock
      /\ \A u \in Txn \ {t} : fileLock = u => fileLock' = u
  BY DEF Reraise
<1> QED
  BY <1>1, <1>2, GotoEffect

\* A replacement changes its target and nothing else.
LEMMA PublishEffect ==
  ASSUME TypeOK, NEW t \in Txn, Publish(t)
  PROVE  /\ displaced'[t][target[t]] = live[target[t]]
         /\ \A f \in Files \ {target[t]} :
               /\ displaced'[t][f] = displaced[t][f]
               /\ live'[f] = live[f]
               /\ author'[f] = author[f]
         /\ \A u \in Txn \ {t} : displaced'[u] = displaced[u]
         /\ author'[target[t]] = t
         /\ raced' = raced
  BY DEF Publish, TypeOK

\* An assignment to the cause of one run.
LEMMA UploadCauseEffect ==
  ASSUME TypeOK, NEW t \in Txn, NEW reason,
         cause' = [cause EXCEPT ![t] = reason]
  PROVE  cause'[t] = reason /\ \A u \in Txn \ {t} : cause'[u] = cause[u]
  BY DEF TypeOK

\* One step of a run by itself, waiting for Klipper, or by its operator.
Step(t) == Work(t) \/ Poll(t) \/ Operator(t)

\* A step of a run leaves the plans and positions of the others alone, and
\* takes the file lock from nobody.
LEMMA Others ==
  ASSUME TypeOK, NEW t \in Txn, Step(t), NEW u \in Txn \ {t}
  PROVE  /\ pc'[u] = pc[u] /\ cause'[u] = cause[u]
         /\ todo'[u] = todo[u] /\ target'[u] = target[u]
         /\ baseline'[u] = baseline[u] /\ snapshot'[u] = snapshot[u]
         /\ displaced'[u] = displaced[u] /\ raced' = raced
         /\ \A f \in Files : author'[f] \in {author[f], t}
         /\ fileLock = u => fileLock' = u
<1> USE ConfigAssumption DEF TypeOK
<1>1. CASE EnterProcess(t)
  BY <1>1, GotoEffect, LoopEffect DEF EnterProcess
<1>2. CASE AcquireFileLock(t)
  BY <1>2, LoopEffect DEF AcquireFileLock
<1>3. CASE FileLockTimeout(t)
  BY <1>3, ReturnEffect DEF FileLockTimeout
<1>4. CASE ReadBaseline(t)
  BY <1>4, LoopEffect DEF ReadBaseline
<1>5. CASE PreflightFails(t)
  BY <1>5, ReturnEffect DEF PreflightFails
<1>6. CASE ScanFile(t)
  BY <1>6 DEF ScanFile
<1>7. CASE ReviewedStateConflict(t)
  BY <1>7, ReturnEffect DEF ReviewedStateConflict
<1>8. CASE Revalidated(t)
  BY <1>8, GotoEffect DEF Revalidated
<1>9. CASE TakeSnapshot(t)
  BY <1>9, LoopEffect DEF TakeSnapshot
<1>10. CASE SnapshotFails(t)
  BY <1>10, ReturnEffect DEF SnapshotFails
<1>11. CASE Rechecked(t)
  BY <1>11, LoopEffect DEF Rechecked
<1>12. CASE PickArtifact(t)
  BY <1>12, GotoEffect DEF PickArtifact
<1>13. CASE PickConflict(t)
  BY <1>13, RaiseEffect DEF PickConflict
<1>14. CASE CompareStaged(t)
  BY <1>14, GotoEffect DEF CompareStaged
<1>15. CASE ReplaceFile(t)
  BY <1>15, LoopEffect, PublishEffect DEF ReplaceFile
<1>16. CASE UploadRaises(t)
  BY <1>16, GotoEffect, UploadCauseEffect DEF UploadRaises
<1>17. CASE ReplaceThenRaise(t)
  BY <1>17, GotoEffect, PublishEffect, UploadCauseEffect DEF
     ReplaceThenRaise
<1>18. CASE RecordPossibleWrite(t)
  BY <1>18, ReraiseEffect DEF RecordPossibleWrite
<1>19. CASE RecordUnreadable(t)
  BY <1>19, ReraiseEffect DEF RecordUnreadable
<1>20. CASE PlanMismatch(t)
  BY <1>20, RaiseEffect DEF PlanMismatch
<1>21. CASE DeferActivation(t)
  BY <1>21, ReturnEffect DEF DeferActivation
<1>22. CASE BeginActivation(t)
  BY <1>22, GotoEffect DEF BeginActivation
<1>23. CASE RestartMoonraker(t)
  BY <1>23, GotoEffect DEF RestartMoonraker
<1>24. CASE RestartMoonrakerFails(t)
  BY <1>24, ActivationFailsEffect DEF RestartMoonrakerFails
<1>25. CASE RestartKlipper(t)
  BY <1>25, GotoEffect DEF RestartKlipper, KlipperRestarts
<1>26. CASE RestartKlipperFails(t)
  BY <1>26, ActivationFailsEffect DEF RestartKlipperFails, KlipperRestarts
<1>27. CASE VerifyFirmware(t)
  BY <1>27, GotoEffect, LoopEffect DEF VerifyFirmware
<1>28. CASE FirmwareMismatch(t)
  BY <1>28, RaiseEffect DEF FirmwareMismatch
<1>29. CASE VerifyActive(t)
  BY <1>29, LoopEffect DEF VerifyActive
<1>30. CASE ActiveMismatch(t)
  BY <1>30, RaiseEffect DEF ActiveMismatch
<1>31. CASE Commit(t)
  BY <1>31, ReturnEffect DEF Commit
<1>32. CASE PreserveProposal(t)
  BY <1>32, StartRollbackEffect DEF PreserveProposal
<1>33. CASE PreserveProposalFails(t)
  BY <1>33, ReturnEffect DEF PreserveProposalFails
<1>34. CASE RollbackMismatch(t)
  BY <1>34, RollbackReturnsEffect DEF RollbackMismatch
<1>35. CASE RollbackDiagnosed(t)
  BY <1>35, LoopEffect DEF RollbackDiagnosed
<1>36. CASE RollbackInactive(t)
  BY <1>36, RollbackReturnsEffect DEF RollbackInactive
<1>37. CASE RollbackActivates(t)
  BY <1>37, GotoEffect DEF RollbackActivates
<1>38. CASE RollbackVerified(t)
  BY <1>38, RollbackReturnsEffect DEF RollbackVerified
<1>39. CASE HandleInterrupt(t)
  BY <1>39, StartRollbackEffect DEF HandleInterrupt
<1>40. CASE SampleReady(t)
  BY <1>40, GotoEffect, LoopEffect DEF SampleReady
<1>41. CASE SampleNotReady(t)
  BY <1>41 DEF SampleNotReady
<1>42. CASE ReadyFails(t)
  BY <1>42, ActivationFailsEffect DEF ReadyFails
<1>43. CASE RejectPlan(t)
  BY <1>43, ReturnEffect DEF RejectPlan
<1>44. CASE DeclinePlan(t)
  BY <1>44, ReturnEffect DEF DeclinePlan
<1>45. CASE AcceptPlan(t)
  BY <1>45, LoopEffect DEF AcceptPlan
<1>46. CASE Interrupt(t)
  BY <1>46, GotoEffect, RollbackReturnsEffect, UploadCauseEffect DEF
     Interrupt
<1> QED
  BY <1>1, <1>2, <1>3, <1>4, <1>5, <1>6, <1>7, <1>8, <1>9, <1>10, <1>11,
     <1>12, <1>13, <1>14, <1>15, <1>16, <1>17, <1>18, <1>19, <1>20, <1>21,
     <1>22, <1>23, <1>24, <1>25, <1>26, <1>27, <1>28, <1>29, <1>30, <1>31,
     <1>32, <1>33, <1>34, <1>35, <1>36, <1>37, <1>38, <1>39, <1>40, <1>41,
     <1>42, <1>43, <1>44, <1>45, <1>46 DEF Step, Work, Poll, Operator

\* The invariant of the file lock is kept by the run itself.
LEMMA RunKeepsLock ==
  ASSUME TypeOK, NEW t \in Txn, Step(t), RunInv(t)
  PROVE  RunInv(t)'
<1> USE ConfigAssumption
    DEF TypeOK, RunInv, CauseInv, LockInv, Forward, Rollback, ReviewedScans,
        PlannedScans, RestoredScans, Scans, Polls, Cooperating
<1>1. CASE EnterProcess(t)
  BY <1>1, GotoEffect, LoopEffect DEF EnterProcess
<1>2. CASE AcquireFileLock(t)
  BY <1>2, LoopEffect DEF AcquireFileLock
<1>3. CASE FileLockTimeout(t)
  BY <1>3, ReturnEffect DEF FileLockTimeout
<1>4. CASE ReadBaseline(t)
  BY <1>4, LoopEffect DEF ReadBaseline
<1>5. CASE PreflightFails(t)
  BY <1>5, ReturnEffect DEF PreflightFails
<1>6. CASE ScanFile(t)
  BY <1>6 DEF ScanFile
<1>7. CASE ReviewedStateConflict(t)
  BY <1>7, ReturnEffect DEF ReviewedStateConflict
<1>8. CASE Revalidated(t)
  BY <1>8, GotoEffect DEF Revalidated
<1>9. CASE TakeSnapshot(t)
  BY <1>9, LoopEffect DEF TakeSnapshot
<1>10. CASE SnapshotFails(t)
  BY <1>10, ReturnEffect DEF SnapshotFails
<1>11. CASE Rechecked(t)
  BY <1>11, LoopEffect DEF Rechecked
<1>12. CASE PickArtifact(t)
  BY <1>12, GotoEffect DEF PickArtifact
<1>13. CASE PickConflict(t)
  BY <1>13, RaiseEffect DEF PickConflict
<1>14. CASE CompareStaged(t)
  BY <1>14, GotoEffect DEF CompareStaged
<1>15. CASE ReplaceFile(t)
  BY <1>15, LoopEffect, PublishEffect DEF ReplaceFile
<1>16. CASE UploadRaises(t)
  BY <1>16, GotoEffect, UploadCauseEffect DEF UploadRaises
<1>17. CASE ReplaceThenRaise(t)
  BY <1>17, GotoEffect, PublishEffect, UploadCauseEffect DEF
     ReplaceThenRaise
<1>18. CASE RecordPossibleWrite(t)
  BY <1>18, ReraiseEffect DEF RecordPossibleWrite
<1>19. CASE RecordUnreadable(t)
  BY <1>19, ReraiseEffect DEF RecordUnreadable
<1>20. CASE PlanMismatch(t)
  BY <1>20, RaiseEffect DEF PlanMismatch
<1>21. CASE DeferActivation(t)
  BY <1>21, ReturnEffect DEF DeferActivation
<1>22. CASE BeginActivation(t)
  BY <1>22, GotoEffect DEF BeginActivation
<1>23. CASE RestartMoonraker(t)
  BY <1>23, GotoEffect DEF RestartMoonraker
<1>24. CASE RestartMoonrakerFails(t)
  BY <1>24, ActivationFailsEffect DEF RestartMoonrakerFails
<1>25. CASE RestartKlipper(t)
  BY <1>25, GotoEffect DEF RestartKlipper, KlipperRestarts
<1>26. CASE RestartKlipperFails(t)
  BY <1>26, ActivationFailsEffect DEF RestartKlipperFails, KlipperRestarts
<1>27. CASE VerifyFirmware(t)
  BY <1>27, GotoEffect, LoopEffect DEF VerifyFirmware
<1>28. CASE FirmwareMismatch(t)
  BY <1>28, RaiseEffect DEF FirmwareMismatch
<1>29. CASE VerifyActive(t)
  BY <1>29, LoopEffect DEF VerifyActive
<1>30. CASE ActiveMismatch(t)
  BY <1>30, RaiseEffect DEF ActiveMismatch
<1>31. CASE Commit(t)
  BY <1>31, ReturnEffect DEF Commit
<1>32. CASE PreserveProposal(t)
  BY <1>32, StartRollbackEffect DEF PreserveProposal
<1>33. CASE PreserveProposalFails(t)
  BY <1>33, ReturnEffect DEF PreserveProposalFails
<1>34. CASE RollbackMismatch(t)
  BY <1>34, RollbackReturnsEffect DEF RollbackMismatch
<1>35. CASE RollbackDiagnosed(t)
  BY <1>35, LoopEffect DEF RollbackDiagnosed
<1>36. CASE RollbackInactive(t)
  BY <1>36, RollbackReturnsEffect DEF RollbackInactive
<1>37. CASE RollbackActivates(t)
  BY <1>37, GotoEffect DEF RollbackActivates
<1>38. CASE RollbackVerified(t)
  BY <1>38, RollbackReturnsEffect DEF RollbackVerified
<1>39. CASE HandleInterrupt(t)
  BY <1>39, StartRollbackEffect DEF HandleInterrupt
<1>40. CASE SampleReady(t)
  BY <1>40, GotoEffect, LoopEffect DEF SampleReady
<1>41. CASE SampleNotReady(t)
  BY <1>41 DEF SampleNotReady
<1>42. CASE ReadyFails(t)
  BY <1>42, ActivationFailsEffect DEF ReadyFails
<1>43. CASE RejectPlan(t)
  BY <1>43, ReturnEffect DEF RejectPlan
<1>44. CASE DeclinePlan(t)
  BY <1>44, ReturnEffect DEF DeclinePlan
<1>45. CASE AcceptPlan(t)
  BY <1>45, LoopEffect DEF AcceptPlan
<1>46. CASE Interrupt(t)
  <2>1. CASE cause[t] = "interrupt"
    BY <1>46, <2>1, RollbackReturnsEffect DEF Interrupt
  <2>2. CASE cause[t] # "interrupt"
    <3>1. Goto(t, "interrupted") /\ cause' = [cause EXCEPT ![t] = "interrupt"]
      BY <1>46, <2>2, Zenon DEF Interrupt
    <3> QED
      BY <3>1, GotoEffect, UploadCauseEffect
  <2> QED
    BY <2>1, <2>2
<1> QED
  BY <1>1, <1>2, <1>3, <1>4, <1>5, <1>6, <1>7, <1>8, <1>9, <1>10, <1>11,
     <1>12, <1>13, <1>14, <1>15, <1>16, <1>17, <1>18, <1>19, <1>20, <1>21,
     <1>22, <1>23, <1>24, <1>25, <1>26, <1>27, <1>28, <1>29, <1>30, <1>31,
     <1>32, <1>33, <1>34, <1>35, <1>36, <1>37, <1>38, <1>39, <1>40, <1>41,
     <1>42, <1>43, <1>44, <1>45, <1>46 DEF Step, Work, Poll, Operator

\* The environment leaves every run where it is; a crash ends it.
LEMMA EnvironmentEffect ==
  ASSUME TypeOK, Environment, NEW u \in Txn
  PROVE  /\ cause' = cause
         /\ pc'[u] = "done" \/ (pc'[u] = pc[u] /\ (fileLock = u => fileLock' = u))
         /\ UNCHANGED <<todo, target, displaced, planVars>>
         /\ \A f \in Files : author'[f] \in {author[f], Free}
<1> USE ConfigAssumption DEF TypeOK
<1>1. ASSUME NEW f \in Files, NEW content \in Content, EditFile(f, content)
      PROVE  author' = [author EXCEPT ![f] = Free]
  BY <1>1 DEF EditFile
<1>2. CASE \E f \in Files, content \in Content : EditFile(f, content)
  BY <1>1, <1>2 DEF EditFile
<1>3. CASE ForeignRestart
  BY <1>3 DEF ForeignRestart
<1>4. CASE KlipperStarts
  BY <1>4 DEF KlipperStarts
<1>5. CASE KlipperFails
  BY <1>5 DEF KlipperFails
<1>6. ASSUME NEW p \in Process, Crash(p)
      PROVE  /\ pc'[u] = "done" \/ (pc'[u] = pc[u] /\ (fileLock = u => fileLock' = u))
             /\ UNCHANGED <<cause, todo, target, displaced, planVars, author>>
  <2> DEFINE dead == {t \in Txn : ProcessOf[t] = p /\ pc[t] \notin {"idle", "done"}}
  <2>1. /\ pc' = [t \in Txn |-> IF t \in dead THEN "done" ELSE pc[t]]
        /\ fileLock' = IF fileLock \in dead THEN Free ELSE fileLock
        /\ UNCHANGED <<cause, todo, target, displaced, planVars, author>>
    BY <1>6 DEF Crash
  <2> HIDE DEF dead
  <2>2. CASE u \in dead
    BY <2>1, <2>2
  <2>3. CASE u \notin dead
    BY <2>1, <2>3
  <2> QED
    BY <2>2, <2>3
<1> QED
  BY <1>2, <1>3, <1>4, <1>5, <1>6 DEF Environment

\* Every run stays inside the file lock.
LEMMA RunInvariant ==
  ASSUME TypeOK, \A t \in Txn : RunInv(t), [Next]_vars
  PROVE  \A t \in Txn : RunInv(t)'
<1> SUFFICES ASSUME NEW u \in Txn PROVE RunInv(u)'
  OBVIOUS
<1> USE DEF RunInv, CauseInv, LockInv, Forward, Rollback, ReviewedScans,
            PlannedScans, RestoredScans, Scans, Cooperating
<1>1. ASSUME NEW t \in Txn, Step(t), t = u
      PROVE  RunInv(u)'
  BY <1>1, RunKeepsLock
<1>2. ASSUME NEW t \in Txn, Step(t), t # u
      PROVE  RunInv(u)'
  <2>1. pc'[u] = pc[u] /\ cause'[u] = cause[u] /\ (fileLock = u => fileLock' = u)
    BY <1>2, Others
  <2> QED
    BY <2>1
<1>3. CASE Environment
  <2>1. /\ cause'[u] = cause[u]
        /\ pc'[u] = "done" \/ (pc'[u] = pc[u] /\ (fileLock = u => fileLock' = u))
    BY <1>3, EnvironmentEffect
  <2> QED
    BY <2>1
<1>4. CASE UNCHANGED vars
  BY <1>4 DEF vars
<1> QED
  BY <1>1, <1>2, <1>3, <1>4 DEF Next, Step

\* The steps on the way to a published plan; the other ones end up outside
\* and touch no file.
Advance(t) ==
    \/ EnterProcess(t) \/ AcquireFileLock(t) \/ ReadBaseline(t) \/ AcceptPlan(t)
    \/ ScanFile(t) \/ Revalidated(t) \/ TakeSnapshot(t) \/ Rechecked(t)
    \/ PickArtifact(t) \/ CompareStaged(t) \/ ReplaceFile(t)
    \/ ReplaceThenRaise(t)

Quiet(t) ==
    /\ pc'[t] \notin Early \cup {"recheck"} \cup Publishing
    /\ UNCHANGED <<live, author, displaced, raced, baseline, snapshot>>

\* Every step of a run is on the way to a published plan, or quiet.
LEMMA QuietSteps ==
  ASSUME TypeOK, NEW t \in Txn, Step(t)
  PROVE  Advance(t) \/ Quiet(t)
<1> USE DEF TypeOK, Quiet, Early, Publishing, Polls
<1>1. CASE FileLockTimeout(t)
  BY <1>1, ReturnEffect DEF FileLockTimeout
<1>2. CASE PreflightFails(t)
  BY <1>2, ReturnEffect DEF PreflightFails
<1>3. CASE ReviewedStateConflict(t)
  BY <1>3, ReturnEffect DEF ReviewedStateConflict
<1>4. CASE SnapshotFails(t)
  BY <1>4, ReturnEffect DEF SnapshotFails
<1>5. CASE PickConflict(t)
  BY <1>5, RaiseEffect DEF PickConflict
<1>6. CASE UploadRaises(t)
  BY <1>6, GotoEffect DEF UploadRaises
<1>7. CASE RecordPossibleWrite(t)
  BY <1>7, ReraiseEffect DEF RecordPossibleWrite
<1>8. CASE RecordUnreadable(t)
  BY <1>8, ReraiseEffect DEF RecordUnreadable
<1>9. CASE PlanMismatch(t)
  BY <1>9, RaiseEffect DEF PlanMismatch
<1>10. CASE DeferActivation(t)
  BY <1>10, ReturnEffect DEF DeferActivation
<1>11. CASE BeginActivation(t)
  BY <1>11, GotoEffect DEF BeginActivation
<1>12. CASE RestartMoonraker(t)
  BY <1>12, GotoEffect DEF RestartMoonraker
<1>13. CASE RestartMoonrakerFails(t)
  BY <1>13, ActivationFailsEffect DEF RestartMoonrakerFails
<1>14. CASE RestartKlipper(t)
  BY <1>14, GotoEffect DEF RestartKlipper, KlipperRestarts
<1>15. CASE RestartKlipperFails(t)
  BY <1>15, ActivationFailsEffect DEF RestartKlipperFails, KlipperRestarts
<1>16. CASE VerifyFirmware(t)
  BY <1>16, GotoEffect, LoopEffect DEF VerifyFirmware
<1>17. CASE FirmwareMismatch(t)
  BY <1>17, RaiseEffect DEF FirmwareMismatch
<1>18. CASE VerifyActive(t)
  BY <1>18, LoopEffect DEF VerifyActive
<1>19. CASE ActiveMismatch(t)
  BY <1>19, RaiseEffect DEF ActiveMismatch
<1>20. CASE Commit(t)
  BY <1>20, ReturnEffect DEF Commit
<1>21. CASE PreserveProposal(t)
  BY <1>21, StartRollbackEffect DEF PreserveProposal
<1>22. CASE PreserveProposalFails(t)
  BY <1>22, ReturnEffect DEF PreserveProposalFails
<1>23. CASE RollbackMismatch(t)
  BY <1>23, RollbackReturnsEffect DEF RollbackMismatch
<1>24. CASE RollbackDiagnosed(t)
  BY <1>24, LoopEffect DEF RollbackDiagnosed
<1>25. CASE RollbackInactive(t)
  BY <1>25, RollbackReturnsEffect DEF RollbackInactive
<1>26. CASE RollbackActivates(t)
  BY <1>26, GotoEffect DEF RollbackActivates
<1>27. CASE RollbackVerified(t)
  BY <1>27, RollbackReturnsEffect DEF RollbackVerified
<1>28. CASE HandleInterrupt(t)
  BY <1>28, StartRollbackEffect DEF HandleInterrupt
<1>29. CASE SampleReady(t)
  BY <1>29, GotoEffect, LoopEffect DEF SampleReady
<1>30. CASE SampleNotReady(t)
  BY <1>30 DEF SampleNotReady
<1>31. CASE ReadyFails(t)
  BY <1>31, ActivationFailsEffect DEF ReadyFails
<1>32. CASE RejectPlan(t)
  BY <1>32, ReturnEffect DEF RejectPlan
<1>33. CASE DeclinePlan(t)
  BY <1>33, ReturnEffect DEF DeclinePlan
<1>34. CASE Interrupt(t)
  <2>1. pc'[t] \in {"done", "interrupted"}
    BY <1>34, GotoEffect, RollbackReturnsEffect DEF Interrupt
  <2> QED
    BY <1>34, <2>1 DEF Interrupt
<1> QED
  BY <1>1, <1>2, <1>3, <1>4, <1>5, <1>6, <1>7, <1>8, <1>9, <1>10, <1>11,
     <1>12, <1>13, <1>14, <1>15, <1>16, <1>17, <1>18, <1>19, <1>20, <1>21,
     <1>22, <1>23, <1>24, <1>25, <1>26, <1>27, <1>28, <1>29, <1>30, <1>31,
     <1>32, <1>33, <1>34 DEF Step, Work, Poll, Operator, Advance

\* What a plan depends on.
LEMMA PlanFrame ==
  ASSUME NEW u \in Txn, baseline'[u] = baseline[u]
  PROVE  Changed(u)' = Changed(u) /\ PlanIsConditional(u)' = PlanIsConditional(u)
<1>1. Artifacts(u)' = Artifacts(u)
  BY DEF Artifacts
<1>2. Changed(u)' = Changed(u)
  BY <1>1 DEF Changed
<1> QED
  BY <1>2 DEF PlanIsConditional, SupportsConditionalWrite

\* The changed artifacts are files of the root.
LEMMA ChangedType ==
  ASSUME TypeOK, NEW u \in Txn
  PROVE  Changed(u) \subseteq Files
  BY ConfigAssumption DEF Changed, Artifacts

\* A quiet step.
LEMMA QuietKeeps ==
  ASSUME TypeOK, NEW t \in Txn, Quiet(t), PublicationInv(t)
  PROVE  PublicationInv(t)'
<1>1. Changed(t)' = Changed(t)
  BY PlanFrame DEF Quiet
<1> QED
  BY <1>1 DEF Quiet, PublicationInv, EarlyInv, PlanInv, SnapshotInv, OrderInv,
              WindowInv, IncludesInv, RecoverInv, Early, Publishing

\* The steps before the first replacement.
LEMMA BeforePublication ==
  ASSUME TypeOK, NEW t \in Txn, PublicationInv(t),
         \/ EnterProcess(t) \/ AcquireFileLock(t) \/ ReadBaseline(t)
         \/ AcceptPlan(t) \/ ScanFile(t) \/ Revalidated(t)
  PROVE  PublicationInv(t)'
<1> USE ConfigAssumption
    DEF TypeOK, PublicationInv, EarlyInv, PlanInv, SnapshotInv, OrderInv,
        WindowInv, IncludesInv, RecoverInv, Early, Publishing
<1>1. CASE EnterProcess(t)
  <2>1. pc'[t] \in {"file", "preflight"} /\ baseline' = baseline
    BY <1>1, GotoEffect, LoopEffect DEF EnterProcess
  <2> QED
    BY <1>1, <2>1, PlanFrame DEF EnterProcess
<1>2. CASE AcquireFileLock(t)
  <2>1. pc'[t] = "preflight" /\ baseline' = baseline
    BY <1>2, LoopEffect DEF AcquireFileLock
  <2> QED
    BY <1>2, <2>1, PlanFrame DEF AcquireFileLock
<1>3. CASE ReadBaseline(t)
  <2>1. pc'[t] \in {"preflight", "review"}
    BY <1>3, LoopEffect DEF ReadBaseline
  <2> QED
    BY <1>3, <2>1 DEF ReadBaseline
<1>4. CASE AcceptPlan(t)
  <2>1. pc'[t] = "revalidate" /\ baseline' = baseline
    BY <1>4, LoopEffect DEF AcceptPlan
  <2> QED
    BY <1>4, <2>1, PlanFrame DEF AcceptPlan
<1>5. CASE ScanFile(t)
  <2>1. pc' = pc /\ baseline' = baseline
    BY <1>5 DEF ScanFile
  <2>2. pc[t] \notin Publishing
    BY <1>5 DEF ScanFile, Scans, ReviewedScans, PlannedScans, RestoredScans
  <2> QED
    BY <1>5, <2>1, <2>2, PlanFrame DEF ScanFile
<1>6. CASE Revalidated(t)
  <2>1. pc'[t] = "snapshot" /\ baseline' = baseline
    BY <1>6, GotoEffect DEF Revalidated
  <2> QED
    BY <1>6, <2>1, PlanFrame DEF Revalidated
<1> QED
  BY <1>1, <1>2, <1>3, <1>4, <1>5, <1>6

\* The snapshot, and the way to the last window.
LEMMA ToTheWindow ==
  ASSUME TypeOK, NEW t \in Txn, PublicationInv(t),
         TakeSnapshot(t) \/ Rechecked(t) \/ PickArtifact(t) \/ CompareStaged(t)
  PROVE  PublicationInv(t)'
<1> USE ConfigAssumption
    DEF TypeOK, PublicationInv, EarlyInv, PlanInv, SnapshotInv, OrderInv,
        WindowInv, IncludesInv, RecoverInv, Early, Publishing
<1>0. /\ baseline' = baseline
      /\ Changed(t)' = Changed(t)
      /\ PlanIsConditional(t)' = PlanIsConditional(t)
  <2>1. baseline' = baseline
    BY DEF TakeSnapshot, Rechecked, PickArtifact, CompareStaged
  <2> QED
    BY <2>1, PlanFrame
<1>1. CASE TakeSnapshot(t)
  <2>1. pc[t] = "snapshot" /\ pc'[t] = "recheck"
    BY <1>1, LoopEffect DEF TakeSnapshot
  <2>2. \A f \in Changed(t) : snapshot'[t][f] = baseline[t][f]
    BY <1>1, ChangedType DEF TakeSnapshot
  <2> QED
    BY <1>0, <1>1, <2>1, <2>2 DEF TakeSnapshot
<1>2. CASE Rechecked(t)
  <2>1. \/ pc'[t] = "verify"
        \/ pc'[t] = "publish" /\ todo'[t] = Changed(t)
    BY <1>2, LoopEffect DEF Rechecked
  <2> QED
    BY <1>0, <1>2, <2>1 DEF Rechecked
<1>3. CASE PickArtifact(t)
  <2>1. PICK f \in NextArtifacts(t) :
           live[f] = baseline[t][f] /\ target' = [target EXCEPT ![t] = f]
    BY <1>3 DEF PickArtifact
  <2>2. pc'[t] \in {"compare", "replace"}
    BY <1>3, GotoEffect DEF PickArtifact
  <2>3. target'[t] = f /\ f \in todo[t] /\ (f = Root => todo[t] = {Root})
    BY <2>1 DEF NextArtifacts
  <2> QED
    BY <1>0, <1>3, <2>1, <2>2, <2>3 DEF PickArtifact
<1>4. CASE CompareStaged(t)
  <2>1. pc[t] = "compare" /\ pc'[t] = "replace"
    BY <1>4, GotoEffect DEF CompareStaged
  <2> QED
    BY <1>0, <1>4, <2>1 DEF CompareStaged
<1> QED
  BY <1>1, <1>2, <1>3, <1>4

\* The replacement.  Its bytes are the ones in the snapshot, unless the
\* editor came in between.
LEMMA ReplacementIsRecoverable ==
  ASSUME TypeOK, NEW t \in Txn, PublicationInv(t), pc[t] = "replace",
         MayReplace(t), Publish(t), baseline' = baseline, snapshot' = snapshot
  PROVE  RecoverInv(t)' /\ IncludesInv(t)'
<1> USE DEF TypeOK
<1>1. Changed(t)' = Changed(t)
  BY PlanFrame
<1>2. /\ target[t] \in Changed(t) /\ target[t] \in todo[t]
      /\ target[t] = Root => todo[t] = {Root}
      /\ snapshot[t][target[t]] = baseline[t][target[t]]
      /\ \A f \in Changed(t) \ todo[t] : displaced[t][f] # NotSaved
  BY DEF PublicationInv, OrderInv, SnapshotInv, Publishing
<1>3. target[t] \in raced[t] \/ live[target[t]] = snapshot[t][target[t]]
  BY <1>2 DEF PublicationInv, WindowInv, MayReplace
<1>4. /\ displaced'[t][target[t]] = live[target[t]]
      /\ displaced'[t][target[t]] # NotSaved
      /\ \A f \in Files \ {target[t]} : /\ displaced'[t][f] = displaced[t][f]
                                       /\ author'[f] = author[f]
      /\ raced' = raced
  BY ConfigAssumption, PublishEffect
<1>5. RecoverInv(t)'
  <2>1. SUFFICES ASSUME NEW f \in Files, displaced'[t][f] # NotSaved,
                        f \notin raced[t]
                 PROVE  snapshot[t][f] = displaced'[t][f]
    BY <1>4 DEF RecoverInv
  <2>2. CASE f = target[t]
    BY <1>2, <1>3, <1>4, <2>1, <2>2
  <2>3. CASE f # target[t]
    BY <1>4, <2>1, <2>3 DEF PublicationInv, RecoverInv
  <2> QED
    BY <2>2, <2>3
<1>6. IncludesInv(t)'
  <2>1. SUFFICES ASSUME author'[Root] = t, NEW f \in Changed(t)
                 PROVE  displaced'[t][f] # NotSaved
    BY <1>1 DEF IncludesInv
  <2>2. f \in Files
    BY ChangedType
  <2>3. CASE f = target[t]
    BY <1>4, <2>3
  <2>4. CASE f # target[t] /\ target[t] = Root
    BY <1>2, <1>4, <2>2, <2>4
  <2>5. CASE f # target[t] /\ target[t] # Root
    BY <1>4, <2>1, <2>2, <2>5, ConfigAssumption DEF PublicationInv, IncludesInv
  <2> QED
    BY <2>3, <2>4, <2>5
<1> QED
  BY <1>5, <1>6

\* Replacing a file keeps the invariant of the run itself.
LEMMA Replacement ==
  ASSUME TypeOK, NEW t \in Txn, PublicationInv(t),
         ReplaceFile(t) \/ ReplaceThenRaise(t)
  PROVE  PublicationInv(t)'
<1>1. /\ pc[t] = "replace" /\ MayReplace(t) /\ Publish(t)
      /\ baseline' = baseline /\ snapshot' = snapshot
  BY DEF ReplaceFile, ReplaceThenRaise
<1>2. RecoverInv(t)' /\ IncludesInv(t)'
  BY <1>1, ReplacementIsRecoverable
<1>3. /\ Changed(t)' = Changed(t)
      /\ PlanIsConditional(t)' = PlanIsConditional(t)
  BY <1>1, PlanFrame
<1>4. CASE ReplaceThenRaise(t)
  <2>1. pc'[t] = "record"
    BY <1>4, GotoEffect DEF ReplaceThenRaise
  <2> QED
    BY <1>2, <2>1 DEF PublicationInv, EarlyInv, PlanInv, SnapshotInv, OrderInv,
                      WindowInv, Early, Publishing
<1>5. CASE ReplaceFile(t)
  <2>1. \/ pc'[t] = "verify"
        \/ pc'[t] = "publish" /\ todo'[t] = todo[t] \ {target[t]}
    BY <1>5, LoopEffect DEF ReplaceFile
  <2>2. OrderInv(t)'
    <3>1. displaced'[t][target[t]] # NotSaved
      BY <1>1, ConfigAssumption, PublishEffect DEF TypeOK
    <3> QED
      BY <1>1, <1>3, <2>1, <3>1, ChangedType, PublishEffect
         DEF PublicationInv, OrderInv, Publishing
  <2> QED
    BY <1>1, <1>2, <1>3, <2>1, <2>2
       DEF PublicationInv, EarlyInv, PlanInv, SnapshotInv, WindowInv, Early,
           Publishing
<1> QED
  BY <1>4, <1>5

\* Nobody else can change the target of a run inside its last window, except
\* when the target was absent: two cooperating runs would both hold the file
\* lock, and any other transport replaces only what is absent.
LEMMA WindowIsExclusive ==
  ASSUME IInv, NEW t \in Txn, NEW u \in Txn \ {t}, Step(t),
         pc[u] = "replace", baseline[u][target[u]] # Absent
  PROVE  live'[target[u]] = live[target[u]] \/ target[u] \in raced[u]
         \/ live[target[u]] # baseline[u][target[u]]
<1> USE ConfigAssumption DEF IInv, TypeOK
<1>1. CASE Quiet(t)
  BY <1>1 DEF Quiet
<1>2. CASE /\ Advance(t)
           /\ ~(ReplaceFile(t) \/ ReplaceThenRaise(t))
  <2>1. live' = live
    BY <1>2 DEF Advance, EnterProcess, AcquireFileLock, ReadBaseline,
       AcceptPlan, ScanFile, Revalidated, TakeSnapshot, Rechecked,
       PickArtifact, CompareStaged
  <2> QED
    BY <2>1
<1>3. CASE ReplaceFile(t) \/ ReplaceThenRaise(t)
  <2>1. pc[t] = "replace" /\ MayReplace(t) /\ Publish(t)
    BY <1>3 DEF ReplaceFile, ReplaceThenRaise
  <2>2. CASE target[t] # target[u]
    BY <2>1, <2>2, PublishEffect
  <2>3. ASSUME target[t] = target[u], baseline[t][target[t]] # Absent
        PROVE  FALSE
    <3>1. ASSUME NEW v \in {t, u}
          PROVE  Cooperating(v) /\ fileLock = v
      <4>1. baseline[v][target[v]] # Absent /\ pc[v] = "replace"
        BY <2>1, <2>3
      <4>2. target[v] \in Changed(v) /\ PlanIsConditional(v)
        BY <4>1 DEF PublicationInv, OrderInv, PlanInv, Publishing
      <4>3. Cooperating(v)
        BY <4>1, <4>2 DEF PlanIsConditional, SupportsConditionalWrite,
                          Cooperating, HasFileLock
      <4>4. cause[v] # "interrupt"
        BY <4>1 DEF RunInv, CauseInv, Forward
      <4> QED
        BY <4>1, <4>3, <4>4 DEF RunInv, LockInv, Forward
    <3> QED
      BY <3>1
  <2>4. CASE target[t] = target[u] /\ baseline[t][target[t]] = Absent
    BY <2>1, <2>4 DEF MayReplace
  <2> QED
    BY <2>2, <2>3, <2>4
<1> QED
  BY <1>1, <1>2, <1>3, QuietSteps

\* A step of one run keeps the publication of the others.
LEMMA OthersPublication ==
  ASSUME IInv, NEW t \in Txn, NEW u \in Txn \ {t}, Step(t)
  PROVE  PublicationInv(u)'
<1>1. /\ pc'[u] = pc[u] /\ todo'[u] = todo[u] /\ target'[u] = target[u]
      /\ baseline'[u] = baseline[u] /\ snapshot'[u] = snapshot[u]
      /\ displaced'[u] = displaced[u] /\ raced' = raced
      /\ \A f \in Files : author'[f] \in {author[f], t}
  BY Others DEF IInv
<1>2. /\ Changed(u)' = Changed(u)
      /\ PlanIsConditional(u)' = PlanIsConditional(u)
  BY <1>1, PlanFrame
<1>3. PublicationInv(u)
  BY DEF IInv
<1>4. WindowInv(u)'
  BY <1>1, <1>3, WindowIsExclusive DEF PublicationInv, WindowInv
<1> QED
  BY <1>1, <1>2, <1>3, <1>4, ConfigAssumption
     DEF PublicationInv, EarlyInv, PlanInv, SnapshotInv, OrderInv, IncludesInv,
         RecoverInv

\* The editor, Klipper and a crash keep the publication of every run.
LEMMA EnvironmentPublication ==
  ASSUME IInv, Environment, NEW u \in Txn
  PROVE  PublicationInv(u)'
<1>0. TypeOK /\ PublicationInv(u)
  BY DEF IInv
<1>1. /\ pc'[u] = "done" \/ pc'[u] = pc[u]
      /\ UNCHANGED <<todo, target, displaced, baseline, snapshot>>
      /\ \A f \in Files : author'[f] \in {author[f], Free}
  BY <1>0, EnvironmentEffect
<1>2. /\ Changed(u)' = Changed(u)
      /\ PlanIsConditional(u)' = PlanIsConditional(u)
  BY <1>1, PlanFrame
<1>3. WindowInv(u)' /\ RecoverInv(u)'
  <2>1. ASSUME NEW f \in Files, NEW content \in Content, EditFile(f, content)
        PROVE  WindowInv(u)' /\ RecoverInv(u)'
    <3>1. /\ raced'[u] = IF pc[u] = "replace" /\ target[u] = f
                         THEN raced[u] \cup {f} ELSE raced[u]
          /\ \A g \in Files \ {f} : live'[g] = live[g]
          /\ UNCHANGED <<pc, target, baseline, snapshot, displaced>>
      BY <1>0, <2>1 DEF EditFile, TypeOK
    <3>2. target[u] \in Files
      BY <1>0 DEF TypeOK
    <3> QED
      BY <1>0, <3>1, <3>2 DEF PublicationInv, WindowInv, RecoverInv
  <2>2. CASE /\ UNCHANGED <<live, raced>>
    BY <1>0, <1>1, <2>2 DEF PublicationInv, WindowInv, RecoverInv
  <2> QED
    BY <2>1, <2>2 DEF Environment, ForeignRestart, KlipperStarts, KlipperFails,
                      Crash
<1> QED
  BY <1>0, <1>1, <1>2, <1>3, ConfigAssumption
     DEF PublicationInv, EarlyInv, PlanInv, SnapshotInv, OrderInv, IncludesInv,
         Early, Publishing

\* The initial states satisfy the inductive invariant.
LEMMA IInvInit == Init => IInv
<1> SUFFICES ASSUME Init PROVE IInv
  OBVIOUS
<1>1. TypeOK
  BY TypeInit
<1>2. ASSUME NEW t \in Txn
      PROVE  /\ pc[t] = "idle" /\ cause[t] = "none"
             /\ \A f \in Files : displaced[t][f] = NotSaved /\ author[f] # t
             /\ author[Root] # t
  BY ConfigAssumption DEF Init
<1> QED
  BY <1>1, <1>2
     DEF IInv, RunInv, CauseInv, LockInv, PublicationInv, EarlyInv, PlanInv,
         SnapshotInv, OrderInv, WindowInv, IncludesInv, RecoverInv, Forward,
         Rollback, ReviewedScans, PlannedScans, RestoredScans, Early, Publishing

\* Every step keeps the inductive invariant.
LEMMA IInvNext ==
  ASSUME IInv, [Next]_vars
  PROVE  IInv'
<1>1. TypeOK'
  BY TypeNext DEF IInv
<1>2. \A t \in Txn : RunInv(t)'
  BY RunInvariant DEF IInv
<1>3. ASSUME NEW u \in Txn
      PROVE  PublicationInv(u)'
  <2>1. ASSUME NEW t \in Txn, Step(t), t # u
        PROVE  PublicationInv(u)'
    BY <2>1, OthersPublication
  <2>2. CASE Step(u)
    <3>1. TypeOK /\ PublicationInv(u)
      BY DEF IInv
    <3>2. CASE Quiet(u)
      BY <3>1, <3>2, QuietKeeps
    <3>3. CASE Advance(u)
      BY <3>1, <3>3, BeforePublication, ToTheWindow, Replacement DEF Advance
    <3> QED
      BY <2>2, <3>1, <3>2, <3>3, QuietSteps
  <2>3. CASE Environment
    BY <2>3, EnvironmentPublication
  <2>4. CASE UNCHANGED vars
    <3>1. PublicationInv(u)
      BY DEF IInv
    <3>2. /\ UNCHANGED <<pc, todo, target, displaced, baseline, snapshot, live,
                         author, raced>>
      BY <2>4 DEF vars
    <3>3. /\ Changed(u)' = Changed(u)
          /\ PlanIsConditional(u)' = PlanIsConditional(u)
      BY <3>2, PlanFrame
    <3> QED
      BY <3>1, <3>2, <3>3
         DEF PublicationInv, EarlyInv, PlanInv, SnapshotInv, OrderInv,
             WindowInv, IncludesInv, RecoverInv
  <2> QED
    BY <2>1, <2>2, <2>3, <2>4 DEF Next, Step
<1> QED
  BY <1>1, <1>2, <1>3 DEF IInv

-----------------------------------------------------------------------------
\* From the lock to the end of the rollback, outside Ctrl+C, no two
\* cooperating runs of any number of processes are at work.
THEOREM SerializedAlways == Spec => []Serialized
<1>1. IInv => Serialized
  BY DEF IInv, RunInv, LockInv, Serialized
<1> QED
  BY <1>1, IInvInit, IInvNext, PTL DEF Spec

\* Nothing a run overwrites is lost, for any number of runs over any mix of
\* transports: it is in the snapshot, or the editor raced the last window.
THEOREM RecoverableAlways == Spec => []Recoverable
<1>1. IInv => Recoverable
  BY DEF IInv, PublicationInv, RecoverInv, Recoverable
<1> QED
  BY <1>1, IInvInit, IInvNext, PTL DEF Spec

\* printer.cfg never refers to an include of its plan that is not published,
\* whatever crashes, interrupts or editors do.
THEOREM IncludesBeforeRootAlways == Spec => []IncludesBeforeRoot
<1>1. IInv => IncludesBeforeRoot
  BY DEF IInv, PublicationInv, IncludesInv, IncludesBeforeRoot
<1> QED
  BY <1>1, IInvInit, IInvNext, PTL DEF Spec

-----------------------------------------------------------------------------
(* What restarts, commits and results rest on.                             *)

\* From the verification of the uploaded bytes to the commit.
Verifying ==
    {"verify", "moonraker", "restart", "waitready", "firmware", "active",
     "reverify"}

\* What a run has verified is live, or somebody outside its file lock has
\* written the file since.
VerifiedInv(t) ==
    pc[t] \in Verifying =>
        \A f \in Files :
            \/ pc[t] = "verify" /\ f \in todo[t]
            \/ live[f] = PlannedState(t, f)
            \/ f \in touched[t]

\* What CommitIsActive promises at the commit.
Loaded(t) ==
    \A f \in Artifacts(t) \ {MoonrakerConf} :
        loaded[f] = Generated[t][f] \/ f \in touched[t]

\* A run that restarted Klipper leaves the wait only when Klipper has started
\* since: while it is still starting, a Ready answer can only be the stale one,
\* and that one is used up by the first sample.
WaitInv(t) ==
    /\ pc[t] = "waitready" /\ ~NoOp(t) =>
          \/ Loaded(t)
          \/ klipper = "startup" /\ (samples[t] # 0 => t \notin stale)
    /\ pc[t] = "firmware" => Transport[t] # "offline" /\ (NoOp(t) \/ Loaded(t))
    /\ pc[t] = "reverify" => Loaded(t)

\* What a diagnosis has read is the original, or not the run's own any more.
RestoredInv(t) ==
    pc[t] \in RestoredScans =>
        \A f \in written[t] \ todo[t] :
            live[f] = snapshot[t][f] \/ author[f] # t

\* A run remembers what it may have written: every file that has its bytes is
\* recorded, or about to be, or holds its original.
WrittenInv(t) ==
    /\ pc[t] \in Early \cup {"recheck"} => written[t] = {}
    /\ \A f \in Files : author[f] = t =>
          \/ f \in written[t]
          \/ live[f] = snapshot[t][f]
          \/ pc[t] = "record" /\ f = target[t]
          \/ outcome[t] = "CRASHED"

\* A run has a result when it is done, and a rollback only with a result.
ResultInv(t) ==
    /\ pc[t] = "done" <=> outcome[t] # "none"
    /\ rollback[t] # "none" => pc[t] = "done"

\* AttemptedWriteReported for one run.  A proposal that cannot be preserved is
\* the one failure after which the code reports less.
AnswerInv(t) ==
    /\ "proposal" \notin Faults /\ pc[t] = "done"
    /\ outcome[t] \notin {"COMMITTED", "DEPLOYED_PENDING_ACTIVATION", "CRASHED",
                          "ROLLBACK_FAILED"}
    => \A f \in Files : author[f] = t => live[f] = snapshot[t][f]

\* What a run knows of the files, of Klipper and of its own result.
ReportInv(t) ==
    /\ VerifiedInv(t) /\ WaitInv(t) /\ RestoredInv(t) /\ WrittenInv(t)
    /\ ResultInv(t) /\ AnswerInv(t)

\* The inductive invariant of the reports.
FullInv == IInv /\ \A t \in Txn : ReportInv(t)

-----------------------------------------------------------------------------
(* What the shared steps do to the results.                                *)

\* A result is stored for the run itself.
LEMMA ReturnResult ==
  ASSUME TypeOK, NEW t \in Txn, NEW state, NEW recovered,
         Return(t, state, recovered)
  PROVE  /\ pc'[t] = "done" /\ outcome'[t] = state /\ rollback'[t] = recovered
         /\ \A u \in Txn \ {t} :
               outcome'[u] = outcome[u] /\ rollback'[u] = rollback[u]
  BY DEF Return, Goto, TypeOK

\* A rollback that ends reports the failure that led to it, or its own.
LEMMA RollbackReturnsResult ==
  ASSUME TypeOK, NEW t \in Txn, NEW recovered \in BOOLEAN,
         RollbackReturns(t, recovered)
  PROVE  /\ pc'[t] = "done"
         /\ outcome'[t] \notin {"none", "COMMITTED"}
         /\ ~recovered => outcome'[t] = "ROLLBACK_FAILED" /\ rollback'[t] = "failed"
         /\ \A u \in Txn \ {t} :
               outcome'[u] = outcome[u] /\ rollback'[u] = rollback[u]
  BY ReturnResult DEF RollbackReturns, FailureState

\* Without a recorded write the handler returns, otherwise it diagnoses.
LEMMA StartRollbackResult ==
  ASSUME TypeOK, NEW t \in Txn, StartRollback(t)
  PROVE  /\ \/ /\ written[t] = {} /\ todo' = todo
               /\ pc'[t] = "done" /\ rollback'[t] = "none"
               /\ outcome'[t] \notin {"none", "COMMITTED"}
            \/ /\ pc'[t] = "diagnose" /\ todo'[t] = written[t]
               /\ UNCHANGED <<outcome, rollback>>
         /\ \A u \in Txn \ {t} :
               outcome'[u] = outcome[u] /\ rollback'[u] = rollback[u]
<1>1. CASE written[t] = {}
  <2>1. Return(t, FailureState(cause[t]), "none") /\ todo' = todo
    BY <1>1, Zenon DEF StartRollback
  <2>2. FailureState(cause[t]) \notin {"none", "COMMITTED"}
    BY DEF FailureState
  <2> QED
    BY <1>1, <2>1, <2>2, ReturnResult
<1>2. CASE written[t] # {}
  BY <1>2, LoopEffect DEF StartRollback
<1> QED
  BY <1>1, <1>2

\* A failed activation ends a rollback without success, or starts the handler.
LEMMA ActivationFailsResult ==
  ASSUME TypeOK, NEW t \in Txn, ActivationFails(t)
  PROVE  /\ \/ /\ pc'[t] = "done" /\ outcome'[t] = "ROLLBACK_FAILED"
               /\ rollback'[t] = "failed"
            \/ pc'[t] = "failed" /\ UNCHANGED <<outcome, rollback>>
         /\ \A u \in Txn \ {t} :
               outcome'[u] = outcome[u] /\ rollback'[u] = rollback[u]
  BY RollbackReturnsResult, RaiseEffect DEF ActivationFails

\* A step of a run leaves the records and results of the others alone, tells
\* them of the files it writes, and lets Klipper go on starting.
LEMMA OthersRecords ==
  ASSUME TypeOK, NEW t \in Txn, Step(t), NEW u \in Txn \ {t}
  PROVE  /\ written'[u] = written[u] /\ samples'[u] = samples[u]
         /\ outcome'[u] = outcome[u] /\ rollback'[u] = rollback[u]
         /\ touched[u] \subseteq touched'[u]
         /\ \/ live' = live /\ author' = author
            \/ pc[t] = "replace" /\ Publish(t)
         /\ loaded' = loaded
         /\ klipper = "startup" =>
               klipper' = "startup" /\ (u \in stale' => u \in stale)
<1> USE DEF TypeOK
<1>1. CASE EnterProcess(t)
  BY <1>1, GotoEffect, LoopEffect DEF EnterProcess
<1>2. CASE AcquireFileLock(t)
  BY <1>2, LoopEffect DEF AcquireFileLock
<1>3. CASE FileLockTimeout(t)
  BY <1>3, ReturnResult DEF FileLockTimeout
<1>4. CASE ReadBaseline(t)
  BY <1>4, LoopEffect DEF ReadBaseline
<1>5. CASE PreflightFails(t)
  BY <1>5, ReturnResult DEF PreflightFails
<1>6. CASE ScanFile(t)
  BY <1>6 DEF ScanFile
<1>7. CASE ReviewedStateConflict(t)
  BY <1>7, ReturnResult DEF ReviewedStateConflict
<1>8. CASE Revalidated(t)
  BY <1>8, GotoEffect DEF Revalidated
<1>9. CASE TakeSnapshot(t)
  BY <1>9, LoopEffect DEF TakeSnapshot
<1>10. CASE SnapshotFails(t)
  BY <1>10, ReturnResult DEF SnapshotFails
<1>11. CASE Rechecked(t)
  BY <1>11, LoopEffect DEF Rechecked
<1>12. CASE PickArtifact(t)
  BY <1>12, GotoEffect DEF PickArtifact
<1>13. CASE PickConflict(t)
  BY <1>13, RaiseEffect DEF PickConflict
<1>14. CASE CompareStaged(t)
  BY <1>14, GotoEffect DEF CompareStaged
<1>15. CASE ReplaceFile(t)
  BY <1>15, LoopEffect, PublishEffect DEF ReplaceFile, Publish
<1>16. CASE UploadRaises(t)
  BY <1>16, GotoEffect DEF UploadRaises
<1>17. CASE ReplaceThenRaise(t)
  BY <1>17, GotoEffect, PublishEffect DEF ReplaceThenRaise, Publish
<1>18. CASE RecordPossibleWrite(t)
  BY <1>18, ReraiseEffect DEF RecordPossibleWrite
<1>19. CASE RecordUnreadable(t)
  BY <1>19, ReraiseEffect DEF RecordUnreadable
<1>20. CASE PlanMismatch(t)
  BY <1>20, RaiseEffect DEF PlanMismatch
<1>21. CASE DeferActivation(t)
  BY <1>21, ReturnResult DEF DeferActivation
<1>22. CASE BeginActivation(t)
  BY <1>22, GotoEffect DEF BeginActivation
<1>23. CASE RestartMoonraker(t)
  BY <1>23, GotoEffect DEF RestartMoonraker
<1>24. CASE RestartMoonrakerFails(t)
  BY <1>24, ActivationFailsResult DEF RestartMoonrakerFails
<1>25. CASE RestartKlipper(t)
  BY <1>25, GotoEffect DEF RestartKlipper, KlipperRestarts
<1>26. CASE RestartKlipperFails(t)
  BY <1>26, ActivationFailsResult DEF RestartKlipperFails, KlipperRestarts
<1>27. CASE VerifyFirmware(t)
  BY <1>27, GotoEffect, LoopEffect DEF VerifyFirmware
<1>28. CASE FirmwareMismatch(t)
  BY <1>28, RaiseEffect DEF FirmwareMismatch
<1>29. CASE VerifyActive(t)
  BY <1>29, LoopEffect DEF VerifyActive
<1>30. CASE ActiveMismatch(t)
  BY <1>30, RaiseEffect DEF ActiveMismatch
<1>31. CASE Commit(t)
  BY <1>31, ReturnResult DEF Commit
<1>32. CASE PreserveProposal(t)
  BY <1>32, StartRollbackResult DEF PreserveProposal
<1>33. CASE PreserveProposalFails(t)
  BY <1>33, ReturnResult DEF PreserveProposalFails
<1>34. CASE RollbackMismatch(t)
  BY <1>34, RollbackReturnsResult DEF RollbackMismatch
<1>35. CASE RollbackDiagnosed(t)
  BY <1>35, LoopEffect DEF RollbackDiagnosed
<1>36. CASE RollbackInactive(t)
  BY <1>36, RollbackReturnsResult DEF RollbackInactive
<1>37. CASE RollbackActivates(t)
  BY <1>37, GotoEffect DEF RollbackActivates
<1>38. CASE RollbackVerified(t)
  BY <1>38, RollbackReturnsResult DEF RollbackVerified
<1>39. CASE HandleInterrupt(t)
  BY <1>39, StartRollbackResult DEF HandleInterrupt
<1>40. CASE SampleReady(t)
  BY <1>40, GotoEffect, LoopEffect DEF SampleReady
<1>41. CASE SampleNotReady(t)
  BY <1>41 DEF SampleNotReady
<1>42. CASE ReadyFails(t)
  BY <1>42, ActivationFailsResult DEF ReadyFails
<1>43. CASE RejectPlan(t)
  BY <1>43, ReturnResult DEF RejectPlan
<1>44. CASE DeclinePlan(t)
  BY <1>44, ReturnResult DEF DeclinePlan
<1>45. CASE AcceptPlan(t)
  BY <1>45, LoopEffect DEF AcceptPlan
<1>46. CASE Interrupt(t)
  BY <1>46, GotoEffect, RollbackReturnsResult DEF Interrupt
<1> QED
  BY <1>1, <1>2, <1>3, <1>4, <1>5, <1>6, <1>7, <1>8, <1>9, <1>10, <1>11,
     <1>12, <1>13, <1>14, <1>15, <1>16, <1>17, <1>18, <1>19, <1>20, <1>21,
     <1>22, <1>23, <1>24, <1>25, <1>26, <1>27, <1>28, <1>29, <1>30, <1>31,
     <1>32, <1>33, <1>34, <1>35, <1>36, <1>37, <1>38, <1>39, <1>40, <1>41,
     <1>42, <1>43, <1>44, <1>45, <1>46
     DEF Step, Work, Poll, Operator

\* The steps that follow the plan, or that record, diagnose and wait.
Straight(t) ==
    \/ EnterProcess(t) \/ AcquireFileLock(t) \/ ReadBaseline(t) \/ AcceptPlan(t)
    \/ ScanFile(t) \/ Revalidated(t) \/ TakeSnapshot(t) \/ Rechecked(t)
    \/ ReplaceFile(t) \/ ReplaceThenRaise(t)
    \/ RecordPossibleWrite(t) \/ RecordUnreadable(t)
    \/ BeginActivation(t) \/ RestartMoonraker(t) \/ RestartKlipper(t)
    \/ SampleReady(t) \/ SampleNotReady(t) \/ VerifyFirmware(t) \/ VerifyActive(t)
    \/ PreserveProposal(t) \/ HandleInterrupt(t) \/ RollbackDiagnosed(t)

\* The other steps write and record nothing, and end up where nothing is claimed.
Aside(t) ==
    /\ pc[t] # "record"
    /\ pc'[t] \notin Verifying \cup RestoredScans \cup Early \cup {"recheck"}
    /\ UNCHANGED <<live, author, snapshot, written>>

\* Every step of a run is one or the other.
LEMMA AsideSteps ==
  ASSUME TypeOK, NEW t \in Txn, Step(t)
  PROVE  Straight(t) \/ Aside(t)
<1> USE DEF TypeOK, Aside, Verifying, RestoredScans, Early, ReviewedScans,
            PlannedScans, Scans, Polls
<1>1. CASE FileLockTimeout(t)
  BY <1>1, ReturnResult DEF FileLockTimeout
<1>2. CASE PreflightFails(t)
  BY <1>2, ReturnResult DEF PreflightFails
<1>3. CASE ReviewedStateConflict(t)
  BY <1>3, ReturnResult DEF ReviewedStateConflict
<1>4. CASE SnapshotFails(t)
  BY <1>4, ReturnResult DEF SnapshotFails
<1>5. CASE PickArtifact(t)
  BY <1>5, GotoEffect DEF PickArtifact
<1>6. CASE PickConflict(t)
  BY <1>6, RaiseEffect DEF PickConflict
<1>7. CASE CompareStaged(t)
  BY <1>7, GotoEffect DEF CompareStaged
<1>8. CASE UploadRaises(t)
  BY <1>8, GotoEffect DEF UploadRaises
<1>9. CASE PlanMismatch(t)
  BY <1>9, RaiseEffect DEF PlanMismatch
<1>10. CASE DeferActivation(t)
  BY <1>10, ReturnResult DEF DeferActivation
<1>11. CASE RestartMoonrakerFails(t)
  BY <1>11, ActivationFailsResult DEF RestartMoonrakerFails
<1>12. CASE RestartKlipperFails(t)
  BY <1>12, ActivationFailsResult DEF RestartKlipperFails, KlipperRestarts
<1>13. CASE FirmwareMismatch(t)
  BY <1>13, RaiseEffect DEF FirmwareMismatch
<1>14. CASE ActiveMismatch(t)
  BY <1>14, RaiseEffect DEF ActiveMismatch
<1>15. CASE Commit(t)
  BY <1>15, ReturnResult DEF Commit
<1>16. CASE PreserveProposalFails(t)
  BY <1>16, ReturnResult DEF PreserveProposalFails
<1>17. CASE RollbackMismatch(t)
  BY <1>17, RollbackReturnsResult DEF RollbackMismatch
<1>18. CASE RollbackInactive(t)
  BY <1>18, RollbackReturnsResult DEF RollbackInactive
<1>19. CASE RollbackActivates(t)
  BY <1>19, GotoEffect DEF RollbackActivates
<1>20. CASE RollbackVerified(t)
  BY <1>20, RollbackReturnsResult DEF RollbackVerified
<1>21. CASE ReadyFails(t)
  BY <1>21, ActivationFailsResult DEF ReadyFails
<1>22. CASE RejectPlan(t)
  BY <1>22, ReturnResult DEF RejectPlan
<1>23. CASE DeclinePlan(t)
  BY <1>23, ReturnResult DEF DeclinePlan
<1>24. CASE Interrupt(t)
  <2>1. pc'[t] \in {"done", "interrupted"}
    BY <1>24, GotoEffect, RollbackReturnsEffect DEF Interrupt
  <2> QED
    BY <1>24, <2>1 DEF Interrupt
<1> QED
  BY <1>1, <1>2, <1>3, <1>4, <1>5, <1>6, <1>7, <1>8, <1>9, <1>10, <1>11,
     <1>12, <1>13, <1>14, <1>15, <1>16, <1>17, <1>18, <1>19, <1>20, <1>21,
     <1>22, <1>23, <1>24
     DEF Step, Work, Poll, Operator, Straight

\* How a run may end: without success; by its commit; with nothing recorded; with
\* its records diagnosed; or because the proposal could not be preserved.
Ends(t) ==
    /\ pc'[t] = "done" /\ outcome'[t] # "none"
    /\ UNCHANGED <<live, author, snapshot, written, touched, loaded>>
    /\ \/ /\ outcome'[t] \in {"ROLLBACK_FAILED", "DEPLOYED_PENDING_ACTIVATION"}
          /\ rollback'[t] # "ok"
       \/ /\ pc[t] = "reverify" /\ outcome'[t] = "COMMITTED" /\ rollback'[t] # "ok"
       \/ /\ pc[t] # "record" /\ written[t] = {}
          /\ outcome'[t] # "COMMITTED" /\ rollback'[t] # "ok"
       \/ /\ pc[t] \in {"restored", "rverify"} /\ todo[t] = {}
          /\ outcome'[t] # "COMMITTED"
       \/ /\ "proposal" \in Faults
          /\ outcome'[t] # "COMMITTED" /\ rollback'[t] # "ok"

Goes(t) ==
    pc'[t] # "done" /\ outcome'[t] = outcome[t] /\ rollback'[t] = rollback[t]

\* Every step of a run goes on or ends it in one of these ways.
LEMMA Endings ==
  ASSUME TypeOK, NEW t \in Txn, Step(t), WrittenInv(t)
  PROVE  pc[t] # "done" /\ (Goes(t) \/ Ends(t))
<1> USE DEF TypeOK, WrittenInv, Goes, Ends, Verifying, RestoredScans, Early,
            ReviewedScans, PlannedScans, Scans, Polls, Rollback
<1>1. CASE EnterProcess(t)
  BY <1>1, GotoEffect, LoopEffect DEF EnterProcess
<1>2. CASE AcquireFileLock(t)
  BY <1>2, LoopEffect DEF AcquireFileLock
<1>3. CASE FileLockTimeout(t)
  BY <1>3, ReturnResult DEF FileLockTimeout
<1>4. CASE ReadBaseline(t)
  BY <1>4, LoopEffect DEF ReadBaseline
<1>5. CASE PreflightFails(t)
  BY <1>5, ReturnResult DEF PreflightFails
<1>6. CASE ScanFile(t)
  BY <1>6 DEF ScanFile
<1>7. CASE ReviewedStateConflict(t)
  BY <1>7, ReturnResult DEF ReviewedStateConflict
<1>8. CASE Revalidated(t)
  BY <1>8, GotoEffect DEF Revalidated
<1>9. CASE TakeSnapshot(t)
  BY <1>9, LoopEffect DEF TakeSnapshot
<1>10. CASE SnapshotFails(t)
  BY <1>10, ReturnResult DEF SnapshotFails
<1>11. CASE Rechecked(t)
  BY <1>11, LoopEffect DEF Rechecked
<1>12. CASE PickArtifact(t)
  BY <1>12, GotoEffect DEF PickArtifact
<1>13. CASE PickConflict(t)
  BY <1>13, RaiseEffect DEF PickConflict
<1>14. CASE CompareStaged(t)
  BY <1>14, GotoEffect DEF CompareStaged
<1>15. CASE ReplaceFile(t)
  BY <1>15, LoopEffect, PublishEffect DEF ReplaceFile
<1>16. CASE UploadRaises(t)
  BY <1>16, GotoEffect DEF UploadRaises
<1>17. CASE ReplaceThenRaise(t)
  BY <1>17, GotoEffect, PublishEffect DEF ReplaceThenRaise
<1>18. CASE RecordPossibleWrite(t)
  BY <1>18, ReraiseEffect DEF RecordPossibleWrite
<1>19. CASE RecordUnreadable(t)
  BY <1>19, ReraiseEffect DEF RecordUnreadable
<1>20. CASE PlanMismatch(t)
  BY <1>20, RaiseEffect DEF PlanMismatch
<1>21. CASE DeferActivation(t)
  BY <1>21, ReturnResult DEF DeferActivation
<1>22. CASE BeginActivation(t)
  BY <1>22, GotoEffect DEF BeginActivation
<1>23. CASE RestartMoonraker(t)
  BY <1>23, GotoEffect DEF RestartMoonraker
<1>24. CASE RestartMoonrakerFails(t)
  BY <1>24, ActivationFailsResult DEF RestartMoonrakerFails
<1>25. CASE RestartKlipper(t)
  BY <1>25, GotoEffect DEF RestartKlipper, KlipperRestarts
<1>26. CASE RestartKlipperFails(t)
  BY <1>26, ActivationFailsResult DEF RestartKlipperFails, KlipperRestarts
<1>27. CASE VerifyFirmware(t)
  BY <1>27, GotoEffect, LoopEffect DEF VerifyFirmware
<1>28. CASE FirmwareMismatch(t)
  BY <1>28, RaiseEffect DEF FirmwareMismatch
<1>29. CASE VerifyActive(t)
  BY <1>29, LoopEffect DEF VerifyActive
<1>30. CASE ActiveMismatch(t)
  BY <1>30, RaiseEffect DEF ActiveMismatch
<1>31. CASE Commit(t)
  BY <1>31, ReturnResult DEF Commit
<1>32. CASE PreserveProposal(t)
  BY <1>32, StartRollbackResult DEF PreserveProposal
<1>33. CASE PreserveProposalFails(t)
  BY <1>33, ReturnResult DEF PreserveProposalFails
<1>34. CASE RollbackMismatch(t)
  BY <1>34, RollbackReturnsResult DEF RollbackMismatch
<1>35. CASE RollbackDiagnosed(t)
  BY <1>35, LoopEffect DEF RollbackDiagnosed
<1>36. CASE RollbackInactive(t)
  BY <1>36, RollbackReturnsResult DEF RollbackInactive
<1>37. CASE RollbackActivates(t)
  BY <1>37, GotoEffect DEF RollbackActivates
<1>38. CASE RollbackVerified(t)
  BY <1>38, RollbackReturnsResult DEF RollbackVerified
<1>39. CASE HandleInterrupt(t)
  BY <1>39, StartRollbackResult DEF HandleInterrupt
<1>40. CASE SampleReady(t)
  BY <1>40, GotoEffect, LoopEffect DEF SampleReady
<1>41. CASE SampleNotReady(t)
  BY <1>41 DEF SampleNotReady
<1>42. CASE ReadyFails(t)
  BY <1>42, ActivationFailsResult DEF ReadyFails
<1>43. CASE RejectPlan(t)
  BY <1>43, ReturnResult DEF RejectPlan
<1>44. CASE DeclinePlan(t)
  BY <1>44, ReturnResult DEF DeclinePlan
<1>45. CASE AcceptPlan(t)
  BY <1>45, LoopEffect DEF AcceptPlan
<1>46. CASE Interrupt(t)
  <2>1. CASE cause[t] = "interrupt"
    <3>1. RollbackReturns(t, FALSE)
      BY <1>46, <2>1, Zenon DEF Interrupt
    <3> QED
      BY <1>46, <3>1, RollbackReturnsResult DEF Interrupt
  <2>2. CASE cause[t] # "interrupt"
    BY <1>46, <2>2, GotoEffect DEF Interrupt
  <2> QED
    BY <2>1, <2>2
<1> QED
  BY <1>1, <1>2, <1>3, <1>4, <1>5, <1>6, <1>7, <1>8, <1>9, <1>10, <1>11,
     <1>12, <1>13, <1>14, <1>15, <1>16, <1>17, <1>18, <1>19, <1>20, <1>21,
     <1>22, <1>23, <1>24, <1>25, <1>26, <1>27, <1>28, <1>29, <1>30, <1>31,
     <1>32, <1>33, <1>34, <1>35, <1>36, <1>37, <1>38, <1>39, <1>40, <1>41,
     <1>42, <1>43, <1>44, <1>45, <1>46
     DEF Step, Work, Poll, Operator

\* The steps that make and accept the plan.
Plans(t) ==
    \/ EnterProcess(t) \/ AcquireFileLock(t) \/ ReadBaseline(t) \/ AcceptPlan(t)
    \/ Revalidated(t) \/ TakeSnapshot(t)

\* The steps that handle a failure.
Handles(t) ==
    \/ ReplaceThenRaise(t) \/ RecordPossibleWrite(t) \/ RecordUnreadable(t)
    \/ PreserveProposal(t) \/ HandleInterrupt(t) \/ RollbackDiagnosed(t)

\* Making the plan stays before the publication.
LEMMA PlansLand ==
  ASSUME TypeOK, NEW t \in Txn, Plans(t)
  PROVE  /\ pc[t] \in Early /\ pc'[t] \in Early \cup {"recheck"}
         /\ UNCHANGED <<live, author, written>>
<1> USE DEF TypeOK, Early
<1>1. CASE EnterProcess(t)
  BY <1>1, GotoEffect, LoopEffect DEF EnterProcess
<1>2. CASE AcquireFileLock(t)
  BY <1>2, LoopEffect DEF AcquireFileLock
<1>3. CASE ReadBaseline(t)
  BY <1>3, LoopEffect DEF ReadBaseline
<1>4. CASE AcceptPlan(t)
  BY <1>4, LoopEffect DEF AcceptPlan
<1>5. CASE Revalidated(t)
  BY <1>5, GotoEffect DEF Revalidated
<1>6. CASE TakeSnapshot(t)
  BY <1>6, LoopEffect DEF TakeSnapshot
<1> QED
  BY <1>1, <1>2, <1>3, <1>4, <1>5, <1>6 DEF Plans

\* Handling a failure never comes back to the plan.
LEMMA HandlesLand ==
  ASSUME TypeOK, NEW t \in Txn, Handles(t)
  PROVE  pc'[t] \in {"record", "failed", "interrupted", "diagnose", "restored", "done"}
<1> USE DEF TypeOK
<1>1. CASE ReplaceThenRaise(t)
  BY <1>1, GotoEffect DEF ReplaceThenRaise
<1>2. CASE RecordPossibleWrite(t)
  BY <1>2, ReraiseEffect DEF RecordPossibleWrite
<1>3. CASE RecordUnreadable(t)
  BY <1>3, ReraiseEffect DEF RecordUnreadable
<1>4. CASE PreserveProposal(t)
  BY <1>4, StartRollbackEffect DEF PreserveProposal
<1>5. CASE HandleInterrupt(t)
  BY <1>5, StartRollbackEffect DEF HandleInterrupt
<1>6. CASE RollbackDiagnosed(t)
  BY <1>6, LoopEffect DEF RollbackDiagnosed
<1> QED
  BY <1>1, <1>2, <1>3, <1>4, <1>5, <1>6 DEF Handles

\* What a plan expects of the files, and whether there is anything to do.
LEMMA ExpectedFrame ==
  ASSUME NEW u \in Txn, baseline'[u] = baseline[u]
  PROVE  /\ Artifacts(u)' = Artifacts(u) /\ NoOp(u)' = NoOp(u)
         /\ \A f \in Files : PlannedState(u, f)' = PlannedState(u, f)
<1>1. Artifacts(u)' = Artifacts(u) /\ Changed(u)' = Changed(u)
  BY PlanFrame DEF Artifacts
<1> QED
  BY <1>1 DEF NoOp, PlannedState

\* The steps of a run keep what it has verified.
LEMMA OwnVerified ==
  ASSUME TypeOK, NEW t \in Txn, Step(t), VerifiedInv(t)
  PROVE  VerifiedInv(t)'
<1> USE DEF TypeOK, VerifiedInv, Verifying
<1>1. CASE Aside(t)
  BY <1>1 DEF Aside
<1>2. CASE ScanFile(t)
  <2>1. PICK f \in todo[t] :
           /\ live[f] = Expected(t, f)
           /\ todo' = [todo EXCEPT ![t] = @ \ {f}]
           /\ touched' = IF pc[t] = "verify" THEN [touched EXCEPT ![t] = @ \ {f}]
                         ELSE touched
    BY <1>2 DEF ScanFile
  <2>2. UNCHANGED <<pc, live, baseline>>
    BY <1>2 DEF ScanFile
  <2>3. \A g \in Files : PlannedState(t, g)' = PlannedState(t, g)
    BY <2>2, ExpectedFrame
  <2>4. pc[t] = "verify" => live[f] = PlannedState(t, f)
    BY <2>1 DEF Expected, ReviewedScans, PlannedScans
  <2> QED
    BY <2>1, <2>2, <2>3, <2>4
<1>3. CASE Rechecked(t) \/ ReplaceFile(t)
  <2>1. \/ pc'[t] = "verify" /\ todo'[t] = Files
        \/ pc'[t] = "publish"
    BY <1>3, LoopEffect DEF Rechecked, ReplaceFile
  <2> QED
    BY <2>1
<1>4. CASE \/ BeginActivation(t) \/ RestartMoonraker(t) \/ RestartKlipper(t)
           \/ SampleReady(t) \/ SampleNotReady(t) \/ VerifyFirmware(t)
           \/ VerifyActive(t)
  <2>1. UNCHANGED <<live, touched, baseline>>
    BY <1>4 DEF BeginActivation, RestartMoonraker, RestartKlipper, SampleReady,
                SampleNotReady, VerifyFirmware, VerifyActive
  <2>2. \A g \in Files : PlannedState(t, g)' = PlannedState(t, g)
    BY <2>1, ExpectedFrame
  <2>3. pc[t] = "verify" => todo[t] = {}
    BY <1>4 DEF BeginActivation, RestartMoonraker, RestartKlipper, SampleReady,
                SampleNotReady, VerifyFirmware, VerifyActive, Polls
  <2>4. pc'[t] = "verify" => pc[t] = "verify" /\ todo' = todo
    BY <1>4, GotoEffect, LoopEffect
       DEF BeginActivation, RestartMoonraker, RestartKlipper, SampleReady,
           SampleNotReady, VerifyFirmware, VerifyActive, Polls
  <2>5. pc'[t] \in Verifying => pc[t] \in Verifying
    BY <1>4, GotoEffect, LoopEffect
       DEF BeginActivation, RestartMoonraker, RestartKlipper, SampleReady,
           SampleNotReady, VerifyFirmware, VerifyActive, Polls
  <2> QED
    BY <2>1, <2>2, <2>3, <2>4, <2>5
<1>5. CASE Plans(t)
  BY <1>5, PlansLand DEF Early
<1>6. CASE Handles(t)
  BY <1>6, HandlesLand
<1> QED
  BY <1>1, <1>2, <1>3, <1>4, <1>5, <1>6, AsideSteps DEF Straight, Plans, Handles

\* The steps of a run leave the wait only after Klipper has started again.
LEMMA OwnWait ==
  ASSUME TypeOK, NEW t \in Txn, Step(t), WaitInv(t)
  PROVE  WaitInv(t)'
<1> USE DEF TypeOK, WaitInv, Loaded
<1>1. CASE Aside(t)
  BY <1>1 DEF Aside, Verifying
<1>2. CASE ScanFile(t)
  <2>1. UNCHANGED <<pc, baseline, loaded, klipper, samples, stale>>
    BY <1>2 DEF ScanFile
  <2>2. pc[t] # "verify" => touched' = touched
    BY <1>2 DEF ScanFile
  <2> QED
    BY <2>1, <2>2, ExpectedFrame
<1>3. CASE BeginActivation(t)
  <2>1. UNCHANGED <<baseline, loaded, klipper, stale, touched>>
    BY <1>3 DEF BeginActivation
  <2>2. /\ pc'[t] \in {"waitready", "moonraker", "restart"}
        /\ pc'[t] = "waitready" => NoOp(t)
    BY <1>3, GotoEffect DEF BeginActivation
  <2> QED
    BY <2>1, <2>2, ExpectedFrame
<1>4. CASE RestartKlipper(t)
  <2>1. /\ pc'[t] \in {"waitready", "rready"} /\ klipper' = "startup"
        /\ samples'[t] = 0
    BY <1>4, GotoEffect DEF RestartKlipper, KlipperRestarts
  <2> QED
    BY <2>1
<1>5. CASE SampleReady(t)
  <2>1. /\ UNCHANGED <<baseline, loaded, klipper, touched>>
        /\ stale' = stale \ {t} /\ pc[t] \in Polls /\ "ready" \in Reported(t)
    BY <1>5 DEF SampleReady
  <2>2. Transport[t] # "offline" /\ (klipper = "ready" \/ t \in stale)
    BY <2>1 DEF Reported
  <2>3. \/ pc' = pc
        \/ pc'[t] \in {"firmware", "rverify"} /\ samples[t] # 0
    BY <1>5, GotoEffect, LoopEffect DEF SampleReady
  <2>4. pc'[t] = "firmware" => pc[t] = "waitready"
    BY <1>5, GotoEffect, LoopEffect DEF SampleReady, Polls
  <2> QED
    BY <2>1, <2>2, <2>3, <2>4, ExpectedFrame DEF Polls
<1>6. CASE SampleNotReady(t)
  <2>1. UNCHANGED <<pc, baseline, loaded, klipper, touched>> /\ stale' = stale \ {t}
    BY <1>6 DEF SampleNotReady
  <2> QED
    BY <2>1, ExpectedFrame
<1>7. CASE VerifyFirmware(t)
  <2>1. UNCHANGED <<baseline, loaded, touched>> /\ pc[t] = "firmware"
    BY <1>7 DEF VerifyFirmware
  <2>2. \/ pc'[t] = "active"
        \/ pc'[t] = "reverify" /\ ~(NoOp(t) /\ Transport[t] # "offline")
    BY <1>7, GotoEffect, LoopEffect DEF VerifyFirmware
  <2> QED
    BY <2>1, <2>2, ExpectedFrame
<1>8. CASE VerifyActive(t)
  <2>1. UNCHANGED <<baseline, loaded, touched>> /\ KlipperRuns(t)
    BY <1>8 DEF VerifyActive
  <2>2. pc'[t] = "reverify"
    BY <1>8, LoopEffect DEF VerifyActive
  <2> QED
    BY <2>1, <2>2, ExpectedFrame DEF KlipperRuns
<1>9. CASE Rechecked(t) \/ ReplaceFile(t) \/ RestartMoonraker(t)
  <2>1. pc'[t] \in {"verify", "publish", "restart", "rrestart"}
    BY <1>9, GotoEffect, LoopEffect DEF Rechecked, ReplaceFile, RestartMoonraker
  <2> QED
    BY <2>1
<1>10. CASE Plans(t)
  BY <1>10, PlansLand DEF Early
<1>11. CASE Handles(t)
  BY <1>11, HandlesLand
<1> QED
  BY <1>1, <1>2, <1>3, <1>4, <1>5, <1>6, <1>7, <1>8, <1>9, <1>10,
     <1>11, AsideSteps DEF Straight, Plans, Handles

\* The other steps on the straight path write nothing either.
Reads(t) ==
    \/ ScanFile(t) \/ Rechecked(t) \/ BeginActivation(t) \/ RestartMoonraker(t)
    \/ RestartKlipper(t) \/ SampleReady(t) \/ SampleNotReady(t)
    \/ VerifyFirmware(t) \/ VerifyActive(t) \/ PreserveProposal(t)
    \/ HandleInterrupt(t) \/ RollbackDiagnosed(t)

\* Reading and waiting change no file and no record, and diagnose from the start.
LEMMA ReadsLand ==
  ASSUME TypeOK, NEW t \in Txn, Reads(t)
  PROVE  /\ UNCHANGED <<live, author, snapshot, written>>
         /\ pc[t] # "record"
         /\ pc'[t] \in Early \cup {"recheck"} => pc'[t] = pc[t]
         /\ pc'[t] \in RestoredScans => ScanFile(t) \/ todo'[t] = written[t]
<1> USE DEF TypeOK, Early, RestoredScans, ReviewedScans, PlannedScans, Scans, Polls
<1>1. CASE ScanFile(t)
  BY <1>1 DEF ScanFile
<1>2. CASE Rechecked(t)
  BY <1>2, LoopEffect DEF Rechecked
<1>3. CASE BeginActivation(t)
  BY <1>3, GotoEffect DEF BeginActivation
<1>4. CASE RestartMoonraker(t)
  BY <1>4, GotoEffect DEF RestartMoonraker
<1>5. CASE RestartKlipper(t)
  BY <1>5, GotoEffect DEF RestartKlipper, KlipperRestarts
<1>6. CASE SampleReady(t)
  BY <1>6, GotoEffect, LoopEffect DEF SampleReady
<1>7. CASE SampleNotReady(t)
  BY <1>7 DEF SampleNotReady
<1>8. CASE VerifyFirmware(t)
  BY <1>8, GotoEffect, LoopEffect DEF VerifyFirmware
<1>9. CASE VerifyActive(t)
  BY <1>9, LoopEffect DEF VerifyActive
<1>10. CASE PreserveProposal(t)
  BY <1>10, StartRollbackResult DEF PreserveProposal
<1>11. CASE HandleInterrupt(t)
  BY <1>11, StartRollbackResult DEF HandleInterrupt
<1>12. CASE RollbackDiagnosed(t)
  BY <1>12, LoopEffect DEF RollbackDiagnosed
<1> QED
  BY <1>1, <1>2, <1>3, <1>4, <1>5, <1>6, <1>7, <1>8, <1>9, <1>10, <1>11,
     <1>12
     DEF Reads

\* The steps of a run keep its diagnosis.
LEMMA OwnRestored ==
  ASSUME TypeOK, NEW t \in Txn, Step(t), RestoredInv(t)
  PROVE  RestoredInv(t)'
<1> USE DEF TypeOK, RestoredInv
<1>1. CASE Aside(t)
  BY <1>1 DEF Aside
<1>2. CASE ScanFile(t)
  <2>1. PICK f \in todo[t] :
           live[f] = Expected(t, f) /\ todo' = [todo EXCEPT ![t] = @ \ {f}]
    BY <1>2 DEF ScanFile
  <2>2. UNCHANGED <<pc, live, author, snapshot, written>>
    BY <1>2 DEF ScanFile
  <2>3. pc[t] \in RestoredScans => live[f] = snapshot[t][f]
    BY <2>1 DEF Expected, RestoredScans, ReviewedScans, PlannedScans
  <2> QED
    BY <2>1, <2>2, <2>3
<1>3. CASE Reads(t) /\ ~ScanFile(t)
  BY <1>3, ReadsLand
<1>4. CASE Plans(t)
  BY <1>4, PlansLand DEF Early, RestoredScans
<1>5. CASE ReplaceFile(t)
  BY <1>5, LoopEffect DEF ReplaceFile, RestoredScans
<1>6. CASE ReplaceThenRaise(t)
  BY <1>6, GotoEffect DEF ReplaceThenRaise, RestoredScans
<1>7. CASE RecordPossibleWrite(t) \/ RecordUnreadable(t)
  <2>1. pc'[t] \in {"interrupted", "failed"}
    BY <1>7, ReraiseEffect DEF RecordPossibleWrite, RecordUnreadable
  <2> QED
    BY <2>1 DEF RestoredScans
<1> QED
  BY <1>1, <1>2, <1>3, <1>4, <1>5, <1>6, <1>7, AsideSteps DEF Straight, Plans, Reads

\* The steps of a run record what they may have written.
LEMMA OwnWritten ==
  ASSUME TypeOK, NEW t \in Txn, Step(t), WrittenInv(t), EarlyInv(t), ResultInv(t)
  PROVE  WrittenInv(t)'
<1> USE DEF TypeOK, WrittenInv
<1>0. outcome[t] # "CRASHED"
  BY Endings DEF ResultInv
<1>1. CASE Aside(t)
  BY <1>0, <1>1 DEF Aside
<1>2. CASE Reads(t)
  BY <1>0, <1>2, ReadsLand
<1>3. CASE Plans(t)
  BY <1>3, PlansLand DEF EarlyInv
<1>4. CASE ReplaceFile(t)
  <2>1. /\ Publish(t) /\ written' = [written EXCEPT ![t] = @ \cup {target[t]}]
        /\ snapshot' = snapshot /\ pc[t] = "replace"
    BY <1>4 DEF ReplaceFile
  <2>2. pc'[t] \in {"verify", "publish"}
    BY <1>4, LoopEffect DEF ReplaceFile
  <2> QED
    BY <1>0, <2>1, <2>2, PublishEffect DEF Early
<1>5. CASE ReplaceThenRaise(t)
  <2>1. /\ Publish(t) /\ UNCHANGED <<written, snapshot, target>>
        /\ pc[t] = "replace"
    BY <1>5 DEF ReplaceThenRaise
  <2>2. pc'[t] = "record"
    BY <1>5, GotoEffect DEF ReplaceThenRaise
  <2> QED
    BY <1>0, <2>1, <2>2, PublishEffect DEF Early
<1>6. CASE RecordPossibleWrite(t) \/ RecordUnreadable(t)
  <2>1. /\ UNCHANGED <<live, author, snapshot>>
        /\ \/ live[target[t]] = snapshot[t][target[t]] /\ written' = written
           \/ written' = [written EXCEPT ![t] = @ \cup {target[t]}]
    BY <1>6 DEF RecordPossibleWrite, RecordUnreadable
  <2>2. pc'[t] \in {"interrupted", "failed"}
    BY <1>6, ReraiseEffect DEF RecordPossibleWrite, RecordUnreadable
  <2> QED
    BY <1>0, <2>1, <2>2 DEF Early
<1> QED
  BY <1>1, <1>2, <1>3, <1>4, <1>5, <1>6, AsideSteps DEF Straight, Plans, Reads

\* A result that a run returns is true.
LEMMA OwnAnswer ==
  ASSUME TypeOK, NEW t \in Txn, Step(t),
         WrittenInv(t), RestoredInv(t), ResultInv(t)
  PROVE  ResultInv(t)' /\ AnswerInv(t)'
<1>1. outcome[t] = "none" /\ rollback[t] = "none" /\ pc[t] # "done"
  BY Endings DEF ResultInv
<1>2. CASE Goes(t)
  <2>1. ResultInv(t)'
    BY <1>1, <1>2 DEF Goes, ResultInv
  <2>2. AnswerInv(t)'
    BY <1>2 DEF Goes, AnswerInv
  <2> QED
    BY <2>1, <2>2
<1>3. CASE Ends(t)
  <2>1. ResultInv(t)'
    BY <1>3 DEF Ends, ResultInv
  <2>2. CASE pc[t] # "record" /\ written[t] = {}
    BY <1>1, <1>3, <2>1, <2>2 DEF Ends, WrittenInv, AnswerInv
  <2>3. CASE pc[t] \in {"restored", "rverify"} /\ todo[t] = {}
    <3>1. \A f \in Files : author[f] = t => live[f] = snapshot[t][f]
      BY <1>1, <2>3 DEF WrittenInv, RestoredInv, RestoredScans
    <3> QED
      BY <1>3, <2>1, <3>1 DEF Ends, AnswerInv
  <2> QED
    BY <1>3, <2>1, <2>2, <2>3 DEF Ends, AnswerInv
<1> QED
  BY <1>2, <1>3, Endings

\* A step of another run: it writes no verified file of this run unseen, because
\* two runs that share the file lock are not both inside it.
LEMMA OthersReport ==
  ASSUME FullInv, NEW t \in Txn, NEW u \in Txn \ {t}, Step(t)
  PROVE  ReportInv(u)'
<1>0. TypeOK /\ RunInv(u) /\ RunInv(t) /\ ReportInv(u)
  BY DEF FullInv, IInv
<1>1. /\ pc'[u] = pc[u] /\ todo'[u] = todo[u] /\ target'[u] = target[u]
      /\ baseline'[u] = baseline[u] /\ snapshot'[u] = snapshot[u]
      /\ \A f \in Files : author'[f] \in {author[f], t}
  BY <1>0, Others
<1>2. /\ written'[u] = written[u] /\ samples'[u] = samples[u]
      /\ outcome'[u] = outcome[u] /\ rollback'[u] = rollback[u]
      /\ touched[u] \subseteq touched'[u] /\ loaded' = loaded
      /\ klipper = "startup" =>
            klipper' = "startup" /\ (u \in stale' => u \in stale)
  BY <1>0, OthersRecords
<1>3. /\ Artifacts(u)' = Artifacts(u) /\ NoOp(u)' = NoOp(u)
      /\ \A f \in Files : PlannedState(u, f)' = PlannedState(u, f)
  BY <1>1, ExpectedFrame
<1>4. ASSUME NEW f \in Files
      PROVE  live'[f] = live[f] \/ author'[f] = t
  <2>1. \/ live' = live
        \/ Publish(t)
    BY <1>0, OthersRecords
  <2> QED
    BY <1>0, <2>1, PublishEffect
<1>5. ASSUME NEW f \in Files, pc[u] \in Verifying
      PROVE  live'[f] = live[f] \/ f \in touched'[u]
  <2>1. CASE pc[t] = "replace" /\ Publish(t)
    <3>1. ~(Cooperating(u) /\ Cooperating(t))
      BY <1>0, <1>5, <2>1, ConfigAssumption
         DEF RunInv, CauseInv, LockInv, Forward, Verifying, ReviewedScans,
             PlannedScans
    <3>2. touched'[u] = touched[u] \cup {target[t]}
      BY <3>1, <2>1 DEF Publish
    <3> QED
      BY <1>0, <2>1, <3>2, PublishEffect
  <2> QED
    BY <1>0, <2>1, OthersRecords
<1>6. VerifiedInv(u)'
  BY <1>0, <1>1, <1>2, <1>3, <1>5 DEF ReportInv, VerifiedInv
<1>7. WaitInv(u)'
  BY <1>0, <1>1, <1>2, <1>3, ConfigAssumption DEF ReportInv, WaitInv, Loaded
<1>8. RestoredInv(u)'
  BY <1>0, <1>1, <1>2, <1>4 DEF ReportInv, RestoredInv, TypeOK
<1>9. WrittenInv(u)'
  BY <1>0, <1>1, <1>2, <1>4 DEF ReportInv, WrittenInv, TypeOK
<1>10. AnswerInv(u)'
  BY <1>0, <1>1, <1>2, <1>4 DEF ReportInv, AnswerInv, TypeOK
<1>11. ResultInv(u)'
  BY <1>0, <1>1, <1>2 DEF ReportInv, ResultInv
<1> QED
  BY <1>6, <1>7, <1>8, <1>9, <1>10, <1>11 DEF ReportInv


\* What the editor, Klipper and a dying process do to the reports of a run.
LEMMA EnvironmentReport ==
  ASSUME FullInv, Environment, NEW u \in Txn
  PROVE  ReportInv(u)'
<1>0. TypeOK /\ ReportInv(u) /\ RunInv(u)
  BY DEF FullInv, IInv
<1> USE DEF TypeOK
<1>1. ASSUME NEW f \in Files, NEW content \in Content, EditFile(f, content)
      PROVE  ReportInv(u)'
  <2>1. /\ UNCHANGED <<baseline, snapshot, written, pc, todo, target, samples,
                       outcome, rollback, klipper, loaded, stale>>
        /\ touched'[u] = touched[u] \cup {f}
        /\ \A g \in Files :
              \/ live'[g] = live[g] /\ author'[g] = author[g]
              \/ g = f /\ author'[g] = Free
    BY <1>0, <1>1 DEF EditFile
  <2>2. /\ Artifacts(u)' = Artifacts(u) /\ NoOp(u)' = NoOp(u)
        /\ \A g \in Files : PlannedState(u, g)' = PlannedState(u, g)
    BY <2>1, ExpectedFrame
  <2>3. VerifiedInv(u)'
    BY <1>0, <2>1, <2>2 DEF ReportInv, VerifiedInv
  <2>4. WaitInv(u)'
    BY <1>0, <2>1, <2>2 DEF ReportInv, WaitInv, Loaded
  <2>5. RestoredInv(u)'
    BY <1>0, <2>1, ConfigAssumption DEF ReportInv, RestoredInv
  <2>6. WrittenInv(u)'
    BY <1>0, <2>1, ConfigAssumption DEF ReportInv, WrittenInv
  <2>7. AnswerInv(u)'
    BY <1>0, <2>1, ConfigAssumption DEF ReportInv, AnswerInv
  <2>8. ResultInv(u)'
    BY <1>0, <2>1 DEF ReportInv, ResultInv
  <2> QED
    BY <2>3, <2>4, <2>5, <2>6, <2>7, <2>8 DEF ReportInv
<1>2. CASE ForeignRestart \/ KlipperStarts \/ KlipperFails
  <2>1. /\ UNCHANGED <<live, author, touched, baseline, snapshot, written, pc,
                       todo, target, samples, outcome, rollback>>
        /\ \/ /\ loaded' = loaded
              /\ klipper = "startup" => klipper' = "startup" /\ stale' = stale
           \/ loaded' = live
    BY <1>2 DEF ForeignRestart, KlipperStarts, KlipperFails, KlipperRestarts
  <2>2. /\ Artifacts(u)' = Artifacts(u) /\ NoOp(u)' = NoOp(u)
        /\ \A g \in Files : PlannedState(u, g)' = PlannedState(u, g)
    BY <2>1, ExpectedFrame
  <2>3. VerifiedInv(u)'
    BY <1>0, <2>1, <2>2 DEF ReportInv, VerifiedInv
  <2>4. ASSUME loaded' = live, pc[u] \in {"waitready", "firmware", "reverify"}
        PROVE  Loaded(u)'
    <3>1. \A f \in Files : live[f] = PlannedState(u, f) \/ f \in touched[u]
      BY <1>0, <2>4 DEF ReportInv, VerifiedInv, Verifying
    <3>2. Artifacts(u) \subseteq Files
      BY ConfigAssumption DEF Artifacts
    <3>3. \A f \in Artifacts(u) : live[f] = Generated[u][f] \/ f \in touched[u]
      BY <3>1, <3>2 DEF PlannedState
    <3> QED
      BY <2>1, <2>2, <2>4, <3>3 DEF Loaded
  <2>5. loaded' = loaded => Loaded(u)' = Loaded(u)
    BY <2>1, <2>2 DEF Loaded
  <2>6. WaitInv(u)'
    BY <1>0, <2>1, <2>2, <2>4, <2>5 DEF ReportInv, WaitInv
  <2>7. RestoredInv(u)' /\ WrittenInv(u)'
    BY <1>0, <2>1 DEF ReportInv, RestoredInv, WrittenInv
  <2>8. AnswerInv(u)' /\ ResultInv(u)'
    BY <1>0, <2>1 DEF ReportInv, AnswerInv, ResultInv
  <2> QED
    BY <2>3, <2>6, <2>7, <2>8 DEF ReportInv
<1>3. ASSUME NEW p \in Process, Crash(p)
      PROVE  ReportInv(u)'
  <2>1. /\ UNCHANGED <<live, author, touched, baseline, snapshot, written, todo,
                       target, samples, rollback, klipper, loaded, stale>>
        /\ \/ pc'[u] = "done" /\ outcome'[u] = "CRASHED"
           \/ pc'[u] = pc[u] /\ outcome'[u] = outcome[u]
    BY <1>0, <1>3 DEF Crash
  <2>2. /\ Artifacts(u)' = Artifacts(u) /\ NoOp(u)' = NoOp(u)
        /\ \A g \in Files : PlannedState(u, g)' = PlannedState(u, g)
    BY <2>1, ExpectedFrame
  <2>3. VerifiedInv(u)'
    BY <1>0, <2>1, <2>2 DEF ReportInv, VerifiedInv, Verifying
  <2>4. WaitInv(u)'
    BY <1>0, <2>1, <2>2 DEF ReportInv, WaitInv, Loaded
  <2>5. RestoredInv(u)' /\ WrittenInv(u)'
    BY <1>0, <2>1
       DEF ReportInv, RestoredInv, WrittenInv, RestoredScans, Early
  <2>6. AnswerInv(u)' /\ ResultInv(u)'
    BY <1>0, <2>1 DEF ReportInv, AnswerInv, ResultInv
  <2> QED
    BY <2>3, <2>4, <2>5, <2>6 DEF ReportInv
<1> QED
  BY <1>1, <1>2, <1>3 DEF Environment

\* Nothing is verified, recorded or returned in the beginning.
LEMMA FullInit == Init => FullInv
<1> SUFFICES ASSUME Init PROVE FullInv
  OBVIOUS
<1>1. IInv
  BY IInvInit
<1>2. ASSUME NEW t \in Txn PROVE ReportInv(t)
  <2>1. /\ pc[t] = "idle" /\ outcome[t] = "none" /\ rollback[t] = "none"
        /\ written[t] = {} /\ \A f \in Files : author[f] = Free
    BY DEF Init
  <2> QED
    BY <2>1, ConfigAssumption
       DEF ReportInv, VerifiedInv, WaitInv, RestoredInv, WrittenInv, ResultInv,
           AnswerInv, Verifying, RestoredScans
<1> QED
  BY <1>1, <1>2 DEF FullInv

\* The strengthened invariant is inductive.
LEMMA FullNext == FullInv /\ [Next]_vars => FullInv'
<1> SUFFICES ASSUME FullInv, [Next]_vars PROVE FullInv'
  OBVIOUS
<1>1. IInv'
  BY IInvNext DEF FullInv
<1>2. ASSUME NEW u \in Txn PROVE ReportInv(u)'
  <2>1. CASE UNCHANGED vars
    <3>1. UNCHANGED <<live, author, touched, baseline, snapshot, written, pc,
                      todo, target, samples, outcome, rollback, klipper, loaded,
                      stale>>
      BY <2>1 DEF vars, editVars, planVars, resultVars, klipperVars
    <3>2. /\ Artifacts(u)' = Artifacts(u) /\ NoOp(u)' = NoOp(u)
          /\ \A g \in Files : PlannedState(u, g)' = PlannedState(u, g)
      BY <3>1, ExpectedFrame
    <3> QED
      BY <3>1, <3>2 DEF FullInv, ReportInv, VerifiedInv, WaitInv, Loaded,
                        RestoredInv, WrittenInv, ResultInv, AnswerInv
  <2>2. CASE Step(u)
    <3>1. TypeOK /\ ReportInv(u) /\ EarlyInv(u)
      BY DEF FullInv, IInv, RunInv, PublicationInv
    <3>2. VerifiedInv(u)'
      BY <2>2, <3>1, OwnVerified DEF ReportInv
    <3>3. WaitInv(u)'
      BY <2>2, <3>1, OwnWait DEF ReportInv
    <3>4. RestoredInv(u)'
      BY <2>2, <3>1, OwnRestored DEF ReportInv
    <3>5. WrittenInv(u)'
      BY <2>2, <3>1, OwnWritten DEF ReportInv
    <3>6. ResultInv(u)' /\ AnswerInv(u)'
      BY <2>2, <3>1, OwnAnswer DEF ReportInv
    <3> QED
      BY <3>2, <3>3, <3>4, <3>5, <3>6 DEF ReportInv
  <2>3. ASSUME NEW t \in Txn, t # u, Step(t) PROVE ReportInv(u)'
    BY <2>3, OthersReport
  <2>4. CASE Environment
    BY <2>4, EnvironmentReport
  <2> QED
    BY <2>1, <2>2, <2>3, <2>4 DEF Next, Step
<1> QED
  BY <1>1, <1>2 DEF FullInv

\* Every reachable state satisfies it.
THEOREM FullInvariance == Spec => []FullInv
<1>1. Init => FullInv
  BY FullInit
<1>2. FullInv /\ [Next]_vars => FullInv'
  BY FullNext
<1> QED
  BY <1>1, <1>2, PTL DEF Spec

-----------------------------------------------------------------------------
\* Whatever a run tells its caller, other than COMMITTED, pending or a failed
\* rollback, none of its bytes are left in the config root: as long as the
\* failed proposal can be preserved (PreserveProposalFails is the code's one
\* exception to it).
THEOREM AttemptedWriteReportedAlways ==
  "proposal" \notin Faults => (Spec => []AttemptedWriteReported)
<1> SUFFICES ASSUME "proposal" \notin Faults
             PROVE  Spec => []AttemptedWriteReported
  OBVIOUS
<1>1. FullInv => AttemptedWriteReported
  BY DEF FullInv, ReportInv, AnswerInv, AttemptedWriteReported
<1> QED
  BY <1>1, FullInvariance, PTL

\* Klipper is restarted only onto verified files: no other run of the
\* directory lock, in whatever process, can have changed them since.
THEOREM RestartIsVerifiedAlways == Spec => RestartIsVerified
<1>1. ASSUME FullInv, [Next]_vars
      PROVE  [\A t \in Txn :
                pc[t] = "restart" /\ pc'[t] = "waitready" =>
                   \A f \in Files :
                       live[f] = PlannedState(t, f) \/ f \in touched[t]]_vars
  BY <1>1 DEF FullInv, ReportInv, VerifiedInv, Verifying
<1> QED
  BY <1>1, FullInvariance, PTL DEF Spec, RestartIsVerified

\* How the result of a run comes to be stored: by its own last step, or, with
\* CRASHED and no rollback, by the death of its process.
LEMMA ResultSource ==
  ASSUME FullInv, [Next]_vars, NEW t \in Txn
  PROVE  \/ Step(t) /\ Ends(t)
         \/ outcome'[t] \in {outcome[t], "CRASHED"} /\ rollback'[t] = rollback[t]
<1>0. TypeOK /\ WrittenInv(t)
  BY DEF FullInv, IInv, ReportInv
<1>1. CASE UNCHANGED vars
  BY <1>1 DEF vars, resultVars
<1>2. CASE Step(t)
  BY <1>0, <1>2, Endings DEF Goes
<1>3. ASSUME NEW u \in Txn, u # t, Step(u)
      PROVE  outcome'[t] = outcome[t] /\ rollback'[t] = rollback[t]
  BY <1>0, <1>3, OthersRecords
<1>4. CASE Environment
  BY <1>0, <1>4 DEF TypeOK, Environment, EditFile, ForeignRestart, KlipperStarts,
                    KlipperFails, Crash, resultVars
<1> QED
  BY <1>1, <1>2, <1>3, <1>4 DEF Next, Step

\* COMMITTED is returned only when Klipper has loaded the whole plan: stale
\* Ready answers, restarts by others and slow starts cannot deceive the run.
THEOREM CommitIsActiveAlways == Spec => CommitIsActive
<1>1. ASSUME FullInv, [Next]_vars, NEW t \in Txn,
             outcome[t] = "none", outcome'[t] = "COMMITTED"
      PROVE  Loaded(t)
  <2>1. Ends(t) /\ WaitInv(t)
    BY <1>1, ResultSource DEF FullInv, ReportInv
  <2>2. pc[t] = "reverify"
    BY <1>1, <2>1 DEF Ends
  <2> QED
    BY <2>1, <2>2 DEF WaitInv
<1>2. ASSUME FullInv, [Next]_vars
      PROVE  [\A t \in Txn :
                outcome[t] = "none" /\ outcome'[t] = "COMMITTED" =>
                   \A f \in Artifacts(t) \ {MoonrakerConf} :
                       loaded[f] = Generated[t][f] \/ f \in touched[t]]_vars
  BY <1>1, <1>2 DEF Loaded
<1> QED
  BY <1>2, FullInvariance, PTL DEF Spec, CommitIsActive

\* A successful rollback is reported only with every original in place.
THEOREM RecoveryIsProvenAlways == Spec => RecoveryIsProven
<1>1. ASSUME FullInv, [Next]_vars, NEW t \in Txn,
             rollback[t] = "none", rollback'[t] = "ok"
      PROVE  \A f \in written[t] : live[f] = snapshot[t][f] \/ author[f] # t
  <2>1. Ends(t) /\ RestoredInv(t)
    BY <1>1, ResultSource DEF FullInv, ReportInv
  <2>2. pc[t] \in {"restored", "rverify"} /\ todo[t] = {}
    BY <1>1, <2>1 DEF Ends
  <2> QED
    BY <2>1, <2>2 DEF RestoredInv, RestoredScans
<1>2. ASSUME FullInv, [Next]_vars
      PROVE  [\A t \in Txn :
                rollback[t] = "none" /\ rollback'[t] = "ok" =>
                   \A f \in written[t] :
                       live[f] = snapshot[t][f] \/ author[f] # t]_vars
  BY <1>1, <1>2
<1> QED
  BY <1>2, FullInvariance, PTL DEF Spec, RecoveryIsProven


=============================================================================
