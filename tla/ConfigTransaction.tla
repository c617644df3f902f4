-------------------------- MODULE ConfigTransaction --------------------------
(***************************************************************************)
(* The verified publication transaction of core/config_transaction.py.     *)
(*                                                                         *)
(* Several runs of ConfigDeploymentTransaction.run() share one live config *)
(* root, one Klipper and the locks in front of them.  They run in the same *)
(* or in different processes and over the transports KACE ships; an        *)
(* external editor ignores the locks.  One action is one step between two  *)
(* accesses to shared state: every file is read by a step of its own, and  *)
(* the comparison before a replacement is separate from the replacement.   *)
(*                                                                         *)
(* Contents are opaque.  A plan is the files a run manages and the bytes   *)
(* it wants in them; how the reconciler computes these bytes is not part   *)
(* of this module.                                                         *)
(***************************************************************************)
EXTENDS Naturals

CONSTANTS
    Txn,            \* the runs of ConfigDeploymentTransaction
    Process,        \* the KACE processes
    ProcessOf,      \* the process of each run
    Transport,      \* "local", "offline", "sftp" or "moonraker", per run
    Retry,          \* the runs constructed with verify_existing_ready
    Files,          \* the names read_config_state collects
    Root,           \* printer.cfg
    MoonrakerConf,  \* moonraker.conf; need not be in Files
    Bytes,          \* possible contents of a file
    Absent,         \* a positively confirmed absent file
    NotSaved,       \* a file a snapshot says nothing about
    Free,           \* nobody holds the file lock; nobody wrote the file
    Managed,        \* the artifacts of each run's plan
    Generated,      \* the planned bytes of each run's artifacts
    InitialFiles,   \* the config roots the runs may find
    Faults,         \* which faults the environment injects
    MaxEdits        \* bound on the external editor's operations

Content == Bytes \cup {Absent}

AllFaults ==
    {"read", "snapshot", "proposal", "upload", "activation", "firmware",
     "klipper", "interrupt", "crash"}

ASSUME ConfigAssumption ==
    /\ ProcessOf \in [Txn -> Process]
    /\ Transport \in [Txn -> {"local", "offline", "sftp", "moonraker"}]
    /\ Retry \in SUBSET Txn
    /\ Root \in Files
    /\ Root # MoonrakerConf
    /\ Absent \notin Bytes
    /\ NotSaved \notin Content
    /\ Free \notin Txn
    /\ Managed \in [Txn -> SUBSET Files]
    /\ \A t \in Txn : Root \in Managed[t]
    /\ Generated \in [Txn -> [Files -> Bytes]]
    /\ InitialFiles \in SUBSET [Files -> Content]
    /\ Faults \in SUBSET AllFaults
    /\ MaxEdits \in Nat

VARIABLES
    live,           \* the bytes of each file of the config root
    holding,        \* the runs holding their in-process destination lock
    fileLock,       \* the holder of .kace-deploy.lock
    pc,             \* where each run is
    todo,           \* the files its current loop has not handled yet
    baseline,       \* the bytes it reviewed
    target,         \* the artifact it is publishing
    written,        \* _written_names
    snapshot,       \* its durable snapshot
    activation,     \* the activation mode it ended up with
    samples,        \* consecutive Ready samples seen
    cause,          \* why it left the straight path
    outcome,        \* the ConfigTransactionState it returned
    rollback,       \* the rollback_succeeded it returned
    klipper,        \* Klipper's state
    loaded,         \* the configuration Klipper read when it last started
    stale,          \* runs that may still see the state before the restart
    edits,          \* operations the external editor has used
    author,         \* history: who wrote the live bytes
    displaced,      \* history: what each run overwrote
    raced,          \* history: files edited inside a run's final window
    touched         \* history: files written since a run verified them by
                    \* somebody its file lock does not exclude

editVars    == <<live, author, displaced, raced, touched>>
lockVars    == <<holding, fileLock>>
planVars    == <<baseline, snapshot, activation>>
resultVars  == <<outcome, rollback>>
klipperVars == <<klipper, loaded, stale>>

vars == <<editVars, lockVars, planVars, resultVars, klipperVars, pc, todo,
          target, written, samples, cause, edits>>

-----------------------------------------------------------------------------
(* What the transports offer.                                              *)

\* Only LocalMoonrakerConfigTransport has a destination_lock; it is also the
\* only one that compares the live bytes after staging.
HasFileLock(t) == Transport[t] = "local"

\* Runs that publish to this config root under .kace-deploy.lock.
Cooperating(t) == HasFileLock(t)

\* destination_key: local transports are named by the directory, the others
\* by the Moonraker endpoint.
DestinationKey(t) ==
    IF Transport[t] \in {"local", "offline"} THEN "directory" ELSE "endpoint"

\* supports_conditional_write(previous)
SupportsConditionalWrite(t, previous) ==
    \/ Transport[t] = "local"
    \/ Transport[t] \in {"offline", "sftp"} /\ previous = Absent

-----------------------------------------------------------------------------
(* The plan, a function of the reviewed baseline.                          *)

\* moonraker.conf is reconciled only when it was positively observed.
Artifacts(t) ==
    {f \in Managed[t] : f = MoonrakerConf => baseline[t][f] # Absent}

Changed(t) == {f \in Artifacts(t) : baseline[t][f] # Generated[t][f]}

\* _expected_config_state
PlannedState(t, f) ==
    IF f \in Artifacts(t) THEN Generated[t][f] ELSE baseline[t][f]

\* A retry whose files already match only proves the installed state.
NoOp(t) == Changed(t) = {} /\ t \in Retry

\* Mutant: artifacts in the order of their names only.
NextArtifactsAnyOrder(t) == todo[t]

\* Includes must exist before printer.cfg starts referencing them.
NextArtifacts(t) ==
    IF todo[t] = {Root} THEN {Root} ELSE todo[t] \ {Root}

-----------------------------------------------------------------------------
(* Program positions.                                                      *)

ReviewedScans == {"revalidate", "recheck"}
PlannedScans  == {"verify", "reverify"}
RestoredScans == {"diagnose", "restored", "rverify"}
Scans         == ReviewedScans \cup PlannedScans \cup RestoredScans

Forward ==
    {"preflight", "review", "snapshot", "publish", "compare", "replace",
     "record", "moonraker", "restart", "waitready", "firmware", "active",
     "failed"} \cup ReviewedScans \cup PlannedScans

Rollback == {"rmoonraker", "rrestart", "rready"} \cup RestoredScans

\* Positions reached only after the operator confirmed the plan.
Confirmed ==
    (Forward \cup Rollback \cup {"interrupted"}) \ {"preflight", "review"}

Position ==
    {"idle", "file", "interrupted", "done"} \cup Forward \cup Rollback

Cause == {"none", "upload", "verify", "activation", "firmware", "interrupt"}

Outcome ==
    {"none", "PRECONDITION_FAILED", "CANCELLED", "SNAPSHOT_FAILED",
     "UPLOAD_FAILED", "VERIFY_FAILED", "ACTIVATION_FAILED", "FIRMWARE_FAILED",
     "ROLLBACK_FAILED", "DEPLOYED_PENDING_ACTIVATION", "COMMITTED", "CRASHED"}

\* Mutant: the rollback looks for its own writes instead of the originals.
ExpectedOwnWrites(t, f) ==
    IF pc[t] \in ReviewedScans THEN baseline[t][f] ELSE PlannedState(t, f)

\* The bytes the current scan of run t must find in f.
Expected(t, f) ==
    IF pc[t] \in ReviewedScans THEN baseline[t][f]
    ELSE IF pc[t] \in PlannedScans THEN PlannedState(t, f)
    ELSE snapshot[t][f]

-----------------------------------------------------------------------------
TypeOK ==
    /\ live \in [Files -> Content]
    /\ holding \in SUBSET Txn
    /\ fileLock \in Txn \cup {Free}
    /\ pc \in [Txn -> Position]
    /\ todo \in [Txn -> SUBSET Files]
    /\ baseline \in [Txn -> [Files -> Content]]
    /\ target \in [Txn -> Files]
    /\ written \in [Txn -> SUBSET Files]
    /\ snapshot \in [Txn -> [Files -> Content \cup {NotSaved}]]
    /\ activation \in [Txn -> {"firmware", "none"}]
    /\ samples \in [Txn -> 0 .. 2]
    /\ cause \in [Txn -> Cause]
    /\ outcome \in [Txn -> Outcome]
    /\ rollback \in [Txn -> {"none", "ok", "failed"}]
    /\ klipper \in {"ready", "startup", "error"}
    /\ loaded \in [Files -> Content]
    /\ stale \in SUBSET Txn
    /\ edits \in 0 .. MaxEdits
    /\ author \in [Files -> Txn \cup {Free}]
    /\ displaced \in [Txn -> [Files -> Content \cup {NotSaved}]]
    /\ raced \in [Txn -> SUBSET Files]
    /\ touched \in [Txn -> SUBSET Files]

\* Klipper runs the configuration that is live when the runs begin, or a
\* previous one: an earlier publication may still await its activation.
Init ==
    /\ live \in InitialFiles
    /\ loaded \in InitialFiles
    /\ klipper = "ready"
    /\ stale = {}
    /\ holding = {}
    /\ fileLock = Free
    /\ pc = [t \in Txn |-> "idle"]
    /\ todo = [t \in Txn |-> {}]
    /\ baseline = [t \in Txn |-> [f \in Files |-> Absent]]
    /\ target = [t \in Txn |-> Root]
    /\ written = [t \in Txn |-> {}]
    /\ snapshot = [t \in Txn |-> [f \in Files |-> NotSaved]]
    /\ activation = [t \in Txn |->
                        IF Transport[t] = "offline" THEN "none" ELSE "firmware"]
    /\ samples = [t \in Txn |-> 0]
    /\ cause = [t \in Txn |-> "none"]
    /\ outcome = [t \in Txn |-> "none"]
    /\ rollback = [t \in Txn |-> "none"]
    /\ edits = 0
    /\ author = [f \in Files |-> Free]
    /\ displaced = [t \in Txn |-> [f \in Files |-> NotSaved]]
    /\ raced = [t \in Txn |-> {}]
    /\ touched = [t \in Txn |-> {}]

-----------------------------------------------------------------------------
(* Steps shared by several actions.                                        *)

Goto(t, step) == pc' = [pc EXCEPT ![t] = step]

\* The with-blocks of run() are left: both locks are given up.
Return(t, state, recovered) ==
    /\ outcome' = [outcome EXCEPT ![t] = state]
    /\ rollback' = [rollback EXCEPT ![t] = recovered]
    /\ holding' = holding \ {t}
    /\ fileLock' = IF fileLock = t THEN Free ELSE fileLock
    /\ Goto(t, "done")

\* An exception inside the publication try-block.
Raise(t, reason) ==
    /\ cause' = [cause EXCEPT ![t] = reason]
    /\ Goto(t, "failed")

FailureState(reason) ==
    IF reason = "firmware" THEN "FIRMWARE_FAILED"
    ELSE IF reason = "activation" THEN "ACTIVATION_FAILED"
    ELSE IF reason = "verify" THEN "VERIFY_FAILED"
    ELSE IF reason = "interrupt" THEN "CANCELLED"
    ELSE "UPLOAD_FAILED"

RollbackReturns(t, recovered) ==
    IF recovered
    THEN Return(t, FailureState(cause[t]), "ok")
    ELSE Return(t, "ROLLBACK_FAILED", "failed")

\* A loop over a set of files; its body is one step per file.
Loop(t, step, names) ==
    /\ Goto(t, step)
    /\ todo' = [todo EXCEPT ![t] = names]

-----------------------------------------------------------------------------
(* Locks and preflight.                                                    *)

\* threading.Lock: waits without a limit while another thread of the same
\* process works on the same destination.
EnterProcess(t) ==
    /\ pc[t] = "idle"
    /\ \A u \in holding : ~ /\ ProcessOf[u] = ProcessOf[t]
                            /\ DestinationKey(u) = DestinationKey(t)
    /\ holding' = holding \cup {t}
    /\ IF HasFileLock(t)
       THEN Goto(t, "file") /\ UNCHANGED todo
       ELSE Loop(t, "preflight", Files)
    /\ UNCHANGED <<editVars, fileLock, planVars, resultVars, klipperVars,
                   target, written, samples, cause, edits>>

\* Mutant: a shared instead of an exclusive flock.
AcquireFileLockShared(t) ==
    /\ pc[t] = "file"
    /\ fileLock' = t
    /\ Loop(t, "preflight", Files)
    /\ UNCHANGED <<editVars, holding, planVars, resultVars, klipperVars,
                   target, written, samples, cause, edits>>

AcquireFileLock(t) ==
    /\ pc[t] = "file"
    /\ fileLock = Free
    /\ fileLock' = t
    /\ Loop(t, "preflight", Files)
    /\ UNCHANGED <<editVars, holding, planVars, resultVars, klipperVars,
                   target, written, samples, cause, edits>>

\* Mutant: flock without LOCK_NB, so without the deadline.
FileLockTimeoutNever(t) == FALSE /\ UNCHANGED vars

\* 30 seconds of polling flock while somebody else holds it.
FileLockTimeout(t) ==
    /\ pc[t] = "file"
    /\ fileLock # Free
    /\ Return(t, "PRECONDITION_FAILED", "none")
    /\ UNCHANGED <<editVars, planVars, klipperVars, todo, target, written,
                   samples, cause, edits>>

\* read_config_state copies one file after the other.
ReadBaseline(t) ==
    /\ pc[t] = "preflight"
    /\ \E f \in todo[t] :
          /\ baseline' = [baseline EXCEPT ![t][f] = live[f]]
          /\ IF todo[t] = {f}
             THEN Loop(t, "review", {})
             ELSE Loop(t, "preflight", todo[t] \ {f})
    /\ UNCHANGED <<editVars, lockVars, snapshot, activation, resultVars,
                   klipperVars, target, written, samples, cause, edits>>

\* An unreadable file, an include limit, an unreachable Moonraker.
PreflightFails(t) ==
    /\ pc[t] = "preflight"
    /\ "read" \in Faults
    /\ Return(t, "PRECONDITION_FAILED", "none")
    /\ UNCHANGED <<editVars, planVars, klipperVars, todo, target, written,
                   samples, cause, edits>>

\* require_conditional_writes over the whole plan.
PlanIsConditional(t) ==
    \A f \in Changed(t) : SupportsConditionalWrite(t, baseline[t][f])

\* The plan needs a write the transport cannot condition, or the semantic
\* validation of the review finds an error: the latter may happen to any plan.
RejectPlan(t) ==
    /\ pc[t] = "review"
    /\ Return(t, "PRECONDITION_FAILED", "none")
    /\ UNCHANGED <<editVars, planVars, klipperVars, todo, target, written,
                   samples, cause, edits>>

\* The operator declines the reviewed diff.
DeclinePlan(t) ==
    /\ pc[t] = "review"
    /\ PlanIsConditional(t)
    /\ Return(t, "CANCELLED", "none")
    /\ UNCHANGED <<editVars, planVars, klipperVars, todo, target, written,
                   samples, cause, edits>>

\* The operator confirms and, unless the run is a verified no-op, chooses the
\* activation.  An offline export is built with activation none.
AcceptPlan(t) ==
    /\ pc[t] = "review"
    /\ PlanIsConditional(t)
    /\ \E mode \in {"firmware", "none"} :
          /\ Transport[t] = "offline" \/ NoOp(t) => mode = activation[t]
          /\ activation' = [activation EXCEPT ![t] = mode]
    /\ Loop(t, "revalidate", Files)
    /\ UNCHANGED <<editVars, lockVars, baseline, snapshot, resultVars,
                   klipperVars, target, written, samples, cause, edits>>

-----------------------------------------------------------------------------
(* Scans: one file is read and compared with what the phase expects.       *)

\* Mutant: a scan that only looks whether the file is there.
ScanFileExists(t) ==
    /\ pc[t] \in Scans
    /\ \E f \in todo[t] :
          /\ live[f] # Absent
          /\ todo' = [todo EXCEPT ![t] = @ \ {f}]
          /\ touched' = IF pc[t] = "verify"
                        THEN [touched EXCEPT ![t] = @ \ {f}]
                        ELSE touched
    /\ UNCHANGED <<live, author, displaced, raced, lockVars, planVars,
                   resultVars, klipperVars, pc, target, written, samples,
                   cause, edits>>

ScanFile(t) ==
    /\ pc[t] \in Scans
    /\ \E f \in todo[t] :
          /\ live[f] = Expected(t, f)
          /\ todo' = [todo EXCEPT ![t] = @ \ {f}]
          /\ touched' = IF pc[t] = "verify"
                        THEN [touched EXCEPT ![t] = @ \ {f}]
                        ELSE touched
    /\ UNCHANGED <<live, author, displaced, raced, lockVars, planVars,
                   resultVars, klipperVars, pc, target, written, samples,
                   cause, edits>>

\* Reading failed, or a file differs.
ScanFails(t) ==
    \/ "read" \in Faults
    \/ \E f \in todo[t] : live[f] # Expected(t, f)

\* revalidate_config_state raised ConfigConflictError before any write; the
\* proposal is preserved (or that fails too) and the result is the same.
ReviewedStateConflict(t) ==
    /\ pc[t] \in ReviewedScans
    /\ ScanFails(t)
    /\ Return(t, "PRECONDITION_FAILED", "none")
    /\ UNCHANGED <<editVars, planVars, klipperVars, todo, target, written,
                   samples, cause, edits>>

Revalidated(t) ==
    /\ pc[t] = "revalidate"
    /\ todo[t] = {}
    /\ Goto(t, "snapshot")
    /\ UNCHANGED <<editVars, lockVars, planVars, resultVars, klipperVars,
                   todo, target, written, samples, cause, edits>>

\* The originals of the changed artifacts become durable under the
\* transaction id by one directory rename; without changes there is nothing
\* to save.
TakeSnapshot(t) ==
    /\ pc[t] = "snapshot"
    /\ snapshot' = [snapshot EXCEPT ![t] =
                       [f \in Files |-> IF f \in Changed(t)
                                        THEN baseline[t][f] ELSE NotSaved]]
    /\ Loop(t, "recheck", Files)
    /\ UNCHANGED <<editVars, lockVars, baseline, activation, resultVars,
                   klipperVars, target, written, samples, cause, edits>>

SnapshotFails(t) ==
    /\ pc[t] = "snapshot"
    /\ Changed(t) # {} /\ "snapshot" \in Faults
    /\ Return(t, "SNAPSHOT_FAILED", "none")
    /\ UNCHANGED <<editVars, planVars, klipperVars, todo, target, written,
                   samples, cause, edits>>

Rechecked(t) ==
    /\ pc[t] = "recheck"
    /\ todo[t] = {}
    /\ IF Changed(t) = {}
       THEN Loop(t, "verify", Files)
       ELSE Loop(t, "publish", Changed(t))
    /\ UNCHANGED <<editVars, lockVars, planVars, resultVars, klipperVars,
                   target, written, samples, cause, edits>>

-----------------------------------------------------------------------------
(* Publication, one artifact at a time, printer.cfg last.                  *)

\* revalidate_config_state of the next artifact; the local transport then
\* stages and fsyncs before it compares again.
PickArtifact(t) ==
    /\ pc[t] = "publish"
    /\ \E f \in NextArtifacts(t) :
          /\ live[f] = baseline[t][f]
          /\ target' = [target EXCEPT ![t] = f]
    /\ Goto(t, IF HasFileLock(t) THEN "compare" ELSE "replace")
    /\ UNCHANGED <<editVars, lockVars, planVars, resultVars, klipperVars,
                   todo, written, samples, cause, edits>>

PickConflict(t) ==
    /\ pc[t] = "publish"
    /\ \/ "read" \in Faults
       \/ \E f \in NextArtifacts(t) : live[f] # baseline[t][f]
    /\ Raise(t, "upload")
    /\ UNCHANGED <<editVars, lockVars, planVars, resultVars, klipperVars,
                   todo, target, written, samples, edits>>

\* upload_bytes(expected=...): the last look before the replacement.
CompareStaged(t) ==
    /\ pc[t] = "compare"
    /\ live[target[t]] = baseline[t][target[t]]
    /\ Goto(t, "replace")
    /\ UNCHANGED <<editVars, lockVars, planVars, resultVars, klipperVars,
                   todo, target, written, samples, cause, edits>>

\* Mutant: posix_rename also for files that were absent.
MayReplaceAlways(t) == TRUE

\* os.replace over reviewed bytes; os.link or a no-replace rename when the
\* file was absent, which fails if it exists by now.
MayReplace(t) ==
    baseline[t][target[t]] = Absent => live[target[t]] = Absent

\* The replacement itself, with the history of what it overwrote.
Publish(t) ==
    /\ live' = [live EXCEPT ![target[t]] = Generated[t][target[t]]]
    /\ author' = [author EXCEPT ![target[t]] = t]
    /\ displaced' = [displaced EXCEPT ![t][target[t]] = live[target[t]]]
    /\ touched' = [u \in Txn |-> IF u = t \/ (Cooperating(u) /\ Cooperating(t))
                                 THEN touched[u]
                                 ELSE touched[u] \cup {target[t]}]
    /\ UNCHANGED raced

ReplaceFile(t) ==
    /\ pc[t] = "replace"
    /\ MayReplace(t)
    /\ Publish(t)
    /\ written' = [written EXCEPT ![t] = @ \cup {target[t]}]
    /\ IF todo[t] = {target[t]}
       THEN Loop(t, "verify", Files)
       ELSE Loop(t, "publish", todo[t] \ {target[t]})
    /\ UNCHANGED <<lockVars, planVars, resultVars, klipperVars, target,
                   samples, cause, edits>>

\* upload_if_unchanged raises: the comparison failed, the file appeared, the
\* disk or the connection failed, or the user pressed Ctrl+C.
UploadRaises(t) ==
    /\ pc[t] \in {"compare", "replace"}
    /\ \/ /\ \/ "upload" \in Faults
             \/ pc[t] = "compare" /\ live[target[t]] # baseline[t][target[t]]
             \/ pc[t] = "replace" /\ ~MayReplace(t)
          /\ cause' = [cause EXCEPT ![t] = "upload"]
       \/ "interrupt" \in Faults /\ cause' = [cause EXCEPT ![t] = "interrupt"]
    /\ Goto(t, "record")
    /\ UNCHANGED <<editVars, lockVars, planVars, resultVars, klipperVars,
                   todo, target, written, samples, edits>>

\* The new bytes are in place, then the directory fsync fails, the connection
\* drops or Ctrl+C arrives before the name is recorded.
ReplaceThenRaise(t) ==
    /\ pc[t] = "replace"
    /\ MayReplace(t)
    /\ \/ "upload" \in Faults /\ cause' = [cause EXCEPT ![t] = "upload"]
       \/ "interrupt" \in Faults /\ cause' = [cause EXCEPT ![t] = "interrupt"]
    /\ Publish(t)
    /\ Goto(t, "record")
    /\ UNCHANGED <<lockVars, planVars, resultVars, klipperVars, todo, target,
                   written, samples, edits>>

\* After _record_possible_write the exception goes on: an error to the
\* handler, Ctrl+C out of the with-block that holds the file lock.
Reraise(t) ==
    /\ Goto(t, IF cause[t] = "interrupt" THEN "interrupted" ELSE "failed")
    /\ fileLock' = IF cause[t] = "interrupt" /\ fileLock = t THEN Free
                   ELSE fileLock
    /\ UNCHANGED holding

\* Mutant: only uploads that returned are recorded.
RecordNothing(t) ==
    /\ pc[t] = "record"
    /\ Reraise(t)
    /\ UNCHANGED <<editVars, planVars, resultVars, klipperVars, todo, target,
                   written, samples, cause, edits>>

\* The file is read back: only bytes equal to the snapshot prove that nothing
\* was written.
RecordPossibleWrite(t) ==
    /\ pc[t] = "record"
    /\ written' = IF live[target[t]] = snapshot[t][target[t]] THEN written
                  ELSE [written EXCEPT ![t] = @ \cup {target[t]}]
    /\ Reraise(t)
    /\ UNCHANGED <<editVars, planVars, resultVars, klipperVars, todo, target,
                   samples, cause, edits>>

\* The file cannot be read back: assume it was written.
RecordUnreadable(t) ==
    /\ pc[t] = "record"
    /\ "read" \in Faults \/ "interrupt" \in Faults
    /\ written' = [written EXCEPT ![t] = @ \cup {target[t]}]
    /\ Reraise(t)
    /\ UNCHANGED <<editVars, planVars, resultVars, klipperVars, todo, target,
                   samples, cause, edits>>

-----------------------------------------------------------------------------
(* Verification and activation.                                            *)

\* _verify_plan failed: planned bytes differ, another file of the reviewed
\* graph changed, or reading failed.
PlanMismatch(t) ==
    /\ pc[t] \in PlannedScans
    /\ \/ "read" \in Faults /\ Raise(t, "upload")
       \/ \E f \in todo[t] :
             /\ live[f] # Expected(t, f)
             /\ Raise(t, IF f \in Artifacts(t) /\ live[f] # Absent
                         THEN "verify" ELSE "upload")
    /\ UNCHANGED <<editVars, lockVars, planVars, resultVars, klipperVars,
                   todo, target, written, samples, edits>>

\* The uploaded bytes are verified and nothing asks for an activation now.
DeferActivation(t) ==
    /\ pc[t] = "verify"
    /\ todo[t] = {}
    /\ ~NoOp(t) /\ activation[t] = "none"
    /\ Return(t, "DEPLOYED_PENDING_ACTIVATION", "none")
    /\ UNCHANGED <<editVars, planVars, klipperVars, todo, target, written,
                   samples, cause, edits>>

\* A no-op retry waits for Ready; otherwise Moonraker restarts before Klipper
\* when its own configuration changed.
BeginActivation(t) ==
    /\ pc[t] = "verify"
    /\ todo[t] = {}
    /\ NoOp(t) \/ activation[t] # "none"
    /\ Goto(t, IF NoOp(t) THEN "waitready"
               ELSE IF MoonrakerConf \in Changed(t) THEN "moonraker"
               ELSE "restart")
    /\ samples' = [samples EXCEPT ![t] = 0]
    /\ UNCHANGED <<editVars, lockVars, planVars, resultVars, klipperVars,
                   todo, target, written, cause, edits>>

\* What follows a failed activation step: the handler on the way forward, a
\* failed rollback on the way back.
ActivationFails(t) ==
    IF pc[t] \in Rollback
    THEN RollbackReturns(t, FALSE) /\ UNCHANGED cause
    ELSE Raise(t, "activation") /\ UNCHANGED <<lockVars, resultVars>>

\* restart_moonraker and _wait_moonraker.
RestartMoonraker(t) ==
    /\ pc[t] \in {"moonraker", "rmoonraker"}
    /\ Goto(t, IF pc[t] = "moonraker" THEN "restart" ELSE "rrestart")
    /\ UNCHANGED <<editVars, lockVars, planVars, resultVars, klipperVars,
                   todo, target, written, samples, cause, edits>>

RestartMoonrakerFails(t) ==
    /\ pc[t] \in {"moonraker", "rmoonraker"}
    /\ "activation" \in Faults
    /\ ActivationFails(t)
    /\ UNCHANGED <<editVars, planVars, klipperVars, todo, target, written,
                   samples, edits>>

\* Klipper accepts a restart; whoever asks first within a poll interval may
\* still be told that the old instance is ready.
KlipperRestarts ==
    /\ klipper' = "startup"
    /\ stale' = IF klipper = "ready" THEN Txn ELSE stale
    /\ UNCHANGED loaded

RestartKlipper(t) ==
    /\ pc[t] \in {"restart", "rrestart"}
    /\ Transport[t] # "offline"
    /\ KlipperRestarts
    /\ samples' = [samples EXCEPT ![t] = 0]
    /\ Goto(t, IF pc[t] = "restart" THEN "waitready" ELSE "rready")
    /\ UNCHANGED <<editVars, lockVars, planVars, resultVars, todo, target,
                   written, cause, edits>>

\* The request is refused, or its answer is lost after Klipper accepted it.
RestartKlipperFails(t) ==
    /\ pc[t] \in {"restart", "rrestart"}
    /\ Transport[t] = "offline" \/ "activation" \in Faults
    /\ \/ UNCHANGED klipperVars
       \/ Transport[t] # "offline" /\ KlipperRestarts
    /\ ActivationFails(t)
    /\ UNCHANGED <<editVars, planVars, todo, target, written, samples, edits>>

-----------------------------------------------------------------------------
(* _wait_ready: two consecutive Ready samples before the deadline.         *)

Polls == {"waitready", "rready"}

\* What a poll may report: the truth, or the old state once per poller.  An
\* offline directory has no Klipper to ask.
Reported(t) ==
    IF Transport[t] = "offline" THEN {"disconnected"}
    ELSE {klipper} \cup {s \in {"ready"} : t \in stale}

\* Mutant: the first Ready sample is enough.
SampleReadyOnce(t) ==
    /\ pc[t] \in Polls
    /\ "ready" \in Reported(t)
    /\ stale' = stale \ {t}
    /\ samples' = [samples EXCEPT ![t] = 1]
    /\ IF pc[t] = "waitready"
       THEN Goto(t, "firmware") /\ UNCHANGED todo
       ELSE Loop(t, "rverify", written[t])
    /\ UNCHANGED <<editVars, lockVars, planVars, resultVars, klipper, loaded,
                   target, written, cause, edits>>

\* Mutant: the loop tests for more than two samples.
SampleReadyMore(t) ==
    /\ pc[t] \in Polls
    /\ "ready" \in Reported(t)
    /\ stale' = stale \ {t}
    /\ samples' = [samples EXCEPT ![t] = @ + 1]
    /\ IF samples[t] < 2
       THEN UNCHANGED <<pc, todo>>
       ELSE IF pc[t] = "waitready"
       THEN Goto(t, "firmware") /\ UNCHANGED todo
       ELSE Loop(t, "rverify", written[t])
    /\ UNCHANGED <<editVars, lockVars, planVars, resultVars, klipper, loaded,
                   target, written, cause, edits>>

SampleReady(t) ==
    /\ pc[t] \in Polls
    /\ "ready" \in Reported(t)
    /\ stale' = stale \ {t}
    /\ IF samples[t] = 0
       THEN samples' = [samples EXCEPT ![t] = 1] /\ UNCHANGED <<pc, todo>>
       ELSE /\ samples' = [samples EXCEPT ![t] = 2]
            /\ IF pc[t] = "waitready"
               THEN Goto(t, "firmware") /\ UNCHANGED todo
               ELSE Loop(t, "rverify", written[t])
    /\ UNCHANGED <<editVars, lockVars, planVars, resultVars, klipper, loaded,
                   target, written, cause, edits>>

\* Klipper is starting, or Moonraker does not answer.
SampleNotReady(t) ==
    /\ pc[t] \in Polls
    /\ Reported(t) \cap {"startup", "disconnected"} # {} \/ "activation" \in Faults
    /\ stale' = stale \ {t}
    /\ samples' = [samples EXCEPT ![t] = 0]
    /\ UNCHANGED <<editVars, lockVars, planVars, resultVars, klipper, loaded,
                   pc, todo, target, written, cause, edits>>

\* Mutant: only an error of Klipper ends the wait, no deadline does.
ReadyFailsOnError(t) ==
    /\ pc[t] \in Polls
    /\ klipper = "error"
    /\ ActivationFails(t)
    /\ UNCHANGED <<editVars, planVars, klipperVars, todo, target, written,
                   samples, edits>>

\* Klipper reports shutdown or error, or the deadline passes.
ReadyFails(t) ==
    /\ pc[t] \in Polls
    /\ ActivationFails(t)
    /\ UNCHANGED <<editVars, planVars, klipperVars, todo, target, written,
                   samples, edits>>

-----------------------------------------------------------------------------
(* Proof of the activated state, and the commit.                           *)

\* verify_firmware: the running MCU proves the expected build.
VerifyFirmware(t) ==
    /\ pc[t] = "firmware"
    /\ IF NoOp(t) /\ Transport[t] # "offline"
       THEN Goto(t, "active") /\ UNCHANGED todo
       ELSE Loop(t, "reverify", Files)
    /\ UNCHANGED <<editVars, lockVars, planVars, resultVars, klipperVars,
                   target, written, samples, cause, edits>>

FirmwareMismatch(t) ==
    /\ pc[t] = "firmware"
    /\ "firmware" \in Faults
    /\ Raise(t, "firmware")
    /\ UNCHANGED <<editVars, lockVars, planVars, resultVars, klipperVars,
                   todo, target, written, samples, edits>>

\* verify_active_configuration: Klipper's own view of the configuration it
\* loaded holds every option of the plan.  moonraker.conf is not part of it.
KlipperRuns(t) ==
    \A f \in Artifacts(t) \ {MoonrakerConf} : loaded[f] = Generated[t][f]

VerifyActive(t) ==
    /\ pc[t] = "active"
    /\ KlipperRuns(t)
    /\ Loop(t, "reverify", Files)
    /\ UNCHANGED <<editVars, lockVars, planVars, resultVars, klipperVars,
                   target, written, samples, cause, edits>>

ActiveMismatch(t) ==
    /\ pc[t] = "active"
    /\ ~KlipperRuns(t) \/ "read" \in Faults
    /\ Raise(t, "upload")
    /\ UNCHANGED <<editVars, lockVars, planVars, resultVars, klipperVars,
                   todo, target, written, samples, edits>>

Commit(t) ==
    /\ pc[t] = "reverify"
    /\ todo[t] = {}
    /\ Return(t, "COMMITTED", "none")
    /\ UNCHANGED <<editVars, planVars, klipperVars, todo, target, written,
                   samples, cause, edits>>

-----------------------------------------------------------------------------
(* Failure: preserve the proposal, then diagnose; nothing is restored.     *)

\* _rollback returns None when nothing was written.
StartRollback(t) ==
    IF written[t] = {}
    THEN Return(t, FailureState(cause[t]), "none") /\ UNCHANGED todo
    ELSE Loop(t, "diagnose", written[t]) /\ UNCHANGED <<lockVars, resultVars>>

PreserveProposal(t) ==
    /\ pc[t] = "failed"
    /\ StartRollback(t)
    /\ UNCHANGED <<editVars, planVars, klipperVars, target, written, samples,
                   cause, edits>>

\* create_snapshot raises OSError inside the handler: run() catches it as
\* "local publication could not be secured" and _rollback is never called.
PreserveProposalFails(t) ==
    /\ pc[t] = "failed"
    /\ "proposal" \in Faults
    /\ Return(t, "PRECONDITION_FAILED", "none")
    /\ UNCHANGED <<editVars, planVars, klipperVars, todo, target, written,
                   samples, cause, edits>>

\* Some written file is not what the snapshot says.
RollbackMismatch(t) ==
    /\ pc[t] \in RestoredScans
    /\ ScanFails(t)
    /\ RollbackReturns(t, FALSE)
    /\ UNCHANGED <<editVars, planVars, klipperVars, todo, target, written,
                   samples, cause, edits>>

\* Every written file already holds its original again: look once more.
RollbackDiagnosed(t) ==
    /\ pc[t] = "diagnose"
    /\ todo[t] = {}
    /\ Loop(t, "restored", written[t])
    /\ UNCHANGED <<editVars, lockVars, planVars, resultVars, klipperVars,
                   target, written, samples, cause, edits>>

\* Restored files that were never activated need no restart.
RollbackInactive(t) ==
    /\ pc[t] = "restored"
    /\ todo[t] = {}
    /\ activation[t] = "none"
    /\ RollbackReturns(t, TRUE)
    /\ UNCHANGED <<editVars, planVars, klipperVars, todo, target, written,
                   samples, cause, edits>>

RollbackActivates(t) ==
    /\ pc[t] = "restored"
    /\ todo[t] = {}
    /\ activation[t] # "none"
    /\ Goto(t, IF MoonrakerConf \in Changed(t) THEN "rmoonraker"
               ELSE "rrestart")
    /\ UNCHANGED <<editVars, lockVars, planVars, resultVars, klipperVars,
                   todo, target, written, samples, cause, edits>>

RollbackVerified(t) ==
    /\ pc[t] = "rverify"
    /\ todo[t] = {}
    /\ RollbackReturns(t, TRUE)
    /\ UNCHANGED <<editVars, planVars, klipperVars, todo, target, written,
                   samples, cause, edits>>

-----------------------------------------------------------------------------
(* Ctrl+C and crashes.                                                     *)

\* Ctrl+C outside the upload itself.  It leaves the with-block of the file
\* lock before run() handles it; a second one cuts the rollback short.
Interrupt(t) ==
    /\ "interrupt" \in Faults
    /\ pc[t] \notin {"idle", "done", "compare", "replace", "record"}
    /\ IF cause[t] = "interrupt"
       THEN RollbackReturns(t, FALSE) /\ UNCHANGED cause
       ELSE /\ cause' = [cause EXCEPT ![t] = "interrupt"]
            /\ Goto(t, "interrupted")
            /\ fileLock' = IF fileLock = t THEN Free ELSE fileLock
            /\ UNCHANGED <<holding, resultVars>>
    /\ UNCHANGED <<editVars, planVars, klipperVars, todo, target, written,
                   samples, edits>>

\* The KeyboardInterrupt handler of run(): without the file lock.
HandleInterrupt(t) ==
    /\ pc[t] = "interrupted"
    /\ StartRollback(t)
    /\ UNCHANGED <<editVars, planVars, klipperVars, target, written, samples,
                   cause, edits>>

\* A process dies; the operating system drops its flock.  The live files and
\* the snapshots stay.
Crash(p) ==
    /\ "crash" \in Faults
    /\ LET dead == {t \in Txn : ProcessOf[t] = p /\ pc[t] \notin {"idle", "done"}}
       IN  /\ dead # {}
           /\ pc' = [t \in Txn |-> IF t \in dead THEN "done" ELSE pc[t]]
           /\ outcome' = [t \in Txn |-> IF t \in dead THEN "CRASHED"
                                       ELSE outcome[t]]
           /\ holding' = holding \ dead
           /\ fileLock' = IF fileLock \in dead THEN Free ELSE fileLock
    /\ UNCHANGED <<editVars, planVars, rollback, klipperVars, todo, target,
                   written, samples, cause, edits>>

-----------------------------------------------------------------------------
(* The environment: an editor that knows no lock, and Klipper.             *)

EditFile(f, content) ==
    /\ edits < MaxEdits
    /\ live[f] # content
    /\ edits' = edits + 1
    /\ live' = [live EXCEPT ![f] = content]
    /\ author' = [author EXCEPT ![f] = Free]
    /\ touched' = [u \in Txn |-> touched[u] \cup {f}]
    /\ raced' = [u \in Txn |-> IF pc[u] = "replace" /\ target[u] = f
                               THEN raced[u] \cup {f} ELSE raced[u]]
    /\ UNCHANGED <<displaced, lockVars, planVars, resultVars, klipperVars, pc,
                   todo, target, written, samples, cause>>

\* Somebody restarts Klipper from Mainsail.
ForeignRestart ==
    /\ edits < MaxEdits
    /\ edits' = edits + 1
    /\ KlipperRestarts
    /\ UNCHANGED <<editVars, lockVars, planVars, resultVars, pc, todo, target,
                   written, samples, cause>>

\* Klipper reads the live files and becomes ready, or rejects them.
KlipperStarts ==
    /\ klipper = "startup"
    /\ loaded' = live
    /\ stale' = {}
    /\ klipper' \in {"ready"} \cup (IF "klipper" \in Faults THEN {"error"} ELSE {})
    /\ UNCHANGED <<editVars, lockVars, planVars, resultVars, pc, todo, target,
                   written, samples, cause, edits>>

KlipperFails ==
    /\ "klipper" \in Faults
    /\ klipper = "ready"
    /\ klipper' = "error"
    /\ UNCHANGED <<editVars, lockVars, planVars, resultVars, loaded, stale, pc,
                   todo, target, written, samples, cause, edits>>

-----------------------------------------------------------------------------
\* What a run does by itself, once the operator has answered.
Work(t) ==
    \/ EnterProcess(t) \/ AcquireFileLock(t) \/ FileLockTimeout(t)
    \/ ReadBaseline(t) \/ PreflightFails(t)
    \/ ScanFile(t) \/ ReviewedStateConflict(t)
    \/ Revalidated(t) \/ TakeSnapshot(t) \/ SnapshotFails(t) \/ Rechecked(t)
    \/ PickArtifact(t) \/ PickConflict(t) \/ CompareStaged(t) \/ ReplaceFile(t)
    \/ UploadRaises(t) \/ ReplaceThenRaise(t)
    \/ RecordPossibleWrite(t) \/ RecordUnreadable(t)
    \/ PlanMismatch(t) \/ DeferActivation(t) \/ BeginActivation(t)
    \/ RestartMoonraker(t) \/ RestartMoonrakerFails(t)
    \/ RestartKlipper(t) \/ RestartKlipperFails(t)
    \/ VerifyFirmware(t) \/ FirmwareMismatch(t)
    \/ VerifyActive(t) \/ ActiveMismatch(t) \/ Commit(t)
    \/ PreserveProposal(t) \/ PreserveProposalFails(t)
    \/ RollbackMismatch(t) \/ RollbackDiagnosed(t) \/ RollbackInactive(t)
    \/ RollbackActivates(t) \/ RollbackVerified(t) \/ HandleInterrupt(t)

Poll(t) == SampleReady(t) \/ SampleNotReady(t) \/ ReadyFails(t)

Operator(t) ==
    \/ RejectPlan(t) \/ DeclinePlan(t) \/ AcceptPlan(t) \/ Interrupt(t)

Environment ==
    \/ \E f \in Files, content \in Content : EditFile(f, content)
    \/ ForeignRestart \/ KlipperStarts \/ KlipperFails
    \/ \E p \in Process : Crash(p)

Next ==
    \/ \E t \in Txn : Work(t) \/ Poll(t) \/ Operator(t)
    \/ Environment

Spec == Init /\ [][Next]_vars

\* The scheduler runs every process, and the deadline of a polling loop comes.
\* Nothing is assumed of the operator, the editor, Klipper or the faults.
FairSpec ==
    /\ Spec
    /\ \A t \in Txn : WF_vars(Work(t)) /\ WF_vars(ReadyFails(t))

-----------------------------------------------------------------------------
(* Safety.                                                                 *)

\* Between taking the file lock and leaving its with-block, review included,
\* no other cooperating run of any process is inside: nobody plans against or
\* restarts Klipper over another run's half-published files.
Serialized ==
    \A t \in Txn :
        /\ Cooperating(t) /\ pc[t] \in Forward \cup Rollback
        /\ cause[t] # "interrupt" \/ pc[t] = "record"
        => fileLock = t

\* Whatever a run overwrote can be recovered: the displaced bytes are those
\* in its durable snapshot, unless the external editor wrote the file between
\* the last comparison and the replacement.
Recoverable ==
    \A t \in Txn, f \in Files :
        displaced[t][f] # NotSaved /\ f \notin raced[t]
            => snapshot[t][f] = displaced[t][f]

\* At every point, so also after a crash or Ctrl+C, a printer.cfg written by
\* a run has the includes of its plan in place: the run published every one
\* that it found different.
IncludesBeforeRoot ==
    \A t \in Txn :
        author[Root] = t => \A f \in Changed(t) : displaced[t][f] # NotSaved

\* A result that says the attempted writes are not in the config root is
\* true: after an unrecovered write, the only other results are COMMITTED and
\* DEPLOYED_PENDING_ACTIVATION.  DEPLOYMENT.md: "When an attempted write
\* differs from its snapshot, KACE preserves current files, reports
\* ROLLBACK_FAILED".
AttemptedWriteReported ==
    \A t \in Txn :
        /\ pc[t] = "done"
        /\ outcome[t] \notin {"COMMITTED", "DEPLOYED_PENDING_ACTIVATION", "CRASHED"}
        /\ \E f \in Files : author[f] = t /\ live[f] # snapshot[t][f]
        => outcome[t] = "ROLLBACK_FAILED"

\* A commit means that Klipper runs the plan: when COMMITTED is returned,
\* Klipper loaded every planned file after it was published, except a file
\* that somebody outside the file lock wrote after it was verified.
CommitIsActive ==
    [][\A t \in Txn :
         outcome[t] = "none" /\ outcome'[t] = "COMMITTED" =>
            \A f \in Artifacts(t) \ {MoonrakerConf} :
                loaded[f] = Generated[t][f] \/ f \in touched[t]]_vars

\* Klipper is never restarted onto a plan that is only partly in place: when
\* a run asks for its restart, every planned file is live, except one that
\* somebody outside the file lock wrote after it was verified.
RestartIsVerified ==
    [][\A t \in Txn :
         pc[t] = "restart" /\ pc'[t] = "waitready" =>
            \A f \in Files :
                live[f] = PlannedState(t, f) \/ f \in touched[t]]_vars

\* A run reports a successful rollback only with the originals in place: each
\* file it may have written holds the bytes of the snapshot, except one that
\* the editor or another run wrote meanwhile.
RecoveryIsProven ==
    [][\A t \in Txn :
         rollback[t] = "none" /\ rollback'[t] = "ok" =>
            \A f \in written[t] : live[f] = snapshot[t][f] \/ author[f] # t]_vars

\* DEPLOYMENT.md: "KACE transactions using that destination lock are
\* serialized across processes"; run(): a second transaction "must not read an
\* intermediate state or race a rollback".  Here: while a run that wrote files
\* is still diagnosing them, no other cooperating run is at work.
RollbackIsSerialized ==
    \A t, u \in Txn :
        /\ t # u /\ Cooperating(t) /\ Cooperating(u)
        /\ written[t] # {} /\ pc[t] \in Rollback
        => pc[u] \notin Forward \cup Rollback

-----------------------------------------------------------------------------
(* Liveness.                                                               *)

\* A run that waits for the file lock or works before the review comes to the
\* review or gives up; a confirmed run returns a result, whatever Klipper,
\* Moonraker, the editor and the other runs do.
ReachesReview ==
    \A t \in Txn : pc[t] \in {"file", "preflight"} ~> pc[t] \in {"review", "done"}

ConfirmedReturns ==
    \A t \in Txn : pc[t] \in Confirmed ~> pc[t] = "done"

=============================================================================
