-------------------------- MODULE FirmwareWorkflow --------------------------
(***************************************************************************)
(* The command line of KACE (kace.py) as several processes that share one  *)
(* durable firmware checkpoint and one generated printer.cfg.              *)
(*                                                                         *)
(* A process holds a copy of the checkpoint it has read, changes the copy  *)
(* and publishes it by a comparison with the revision it read.  Every call *)
(* of transition_checkpoint is followed by _persist_workflow, so a         *)
(* transition and its publication are one action here; the questions, the  *)
(* compilation, the flash, the generation and the deployment lie between   *)
(* the actions.  Terminal outcomes are reduced to "done", a result of the  *)
(* exit-code contract, and "uncaught", a Python exception.                 *)
(***************************************************************************)
EXTENDS Checkpoint

CONSTANTS
    Process,        \* the command-line processes
    Foreign,        \* a firmware KACE has not built
    Absent,         \* there is no ~/kace/printer.cfg
    Faults,         \* which faults the environment injects
    MaxRuns,        \* bound on the runs started
    MaxSequence,    \* no verification is retried from a later revision
    MaxWorkflows    \* bound on the workflows created

AllFaults == {"persist", "reject", "interrupt", "crash", "remove"}

ASSUME WorkflowAssumption ==
    /\ Foreign \notin Artifact
    /\ None # Foreign
    /\ Absent \notin Serial
    /\ Faults \in SUBSET AllFaults
    /\ MaxRuns \in Nat
    /\ MaxSequence \in Nat
    /\ MaxWorkflows \in Nat

VARIABLES
    store,          \* the checkpoint file
    printer,        \* the [mcu] serial in ~/kace/printer.cfg
    firmware,       \* what runs on the MCU
    pc,             \* where each process is
    mem,            \* its checkpoint, and so the revision it will compare
    initial,        \* the revision it captured before it loaded one
    path,           \* user_data["mcu_path"]
    output,         \* the artifact it has just compiled
    reviewed,       \* it has passed the geometry review
    runs,           \* runs started
    created,        \* workflow ids given out
    built,          \* history: the artifacts compiled so far
    refused,        \* history: the revisions a load refused
    ran             \* history: what ran since DEPLOYING was last published

localVars   == <<initial, path, output, reviewed>>
historyVars == <<built, refused, ran>>
worldVars   == <<printer, firmware>>

countVars   == <<runs, created>>

vars == <<store, worldVars, pc, mem, localVars, countVars, historyVars>>

-----------------------------------------------------------------------------
(* Program positions.                                                      *)

Ended == {"off", "done", "uncaught"}

\* Where the operator answers; a process may rest there.
Prompts == {"menu", "wizard", "review", "create", "wait", "choose"}

Position ==
    Ended \cup Prompts \cup
    {"load", "compile", "built", "flashed", "deliver", "autoverify",
     "autocheck", "await", "verifynow", "verify", "generate", "gate", "ready",
     "deploy", "succeeded", "failed"}

\* After the geometry review: what the state of the checkpoint asks for.
Phase(state) ==
    IF state \in {"HARDWARE_SELECTED", "COMPILE_REQUIRED"} THEN "compile"
    ELSE IF state \in {"ARTIFACT_READY", "AWAITING_FLASH", "VERIFYING_MCU"}
    THEN "await" ELSE "generate"

TypeOK ==
    /\ store \in Record \cup {NoCheckpoint}
    /\ printer \in Serial \cup {Absent}
    /\ firmware \in Artifact \cup {Foreign}
    /\ pc \in [Process -> Position]
    /\ mem \in [Process -> Record \cup {NoCheckpoint}]
    /\ initial \in [Process -> Record \cup {NoCheckpoint}]
    /\ path \in [Process -> Serial \cup {None}]
    /\ output \in [Process -> Artifact \cup {None}]
    /\ reviewed \in [Process -> BOOLEAN]
    /\ runs \in 0 .. MaxRuns
    /\ created \in Nat
    /\ built \in SUBSET Artifact
    /\ refused \in SUBSET Record
    /\ ran \in SUBSET (Artifact \cup {Foreign})

\* The MCU may run an earlier build, or a firmware of somebody else.
Init ==
    /\ store = NoCheckpoint
    /\ printer = Absent
    /\ firmware \in Artifact \cup {Foreign}
    /\ pc = [p \in Process |-> "off"]
    /\ mem = [p \in Process |-> NoCheckpoint]
    /\ initial = [p \in Process |-> NoCheckpoint]
    /\ path = [p \in Process |-> None]
    /\ output = [p \in Process |-> None]
    /\ reviewed = [p \in Process |-> FALSE]
    /\ runs = 0
    /\ created = 0
    /\ built = {}
    /\ refused = {}
    /\ ran = {}

-----------------------------------------------------------------------------
(* Steps shared by several actions.                                        *)

Goto(p, step) == pc' = [pc EXCEPT ![p] = step]

\* The process ends and its memory is gone.
End(p, step) ==
    /\ Goto(p, step)
    /\ mem' = [mem EXCEPT ![p] = NoCheckpoint]
    /\ initial' = [initial EXCEPT ![p] = NoCheckpoint]
    /\ path' = [path EXCEPT ![p] = None]
    /\ output' = [output EXCEPT ![p] = None]
    /\ reviewed' = [reviewed EXCEPT ![p] = FALSE]

\* _finish: a typed result and its exit code.
Finish(p) == End(p, "done")

\* Mutant: the last writer wins.
ReplaceBlindly(expected, next) == store' = next

\* write_checkpoint: under the lock of the file the stored revision is
\* compared with the expected one and replaced by a rename.
Replace(expected, next) == store = expected /\ store' = next

\* _persist_workflow turns a conflict, a full disk or a lock timeout into the
\* end of the process.
PersistFails(p, expected) ==
    /\ store # expected \/ "persist" \in Faults
    /\ Finish(p)
    /\ UNCHANGED store

\* A transition and its publication, and the run goes on.
Publish(p, expected, next, step) ==
    \/ /\ Replace(expected, next)
       /\ mem' = [mem EXCEPT ![p] = next]
       /\ Goto(p, step)
       /\ UNCHANGED localVars
    \/ PersistFails(p, expected)

\* A transition and its publication as the last act of a run.
PublishLast(p, next) ==
    \/ Replace(mem[p], next) /\ Finish(p)
    \/ PersistFails(p, mem[p])

\* The MCU runs another firmware; before the first deployment the history
\* does not care.
Runs(f) ==
    /\ firmware' = f
    /\ ran' = IF ran = {} THEN {} ELSE ran \cup {f}

-----------------------------------------------------------------------------
(* Start and resume.                                                       *)

\* main() captures the revision before anything else is read.
Start(p) ==
    /\ pc[p] \in Ended
    /\ runs < MaxRuns
    /\ runs' = runs + 1
    /\ initial' = [initial EXCEPT ![p] = store]
    /\ Goto(p, "load")
    /\ UNCHANGED <<store, worldVars, mem, path, output, reviewed, created,
                   historyVars>>

\* Nothing to resume: no checkpoint, or a finished workflow.
LoadNothing(p) ==
    /\ pc[p] = "load"
    /\ store # NoCheckpoint => store.state = "COMPLETE"
    /\ Goto(p, "wizard")
    /\ UNCHANGED <<store, worldVars, mem, localVars, countVars, historyVars>>

\* The checkpoint is corrupt, its artifact is gone or changed, or other
\* hardware is connected: a new workflow, and nothing is discarded.
LoadRefused(p) ==
    /\ pc[p] = "load"
    /\ store # NoCheckpoint /\ "reject" \in Faults
    /\ refused' = refused \cup {store}
    /\ Goto(p, "wizard")
    /\ UNCHANGED <<store, worldVars, mem, localVars, countVars, built, ran>>

LoadCheckpoint(p) ==
    /\ pc[p] = "load"
    /\ store # NoCheckpoint /\ store.state # "COMPLETE"
    /\ mem' = [mem EXCEPT ![p] = store]
    /\ path' = [path EXCEPT ![p] = store.saved]
    /\ Goto(p, "menu")
    /\ UNCHANGED <<store, worldVars, initial, output, reviewed, countVars,
                   historyVars>>

\* "continue" and "review_z", and every automatic run.  An interrupted
\* deployment goes back to READY_TO_DEPLOY.
Continue(p) ==
    /\ pc[p] = "menu"
    /\ IF mem[p].state = "DEPLOYING"
       THEN Publish(p, mem[p], Resaved(mem[p], "READY_TO_DEPLOY", path[p]),
                    "review")
       ELSE Goto(p, "review") /\ UNCHANGED <<store, mem, localVars>>
    /\ UNCHANGED <<worldVars, countVars, historyVars>>

\* "verify": the manual flash is said to be done.
VerifyNow(p) ==
    /\ pc[p] = "menu"
    /\ mem[p].state \in {"ARTIFACT_READY", "AWAITING_FLASH", "VERIFYING_MCU"}
    /\ Goto(p, "verifynow")
    /\ UNCHANGED <<store, worldVars, mem, localVars, countVars, historyVars>>

\* Mutant: the table is not consulted.
RecompileAnywhere(p) ==
    /\ pc[p] = "menu"
    /\ Publish(p, mem[p], Resaved(mem[p], "COMPILE_REQUIRED", path[p]), "review")
    /\ UNCHANGED <<worldVars, countVars, historyVars>>

\* "compile" is offered in every state, also where the table forbids it.
Recompile(p) ==
    /\ pc[p] = "menu"
    /\ IF Allowed(mem[p], "COMPILE_REQUIRED")
       THEN Publish(p, mem[p], Resaved(mem[p], "COMPILE_REQUIRED", path[p]),
                    "review")
       ELSE End(p, "uncaught") /\ UNCHANGED store
    /\ UNCHANGED <<worldVars, countVars, historyVars>>

\* "new": the revision the operator saw is archived; a conflict is raised to
\* nobody.
NewWorkflow(p) ==
    /\ pc[p] = "menu"
    /\ \/ /\ Replace(mem[p], NoCheckpoint)
          /\ mem' = [mem EXCEPT ![p] = NoCheckpoint]
          /\ initial' = [initial EXCEPT ![p] = NoCheckpoint]
          /\ path' = [path EXCEPT ![p] = None]
          /\ Goto(p, "wizard")
          /\ UNCHANGED <<output, reviewed>>
       \/ /\ store # mem[p] \/ "persist" \in Faults
          /\ End(p, "uncaught")
          /\ UNCHANGED store
    /\ UNCHANGED <<worldVars, countVars, historyVars>>

\* Mutant: the wizard goes on without an MCU.
WizardUnanswered(p) ==
    /\ pc[p] = "wizard"
    /\ Goto(p, "review")
    /\ UNCHANGED <<store, worldVars, mem, localVars, countVars, historyVars>>

\* The answers of the wizard name an MCU, for the firmware or only for the
\* configuration.
Wizard(p) ==
    /\ pc[p] = "wizard"
    /\ \E serial \in Serial : path' = [path EXCEPT ![p] = serial]
    /\ Goto(p, "review")
    /\ UNCHANGED <<store, worldVars, mem, initial, output, reviewed, countVars,
                   historyVars>>

-----------------------------------------------------------------------------
(* Geometry review and the creation of a workflow.                         *)

Reviewed(p, step) ==
    /\ reviewed' = [reviewed EXCEPT ![p] = TRUE]
    /\ Goto(p, step)

\* Nothing edited; later states than MCU_VERIFIED are only validated.
ReviewKeeps(p) ==
    /\ pc[p] = "review"
    /\ Reviewed(p, IF mem[p] = NoCheckpoint THEN "create"
                   ELSE Phase(mem[p].state))
    /\ UNCHANGED <<store, worldVars, mem, initial, path, output, countVars,
                   historyVars>>

\* An edit of a verified workflow is published in the same state.
ReviewEdits(p) ==
    /\ pc[p] = "review"
    /\ mem[p] # NoCheckpoint /\ mem[p].state = "MCU_VERIFIED"
    /\ LET next == Resaved(mem[p], "MCU_VERIFIED", path[p])
       IN  \/ /\ Replace(mem[p], next)
              /\ mem' = [mem EXCEPT ![p] = next]
              /\ Reviewed(p, "generate")
              /\ UNCHANGED <<initial, path, output>>
           \/ PersistFails(p, mem[p])
    /\ UNCHANGED <<worldVars, countVars, historyVars>>

\* Firmware is required: a new workflow replaces the revision captured at the
\* start.
CreateWorkflow(p) ==
    /\ pc[p] = "create"
    /\ created < MaxWorkflows
    /\ created' = created + 1
    /\ Publish(p, initial[p], Fresh(created + 1, path[p]), "compile")
    /\ UNCHANGED <<worldVars, runs, historyVars>>

\* Configuration only: no checkpoint takes part.
ConfigurationOnly(p) ==
    /\ pc[p] = "create"
    /\ Goto(p, "generate")
    /\ UNCHANGED <<store, worldVars, mem, localVars, countVars, historyVars>>

\* Where the operator may cancel, or the run cannot go on: saved answers that
\* cannot be restored, board data that cannot be fetched, an invalid geometry,
\* a build without evidence, a declined thermal policy, an electrical
\* validation that fails, a configuration that is only exported or that is
\* deployed without a checkpoint.
Cancel(p) ==
    /\ pc[p] \in {"menu", "wizard", "review", "create", "compile", "built",
                  "flashed", "deliver", "wait", "generate", "gate", "choose"}
    /\ Finish(p)
    /\ UNCHANGED <<store, worldVars, countVars, historyVars>>

\* Nobody catches the WizardExit of Ctrl+C at the resume menu, at the question
\* for macros or at the choice of a deployment, nor the error of a prepared
\* artifact that can no longer be shown.
Interrupt(p) ==
    /\ "interrupt" \in Faults
    /\ pc[p] \in {"menu", "wait", "generate", "choose"}
    /\ pc[p] = "generate" /\ mem[p] # NoCheckpoint
          => mem[p].state = "MCU_VERIFIED"
    /\ End(p, "uncaught")
    /\ UNCHANGED <<store, worldVars, countVars, historyVars>>

-----------------------------------------------------------------------------
(* Compilation and flash.                                                  *)

\* Unresolved pins, a failed build, no artifact, or a flash under a board
\* contract that could not be proved.
CompileFails(p) ==
    /\ pc[p] \in {"compile", "flashed"}
    /\ PublishLast(p, Resaved(mem[p], "COMPILE_REQUIRED", path[p]))
    /\ UNCHANGED <<worldVars, countVars, historyVars>>

\* run_firmware_wizard builds; under a board contract it also flashes, before
\* the artifact is published.
CompileArtifact(p) ==
    /\ pc[p] = "compile"
    /\ \E a \in Artifact :
          /\ output' = [output EXCEPT ![p] = a]
          /\ built' = built \cup {a}
          /\ \/ Goto(p, "built") /\ UNCHANGED <<firmware, ran>>
             \/ /\ Goto(p, "flashed")
                /\ Runs(a)
    /\ UNCHANGED <<store, printer, mem, initial, path, reviewed, countVars,
                   refused>>

\* ARTIFACT_READY; then a prepared delivery, a manual one, or after a board
\* contract the verification.
PublishArtifact(p) ==
    /\ pc[p] \in {"built", "flashed"}
    /\ \E step \in IF pc[p] = "flashed" THEN {"autoverify"}
                   ELSE {"deliver", "await"} :
          Publish(p, mem[p], Compiled(mem[p], output[p], path[p]), step)
    /\ UNCHANGED <<worldVars, countVars, historyVars>>

\* execute_firmware_deployment wants the operator to flash, was cancelled or
\* failed.
DeliveryPends(p) ==
    /\ pc[p] = "deliver"
    /\ LET next == Moved(mem[p], "AWAITING_FLASH")
       IN  Publish(p, mem[p], next, "wait") \/ PublishLast(p, next)
    /\ UNCHANGED <<worldVars, countVars, historyVars>>

DeliveryFlashes(p) ==
    /\ pc[p] = "deliver"
    /\ Runs(mem[p].artifact)
    /\ Goto(p, "autoverify")
    /\ UNCHANGED <<store, printer, mem, localVars, countVars, built, refused>>

AutoVerify(p) ==
    /\ pc[p] = "autoverify"
    /\ Publish(p, mem[p], Moved(mem[p], "VERIFYING_MCU"), "autocheck")
    /\ UNCHANGED <<worldVars, countVars, historyVars>>

-----------------------------------------------------------------------------
(* The wait for a manual flash.                                            *)

\* _wait_for_manual_flash makes an artifact AWAITING_FLASH, with or without a
\* verification at once.
Await(p) ==
    /\ pc[p] \in {"await", "verifynow"}
    /\ mem[p].state = "ARTIFACT_READY"
    /\ Publish(p, mem[p], Moved(mem[p], "AWAITING_FLASH"), pc[p])
    /\ UNCHANGED <<worldVars, countVars, historyVars>>

\* The pause prompt; an automatic run ends there.
Pause(p) ==
    /\ pc[p] = "await"
    /\ mem[p].state # "ARTIFACT_READY"
    /\ Goto(p, "wait")
    /\ UNCHANGED <<store, worldVars, mem, localVars, countVars, historyVars>>

\* The operator says that the flash is done.
FlashClaimed(p) ==
    /\ pc[p] = "wait"
    /\ mem[p].seq < MaxSequence
    /\ Goto(p, "verifynow")
    /\ UNCHANGED <<store, worldVars, mem, localVars, countVars, historyVars>>

BeginVerification(p) ==
    /\ pc[p] = "verifynow"
    /\ mem[p].state # "ARTIFACT_READY"
    /\ IF mem[p].state = "VERIFYING_MCU"
       THEN Goto(p, "verify") /\ UNCHANGED <<store, mem, localVars>>
       ELSE Publish(p, mem[p], Moved(mem[p], "VERIFYING_MCU"), "verify")
    /\ UNCHANGED <<worldVars, countVars, historyVars>>

\* verify_reappeared_mcu finds the selected MCU, perhaps under another name.
McuMatches(p) ==
    /\ pc[p] \in {"verify", "autocheck"}
    /\ \E serial \in Serial :
          \/ /\ Replace(mem[p], Matched(mem[p], serial))
             /\ mem' = [mem EXCEPT ![p] = Matched(mem[p], serial)]
             /\ path' = [path EXCEPT ![p] = serial]
             /\ Goto(p, IF reviewed[p] THEN "generate" ELSE "review")
             /\ UNCHANGED <<initial, output, reviewed>>
          \/ PersistFails(p, mem[p])
    /\ UNCHANGED <<worldVars, countVars, historyVars>>

\* Mutant: the check is repeated and nobody is asked.
McuMissingRetries(p) ==
    /\ pc[p] \in {"verify", "autocheck"}
    /\ IF pc[p] = "verify"
       THEN Goto(p, "verifynow") /\ UNCHANGED <<store, mem, localVars>>
       ELSE PublishLast(p, Moved(mem[p], "AWAITING_FLASH"))
    /\ UNCHANGED <<worldVars, countVars, historyVars>>

\* It is absent, ambiguous or another one: back to the prompt, or after an
\* automatic flash to the shell.
McuMissing(p) ==
    /\ pc[p] \in {"verify", "autocheck"}
    /\ LET next == Moved(mem[p], "AWAITING_FLASH")
       IN  IF pc[p] = "verify" THEN Publish(p, mem[p], next, "wait")
           ELSE PublishLast(p, next)
    /\ UNCHANGED <<worldVars, countVars, historyVars>>

-----------------------------------------------------------------------------
(* Generation.                                                             *)

\* A workflow past the generation keeps the file it finds.
KeepGenerated(p) ==
    /\ pc[p] = "generate"
    /\ mem[p] # NoCheckpoint
    /\ mem[p].state \in {"CONFIG_GENERATED", "READY_TO_DEPLOY"}
    /\ printer # Absent
    /\ Goto(p, "gate")
    /\ UNCHANGED <<store, worldVars, mem, localVars, countVars, historyVars>>

\* generate_config replaces the file; no revision is compared.
Generate(p) ==
    /\ pc[p] = "generate"
    /\ \/ mem[p] = NoCheckpoint
       \/ mem[p] # NoCheckpoint /\ mem[p].state = "MCU_VERIFIED"
       \/ printer = Absent
    /\ printer' = path[p]
    /\ Goto(p, "gate")
    /\ UNCHANGED <<store, firmware, mem, localVars, countVars, historyVars>>

\* The serial of the generated file must be the verified one.
PassesGate(p) ==
    /\ printer # Absent
    /\ mem[p] # NoCheckpoint => printer = mem[p].serial

Gate(p) ==
    /\ pc[p] = "gate"
    /\ PassesGate(p)
    /\ IF mem[p] = NoCheckpoint
       THEN Goto(p, "choose") /\ UNCHANGED <<store, mem, localVars>>
       ELSE IF mem[p].state = "MCU_VERIFIED"
       THEN Publish(p, mem[p], Resaved(mem[p], "CONFIG_GENERATED", path[p]),
                    "ready")
       ELSE Goto(p, "ready") /\ UNCHANGED <<store, mem, localVars>>
    /\ UNCHANGED <<worldVars, countVars, historyVars>>

GateBlocks(p) ==
    /\ pc[p] = "gate"
    /\ ~PassesGate(p)
    /\ Finish(p)
    /\ UNCHANGED <<store, worldVars, countVars, historyVars>>

Ready(p) ==
    /\ pc[p] = "ready"
    /\ IF mem[p].state = "CONFIG_GENERATED"
       THEN Publish(p, mem[p], Resaved(mem[p], "READY_TO_DEPLOY", path[p]),
                    "choose")
       ELSE Goto(p, "choose") /\ UNCHANGED <<store, mem, localVars>>
    /\ UNCHANGED <<worldVars, countVars, historyVars>>

-----------------------------------------------------------------------------
(* Live deployment.                                                        *)

\* DEPLOYING is durable before anything is uploaded.
BeginDeployment(p) ==
    /\ pc[p] = "choose"
    /\ mem[p] # NoCheckpoint
    /\ Publish(p, mem[p], Moved(mem[p], "DEPLOYING"), "deploy")
    /\ ran' = IF pc'[p] = "deploy" THEN {firmware} ELSE ran
    /\ UNCHANGED <<worldVars, countVars, built, refused>>

\* deployment_blockers with the checkpoint of the process.
Unblocked(p) ==
    /\ mem[p].state \in Deployable
    /\ mem[p].evidence # None
    /\ printer = mem[p].serial

\* Mutant: a deployment that is written is a deployment that runs.
DeploySucceedsUnverified(p) ==
    /\ pc[p] = "deploy"
    /\ Unblocked(p)
    /\ Goto(p, "succeeded")
    /\ UNCHANGED <<store, worldVars, mem, localVars, countVars, historyVars>>

\* The transaction commits, with verify_running_firmware inside: Klipper
\* reports the build of the checkpoint.
DeploySucceeds(p) ==
    /\ pc[p] = "deploy"
    /\ Unblocked(p)
    /\ firmware = mem[p].artifact
    /\ Goto(p, "succeeded")
    /\ UNCHANGED <<store, worldVars, mem, localVars, countVars, historyVars>>

\* Blocked, declined, failed, or the activation is pending.
DeployFails(p) ==
    /\ pc[p] = "deploy"
    /\ Goto(p, "failed")
    /\ UNCHANGED <<store, worldVars, mem, localVars, countVars, historyVars>>

RecordComplete(p) ==
    /\ pc[p] = "succeeded"
    /\ PublishLast(p, Moved(mem[p], "COMPLETE"))
    /\ UNCHANGED <<worldVars, countVars, historyVars>>

RecordFailure(p) ==
    /\ pc[p] = "failed"
    /\ PublishLast(p, Moved(mem[p], "READY_TO_DEPLOY"))
    /\ UNCHANGED <<worldVars, countVars, historyVars>>

-----------------------------------------------------------------------------
(* The environment.                                                        *)

\* The process, its terminal or its host goes away.
Crash(p) ==
    /\ "crash" \in Faults
    /\ pc[p] \notin Ended
    /\ End(p, "off")
    /\ UNCHANGED <<store, worldVars, countVars, historyVars>>

\* The user flashes a build of KACE, or something else.
Flash ==
    /\ \E f \in built \cup {Foreign} :
          /\ f # firmware
          /\ Runs(f)
    /\ UNCHANGED <<store, printer, pc, mem, localVars, countVars, built, refused>>

\* The user removes the generated file.
RemoveGenerated ==
    /\ "remove" \in Faults
    /\ printer # Absent
    /\ printer' = Absent
    /\ UNCHANGED <<store, firmware, pc, mem, localVars, countVars, historyVars>>

-----------------------------------------------------------------------------
\* What a process does between two questions.
Work(p) ==
    \/ LoadNothing(p) \/ LoadRefused(p) \/ LoadCheckpoint(p)
    \/ CompileFails(p) \/ CompileArtifact(p) \/ PublishArtifact(p)
    \/ DeliveryPends(p) \/ DeliveryFlashes(p) \/ AutoVerify(p)
    \/ Await(p) \/ Pause(p) \/ BeginVerification(p)
    \/ McuMatches(p) \/ McuMissing(p)
    \/ KeepGenerated(p) \/ Generate(p) \/ Gate(p) \/ GateBlocks(p) \/ Ready(p)
    \/ DeploySucceeds(p) \/ DeployFails(p)
    \/ RecordComplete(p) \/ RecordFailure(p)

\* What the operator decides.
Operator(p) ==
    \/ Start(p) \/ Continue(p) \/ VerifyNow(p) \/ Recompile(p) \/ NewWorkflow(p)
    \/ Wizard(p) \/ ReviewKeeps(p) \/ ReviewEdits(p)
    \/ CreateWorkflow(p) \/ ConfigurationOnly(p) \/ Cancel(p)
    \/ Interrupt(p) \/ FlashClaimed(p) \/ BeginDeployment(p)

Next ==
    \/ \E p \in Process : Work(p) \/ Operator(p) \/ Crash(p)
    \/ Flash \/ RemoveGenerated

Spec == Init /\ [][Next]_vars

\* The scheduler runs every process; nothing is assumed of the operator.
FairSpec == Spec /\ \A p \in Process : WF_vars(Work(p))

-----------------------------------------------------------------------------
(* Properties.                                                             *)

\* The checkpoint file is one history of revisions: DEPLOYMENT.md, "Stale
\* writers fail even if they locally advanced to a higher sequence.  Starting
\* a new workflow [...] cannot overwrite a concurrent update".
Lineage == INSTANCE CheckpointLineage WITH entry <- store

FollowsLineage == Lineage!Spec

\* A checkpoint from which a deployment may start, or that claims one, names
\* a verified MCU and carries flash evidence of the build it names now, not
\* of one compiled before, and so does every copy a process works with.
EvidenceIsCurrent ==
    /\ store # NoCheckpoint => Sound(store)
    /\ \A p \in Process : mem[p] # NoCheckpoint => Sound(mem[p])

\* COMPLETE is never published for a firmware that did not run: its build was
\* on the MCU after this very deployment became durable, whatever other
\* processes and the user did in between.
CompleteHasRun ==
    [][store' # NoCheckpoint /\ store' # store
       => (store'.state = "COMPLETE" => store'.artifact \in ran)]_vars

\* workflow_outcome.py: "The CLI, installer, and bootstrap share the numeric
\* exit-code contract".  Every run ends with a result of the contract.
EndsTyped == \A p \in Process : pc[p] # "uncaught"

\* DEPLOYMENT.md: "Missing generated printer.cfg is regenerated from the
\* verified checkpoint without repeating firmware compilation or flashing".
\* A run that generates for a verified workflow writes a file that its own
\* gate accepts.
RegeneratedIsAccepted ==
    [][\A p \in Process :
         Generate(p) /\ mem[p] # NoCheckpoint => printer' = mem[p].serial]_vars

\* test_main_integration.py: a "concurrent checkpoint update is preserved and
\* blocks generation".  No process writes printer.cfg for a revision that is
\* no longer the stored one.
GenerationIsCurrent ==
    [][\A p \in Process :
         Generate(p) /\ mem[p] # NoCheckpoint => store = mem[p]]_vars

\* A verification that was asked for ends in an answer: the prompt again, the
\* next phase, or the end of the run.
VerificationAnswers ==
    \A p \in Process :
        pc[p] = "verifynow" ~> pc[p] \in {"wait", "review", "generate"} \cup Ended
=============================================================================
