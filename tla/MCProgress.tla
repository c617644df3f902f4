---------------------------- MODULE MCProgress ----------------------------
(***************************************************************************)
(* What must eventually happen: each part is one component under the       *)
(* fairness that its scheduling justifies.  A behaviour is about one part; *)
(* the others stay where they begin.                                       *)
(***************************************************************************)
EXTENDS Naturals

CONSTANTS t1, t2, p1, p2, root, include, moonraker, old, gen1, gen2,
          NotSaved, Free, NoFile, NoCheckpoint, Foreign, a1, s1,
          None, Refused, NoResult, boot, card,
          Parts   \* which of the parts below a configuration explores

VARIABLES part,
    live, holding, fileLock, txnPc, todo, baseline, target, written, snapshot,
    activation, samples, cause, outcome, rollback, klipper, loaded, stale, edits,
    author, displaced, raced, touched,
    store, printer, firmware, flowPc, mem, initial, path, output, reviewed, runs,
    created, built, refused, flashed,
    plugged, events, source, callback, seen, latch, ambiguousIdentity,
    ambiguousAssessment, reconnected, lastAssessment, manual, waitPc, assessment,
    candidate, expired, answered, identity, emptied, back,
    method, files, fileEdits, resaved, deployPc, phase, readySamples, planned, attempted,
    handler, failure, result, recovery, relay, attached, left, returned, media, mcu,
    running,
    host, unmounted, content, partial, away, slot, staged, recipe, usb, powered, inside, ran, daemon,
    reports, monitor, sdPc, state, picked, selected, buffer, observed, proof, swaps,
    moves,
    current, userData, history, snapshots, completed, status, answer, backFrom

-----------------------------------------------------------------------------
\* Two processes that compete for the file lock while Klipper and Moonraker may
\* fail.
Owner == [t \in {t1, t2} |-> IF t = t1 THEN p1 ELSE p2]
Local == [t \in {t1, t2} |-> "local"]
Both == [t \in {t1, t2} |-> {root, include}]
Wanted == [t \in {t1, t2} |-> [f \in {root, include} |-> IF t = t1 THEN gen1 ELSE gen2]]
FreshRoot == [f \in {root, include} |-> IF f = include THEN NoFile ELSE old]

Transaction == INSTANCE ConfigTransaction WITH
    Txn <- {t1, t2}, Process <- {p1, p2}, ProcessOf <- Owner, Transport <- Local,
    Retry <- {t2}, Files <- {root, include}, Root <- root, MoonrakerConf <- moonraker,
    Bytes <- {old, gen1, gen2}, Managed <- Both, Generated <- Wanted,
    InitialFiles <- {FreshRoot},
    Faults <- {"klipper", "activation", "upload", "proposal"}, MaxEdits <- 0,
    Absent <- NoFile, pc <- txnPc

\* Two command lines whose publications of the checkpoint fail, and crashes; only
\* builds are flashed.
Workflow == INSTANCE FirmwareWorkflow WITH
    Process <- {p1, p2}, Artifact <- {a1}, Serial <- {s1},
    Faults <- {"persist", "crash"}, MaxRuns <- 2, MaxSequence <- 4, MaxWorkflows <- 1,
    Absent <- NoFile, pc <- flowPc, ran <- flashed

\* A board that returns with another serial, and a udev process that may die.
Id(serial) == [node |-> "acm0", idPath |-> <<"usb1", "if0">>, devPath |-> None,
               byPath |-> {"alias1"}, serial |-> serial, vidPid |-> "app"]
App == [id |-> Id("s1"), link |-> "l1"]
Reserial == [id |-> Id("s2"), link |-> "l3"]
Wait == INSTANCE McuMonitor WITH
    Bootloader <- {"boot"}, Expected <- {"app"}, Board <- App, MaxMoves <- 1,
    Device <- {App, Reserial},
    pc <- waitPc, outcome <- answered, returned <- identity

\* Media with and without a relay, and a Klipper that stays in error.
Deployment == INSTANCE PhysicalDeployment WITH
    Files <- {root}, Root <- root, MoonrakerConf <- moonraker,
    Methods <- {"hands", "relay"}, Faults <- {"klipper", "upload", "timeout"},
    Nothing <- NoResult, MaxEdits <- 1, edits <- fileEdits,
    touched <- resaved, pc <- deployPc, samples <- readySamples,
    rollback <- recovery, klipper <- running

\* A host with its system disk, the card, and a card without room.
Partition(mounts, parent, device, id, removable, room) ==
    [type |-> "part", mounts |-> mounts, parent |-> parent, device |-> device,
     partuuid |-> id, uuid |-> None, serial |-> None, fs |-> "vfat", size |-> 1,
     removable |-> removable, readOnly |-> FALSE, room |-> room]
Disks == {Partition({"root"}, "mmc", "mmc2", None, FALSE, TRUE),
          Partition({"media"}, "sda", "sda1", card, TRUE, TRUE),
          Partition({"stick"}, "sdb", "sdb1", card, TRUE, FALSE)}
Card == INSTANCE SdCardExecutor WITH
    Node <- Disks, Inserted <- Disks, Recipes <- {[removable |-> TRUE, deferred |-> FALSE]},
    Filesystems <- {"vfat"}, Before <- {"other", "planned"}, MaxSwaps <- 1, MaxMoves <- 3,
    part <- partial, printer <- slot, attached <- usb, running <- inside,
    klipper <- daemon, pc <- sdPc

\* Two boards and every probe, one Z motor.
Questions == INSTANCE Wizard WITH
    Boards <- {"skr", "octopus"}, FanBoards <- {"octopus"}, BltouchBoards <- {"octopus"},
    CurrentBoards <- {"octopus"}, OpenBoards <- {"skr"}, BrokenBoards <- {},
    ZCounts <- {1}, Drivers <- {"standard"}, Profiles <- {"ender"},
    Probes <- {"none", "bltouch", "inductive", "custom"}, StartStep <- "board"

-----------------------------------------------------------------------------
theTransaction ==
    <<live, holding, fileLock, txnPc, todo, baseline, target, written, snapshot,
      activation, samples, cause, outcome, rollback, klipper, loaded, stale, edits,
      author, displaced, raced, touched>>
theWorkflow ==
    <<store, printer, firmware, flowPc, mem, initial, path, output, reviewed, runs,
      created, built, refused, flashed>>
theWait ==
    <<plugged, events, source, callback, seen, latch, ambiguousIdentity,
      ambiguousAssessment, reconnected, lastAssessment, manual, waitPc, assessment,
      candidate, expired, answered, identity, emptied, back>>
theDeployment ==
    <<method, files, fileEdits, resaved, deployPc, phase, readySamples, planned, attempted,
      handler, failure, result, recovery, relay, attached, left, returned, media, mcu,
      running>>
theCard ==
    <<host, unmounted, content, partial, away, slot, staged, recipe, usb, powered, inside, ran,
      daemon, reports, monitor, sdPc, state, picked, selected, buffer, observed, proof,
      swaps, moves>>
theQuestions ==
    <<current, userData, history, snapshots, completed, status, answer, backFrom>>
all == <<part, theTransaction, theWorkflow, theWait, theDeployment, theCard, theQuestions>>

InTransaction(A) ==
    /\ part = "transaction" /\ A
    /\ UNCHANGED <<part, theWorkflow, theWait, theDeployment, theCard, theQuestions>>
InWorkflow(A) ==
    /\ part = "workflow" /\ A
    /\ UNCHANGED <<part, theTransaction, theWait, theDeployment, theCard, theQuestions>>
InWait(A) ==
    /\ part = "wait" /\ A
    /\ UNCHANGED <<part, theTransaction, theWorkflow, theDeployment, theCard, theQuestions>>
InDeployment(A) ==
    /\ part = "deployment" /\ A
    /\ UNCHANGED <<part, theTransaction, theWorkflow, theWait, theCard, theQuestions>>
InCard(A) ==
    /\ part = "card" /\ A
    /\ UNCHANGED <<part, theTransaction, theWorkflow, theWait, theDeployment, theQuestions>>
InQuestions(A) ==
    /\ part = "wizard" /\ A
    /\ UNCHANGED <<part, theTransaction, theWorkflow, theWait, theDeployment, theCard>>

MCInit ==
    /\ part \in Parts
    /\ Transaction!Init
    /\ part # "workflow" => firmware = Foreign
    /\ Workflow!Init
    /\ part # "wait" => plugged = {App}
    /\ Wait!Init
    /\ part # "deployment" => /\ method = "hands" /\ mcu = "new"
                              /\ files = [f \in {root} |-> "new"]
    /\ Deployment!Init
    /\ part # "deployment" => running.loaded = files
    /\ part # "card" => /\ inside = "other" /\ content = [n \in Disks |-> "none"]
    /\ host = Disks
    /\ Card!Init
    /\ Questions!Init

MCNext ==
    \/ InTransaction(Transaction!Next)
    \/ InWorkflow(Workflow!Next /\ firmware' \in {firmware, a1})
    \/ InWait(Wait!Next)
    \/ InDeployment(Deployment!Next)
    \/ InCard(Card!Next)
    \/ InQuestions(Questions!Next)

\* The fairness of each part, as its module states it: the processes run, the
\* operator answers the prompts of a wait and of the wizard, and deadlines pass.
First ==
    \/ InTransaction(Transaction!Work(t1)) \/ InWorkflow(Workflow!Work(p1))
    \/ InWait(Wait!Waiter) \/ InDeployment(Deployment!Deployment)
    \/ InCard(Card!Run) \/ InQuestions(Questions!Answer)
Second ==
    \/ InTransaction(Transaction!Work(t2)) \/ InWorkflow(Workflow!Work(p2))
    \/ InQuestions(Questions!ResolveBltouchPins)
Deadline1 == InTransaction(Transaction!ReadyFails(t1))
Deadline2 == InTransaction(Transaction!ReadyFails(t2))
Expire == InWait(Wait!Expire) \/ InDeployment(Deployment!Expire)

MCSpec ==
    /\ MCInit /\ [][MCNext]_all
    /\ WF_all(First) /\ WF_all(Second) /\ WF_all(Deadline1) /\ WF_all(Deadline2)
    /\ SF_all(Expire)

-----------------------------------------------------------------------------
\* A run that waits for the file lock or works before the review comes to the
\* review or gives up, and a confirmed one returns a result, whatever Klipper,
\* Moonraker and the other run do (ConfigTransaction).
TransactionEnds ==
    /\ part = "transaction" => Transaction!ReachesReview
    /\ part = "transaction" => Transaction!ConfirmedReturns
\* A verification that was asked for ends in an answer (FirmwareWorkflow).
VerificationAnswers == part = "workflow" => Workflow!VerificationAnswers
\* An operator who from some point on only answers gets to the end (Wizard).
AnsweringFinishes == part = "wizard" => Questions!AnsweringFinishes
\* Whoever waits for the board gets an answer (McuMonitor), a physical deployment
\* gets a result (PhysicalDeployment), and a confirmed delivery by card is
\* proven, rejected or interrupted (SdCardExecutor).
HardwareWaitsEnd ==
    /\ part = "wait" => Wait!WaitEnds
    /\ part = "deployment" => Deployment!RunEnds
    /\ part = "card" => Card!ConfirmedEnds
=============================================================================
