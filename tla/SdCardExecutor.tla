--------------------------- MODULE SdCardExecutor ---------------------------
(***************************************************************************)
(* The contractual SD-card deployment: the menu of                         *)
(* core/board_contract_deployment.py driving SdCardDeploymentExecutor of   *)
(* firmware/boards/executor.py, the operator who handles cards, cable and  *)
(* power meanwhile, and the board and Klipper that react.                  *)
(*                                                                         *)
(* A node is a block device as lsblk lists it.  The presence monitor is    *)
(* what McuMonitor proves of it: a wait is served by a removal that was    *)
(* followed by a return, whenever both happened after it was armed.        *)
(***************************************************************************)
EXTENDS FiniteSets, Naturals

CONSTANTS
    Node,           \* lsblk nodes: the system disk and every card
    Inserted,       \* those that may be attached when the menu opens
    None,           \* no uuid, no serial, no card, no answer
    Filesystems,    \* required_filesystems of the flash recipe
    Recipes,        \* [removable, deferred]: require_removable of the flash recipe
                    \* and defer_firmware_verification of the deployment
    Before,         \* firmware the board may run before the deployment
    MaxSwaps,       \* bound on cards put into or taken out of the host
    MaxMoves        \* bound on what happens to the board and to Klipper

\* The states of a session whose medium has been prepared.
AfterEject ==
    {"WAITING_FOR_MANUAL_POWER_CYCLE", "WAITING_FOR_MCU_REENUMERATION",
     "WAITING_FOR_KLIPPER", "MCU_REENUMERATED", "VERIFIED"}

\* The partitions of the disk that the host runs from: they are built in.
SystemNodes ==
    {n \in Node : ~n.removable /\ \E r \in Inserted :
        ~r.removable /\ "root" \in r.mounts /\ r.parent = n.parent}

\* A mount point and a device belong to one attached node at a time, and the
\* root of the host is on a built-in disk, whose partitions are all attached.
NodeAssumption ==
    /\ None \notin Node
    /\ Inserted \subseteq Node /\ SystemNodes \subseteq Inserted
    /\ \A n \in Node : n.mounts # {} /\ None \notin n.mounts
    /\ \A m, n \in Inserted : m # n => m.mounts # n.mounts /\ m.device # n.device
    /\ Before \subseteq {"other", "planned"}
    /\ None \notin AfterEject

VARIABLES
    host,           \* nodes attached to the host
    unmounted,      \* nodes that have been unmounted
    content,        \* the firmware file at the root of each node
    part,           \* nodes that hold a temporary file of this deployment
    away,           \* history: nodes taken out between the last identification
                    \* of the selection and the reread of the file
    printer,        \* the card in the printer
    staged,         \* the staged artifact on the host
    recipe,         \* what was planned, one of Recipes
    attached, powered, running, ran,    \* the board, what it runs and has run
    klipper, reports,                   \* Klipper and the version it reports
    monitor,        \* "new", "armed", "gone", "back" or "closed"
    pc, state,      \* position of the run, session.state
    picked,         \* the stable id that the menu returned
    selected,       \* session.selected_media
    buffer,         \* what the writer copied into its temporary file
    observed,       \* session.observed_fingerprint
    proof,          \* final_state of the proof file
    swaps, moves    \* what MaxSwaps and MaxMoves bound

media == <<host, unmounted, content, part, away>>
board == <<attached, powered, running, ran>>
daemon == <<klipper, reports>>
plan == <<staged, recipe>>
control == <<pc, state, picked, selected, buffer, observed, proof>>
vars == <<media, printer, plan, board, daemon, monitor, control, swaps, moves>>

Mounted == host \ unmounted
Ends == {"done", "refused", "unrecorded", "interrupted"}

-----------------------------------------------------------------------------
(* LinuxRemovableMediaProvider and the identity of a medium.               *)

StableId(n) ==
    IF n.partuuid # None THEN <<"partuuid", n.partuuid>>
    ELSE IF n.uuid # None THEN <<"uuid", n.uuid>>
    ELSE IF n.serial # None THEN <<"serial-path", n.serial, n.device>>
    ELSE None

SystemDisk(n) == \E r \in Mounted : "root" \in r.mounts /\ r.parent = n.parent

Candidates ==
    {n \in Mounted : /\ n.type \in {"part", "disk"}
                     /\ Cardinality(n.mounts) = 1 /\ n.mounts # {"root"}
                     /\ StableId(n) # None}

\* refresh: the candidates that may be listed first under the same id.
Refreshed == {n \in Candidates : StableId(n) = StableId(selected)}

Shape(n) == <<StableId(n), n.device, n.parent, n.mounts, n.fs, n.size, n.serial>>
SamePhysicalMedium(a, b) == Shape(a) = Shape(b)

\* Mutant: the executor relies on the menu to exclude the system disk.
VerifyMediaRemovable(n, requireSpace) ==
    /\ recipe.removable => n.removable
    /\ ~n.readOnly
    /\ n.fs \in Filesystems
    /\ requireSpace => n.room

VerifyMedia(n, requireSpace) ==
    /\ ~SystemDisk(n)
    /\ recipe.removable => n.removable
    /\ ~n.readOnly
    /\ n.fs \in Filesystems
    /\ requireSpace => n.room

\* The node behind the mount path, and behind the device, of the selection.
AtMount == {n \in Mounted : n.mounts = selected.mounts}
AtDevice == {n \in Mounted : n.device = selected.device}

Init ==
    /\ host \in SUBSET Inserted /\ SystemNodes \subseteq host /\ unmounted = {}
    /\ content \in [Node -> {"none", "other"}]
    /\ \A n \in Node : content[n] = "other" => n.removable
    /\ part = {} /\ away = {} /\ printer = None /\ staged = "planned"
    /\ recipe \in Recipes
    /\ attached = TRUE /\ powered = TRUE /\ running \in Before /\ ran = {running}
    /\ klipper = "ready" /\ reports = running
    /\ monitor = "new" /\ pc = "menu" /\ state = None
    /\ picked = None /\ selected = None /\ buffer = None /\ observed = None
    /\ proof = None /\ swaps = 0 /\ moves = 0

-----------------------------------------------------------------------------
(* The operator, the board and Klipper.                                    *)

Swap == pc \notin Ends /\ swaps < MaxSwaps /\ swaps' = swaps + 1
Move == pc \notin Ends /\ moves < MaxMoves /\ moves' = moves + 1

TakenOut(n) == away' = IF pc = "readback" THEN away \cup (host \cap {n}) ELSE away

Insert(n) ==
    /\ Swap
    /\ n \notin host /\ n # printer
    /\ \A m \in host : m.device # n.device /\ m.mounts # n.mounts
    /\ host' = host \cup {n} /\ unmounted' = unmounted \ {n}
    /\ UNCHANGED <<content, part, away, printer, plan, board, daemon, monitor,
                   control, moves>>

Remove(n) ==
    /\ Swap
    /\ n \in host /\ n.removable
    /\ host' = host \ {n} /\ TakenOut(n)
    /\ UNCHANGED <<unmounted, content, part, printer, plan, board, daemon,
                   monitor, control, moves>>

\* A card is carried over to the printer, or the printer's card taken out.
Carry(n) ==
    /\ Move
    /\ n # printer
    /\ n # None => n \in host /\ n.removable
    /\ printer' = n /\ host' = host \ {n} /\ TakenOut(n)
    /\ UNCHANGED <<unmounted, content, part, plan, board, daemon, monitor,
                   control, swaps>>

Detached == IF attached /\ monitor = "armed" THEN "gone" ELSE monitor
Attached == IF monitor = "gone" THEN "back" ELSE monitor

\* The power is switched at the printer, or by the relay from the menu.
PowerOff ==
    /\ Move
    /\ powered
    /\ powered' = FALSE /\ attached' = FALSE /\ monitor' = Detached
    /\ UNCHANGED <<media, printer, plan, running, ran, daemon, control, swaps>>

\* The bootloader flashes what it finds on the printer's card.
PowerOn ==
    /\ Move
    /\ ~powered
    /\ powered' = TRUE /\ attached' = TRUE /\ monitor' = Attached
    /\ running' = IF printer = None \/ content[printer] = "none"
                  THEN running ELSE content[printer]
    /\ ran' = ran \cup {running'}
    /\ UNCHANGED <<media, printer, plan, daemon, control, swaps>>

\* The USB cable alone, without a reset of the board.
Unplug ==
    /\ Move
    /\ attached
    /\ attached' = FALSE /\ monitor' = Detached
    /\ UNCHANGED <<media, printer, plan, powered, running, ran, daemon,
                   control, swaps>>

Replug ==
    /\ Move
    /\ powered /\ ~attached
    /\ attached' = TRUE /\ monitor' = Attached
    /\ UNCHANGED <<media, printer, plan, powered, running, ran, daemon,
                   control, swaps>>

\* Klipper notices a lost board late, and reads the version when it connects.
KlipperNotices ==
    /\ klipper = "ready" /\ ~attached
    /\ klipper' = "down"
    /\ UNCHANGED <<media, printer, plan, board, reports, monitor, control,
                   swaps, moves>>

KlipperConnects ==
    /\ Move
    /\ attached
    /\ klipper' = "ready" /\ reports' = running
    /\ UNCHANGED <<media, printer, plan, board, monitor, control, swaps>>

\* The build directory is rewritten, or removed, behind the plan.
Rebuild ==
    /\ Move
    /\ staged' \in {"other", "absent"}
    /\ UNCHANGED <<recipe, media, printer, board, daemon, monitor, control, swaps>>

-----------------------------------------------------------------------------
(* Steps of the run.                                                       *)

outside == <<host, unmounted, away, printer, plan, board, daemon, swaps, moves>>

Goto(next) == pc' = next

\* _fail: the session fails, the monitor closes, the proof is written.
Fail ==
    /\ state' = "FAILED" /\ monitor' = "closed" /\ Goto("proof")
    /\ UNCHANGED <<picked, selected, observed, proof>>

\* run_sd_card_contract_deployment: the card is chosen in a menu that hides
\* the system disk; no choice ends the run before there is a session.
SelectMedium ==
    /\ pc = "menu"
    /\ \/ \E n \in Candidates :
            ~SystemDisk(n) /\ picked' = StableId(n) /\ Goto("validate")
       \/ picked' = None /\ Goto("refused")
    /\ UNCHANGED <<outside, content, part, monitor, state, selected, buffer,
                   observed, proof>>

\* _validate_plan and _verify_artifacts, before a session exists.
Validate ==
    /\ pc = "validate"
    /\ \/ staged = "planned" /\ state' = "PREPARED" /\ Goto("arm")
       \/ state' = state /\ Goto("refused")
    /\ UNCHANGED <<outside, content, part, monitor, picked, selected, buffer,
                   observed, proof>>

Arm ==
    /\ pc = "arm"
    /\ \/ /\ monitor' = "armed" /\ Goto("select")
          /\ UNCHANGED <<state, picked, selected, observed, proof>>
       \/ Fail
    /\ UNCHANGED <<outside, content, part, buffer>>

Chosen == {n \in Candidates : StableId(n) = picked}

Select ==
    /\ pc = "select"
    /\ \/ \E n \in Chosen :
            /\ Cardinality(Chosen) = 1 /\ VerifyMedia(n, TRUE)
            /\ selected' = n /\ state' = "MEDIA_SELECTED" /\ Goto("refresh")
            /\ UNCHANGED <<monitor, picked, observed, proof>>
       \/ /\ \A n \in Chosen : Cardinality(Chosen) # 1 \/ ~VerifyMedia(n, TRUE)
          /\ Fail
    /\ UNCHANGED <<outside, content, part, buffer>>

\* One refresh of the selection: the same medium, still fit for the copy.
RefreshMedium(next, label, requireSpace) ==
    /\ \/ \E n \in Refreshed :
            /\ SamePhysicalMedium(selected, n) /\ VerifyMedia(n, requireSpace)
            /\ selected' = n /\ state' = label /\ Goto(next)
            /\ UNCHANGED <<monitor, picked, observed, proof>>
       \/ /\ \/ Refreshed = {}
             \/ \E n \in Refreshed : ~SamePhysicalMedium(selected, n)
                                        \/ ~VerifyMedia(n, requireSpace)
          /\ Fail
    /\ UNCHANGED <<outside, content, part, buffer>>

FirstRefresh ==
    pc = "refresh" /\ RefreshMedium("recheck", "MEDIA_VERIFIED", TRUE)

\* The plan and the staged bytes are checked a second time.
Recheck ==
    /\ pc = "recheck"
    /\ \/ /\ staged = "planned" /\ Goto("again")
          /\ UNCHANGED <<monitor, state, picked, selected, observed, proof>>
       \/ staged # "planned" /\ Fail
    /\ UNCHANGED <<outside, content, part, buffer>>

SecondRefresh == pc = "again" /\ RefreshMedium("write", state, TRUE)

\* VerifiedMediaWriter.copy: the temporary file, then its publication.
WriteTemporary ==
    /\ pc = "write"
    /\ \/ \E n \in AtMount :
            /\ n \notin part /\ staged # "absent"
            /\ part' = part \cup {n} /\ buffer' = staged /\ Goto("publish")
            /\ UNCHANGED <<monitor, state, picked, selected, observed, proof>>
       \/ Fail /\ UNCHANGED <<part, buffer>>
    /\ UNCHANGED <<outside, content>>

Publish ==
    /\ pc = "publish"
    /\ \/ \E n \in AtMount \cap part :
            /\ content' = [content EXCEPT ![n] = buffer]
            /\ part' = part \ {n} /\ Goto("after")
            /\ UNCHANGED <<monitor, state, picked, selected, observed, proof>>
       \/ Fail /\ part' = part \ AtMount /\ UNCHANGED content
    /\ UNCHANGED <<outside, buffer>>

\* Mutant: after the copy the medium is not identified again.
SkipThirdRefresh ==
    /\ pc = "after" /\ state' = "COPIED" /\ Goto("readback")
    /\ UNCHANGED <<outside, content, part, buffer, monitor, picked, selected,
                   observed, proof>>

ThirdRefresh == pc = "after" /\ RefreshMedium("readback", "COPIED", FALSE)

\* Mutant: the file's presence is enough.
ReadbackExists ==
    /\ pc = "readback"
    /\ \/ \E n \in AtMount :
            /\ content[n] # "none" /\ state' = "COPY_VERIFIED" /\ Goto("eject")
            /\ UNCHANGED <<monitor, picked, selected, observed, proof>>
       \/ (\A n \in AtMount : content[n] # "planned") /\ Fail
    /\ UNCHANGED <<outside, content, part, buffer>>

Readback ==
    /\ pc = "readback"
    /\ \/ \E n \in AtMount :
            /\ content[n] = "planned" /\ state' = "COPY_VERIFIED" /\ Goto("eject")
            /\ UNCHANGED <<monitor, picked, selected, observed, proof>>
       \/ (\A n \in AtMount : content[n] # "planned") /\ Fail
    /\ UNCHANGED <<outside, content, part, buffer>>

\* LinuxSafeEjector: what is behind the device, unless it is unsupported,
\* refused, or still mounted afterwards.
Eject ==
    /\ pc = "eject"
    /\ \/ \E n \in AtDevice :
            /\ unmounted' = unmounted \cup {n}
            /\ state' = "WAITING_FOR_MANUAL_POWER_CYCLE" /\ Goto("gate")
            /\ UNCHANGED <<monitor, picked, selected, observed, proof>>
       \/ Fail /\ UNCHANGED unmounted
    /\ UNCHANGED <<host, content, part, away, printer, plan, board, daemon,
                   buffer, swaps, moves>>

\* Mutant: a declined confirmation ends the run with the session's proof.
ConfirmDeclined ==
    /\ pc = "gate"
    /\ proof' = state /\ Goto("done")
    /\ UNCHANGED <<outside, content, part, monitor, state, picked, selected,
                   buffer, observed>>

\* Only an explicit confirmation leaves the gate; a refresh, an observation
\* and a declined confirmation change nothing.
Confirm ==
    /\ pc = "gate"
    /\ state' = "WAITING_FOR_MCU_REENUMERATION" /\ Goto("wait")
    /\ UNCHANGED <<outside, content, part, monitor, picked, selected, buffer,
                   observed, proof>>

Cancel ==
    /\ pc = "gate"
    /\ Fail
    /\ UNCHANGED <<outside, content, part, buffer>>

\* wait_for_present, or its timeout, ambiguity, mismatch or cancellation.
Wait ==
    /\ pc = "wait"
    /\ \/ /\ monitor = "back" /\ recipe.deferred
          /\ state' = "MCU_REENUMERATED" /\ monitor' = "closed" /\ Goto("proof")
          /\ UNCHANGED <<picked, selected, observed, proof>>
       \/ /\ monitor = "back" /\ ~recipe.deferred
          /\ state' = "WAITING_FOR_KLIPPER" /\ Goto("ready")
          /\ UNCHANGED <<monitor, picked, selected, observed, proof>>
       \/ Fail
    /\ UNCHANGED <<outside, content, part, buffer>>

\* Mutant: wait_for_firmware never looks at its deadline.
SampleReadyAgain ==
    /\ pc = "ready"
    /\ \/ klipper = "ready" /\ Goto("versions")
       \/ klipper = "down" /\ Goto("ready")
    /\ UNCHANGED <<outside, content, part, buffer, monitor, state, picked,
                   selected, observed, proof>>

\* wait_for_firmware: one Ready sample, then the registered versions.
SampleReady ==
    /\ pc = "ready"
    /\ \/ /\ klipper = "ready" /\ Goto("versions")
          /\ UNCHANGED <<monitor, state, picked, selected, observed, proof>>
       \/ Fail
    /\ UNCHANGED <<outside, content, part, buffer>>

\* Mutant: the fingerprint is recorded, not compared.
SampleVersionsRecorded ==
    /\ pc = "versions"
    /\ \/ /\ klipper # "ready" /\ Goto("ready")
          /\ UNCHANGED <<monitor, state, picked, selected, observed, proof>>
       \/ /\ klipper = "ready" /\ observed' = reports
          /\ state' = "VERIFIED" /\ monitor' = "closed" /\ Goto("proof")
          /\ UNCHANGED <<picked, selected, proof>>
    /\ UNCHANGED <<outside, content, part, buffer>>

SampleVersions ==
    /\ pc = "versions"
    /\ \/ /\ klipper # "ready" /\ Goto("ready")
          /\ UNCHANGED <<monitor, state, picked, selected, observed, proof>>
       \/ /\ klipper = "ready" /\ observed' = reports
          /\ state' = IF reports = "planned" THEN "VERIFIED" ELSE "FAILED"
          /\ monitor' = "closed" /\ Goto("proof")
          /\ UNCHANGED <<picked, selected, proof>>
    /\ UNCHANGED <<outside, content, part, buffer>>

\* write_deployment_proof: atomic, or an OSError that nothing catches.
WriteProof ==
    /\ pc = "proof"
    /\ \/ proof' = state /\ Goto("done")
       \/ proof' = proof /\ Goto("unrecorded")
    /\ UNCHANGED <<outside, content, part, monitor, state, picked, selected,
                   buffer, observed>>

\* Ctrl+C is caught nowhere: the writer removes its temporary file, and the
\* monitor is left open unless the session had reached an end.
Interrupt ==
    /\ pc \notin Ends \cup {"menu", "gate"}
    /\ Goto("interrupted")
    /\ part' = IF pc = "publish" THEN part \ AtMount ELSE part
    /\ UNCHANGED <<outside, content, monitor, state, picked, selected, buffer,
                   observed, proof>>

Run ==
    \/ SelectMedium \/ Validate \/ Arm \/ Select \/ FirstRefresh \/ Recheck
    \/ SecondRefresh \/ WriteTemporary \/ Publish \/ ThirdRefresh \/ Readback
    \/ Eject \/ Wait \/ SampleReady \/ SampleVersions \/ WriteProof

Operator ==
    \/ \E n \in Node : Insert(n) \/ Remove(n)
    \/ \E n \in {m \in Node : m.removable} \cup {None} : Carry(n)
    \/ PowerOff \/ PowerOn \/ Unplug \/ Replug
    \/ Confirm \/ Cancel \/ Interrupt

Next == Run \/ Operator \/ KlipperNotices \/ KlipperConnects \/ Rebuild

Spec == Init /\ [][Next]_vars

\* The process runs: every wait and poll has a deadline of its own.
FairSpec == Spec /\ WF_vars(Run)

-----------------------------------------------------------------------------

TypeOK ==
    /\ host \subseteq Node /\ unmounted \subseteq Node /\ part \subseteq Node
    /\ away \subseteq Node
    /\ content \in [Node -> {"none", "other", "planned"}]
    /\ printer \in Node \cup {None}
    /\ staged \in {"planned", "other", "absent"} /\ recipe \in Recipes
    /\ attached \in BOOLEAN /\ powered \in BOOLEAN /\ running \in ran
    /\ ran \subseteq {"other", "planned"} /\ reports \in ran
    /\ klipper \in {"ready", "down"}
    /\ monitor \in {"new", "armed", "gone", "back", "closed"}
    /\ selected \in Node \cup {None}
    /\ observed \in {None, "other", "planned"}
    /\ proof \in {None, "FAILED", "VERIFIED", "MCU_REENUMERATED"}

\* The run asks the operator to power-cycle only when the medium that it
\* identified last holds the planned bytes, whatever was exchanged between the
\* identifications and the copy (prepare_media).  The reread trusts the mount
\* path: a medium that was taken out between the last identification and the
\* reread is not spoken of.
GateIsPrepared ==
    state \in AfterEject => content[selected] = "planned" \/ selected \in away

\* No byte goes to a partition of the host's own disk, not even when a card
\* carries the same partition id and is exchanged between the menu and the
\* copy (_select_medium, _select_media, _verify_media).
SystemDiskUntouched ==
    \A n \in SystemNodes : content[n] = "none" /\ n \notin part

\* What the run knows of the medium when it asks for the power cycle.
MediumIsPrepared == TypeOK /\ GateIsPrepared /\ SystemDiskUntouched

\* A proof that says VERIFIED speaks of a board that has run the planned
\* firmware since the deployment started: a board that was unplugged early
\* serves the wait, and a late Klipper an old version, but neither verifies.
VerifiedHasRun == proof = "VERIFIED" => ~recipe.deferred /\ "planned" \in ran

\* A confirmed deployment comes to an end, whatever the board, Klipper and the
\* operator do: it is proven, rejected or interrupted.
ConfirmedEnds == pc = "wait" ~> pc \in Ends
=============================================================================
