------------------------- MODULE PhysicalDeployment -------------------------
(***************************************************************************)
(* One physical deployment: the gates of deploy_firmware_installation in   *)
(* core/deployer.py and Deployer.run of core/moonraker_deployer.py, from   *)
(* the delivery of the firmware over the power cycle and the return of the *)
(* board to the publication of the configuration, its activation and its   *)
(* rollback.  Beside it act the board, Klipper, the operator's hands and   *)
(* an editor of the configuration.                                         *)
(*                                                                         *)
(* What a file holds is "old", "new" (what this deployment wants) or       *)
(* "edit"; the firmware of the board is "old" or "new".                    *)
(***************************************************************************)
EXTENDS Naturals, Sequences, FiniteSets

CONSTANTS
    Files,          \* the managed configuration files
    Root,           \* printer.cfg, published last
    MoonrakerConf,  \* moonraker.conf, which needs a restart of Moonraker
    Methods,        \* "usb", "relay" (media, with a relay), "hands" (without)
    Faults,         \* what may go wrong: see each use
    MaxEdits,       \* bound on what the editor saves
    Nothing         \* no result, no outcome of a rollback

\* The DeployStates that end a deployment, and an exception nobody handles.
Results ==
    {"DONE", "CANCELLED", "ABORTED", "TIMEOUT", "FAILED_PRECONDITION",
     "FAILED_FLASH", "FAILED_MONITOR", "FAILED_UPLOAD", "CONFIG_ERROR",
     "KeyboardInterrupt"}

ASSUME FilesAssumption ==
    /\ Root \in Files
    /\ Methods \subseteq {"usb", "relay", "hands"}
    /\ Nothing \notin BOOLEAN /\ Nothing \notin Results

VARIABLES
    method, files, edits,
    touched,        \* history: files saved by others since they were compared
    pc, phase,      \* position, and which of several uses of a wait it is
    samples,        \* Ready samples in a row
    planned,        \* the files that were read for the plan: the snapshot
    attempted,      \* _attempted_config_writes
    handler,        \* the exception handler that runs: "none", "cancel", "error"
    failure,        \* the result a rollback leads to
    result, rollback,
    relay, attached, left, returned, media,
    mcu,            \* firmware on the board
    klipper         \* [state, loaded, version] of the running Klipper

run == <<pc, phase, samples, planned, attempted, handler, failure, result, rollback>>
board == <<attached, left, returned, media, mcu>>
editor == <<edits, touched>>
vars == <<method, files, editor, run, relay, board, klipper>>

Wanted == [f \in Files |-> "new"]
Attempted == {attempted[i] : i \in DOMAIN attempted}
Changed == {f \in Files : planned[f] # "new"}

Init ==
    /\ method \in Methods
    /\ files \in [Files -> {"old", "new"}] /\ edits = 0 /\ touched = {}
    /\ pc = "gates" /\ phase = "firmware" /\ samples = 0
    /\ planned = files /\ attempted = <<>> /\ handler = "none"
    /\ failure = Nothing /\ result = Nothing /\ rollback = Nothing
    /\ relay = "on" /\ attached = TRUE /\ left = FALSE /\ returned = FALSE
    /\ media = "empty" /\ mcu \in {"old", "new"}
    /\ \E loaded \in {files, [f \in Files |-> "old"]} :
           klipper = [state |-> "ready", loaded |-> loaded, version |-> mcu]

-----------------------------------------------------------------------------
(* The world around the deployment.                                        *)

\* Somebody saves his own text, or puts back the original or what was published.
Edit(f) ==
    /\ edits < MaxEdits /\ result = Nothing
    /\ edits' = edits + 1
    /\ \E text \in {"old", "new", "edit"} : files' = [files EXCEPT ![f] = text]
    /\ touched' = touched \cup {f}
    /\ UNCHANGED <<method, run, relay, board, klipper>>

\* A board without power, or one whose cable is pulled, leaves; firmware on
\* installed media is taken over when it starts again, if it is accepted.
Detach ==
    /\ attached
    /\ \/ relay = "off"
       \/ method = "usb" /\ pc \in {"firmware", "absent"}
       \/ method = "hands" /\ pc \in {"installing", "absent"}
    /\ attached' = FALSE
    /\ left' = TRUE
    /\ UNCHANGED <<method, files, editor, run, relay, returned, media, mcu, klipper>>

Attach ==
    /\ ~attached /\ relay = "on"
    /\ attached' = TRUE
    /\ returned' = left
    /\ mcu' \in IF media = "installed" THEN {mcu, "new"} ELSE {mcu}
    /\ UNCHANGED <<method, files, editor, run, relay, left, media, klipper>>

Install ==
    /\ pc \in {"installing", "present"} /\ media = "prepared" /\ ~attached
    /\ media' = "installed"
    /\ UNCHANGED <<method, files, editor, run, relay, attached, left, returned,
                   mcu, klipper>>

\* Klipper notices late that its board is gone, and starts again when somebody
\* restarts it; starting, it loads the files and asks the board for its build.
KlipperLost ==
    /\ klipper.state = "ready" /\ ~attached
    /\ klipper' = [klipper EXCEPT !.state = "shutdown"]
    /\ UNCHANGED <<method, files, editor, run, relay, board>>

KlipperStarts ==
    /\ klipper.state \in {"restarting", "shutdown"} /\ attached
    /\ klipper' \in {[state |-> "ready", loaded |-> files, version |-> mcu]}
          \cup IF "klipper" \in Faults
               THEN {[klipper EXCEPT !.state = "error"]} ELSE {}
    /\ UNCHANGED <<method, files, editor, run, relay, board>>

-----------------------------------------------------------------------------
(* How a run moves on and ends.                                            *)

Goto(next) ==
    /\ pc' = next
    /\ UNCHANGED <<phase, samples, handler, failure, result, rollback>>

End(r) ==
    /\ pc' = "done" /\ result' = r
    /\ UNCHANGED <<phase, samples, handler, failure, rollback>>

\* _rollback: without a snapshot there is nothing to verify.
Rollback(r, who) ==
    /\ handler' = who /\ failure' = r /\ phase' = "rollback" /\ samples' = 0
    /\ UNCHANGED <<result, rollback>>
    /\ pc' = IF Changed = {} THEN "rollbackFails" ELSE "restore"

Recovered(ok) ==
    /\ pc' = "done" /\ rollback' = ok
    /\ result' = IF handler = "cancel" /\ ok THEN "CANCELLED" ELSE failure
    /\ UNCHANGED <<phase, samples, handler, failure>>

\* DeployState: the handler of unexpected errors compares these positions.
StateOrder ==
    <<"INIT", "WAITING_MOONRAKER", "WAITING_KLIPPER_READY",
      "WAITING_MCU_REGISTRATION", "VERIFYING_FIRMWARE", "APPLYING_CONFIG",
      "VERIFYING_UPLOAD", "FIRMWARE_RESTART", "VERIFYING_CONFIG",
      "ROLLING_BACK", "VERIFYING_ROLLBACK">>
Rank(s) == CHOOSE i \in DOMAIN StateOrder : StateOrder[i] = s

\* Mutant: the wait for Moonraker is announced before its restart.
StateEarly ==
    IF pc \in {"compare", "upload"} THEN "APPLYING_CONFIG"
    ELSE IF pc = "download" /\ phase = "verify" THEN "VERIFYING_UPLOAD"
    ELSE IF pc \in {"restartMoonraker", "moonraker"} THEN "WAITING_MOONRAKER"
    ELSE IF pc = "restart" THEN "FIRMWARE_RESTART"
    ELSE IF phase \in {"config", "final"} THEN "VERIFYING_CONFIG"
    ELSE "INIT"

\* The state at the calls that can raise.
State ==
    IF pc \in {"compare", "upload"} THEN "APPLYING_CONFIG"
    ELSE IF pc \in {"download", "restartMoonraker"} /\ phase = "verify"
      THEN "VERIFYING_UPLOAD"
    ELSE IF pc = "restart" THEN "FIRMWARE_RESTART"
    ELSE IF phase \in {"config", "final"} THEN "VERIFYING_CONFIG"
    ELSE "INIT"

\* An exception, by the handler that takes it: an I/O error of the kind
\* TimeoutError has a handler of its own.
Raise ==
    \/ IF Rank(State) >= Rank("APPLYING_CONFIG")
       THEN Rollback("CONFIG_ERROR", "error") ELSE End("FAILED_PRECONDITION")
    \/ "timeout" \in Faults /\ End("TIMEOUT")

World == <<method, files, editor, relay, board, klipper>>
NoWrite == UNCHANGED <<World, planned, attempted>>
\* The same, for a comparison after which the saves of others count anew.
Compared ==
    /\ touched' = {}
    /\ UNCHANGED <<method, files, edits, relay, board, klipper, planned, attempted>>

-----------------------------------------------------------------------------
(* deploy_firmware_installation.                                           *)

\* Artifact, identity, preflight, semantic validation; then the plan is made
\* of what was read.
Gates ==
    /\ pc = "gates"
    /\ \/ \E r \in {"FAILED_PRECONDITION", "FAILED_FLASH", "FAILED_MONITOR"} :
              End(r) /\ UNCHANGED planned
       \/ Goto("review") /\ planned' = files
    /\ UNCHANGED <<World, attempted>>

Review ==
    /\ pc = "review"
    /\ \/ Goto("revalidate")
       \/ Changed # {} /\ End("ABORTED")
    /\ NoWrite

\* The files are read again before the snapshot, which may fail.
Revalidate ==
    /\ pc = "revalidate"
    /\ \/ files = planned /\ Goto("power")
       \/ files # planned /\ End("FAILED_PRECONDITION")
       \/ "snapshot" \in Faults /\ End("FAILED_PRECONDITION")
    /\ NoWrite

\* A configured relay is confirmed on; the bundle is staged.
Power ==
    /\ pc = "power"
    /\ \/ Goto("capability")
       \/ "relay" \in Faults /\ End("FAILED_PRECONDITION")
    /\ NoWrite

-----------------------------------------------------------------------------
(* Deployer.run: firmware.                                                 *)

\* The transport can or cannot condition its writes.
Capability ==
    /\ pc = "capability"
    /\ \/ Goto(IF method = "usb" THEN "arm" ELSE "firmware")
       \/ Changed # {} /\ "transport" \in Faults /\ End("FAILED_PRECONDITION")
    /\ NoWrite

\* USB watches the board from before the flash on, media from after the copy.
AfterArm == [usb |-> "firmware", relay |-> "askPowerOff", hands |-> "installing"]

Arm ==
    /\ pc = "arm"
    /\ \/ Goto(AfterArm[method])
       \/ "monitor" \in Faults /\ End("FAILED_MONITOR")
    /\ NoWrite

Outcomes ==
    [usb |-> {"FLASHED", "CANCELLED", "ACTION_REQUIRED", "FAILED"},
     relay |-> {"MEDIA_PREPARED", "CANCELLED", "ACTION_REQUIRED", "FAILED"},
     hands |-> {"MEDIA_PREPARED", "CANCELLED", "ACTION_REQUIRED", "FAILED"}]

\* What the tool reports proves nothing: either firmware may be on the board.
Firmware ==
    /\ pc = "firmware"
    /\ \E outcome \in Outcomes[method] :
        /\ mcu' \in IF method = "usb" THEN {mcu, "new"} ELSE {mcu}
        /\ media' = IF outcome = "MEDIA_PREPARED" THEN "prepared" ELSE media
        /\ \/ outcome = "FLASHED" /\ Goto("absent")
           \/ outcome = "MEDIA_PREPARED" /\ Goto("arm")
           \/ outcome = "CANCELLED" /\ End("CANCELLED")
           \/ outcome = "ACTION_REQUIRED" /\ End("FAILED_PRECONDITION")
           \/ outcome = "FAILED" /\ End("FAILED_FLASH")
    /\ UNCHANGED <<method, files, editor, relay, attached, left, returned,
                   klipper, planned, attempted>>

AskPowerOff ==
    /\ pc = "askPowerOff"
    /\ Goto("powerOff") \/ End("CANCELLED")
    /\ NoWrite

\* A relay command that fails may have switched all the same.
Switch(position, to, next) ==
    /\ pc = position
    /\ \/ relay' = to /\ Goto(next)
       \/ "relay" \in Faults /\ relay' \in {"on", "off"} /\ End("FAILED_PRECONDITION")
    /\ UNCHANGED <<method, files, editor, board, klipper, planned, attempted>>

PowerOff == Switch("powerOff", "off", "absent")
PowerOn == Switch("powerOn", "on", "present")

\* Without a relay the operator cycles the power before he answers, with one
\* he installs the media while the printer is off.
Installed ==
    /\ pc = "installing"
    /\ \/ Goto(IF method = "hands" THEN "absent" ELSE "powerOn")
       \/ End("CANCELLED")
    /\ NoWrite

Absent ==
    /\ pc = "absent"
    /\ \/ left /\ Goto(IF method = "relay" THEN "installing" ELSE "present")
       \/ End("TIMEOUT")
    /\ NoWrite

\* wait_for_present, with its own module; a foreign board is refused.
Present ==
    /\ pc = "present"
    /\ \/ returned /\ Goto("moonraker")
       \/ \E r \in {"TIMEOUT", "FAILED_MONITOR", "CANCELLED"} : End(r)
    /\ NoWrite

-----------------------------------------------------------------------------
(* The waits that the firmware, the activation and the rollback share.     *)

ReadyNext == [firmware |-> "versions", config |-> "versions",
              rollback |-> "confirm"]
MoonrakerNext == [firmware |-> "ready", verify |-> "restart",
                  config |-> "ready", rollback |-> "restart"]

\* Mutant: the recovery waits for Klipper without a deadline.
WaitFailsForward ==
    \/ phase = "firmware" /\ End("TIMEOUT")
    \/ phase \in {"verify", "config"} /\ Rollback("CONFIG_ERROR", "none")

WaitFails ==
    \/ phase = "firmware" /\ End("TIMEOUT")
    \/ phase \in {"verify", "config"} /\ Rollback("CONFIG_ERROR", "none")
    \/ phase = "rollback" /\ Recovered(FALSE)

WaitMoonraker ==
    /\ pc = "moonraker"
    /\ Goto(MoonrakerNext[phase])
    /\ NoWrite

\* Mutant: one Ready answer is enough.
SampleReadyOnce ==
    /\ pc = "ready"
    /\ klipper.state \in {"ready", "restarting"}
    /\ Goto(ReadyNext[phase])
    /\ UNCHANGED <<klipper, method, files, editor, relay, board, planned, attempted>>

\* Two Ready answers in a row.  A restart that was accepted may still answer
\* with the old Ready once.
SampleReady ==
    /\ pc = "ready"
    /\ LET stale == klipper.state = "restarting" /\ samples = 0
           ready == klipper.state = "ready" \/ stale
       IN /\ klipper' = IF stale THEN [klipper EXCEPT !.state = "shutdown"]
                        ELSE klipper
          /\ samples' = IF ready /\ samples = 0 THEN 1 ELSE 0
          /\ pc' = IF ready /\ samples = 1 THEN ReadyNext[phase] ELSE pc
    /\ UNCHANGED <<method, files, editor, relay, board, planned, attempted, phase,
                   handler, failure, result, rollback>>

\* Mutant: the version of the running firmware is not compared.
VersionsUnchecked ==
    /\ pc = "versions"
    /\ IF phase = "firmware" THEN Goto("recheck")
       ELSE pc' = "download" /\ phase' = "final"
            /\ UNCHANGED <<samples, handler, failure, result, rollback>>
    /\ NoWrite

\* The deadline of a wait: Moonraker or Klipper stay silent, or Klipper reports
\* an error during the activation.
Expire ==
    /\ pc \in {"moonraker", "ready"} \/ (pc = "versions" /\ phase = "firmware")
    /\ WaitFails
    /\ NoWrite

\* Klipper must know the board (the first time) and report its new build.
Versions ==
    /\ pc = "versions"
    /\ \/ phase = "firmware"
          /\ \/ klipper.version = "new" /\ Goto("recheck")
             \/ klipper.version # "new" /\ End("FAILED_FLASH")
       \/ phase = "config"
          /\ \/ /\ klipper.version = "new"
                /\ pc' = "download" /\ phase' = "final"
                /\ UNCHANGED <<samples, handler, failure, result, rollback>>
             \/ klipper.version # "new" /\ Rollback("FAILED_FLASH", "none")
    /\ NoWrite

-----------------------------------------------------------------------------
(* Publication and activation.                                             *)

\* before_config_upload: the files are still those of the snapshot.
Recheck ==
    /\ pc = "recheck"
    /\ \/ /\ files = planned
          /\ pc' = IF Changed = {} THEN "download" ELSE "compare"
          /\ phase' = "verify"
          /\ UNCHANGED <<samples, handler, failure, result, rollback>>
       \/ files # planned /\ End("FAILED_PRECONDITION")
    /\ NoWrite

\* Mutant: what was attempted is not remembered.
NextFilesAgain == IF Changed = {Root} THEN Changed ELSE Changed \ {Root}

NextFiles ==
    LET rest == Changed \ Attempted IN IF rest = {Root} THEN rest ELSE rest \ {Root}

\* The file is read once more, then replaced if it is still the same.
Compare ==
    /\ pc = "compare"
    /\ \E f \in NextFiles :
        IF files[f] = planned[f]
        THEN attempted' = Append(attempted, f) /\ Goto("upload")
        ELSE UNCHANGED attempted /\ Raise
    /\ UNCHANGED <<World, planned>>

\* A write that raises may have happened.
Upload ==
    /\ pc = "upload"
    /\ LET f == attempted[Len(attempted)] IN
       \/ /\ files[f] = planned[f]
          /\ files' = [files EXCEPT ![f] = "new"]
          /\ Goto(IF Attempted = Changed THEN "download" ELSE "compare")
       \/ files[f] # planned[f] /\ UNCHANGED files /\ Raise
       \/ /\ "upload" \in Faults /\ files[f] = planned[f]
          /\ files' \in {files, [files EXCEPT ![f] = "new"]}
          /\ Raise
    /\ UNCHANGED <<method, editor, relay, board, klipper, planned, attempted>>

\* _verify_uploads, after the writes and again at the end.
Download ==
    /\ pc = "download"
    /\ \/ files = Wanted /\ phase = "final" /\ End("DONE") /\ NoWrite
       \/ /\ files = Wanted /\ phase # "final" /\ Compared
          /\ Goto(IF MoonrakerConf \in Changed THEN "restartMoonraker" ELSE "restart")
       \/ files # Wanted /\ Rollback("FAILED_UPLOAD", "none") /\ NoWrite
       \/ "read" \in Faults /\ Raise /\ NoWrite

RestartMoonraker ==
    /\ pc = "restartMoonraker"
    /\ \/ /\ pc' = "moonraker" /\ phase' = "verify"
          /\ UNCHANGED <<samples, handler, failure, result, rollback>>
       \/ "restart" \in Faults /\ Raise
    /\ NoWrite

\* Mutant: a recovery takes the restored files for loaded.
RestartActivationOnly ==
    /\ pc = "restart"
    /\ \/ /\ klipper' = IF phase = "rollback" THEN klipper
                        ELSE [klipper EXCEPT !.state = "restarting"]
          /\ pc' = IF phase = "rollback" THEN "ready" ELSE "moonraker"
          /\ phase' = IF phase = "rollback" THEN phase ELSE "config"
          /\ samples' = 0
          /\ UNCHANGED <<handler, failure, result, rollback>>
       \/ /\ "restart" \in Faults /\ UNCHANGED klipper
          /\ IF phase = "rollback" THEN Recovered(FALSE) ELSE Raise
    /\ UNCHANGED <<method, files, editor, relay, board, planned, attempted>>

\* FIRMWARE_RESTART, for the new files and for the restored ones; nothing is
\* restarted when nothing changed.
Restart ==
    /\ pc = "restart"
    /\ \/ /\ klipper' = IF Changed = {} THEN klipper
                        ELSE [klipper EXCEPT !.state = "restarting"]
          /\ pc' = IF phase = "rollback" THEN "ready" ELSE "moonraker"
          /\ phase' = IF phase = "rollback" THEN phase ELSE "config"
          /\ samples' = 0
          /\ UNCHANGED <<handler, failure, result, rollback>>
       \/ /\ "restart" \in Faults /\ UNCHANGED klipper
          /\ IF phase = "rollback" THEN Recovered(FALSE) ELSE Raise
    /\ UNCHANGED <<method, files, editor, relay, board, planned, attempted>>

-----------------------------------------------------------------------------
(* Rollback: nothing is written; what is there must be the snapshot.       *)

Restored == \A f \in Attempted : files[f] = planned[f]

RollbackFails == pc = "rollbackFails" /\ Recovered(FALSE) /\ NoWrite

\* The attempted files are compared twice before anything is restarted.
Restore ==
    /\ pc = "restore"
    /\ \/ Restored /\ Goto("restoredBytes")
       \/ (~Restored \/ "read" \in Faults) /\ Recovered(FALSE)
    /\ NoWrite

RestoredBytes ==
    /\ pc = "restoredBytes"
    /\ \/ Restored /\ Goto("moonraker") /\ Compared
       \/ ~Restored /\ Recovered(FALSE) /\ NoWrite
       \/ /\ MoonrakerConf \in Changed /\ "restart" \in Faults
          /\ Recovered(FALSE) /\ NoWrite

Confirm ==
    /\ pc = "confirm"
    /\ Recovered(Restored)
    /\ NoWrite

\* Ctrl+C: before the first write it ends the run, after it a rollback is
\* tried; during the rollback of a handler it ends that.
Interrupt ==
    /\ "interrupt" \in Faults
    /\ pc \notin {"gates", "review", "revalidate", "power", "done"}
    /\ \/ handler = "none" /\ attempted = <<>> /\ End("CANCELLED")
       \/ handler = "none" /\ attempted # <<>> /\ Rollback("CONFIG_ERROR", "cancel")
       \/ handler = "cancel" /\ Recovered(FALSE)
       \/ handler = "error" /\ End("KeyboardInterrupt")
    /\ NoWrite

-----------------------------------------------------------------------------
Deployment ==
    \/ Gates \/ Review \/ Revalidate \/ Power \/ Capability \/ Arm \/ Firmware
    \/ AskPowerOff \/ PowerOff \/ PowerOn \/ Installed \/ Absent \/ Present
    \/ WaitMoonraker \/ SampleReady \/ Expire \/ Versions \/ Recheck \/ Compare \/ Upload
    \/ Download \/ RestartMoonraker \/ Restart \/ RollbackFails \/ Restore
    \/ RestoredBytes \/ Confirm
Around ==
    \/ Detach \/ Attach \/ Install \/ KlipperLost \/ KlipperStarts
    \/ \E f \in Files : Edit(f)
Next == Deployment \/ Interrupt \/ Around
Spec == Init /\ [][Next]_vars

\* The process is scheduled, prompts are answered and deadlines pass: none of
\* the waits polls for ever.
FairSpec == Spec /\ WF_vars(Deployment) /\ SF_vars(Expire)

-----------------------------------------------------------------------------
Texts == {"old", "new", "edit"}
States == {"ready", "restarting", "shutdown", "error"}

TypeOK ==
    /\ method \in {"usb", "relay", "hands"}
    /\ files \in [Files -> Texts] /\ planned \in [Files -> Texts]
    /\ touched \subseteq Files
    /\ phase \in {"firmware", "verify", "config", "final", "rollback"}
    /\ samples \in 0..1
    /\ attempted \in Seq(Files) /\ Attempted \subseteq Changed
    /\ Len(attempted) = Cardinality(Attempted)
    /\ handler \in {"none", "cancel", "error"}
    /\ failure \in Results \cup {Nothing} /\ result \in Results \cup {Nothing}
    /\ rollback \in BOOLEAN \cup {Nothing}
    /\ (pc = "done") = (result # Nothing)
    /\ mcu \in {"old", "new"}
    /\ klipper \in [state : States, loaded : [Files -> Texts],
                    version : {"old", "new"}]

\* docs/en/DEPLOYMENT.md: an attempted write that is not completed is reported
\* as restored or as a failed recovery.  It is decided by the order of the
\* states, wherever between the first write and DONE the run fails.
WrittenIsDiagnosed ==
    (result \notin {Nothing, "DONE", "KeyboardInterrupt"} /\ attempted # <<>>)
        => rollback \in BOOLEAN

\* DONE: the board runs the new firmware, the files are the published ones, and
\* Klipper has loaded them: all but a file that somebody saved, and put back,
\* after the uploads were verified.
DoneIsActive ==
    [][result' = "DONE" /\ result = Nothing =>
        /\ mcu = "new"
        /\ files = Wanted
        /\ Changed # {} =>
              \A f \in Files : klipper.loaded[f] = "new" \/ f \in touched]_vars

\* A recovery that is reported as successful is one whose original files are
\* there and are what Klipper runs with: all but a file that somebody saved, and
\* put back, after the recovery had compared it.
RecoveryIsActive ==
    [][rollback' = TRUE /\ rollback = Nothing =>
        \A f \in Attempted :
            /\ files[f] = planned[f]
            /\ klipper.loaded[f] = planned[f] \/ f \in touched]_vars

\* A file is only published to a printer whose board has been seen to run the
\* new firmware, and printer.cfg after the files it includes.
FirmwareBeforeFiles ==
    attempted # <<>> =>
        /\ mcu = "new"
        /\ Root \in Attempted => Attempted = Changed

\* No file is published before the new firmware was seen, and no end of a
\* deployment that wrote skips the diagnosis of the files, unless an error of
\* the kind TimeoutError ends it.
FilesFollowFirmware == TypeOK /\ FirmwareBeforeFiles /\ WrittenIsDiagnosed

\* What a deployment or its recovery reports as active, Klipper has loaded.
ActiveAsReported == DoneIsActive /\ RecoveryIsActive

\* Whoever starts a deployment gets a result.
RunEnds == <>(result # Nothing)
=============================================================================
