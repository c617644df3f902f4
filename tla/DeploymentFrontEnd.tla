------------------------- MODULE DeploymentFrontEnd -------------------------
(***************************************************************************)
(* How core/deployer.py brings the generated configuration to a printer    *)
(* (SSH or Moonraker) or to a directory (local or removable), for one run. *)
(* Beside it another KACE process may generate ~/kace/printer.cfg anew,    *)
(* and the board may be flashed.  The transaction is the one of            *)
(* ConfigTransaction and appears here as the results it can have, without  *)
(* the one its run unreported_write is about; the SSH session is the one   *)
(* of SshDeployment and may fail.                                          *)
(***************************************************************************)
EXTENDS Naturals

CONSTANTS
    Generation,      \* the generated configurations
    Absent,          \* there is none
    Undrawable,      \* those with display artifacts in error
    Miswired,        \* those the selected board cannot drive
    Blocked,         \* those whose [mcu] serial or evidence is refused
    Incomplete,      \* those without a required section
    Foreign,         \* those with pins of another MCU family
    MaxGenerations   \* bound on what the other process does

\* The members of WorkflowOutcome that a run may end with, and an exception.
Outcome == {"SUCCESS", "CANCELLED", "PRECONDITION_FAILED", "FIRMWARE_FAILED",
            "DEPLOYMENT_FAILED", "DEPLOYED_PENDING_ACTIVATION", "uncaught"}

FrontEndAssumption ==
    /\ Absent \notin Generation \cup Outcome
    /\ Undrawable \cup Miswired \cup Blocked \cup Incomplete \cup Foreign \subseteq Generation
    /\ MaxGenerations \in Nat

VARIABLES
    world,      \* what the run finds: a checkpoint, a local Moonraker, ...
    pc, way,    \* the step, and the front end that was chosen
    scope,      \* artifact_type of an export
    printer,    \* ~/kace/printer.cfg
    bytes,      \* what this run has read of it
    passed,     \* history: what each check of the preflight was passed by
    dest,       \* the configuration at the destination, Absent: as it was
    copied,     \* the firmware is on the medium
    built,      \* the board runs the build of the checkpoint
    seen,       \* history: it did so when it was asked
    active,     \* history: Klipper was restarted with the configuration
    key,        \* an API key was typed
    exposed,    \* history: a key went out over plain HTTP
    held,       \* user_data holds a password
    outcome,    \* the WorkflowOutcome, Absent before the end
    made        \* generations of the other process

runVars == <<way, scope, bytes, passed, key, exposed, held, active>>
vars == <<world, pc, runVars, printer, dest, copied, built, seen, outcome, made>>

Checks == {"blockers", "sections", "pins"}

TypeOK ==
    /\ world \in [checkpoint : BOOLEAN, local : BOOLEAN, https : BOOLEAN]
    /\ pc \in {"choose", "host", "key", "check", "fallback", "open", "read",
               "connect", "validate", "blockers", "sections", "pins", "review",
               "publish", "activate", "verify", "path", "export", "firmware", "done"}
    /\ way \in {"none", "ssh", "moonraker", "local", "usb"}
    /\ scope \in {"config", "all"}
    /\ {printer, bytes, dest} \subseteq Generation \cup {Absent}
    /\ passed \in [Checks -> SUBSET Generation]
    /\ outcome \in Outcome \cup {Absent}
    /\ {copied, built, seen, active, key, exposed, held} \subseteq BOOLEAN
    /\ made \in 0 .. MaxGenerations

Init ==
    /\ world \in [checkpoint : BOOLEAN, local : BOOLEAN, https : BOOLEAN]
    /\ pc = "choose" /\ way = "none" /\ scope = "config"
    /\ printer \in Generation
    /\ bytes = Absent
    /\ passed = [c \in Checks |-> {}]
    /\ dest = Absent
    /\ built \in BOOLEAN
    /\ copied = FALSE /\ seen = FALSE /\ active = FALSE
    /\ key = FALSE /\ exposed = FALSE /\ held = FALSE
    /\ outcome = Absent
    /\ made = 0

Goto(step) == pc' = step /\ UNCHANGED outcome
Return(result) == pc' = "done" /\ outcome' = result

Still == UNCHANGED <<world, printer, built, made>>
Untouched == UNCHANGED <<dest, copied, seen>>

-----------------------------------------------------------------------------
(* The menu, and deploy_moonraker up to the transport.                     *)

Choose ==
    /\ pc = "choose"
    /\ way' \in {"ssh", "local", "usb"} \cup (IF world.local THEN {"moonraker"} ELSE {})
    /\ scope' \in IF way' \in {"local", "usb"} THEN {"config", "all"} ELSE {"config"}
    /\ \/ way' = "moonraker" /\ Goto("host") /\ UNCHANGED held
       \/ way' = "ssh" /\ Goto("read") /\ held' = TRUE
       \/ way' = "ssh" /\ Return("CANCELLED") /\ UNCHANGED held
       \/ way' \in {"local", "usb"} /\ Goto("path") /\ UNCHANGED held
    /\ Still /\ Untouched /\ UNCHANGED <<bytes, passed, key, exposed, active>>

\* The file that made the menu offer the local installation may be gone; the
\* host is asked for then.
AskHost ==
    /\ pc = "host"
    /\ \/ \E local \in BOOLEAN : world' = [world EXCEPT !.local = local] /\ Goto("key")
       \/ \E r \in {"CANCELLED", "PRECONDITION_FAILED"} : Return(r) /\ UNCHANGED world
    /\ Untouched /\ UNCHANGED <<printer, built, made, runVars>>

\* A remote host is not asked before a key was typed; a local one is, without.
AskKey ==
    /\ pc = "key"
    /\ key' \in BOOLEAN
    /\ Goto("check")
    /\ Still /\ Untouched /\ UNCHANGED <<way, scope, bytes, passed, exposed, held, active>>

\* The loopback address is always plain HTTP.
Plain == world.local \/ ~world.https

\* Mutant: the key is tried before the URL is looked at.
CheckTriesKey ==
    /\ pc = "check"
    /\ exposed' = (key /\ Plain)
    /\ \/ key /\ Plain /\ Return("PRECONDITION_FAILED")
       \/ ~(key /\ Plain) /\ \E next \in {"open", "fallback"} : Goto(next)
    /\ Still /\ Untouched /\ UNCHANGED <<way, scope, bytes, passed, key, held, active>>

Check ==
    /\ pc = "check"
    /\ IF key /\ Plain THEN Return("PRECONDITION_FAILED") /\ UNCHANGED exposed
       ELSE /\ \E next \in {"open", "fallback"} : Goto(next)
            /\ exposed' = (key /\ Plain)
    /\ Still /\ Untouched /\ UNCHANGED <<way, scope, bytes, passed, key, held, active>>

\* Moonraker does not answer: the operator may go on over SSH.
Fallback ==
    /\ pc = "fallback"
    /\ \/ Return("DEPLOYMENT_FAILED") /\ UNCHANGED <<way, held>>
       \/ way' = "ssh" /\ Goto("read") /\ held' = TRUE
       \/ Return("CANCELLED") /\ UNCHANGED <<way, held>>
    /\ Still /\ Untouched /\ UNCHANGED <<scope, bytes, passed, key, exposed, active>>

\* Only a transport with a guarded replacement is used: the local one.
Open ==
    /\ pc = "open"
    /\ \/ world.local /\ Goto("read")
       \/ Return("PRECONDITION_FAILED")
    /\ Still /\ Untouched /\ UNCHANGED runVars

-----------------------------------------------------------------------------
(* _run_config_transaction.                                                *)

\* _generated_config_bytes; a missing file leaves deploy_moonraker as an
\* exception.
Read ==
    /\ pc = "read"
    /\ bytes' = printer
    /\ held' = FALSE
    /\ IF printer = Absent
       THEN Return(IF way = "ssh" THEN "PRECONDITION_FAILED" ELSE "uncaught")
       ELSE IF printer \in Undrawable THEN Return("PRECONDITION_FAILED")
       ELSE Goto(IF way = "ssh" THEN "connect" ELSE "validate")
    /\ Still /\ Untouched /\ UNCHANGED <<way, scope, passed, key, exposed, active>>

Connect ==
    /\ pc = "connect"
    /\ \/ Goto("validate")
       \/ \E r \in {"DEPLOYMENT_FAILED", "PRECONDITION_FAILED"} : Return(r)
    /\ Still /\ Untouched /\ UNCHANGED runVars

Validate ==
    /\ pc = "validate"
    /\ IF bytes \in Undrawable \cup Miswired THEN Return("PRECONDITION_FAILED") ELSE Goto("blockers")
    /\ Still /\ Untouched /\ UNCHANGED runVars

\* Mutant: a file that does not exist has no missing section, and a refused
\* one may be deployed when the operator says so.
PreflightAsks(check, bad, next) ==
    /\ pc = check
    /\ \/ Goto(next)
       \/ printer \in bad \cup {Absent} /\ Return("PRECONDITION_FAILED")
    /\ passed' = IF printer = Absent THEN passed
                 ELSE [passed EXCEPT ![check] = @ \cup ({printer} \ bad)]
    /\ Still /\ Untouched /\ UNCHANGED <<way, scope, bytes, key, exposed, held, active>>

\* Each check of _preflight_check reads the file of the path again.
Preflight(check, bad, next) ==
    /\ pc = check
    /\ IF printer \in bad THEN Return("PRECONDITION_FAILED") ELSE Goto(next)
    /\ passed' = IF printer = Absent THEN passed
                 ELSE [passed EXCEPT ![check] = @ \cup ({printer} \ bad)]
    /\ Still /\ Untouched /\ UNCHANGED <<way, scope, bytes, key, exposed, held, active>>

Blockers == Preflight("blockers", Blocked \cup {Absent}, "sections")

\* A file that cannot be read is let through with a warning.
Sections == Preflight("sections", Incomplete, "pins")

\* Pins of another family are the operator's decision.
Pins ==
    \/ Preflight("pins", Foreign, "review")
    \/ Preflight("pins", {}, "review")

\* The review, the choice of the activation and the snapshot.
Review ==
    /\ pc = "review"
    /\ \/ Goto("publish")
       \/ \E r \in {"CANCELLED", "PRECONDITION_FAILED"} : Return(r)
    /\ Still /\ Untouched /\ UNCHANGED runVars

\* Mutant: an interruption is a cancellation, whatever was written before.
PublishCancelled ==
    /\ pc = "publish"
    /\ \/ dest' = bytes /\ Goto("activate")
       \/ dest' \in {bytes, Absent} /\ \E r \in {"CANCELLED", "DEPLOYMENT_FAILED"} : Return(r)
    /\ Still /\ UNCHANGED <<copied, seen, runVars>>

\* Mutant: the state of the transaction is returned as it is.
PublishUnmapped ==
    /\ pc = "publish"
    /\ \/ dest' = bytes /\ Goto("activate")
       \/ dest' \in {bytes, Absent} /\ Return("ROLLBACK_FAILED")
       \/ dest' = Absent /\ Return("CANCELLED")
    /\ Still /\ UNCHANGED <<copied, seen, runVars>>

\* _config_result_to_workflow: the files are published; or an attempt fails, with or without a change.
Publish ==
    /\ pc = "publish"
    /\ \/ dest' = bytes /\ Goto("activate")
       \/ dest' \in {bytes, Absent} /\ Return("DEPLOYMENT_FAILED")
       \/ dest' = Absent /\ Return("CANCELLED")
    /\ Still /\ UNCHANGED <<copied, seen, runVars>>

Activate ==
    /\ pc = "activate"
    /\ \/ active' = TRUE /\ Goto("verify")
       \/ UNCHANGED active /\ Return("DEPLOYED_PENDING_ACTIVATION")
       \/ active' \in BOOLEAN /\ Return("DEPLOYMENT_FAILED")
    /\ Still /\ Untouched /\ UNCHANGED <<way, scope, bytes, passed, key, exposed, held>>

\* Mutant: a Moonraker that does not answer proves nothing wrong.
VerifyOptional ==
    /\ pc = "verify"
    /\ seen' = built
    /\ \/ Return("SUCCESS")
       \/ world.checkpoint /\ ~built /\ Return("FIRMWARE_FAILED")
    /\ Still /\ UNCHANGED <<dest, copied, runVars>>

\* _verify_running_firmware_checkpoint inside the transaction.
Verify ==
    /\ pc = "verify"
    /\ seen' = built
    /\ \/ (world.checkpoint => built) /\ Return("SUCCESS")
       \/ world.checkpoint /\ Return("FIRMWARE_FAILED")
       \/ Return("DEPLOYMENT_FAILED")
    /\ Still /\ UNCHANGED <<dest, copied, runVars>>

-----------------------------------------------------------------------------
(* deploy_usb, deploy_local and _copy_artifacts.                           *)

\* A path of another operating system is asked for again.
AskPath ==
    /\ pc = "path"
    /\ \/ Goto("export")
       \/ Return("CANCELLED")
       \/ Return(IF way = "usb" THEN "PRECONDITION_FAILED" ELSE "DEPLOYMENT_FAILED")
    /\ Still /\ Untouched /\ UNCHANGED runVars

\* Mutant: the firmware is copied although its configuration was not.
ExportGoesOn ==
    /\ pc = "export"
    /\ bytes' = printer
    /\ \/ printer \in Generation \ (Undrawable \cup Miswired) /\ dest' = printer
       \/ dest' = Absent
    /\ IF scope = "all" THEN Goto("firmware")
       ELSE Return(IF dest' = Absent THEN "DEPLOYMENT_FAILED" ELSE "SUCCESS")
    /\ Still /\ UNCHANGED <<copied, seen, way, scope, passed, key, exposed, held, active>>

\* The export is a transaction of its own, without a live preflight; a
\* declined review counts as a failure.
Export ==
    /\ pc = "export"
    /\ bytes' = printer
    /\ \/ /\ printer \in Generation \ (Undrawable \cup Miswired)
          /\ dest' = printer
          /\ IF scope = "all" THEN Goto("firmware") ELSE Return("SUCCESS")
       \/ dest' \in {printer, Absent} /\ Return("DEPLOYMENT_FAILED")
    /\ Still /\ UNCHANGED <<copied, seen, way, scope, passed, key, exposed, held, active>>

Firmware ==
    /\ pc = "firmware"
    /\ \/ copied' = TRUE /\ Return("SUCCESS")
       \/ copied' \in BOOLEAN /\ Return("DEPLOYMENT_FAILED")
    /\ Still /\ UNCHANGED <<dest, seen, runVars>>

Run ==
    \/ Choose \/ AskHost \/ AskKey \/ Check \/ Fallback \/ Open \/ Read
    \/ Connect \/ Validate \/ Blockers \/ Sections \/ Pins \/ Review \/ Publish
    \/ Activate \/ Verify \/ AskPath \/ Export \/ Firmware

-----------------------------------------------------------------------------
(* The others.                                                             *)

Regenerate ==
    /\ made < MaxGenerations
    /\ made' = made + 1
    /\ printer' \in (Generation \cup {Absent}) \ {printer}
    /\ UNCHANGED <<world, pc, runVars, dest, copied, built, seen, outcome>>

Flash ==
    /\ built' = ~built
    /\ pc # "done"
    /\ UNCHANGED <<world, pc, runVars, printer, dest, copied, seen, outcome, made>>

Next == Run \/ Regenerate \/ Flash

Spec == Init /\ [][Next]_vars

-----------------------------------------------------------------------------
(* Properties.                                                             *)

\* What is published to a printer has passed the checks that cannot be
\* overridden ("Run structural + pin validation before any upload").
UploadedIsChecked ==
    (way \in {"ssh", "moonraker"} /\ dest # Absent) =>
        dest \in passed["blockers"] \cap passed["sections"]

\* Success over SSH or Moonraker means: the configuration that was read is at
\* the destination, Klipper was restarted with it, and the board ran the build
\* of the checkpoint when it was asked.
SuccessIsActive ==
    (outcome = "SUCCESS" /\ way \in {"ssh", "moonraker"}) =>
        dest = bytes /\ active /\ (world.checkpoint => seen)

\* A run that reports a cancellation or a missing precondition has published
\* nothing, by whatever way it went.
RefusedIsUntouched ==
    outcome \in {"CANCELLED", "PRECONDITION_FAILED"} => dest = Absent /\ ~copied

\* "An 'all' export is a combined handoff": no firmware on the medium without
\* the configuration that belongs to it, however the run ended.
FirmwareHasConfiguration == copied => dest # Absent /\ dest = bytes

\* No secret outlives its use: a typed password is out of user_data when the
\* front end returns, also by an early return, and no key goes over plain HTTP.
SecretsAreDropped == ~exposed /\ (outcome # Absent => ~held)
=============================================================================
