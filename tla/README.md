# KACE in TLA+

KACE prepares, flashes and publishes a Klipper configuration from a command
line on the printer's host. Most of its code asks questions and renders text.
What makes it hard is the rest: it changes files that other programs and other
KACE processes change too, it restarts services whose answers may be stale, it
has to survive Ctrl+C, a failing disk and a killed process at any point, and
afterwards it has to say truthfully what it left behind. This project models
that part.

## Inventory

| Part | State | Operations | Shared with |
|---|---|---|---|
| Publication transaction (`core/config_transaction.py`) | live files, plan, snapshot, possible-write record, activation, result | preflight, review, snapshot, publish, verify, activate, diagnose the rollback | other transactions (locks), editors (no lock), Klipper, Moonraker |
| File locks (`core/workspace.py`) | an flock per path, an in-process mutex per destination | poll until a deadline, release at exit | every publishing process |
| Workflow checkpoint and CLI (`core/firmware_workflow.py`, `kace.py`) | one durable checkpoint with a revision, the copy each process holds, the generated `printer.cfg` | create, transition, publish with compare-and-swap, discard, resume, flash, verify, generate, deploy | other CLI processes, the MCU, the user who flashes |
| Deployment front end (`core/deployer.py`) | none of its own | menus, preflight, transports, exports, result mapping | both of the above, other generators |
| MCU presence monitor (`core/mcu_monitor.py`) | latched events, ambiguous candidate, mismatch | udev callback, wait, confirm | a callback thread and a waiting thread |
| Physical deployment (`core/moonraker_deployer.py`) | state of one deployment, restored checkpoint, relay | power cycle, identify, verify firmware, publish, activate, roll back | Moonraker, the relay, the board |
| SD-card executor (`firmware/boards/executor.py`) | prepared medium, armed monitor, gate | prepare, wait, re-enumerate, verify | the user, the MCU |
| Contract catalogue and evidence (`firmware/boards/`) | contracts, cache, proofs, plan | resolve, review, build, prepare, plan, deliver, promote | maintainers, other programs on the disk |
| Contract builds (`firmware/boards/kconfig.py`) | source cache, checkout, evidence files | validate, rebuild, fetch, compile, retry, prove | other builds |
| Legacy builds (`firmware/builder.py`) | one checkout, its `.config`, `out/` | lock, build, re-validate | other builds, whoever edits there |
| Delivery (`firmware/deployment/`) | plan, staged copy | stage, encode, flash by USB, copy to a medium | other programs, the operator |
| SSH trust and session (`core/known_hosts.py`, `core/deployer.py`) | known hosts file, an SFTP channel | accept, merge, connect, time out | other processes, servers |
| Power control (`core/power_controller.py`) | none; reads the relay | command, confirm, re-read | other Moonraker clients |
| Installer (`install.sh`) | staged, backed-up and published paths | rename, roll back on a trap | signals, an earlier runtime |
| Host bootstrap (`scripts/bootstrap.sh`) | saved power configuration | begin, roll back, commit | Moonraker |
| Wizard (`core/wizard/`) | history, snapshots, answers; the editor's copies; the pin map | next, back, retry, leave | none (sequential) |
| Values (`core/profile_values.py`) | provenance and receipts in the answers | claim, confirm, invalidate, resolve | the wizard, the generator |
| Geometry (`core/motion_model.py`, `core/bed_mesh.py`, `core/leveling.py`) | none | check, derive mesh, homing, macros | generator, summary |
| Managed configuration (`core/managed_config.py`) | `printer.cfg`, the hardware file | plan, carry tuning, review losses | the owner, `SAVE_CONFIG` |
| Generation, displays, electrical review, HTTP client, terminal | none, or text | pure functions and rendering | none |

`PROJECT.json` lists every component with its sources and status, and every
hazard with the line where it bites and the property that covers it.

How the parts interact. The CLI resumes or creates the checkpoint, has the
firmware built and flashed (by a strategy, by the SD-card executor, or by the
user), waits for the MCU with the presence monitor, generates `printer.cfg`,
and hands it to the deployment front end. That opens a transport and runs the
publication transaction, directly or inside the physical deployment state
machine. The result becomes the checkpoint's next state and the exit code.

What correctness means, part by part:

- *Transaction*: cooperating runs are serialized from the first read to the
  result; overwritten bytes are recoverable at every instant; a root file never
  precedes its includes; Klipper is restarted only onto a verified plan; a
  result never hides a write; a commit means Klipper runs the plan; every wait
  ends.
- *Checkpoint*: no writer overwrites a newer revision; the evidence of a flash
  belongs to the firmware that is deployed; a completed workflow has run its
  firmware; an unfinished workflow is replaced only on request.
- *Monitor and verification*: what is reported present is the board that was
  expected, and it was away before.
- *Physical deployment*: no file before the new firmware was seen, and no exit
  that hides a write.
- *SD-card executor*: the power is cycled only with the planned bytes on the
  medium that was confirmed; a proof speaks of a board that ran them.
- *Evidence and delivery*: each link from contract to board is about the one
  before, whatever changes on the disk in between.
- *Builders, cache and trust store*: a result is published under the inputs it
  was made from; concurrent merges and rebuilds lose nothing.
- *Installer*: a signal at any point leaves the whole old runtime or the whole
  new one, or something that the command refuses to start.
- *Wizard and values*: what was answered on a path that was left leaves no
  trace; a value belongs to the circuit, primary or profile it was given for.
- *Geometry*: nothing generated leaves the bed, the travel or the probe's reach.
- *Managed configuration*: what the owner or a calibration gave survives every
  deployment, or its loss is shown.

## Modules

### ConfigTransaction

One action is one step of `ConfigDeploymentTransaction.run()` between two
accesses to shared state. The correspondence:

| State | Code |
|---|---|
| `live` | the files under the config root |
| `holding`, `fileLock` | the destination `threading.Lock` and `.kace-deploy.lock` |
| `pc`, `todo`, `target` | where `run` / `_run_locked` / `_rollback` are, and their loops |
| `baseline`, `snapshot`, `written` | the reviewed bytes, the durable snapshot under the transaction id, `_written_names` |
| `activation`, `samples`, `cause` | activation mode, consecutive Ready samples, the exception on its way |
| `outcome`, `rollback` | `ConfigTransactionResult` |
| `klipper`, `loaded`, `stale` | Klipper as Moonraker reports it, the configuration it has read, who may still hear the old report |
| `author`, `displaced`, `raced`, `touched` | history for the properties; no action reads them |

Positions follow the code: `idle` → `file` → `preflight` → `review` →
`revalidate` → `snapshot` → `recheck` → (`publish` → `compare` → `replace`)\* →
`verify` → (`moonraker`) → `restart` → `waitready` → `firmware` → `reverify` →
`active` → `done`; an exception leads through `record` (an upload) to `failed`,
Ctrl+C to `interrupted`, and both to the rollback `diagnose` → … → `rverify`.

Contents are opaque bytes: the plan of a run is the set of files it manages
and the bytes it wants in them. Every read of a file is a step of its own, and
so are the comparison before a replacement and the replacement, because an
editor knows no lock. The replacement is one action and the exception that
follows a replacement that took effect is another: an upload may fail *after*
it changed the file. `Reported` is external: it says what Moonraker may answer.
Its assumption is that after a restart each poller sees at most one sample of
the old instance; two samples are what the code insists on
(`config_transaction.py:1007`).

The remote Moonraker transport is a member of `Transport` only to state that no
write is ever conditional over it: every plan with a change is refused.

### ConfigTransactionProofs

The theorems about this module, see *Proofs*.

### Checkpoint and CheckpointLineage

`Checkpoint` is the data of `core/firmware_workflow.py`: the ten states, the
table `_TRANSITIONS`, and what `create_checkpoint`, `transition_checkpoint` and
`verify_reappeared_mcu` return. A checkpoint keeps what a transition or a gate
looks at: id, state, sequence, the build it names, the evidence of a flash, the
verified serial and the `mcu_path` among the saved answers. Two simplifications
are deliberate. The code compares revisions by the SHA-256 of the stored bytes;
here that is equality of records. The code stores the *time* at which the flash
was verified; here `evidence` is the build the checkpoint named at that time,
so that a property can say whether the evidence is about the present build.

`CheckpointLineage` is what the file promises to everybody who reads it,
without processes, locks or comparisons: one history of revisions. A workflow
grows by one legal transition at a time; a new one may only take the place of
nothing, of a finished workflow, or of a revision that somebody looked at and
refused; an unfinished workflow disappears only when it is discarded.

### FirmwareWorkflow

The command line (`kace.py`) as several processes that share the checkpoint,
the generated `~/kace/printer.cfg` and the MCU.

| State | Code |
|---|---|
| `store` | `firmware_checkpoint.json` |
| `printer` | the `[mcu]` serial in the generated `printer.cfg` |
| `firmware` | what runs on the MCU (external) |
| `pc` | where `main()` and the functions it calls are |
| `mem` | the `checkpoint` variable, which is also the revision to compare |
| `initial` | the revision captured at the start of `main()` |
| `path`, `output`, `reviewed` | `user_data["mcu_path"]`, the artifact just compiled, the geometry review passed |
| `runs`, `created` | bounded counters of runs and workflow ids |
| `built`, `refused`, `ran` | history: builds made, revisions refused by a load, firmware that ran since `DEPLOYING` was last stored |

The positions in which a process rests are its questions (`menu`, `wizard`,
`review`, `create`, `wait`, `choose`); the others are work between two
questions. Every call of `transition_checkpoint` in the program is followed by
`_persist_workflow`, so a transition and its publication are one action,
`Publish`; everything slow (building, flashing, asking, generating, deploying)
lies *between* the actions and so can be interleaved with any other process,
with the user who flashes the MCU and with the removal of the generated file.
A publication that fails, because another process was faster or because the
disk or the lock failed, ends its process. A run ends in `done`, a result of
the exit-code contract, or in `uncaught`, a Python exception nobody handles.
`Interrupt` is Ctrl+C where the code leaves it uncaught; elsewhere Ctrl+C is a
cancellation or, between two steps, what `Crash` does.

Approximations. The serial under which the MCU comes back is any name: the
identity check itself belongs to the presence monitor. `DeploySucceeds` stands
for the whole publication transaction including the firmware check inside it;
its failures are `DeployFails`. The bytes that are deployed belong to
`ConfigTransaction`. The board, the answers of the wizard and the rendered text
are left out.

`FirmwareWorkflowProofs` holds the theorems.

### The board and its port: McuIdentity, McuVerification, McuMonitor, BoardWatch

`McuIdentity` is the evidence of `core/mcu_monitor.py`: an identity is what
udev reports of a tty, a path is a pair of the connection and the interface
behind it, and `Assess` gives the score and its verdict. Two modules use it.

`McuVerification` is `verify_reappeared_mcu`: the device that is taken after a
flash by hand, among everything that is plugged in.

`McuMonitor` is `McuPresenceMonitor` with its two threads. A device is what udev
reports of it and the by-id link it appears under; `DeviceAssumption` says that a
port is reported for each device, and that what appears under the board's link is
the board, in its own port.

| State | Code |
|---|---|
| `plugged`, `events`, `source` | the devices, udev's undelivered events, the udev process (external) |
| `callback`, `seen` | where the udev thread is in `_on_event`, and with what |
| `latch` | which of the four `threading.Event`s are set |
| `ambiguousIdentity`, `ambiguousAssessment`, `reconnected`, `lastAssessment`, `manual` | the attributes both threads use without a lock |
| `pc`, `assessment`, `candidate`, `expired` | the waiting thread in `arm`, `wait_for_absent` and `wait_for_present` |
| `emptied`, `back` | history |

Every assignment of either thread is an action. `BoardWatch` is the promise
without threads, events and latches: one answer, and a board only after its
place was empty and only by evidence or the operator's word. `KeepsWatch` is
the refinement. Presence is latched, as in the code: a board that leaves again
is still reported, and the properties do not claim otherwise. `ReturnIsLatched`
speaks of a board that comes back as the expected application in its own port. A
board that was moved to another port before the wait subscribed leaves no event
behind, and the check after the subscription (`mcu_monitor.py:464`) looks only at
its by-id link, which follows the board: no absence is latched, and the wait
ends by its deadline. `DeviceAssumption` leaves that case out.

In `McuVerification` a device that is in its place may be confirmed by hand; it
was then the only one that could be meant. A device that shows another
application than the expected one is not meant, not even with the serial of the
original: a board in its bootloader elsewhere does not stand in the way.

### PhysicalDeployment

`deploy_firmware_installation` and `Deployer.run` in one: the gates, the
delivery, power-off and power-on through the relay or by hand, the wait for the
board, the version reported by Klipper, the files one by one, the activation,
and the handlers with their rollback. `phase` tells which use of a shared wait
(`waitready`, `samples`) is under way; `handler` and `failure` are the exception
on its way. A file is `old`, `new` or `edit`; the firmware is `old` or `new`.
An editor saves any of the three, so an edit may be undone before anybody looks;
`touched` records which files others saved since they were compared with the
plan, and no action reads it.
Klipper (`klipper`) may report Ready and the old version until it has been
restarted; the board, the relay, the editor and the operator act at any time.

### SdCardExecutor

The executor for board contracts (`recipe`: whether the medium must be removable
and whether the verification is left to later): the menu, the copy with its three
identifications of the medium, the gate, the power cycle, the wait for a fresh
Klipper report and the proof. Partitions are records of what `lsblk` reports;
those of the system disk are always there, and `NodeAssumption` says what they
have in common. Any cards may be attached at the start. `away` records what was
taken out between the last identification and the rereading. Cards are exchanged between any two steps, the operator answers what they like.
A failing write of the proof file ends the run as "unrecorded". Klipper may
report Ready from before the cycle, so VERIFIED is claimed only in the form the
code can keep: the board has run the planned firmware since the run started.

### PowerControl, SshDeployment, InstallPublication

`PowerControl` is the validation of the power file, the command with its
confirmation and the fresh read, beside another client that switches the same
relay and a Moonraker that is late. `SshDeployment` is
the trust store and the bounded SFTP session of several processes; the thread
lock and the file lock are one variable because each guards the same block.
`InstallPublication` is `install.sh` from the first rename: the loop of backup
and placing, the wrapper, the traps and the rollback. A rollback that is cut
short or still under way may leave the old `.git` and pin beside new code, which
the old wrapper accepts; `RefusesMixture` exempts it, and
`docs/en/DEPLOYMENT.md:204` does not promise it. A kill leaves the backup where
it was, and no later run looks for it.

### Builds: SourceCache, ContractBuild, FirmwareBuild, FirmwareImages, TargetContract

`SourceCache` is the bare clone that all contract builds share, validated and
rebuilt under a lock but fetched from after it. `TargetContract` is what a
contract may request of Kconfig, whose choice semantics are external.
`ContractBuild` is one build with its retry without LTO and its evidence files.
`FirmwareImages` decodes UF2 and Intel HEX: the state is a file that grows by
an item, and the reference is the flash memory a programmer would leave. The
decoders' loops, which carry the base, and the bytes joined so far, are recursive
functions; the sort is the choice of an ascending order of the chunks. The
fingerprint is two adjacent bytes; the 32 MiB limit is `MaxSpan`; UF2 padding
and the wrap of HEX segments at 64 KiB are left out. `FirmwareBuild` is the
legacy builder in a checkout that others edit and compile in; `strays` counts,
per build, the edits by hand between its identification and the check that
repeats it.

### ContractEvidence and FirmwareDelivery

`ContractEvidence` is the chain from the contract files to the file for the
card. It shows what each link re-reads and what it takes from the one before,
with maintainers and other programs changing the files between any two steps.
The catalogue is loaded in one step. The interactive path always defers the
verification, so a VERIFIED proof comes from a delivery of its own; the refusal
in `Bundle` cannot be reached through the callers that exist.
`FirmwareDelivery` is `firmware/deployment`: profile, plan, staged copy, Robin
image and the two methods. Manifests, events and file names are left out, and a
medium is not changed by others during the copy.

### DeploymentFrontEnd

The menus, the preflight and the two exports of `core/deployer.py`. The
transaction appears as the results it can have, the SSH session as one that may
fail. Beside it another process generates, and the board is flashed; that what is
uploaded has been checked is stated for a run during which nobody generates
(`made = 0`). Power off and on in the menu are
single steps. The public `deploy_usb(..., "all")` is modelled although `kace.py`
asks for `"config"` only; a path that is typed again is a stutter. A missing
`printer.cfg` on the Moonraker way ends "uncaught", as the code does.

### The wizard: WizardSteps, Wizard, ZSocketAssignment, ProfileEditor

A step of `WizardSteps` is a function: `Outcomes(step, data)` is everything one
run of its prompt can do, with the data as the prompt leaves them, also when it
goes back or leaves half-way. `Wizard` is the runner over it: `history`,
`snapshots` and `completed` are its local variables, `answer` and `backFrom` are
history. A typed number is only its provenance here. `KACE_AUTO` is left out;
the step `custom_probe_offsets` lies on no route. `ZSocketAssignment` and
`ProfileEditor` are the two steps that are loops of their own; kinematics and
thermistors are edited the way a limit is. `ZSocketAssignment.Back` after typed
pins returns to the same question, as the code does.

### ValueProvenance and MotionSpace

`ValueProvenance` is `core/profile_values.py`: values, where they come from,
and receipts of what was confirmed for which circuit, primary or profile. One Z
axis stands for all, numbers are small, and the steps run in any order, which
includes resumed data. Microsteps and full steps follow the same rules as the
rotation distance. Legacy data without provenance, `KACE_AUTO`, virtual Z
endstops and the adaptation of sockets are left out; the board's value is the
example configuration as fetched.

`MotionSpace` is the geometry in hundredths of a millimetre: travel, bed, what
the probe reaches, and everything `generate_config` derives from them. `ties`
says which of two borders the last bit of a float rounds up: a tie in the code's
`:.1f` depends on the binary fraction, so both outcomes are allowed. Levelling
points are claimed only where the probe reaches at least 10.1 mm of the axis;
below that the two margins of 10 mm cross and the points fall off the bed,
although `core/leveling.py` calls them on-bed. A custom probe behaves like the
inductive one with its offsets. After normalisation the shift of
`PrinterMotionSpace` for a bed beyond the travel is dead in `generate_config`,
but alive in the summary (`Aligned`). Round beds, numeric ranges of single
options and screw positions typed by hand are left out.

### ManagedConfig

`core/managed_config.py` over the life of a configuration: planned anew by
KACE, edited by its owner, and written to by Klipper's `SAVE_CONFIG`.

| State | Code |
|---|---|
| `files.base`, `files.block` | `printer.cfg` outside and inside the KACE markers |
| `files.hardware`, `files.saved` | `kace/generated-hardware.cfg`, the autosave text |
| `files.layout` | no file, `root-v1`, or the include layout |
| `last`, `wanted`, `blocked` | history: what was deployed last, what the owner or a calibration gave last, a refused save |

One option stands for each kind: a control mode and its PID values, a probe
offset, preserved tuning, a pin, an option the owner added to a generated
section, and one in a section of theirs. `SaveConfig` is external: Klipper
comments saved options out of `printer.cfg` and refuses when an included file
sets one. Left out: macros, includes of the owner, the legacy header, the
reconciliation of `moonraker.conf`, and line endings.

### The parts and the MC modules

`PrinterParts`, `FirmwareParts`, `HostParts` and `WizardParts` hold the components
of the printer, of the firmware, of the host and of the wizard side by side, each
with its own variables and with constants that are left open, and state what each
of them promises. `PrinterProofs`, `FirmwareProofs`, `HostProofs` and
`WizardProofs` prove those promises for every value of the constants; `MCPrinter`,
`MCFirmware`, `MCHost` and `MCWizard` give the constants values and explore one
component at a time.

The components are checked in groups that share a run; `part` (or `scenario`)
is chosen at the beginning and says which component a behaviour is about, and
the others stay in one fixed initial state. The parts never interact in such a
run: grouping saves runs, it does not compose. Composition is inside the
modules: `FirmwareWorkflow` composes several command lines with one checkpoint,
`ConfigTransaction` several runs with Klipper and editors, `PhysicalDeployment`
the deployment with board, relay and Klipper, `McuMonitor` two threads, and
`ProfileEditor` the editor with the value resolution.

## Runs

| Run | Module | Instance | Question |
|---|---|---|---|
| `transaction` | `MCConfigTransaction` | one run with 3 files, 2 edits and every fault but a failing proposal; two local runs; a local and an SFTP run | what is lost, what is reported, what a restart, a recovery and a commit may claim |
| `workflow` | `MCFirmwareWorkflow` | one command line resumed up to three times, with two builds; two at a time with crashes; an MCU that changes its name | one history of legal revisions, evidence about its own build, the meaning of `COMPLETE` |
| `printer` | `MCPrinter` | parts `physical`, `port`, `neighbour`, `verification`, `media`, `cycle` | files only after the new firmware, the right board, the right medium, what VERIFIED and "active" mean |
| `firmware` | `MCFirmware` | parts `delivery`, `build`, `evidence`, `images`, `targets`, `menu` | the firmware that is delivered is the one that was approved, built as declared and proved; the menu reports the truth |
| `wizard` | `MCWizard` | parts `wizard`, `circuits`, `motors`, `limits`, `editor`, `sockets`, `motion` | answers, values and pins after any way through the questions; the geometry that is generated |
| `host` | `MCHost` | parts `cache`, `build`, `power`, `ssh`, `install`, `settings` | what shared files of the host look like after others, signals and failures; that requests return |
| `progress` | `MCProgress` | parts `transaction`, `workflow`, `wizard` | liveness of what waits for locks, services and the operator |
| `waits` | `MCProgress` | parts `wait`, `deployment`, `card` | liveness of what waits for hardware |
| `unlocked_rollback` | `MCConfigTransaction` | two local runs, Ctrl+C | finding (violation) |
| `lost_serial` | `MCFirmwareWorkflow` | 1 process, 2 runs, 2 serial names, crash | finding (violation) |
| `unreported_timeout` | `MCPrinter` | one physical deployment, errors of the kind TimeoutError | finding (violation) |
| `raised_travel` | `MCWizard` | the profile editor | finding (violation) |

The properties of the grouping modules are conjunctions of the components' own,
named as in their modules. Those of `printer`, `firmware` and `host` are stated
in `PrinterParts`, `FirmwareParts` and `HostParts` (those of the physical
deployment in its own module, `EveryRequestReturns` in `MCHost`):

| Run | Property | Consists of |
|---|---|---|
| `printer` | `FilesFollowFirmware` | `PhysicalDeployment`: `TypeOK`, `FirmwareBeforeFiles`, `WrittenIsDiagnosed` |
| | `ActiveAsReported` | `PhysicalDeployment`: `DoneIsActive`, `RecoveryIsActive` |
| | `PresenceIsWatched` | `McuMonitor`: `TypeOK`, `RemovalIsLatched`, `ReturnIsLatched`, and `KeepsWatch`, the refinement of `BoardWatch` |
| | `ChosenIsTheBoard` | `McuVerification`: `AutomaticIsProven`, `ConfirmedWasAlone` |
| | `MediumIsPrepared` | `SdCardExecutor`: `TypeOK`, `GateIsPrepared`, `SystemDiskUntouched` |
| | `VerifiedHasRun` | `SdCardExecutor`: `VerifiedHasRun` |
| `firmware` | `DeliveredAsApproved` | `FirmwareDelivery`: `TypeOK`, `DeliveredIsApproved`, `DeliveredFits`, `MenuIsPlannable`, `LeavesNothingBehind` |
| | `ProofIsTrue` | `ContractBuild`: `ProofDescribesArtifact`, `ProofIsLast` |
| | `ContractIsFollowed`, `DeliveredIsBuilt` | `ContractEvidence`: `NoFallback`, `ReviewedIsDelivered`, `NewNameEveryBuild`, `PromotionIsEarned`; `DeliveredIsBuilt` |
| | `ImageIsSearched` | `FirmwareImages`: `TypeOK`, `PayloadIsFlash`, `FingerprintIsNotMissed` |
| | `BuiltAsDeclared` | `TargetContract`: `BuiltAsDeclared` |
| | `PublicationIsHonest` | `DeploymentFrontEnd`: `TypeOK`, `SuccessIsActive`, `RefusedIsUntouched`, `FirmwareHasConfiguration`, `SecretsAreDropped`; `UploadedIsChecked` if nobody generates meanwhile |
| `wizard` | `WizardIsCoherent` | `Wizard`: `TypeOK`, `AnswersAreOnThePath`, `ResultIsCoherent`, `CopiesFollowThePath`, `CompletedPhasesAreBehind` |
| | `ValuesAreCurrent` | `ValueProvenance`: `TypeOK`, `CurrentBelongsToCircuit`, `ReviewedBesideThisPrimary`, `DefaultMovesWithPrimary`, `SourceIsNotHidden`, `AutomaticHomesToEndstop` |
| | `EditsAreWhole` | `ProfileEditor`: `SavedIsGenerated`, `OnlyWholeEdits` |
| | `SocketsAreTrue` | `ZSocketAssignment`: `TypeOK`, `OneMotorPerSocket`, `AssignmentIsTrue`, `ChipFollowsPins` |
| | `GeometryIsReachable` | `MotionSpace`: `PositionsAreReachable`, `MeshIsWide`, `ChoicesAreAccepted`, `SummaryIsGenerated` |
| `host` | `BuildsAreTrue` | `SourceCache`: `FetchFindsCache`, `PublishedIsValid`, `FailureKeepsCache`; `FirmwareBuild`: `IdentityDescribesFile` |
| | `RelayIsReported` | `PowerControl`: `SwitchedOnlyAsConfigured`, `ReportIsCurrent` |
| | `TrustIsKept` | `SshDeployment`: `TrustIsAccepted`, `ConnectionIsStored`, `TrustOnlyGrows` |
| | `RuntimeIsWhole` | `InstallPublication`: `NothingIsLost`, `EndsWhole`, `RefusesMixture` |
| | `SettingsSurvive` | `ManagedConfig`: `UserValuesSurvive`, `LossIsWarned`, `SavingIsPossible`, `DeploymentSettles`, `ModeIsInForce` |
| | `EveryRequestReturns` | liveness: `BuildEnds`, `BuildReturns`, `RequestAnswers`, `SessionEnds` |
| `progress` | `TransactionEnds` | liveness: `ReachesReview`, `ConfirmedReturns` |
| | `VerificationAnswers`, `AnsweringFinishes` | liveness of `FirmwareWorkflow` and of `Wizard` |
| `waits` | `HardwareWaitsEnd` | liveness: `WaitEnds`, `RunEnds`, `ConfirmedEnds` |

Sizes, in distinct states: `transaction` 2.6 million, `workflow` 2.6 million
(after symmetry), `printer` 1.7 million, `firmware` 1.7 million, `wizard` 507
thousand, `host` 161 thousand, `waits` 185 thousand, `progress` 77 thousand.
Each run ends in one to two minutes on two cores; the bounds are chosen for that,
and the theorems cover what they leave out.

All runs may have been started and every component comes to an end or to a
question that nobody answers, so the system may stop; the configurations switch
the deadlock check off. What must not stop is stated as liveness.

Bounds of `ConfigTransaction`. `MaxEdits` bounds the editor and foreign
restarts together: two are enough to change a file and change it back, or to
edit and restart. Two runs are enough for every property that relates runs,
because each of them names two; a third run only adds another holder of the
same lock. One run alone meets every fault; two meet Ctrl+C and crashes, and an
upload that fails is met beside an editor. Three files cover the three roles the code distinguishes:
`printer.cfg` (last), an include, and `moonraker.conf` (reconciled only if
observed, restarts Moonraker). The bytes are what the properties tell apart: the
original, each run's own, the editor's.

Bounds of `FirmwareWorkflow`. `MaxRuns` is the number of times any process is
started; three allow a run to be overtaken by a second and resumed by a third.
`MaxWorkflows` bounds the ids given out; two are enough for one workflow to
replace another and for a stale writer of the first to meet the second.
`MaxSequence` only stops the loop of failed verifications, the one way for a
single run to advance a workflow without end. Two builds distinguish current
evidence from old evidence. Builds and processes are interchangeable, so
`workflow` uses symmetry. Where only one process acts, or only one build exists,
the other one keeps its initial state, so that no two different reachable states
of such a scenario are permutations of each other. Where two processes share a
checkpoint, only builds are flashed (`BuildsOnly`); files of other origin are
flashed in the scenarios with one process. Runs with liveness use no symmetry.

Bounds at the printer. The editor saves twice: enough to change a file and to
undo it. The monitor has two undelivered events at a time in one port, enough for
"gone and back" and "foreign and own" to overtake the subscription, and one when
it watches two boards side by side. The verification has
eleven devices, one for each way evidence can be missing or contradict, and the
board in its bootloader in another port. The SD card is exchanged up to four times
with two other moves of the operator (`media`): three exchanges reach each of the
three identifications, four reach a medium that is taken out and put back around
the last of them. The power is cycled with one exchange and five moves (`cycle`):
power off, eject, insert, power on and one too early.

Bounds of the firmware and of the host. Two changes by others reach both the
build's file and its copy. Files of the images have few items because an error
needs two that overlap or one that follows a base record. Two builds, two SSH
sessions and two hosts are the least that can collide; one of the hosts is known
to the system. One damage and two failing commands reach a rebuild whose
rename and whose repair both fail. Installing moves four paths: the repository,
the pin file, and two more. One edit or one foreign compilation is enough to
change the inputs under a build; the placeholder compiler of the development
container meets neither, for nothing that it makes can be flashed. The keys that
a server starts with and the two processes that meet it are interchangeable, so
one arrangement of each is explored. Settings are edited once and saved twice
between any number of deployments of eight choices: an edit, a calibration of
the heater and one of the probe, in any order.

Bounds of the wizard. Two boards differ in everything the routes look at. Three
boards and four profiles state, omit or contradict values. `Explored` lets each
part vary one group of them: `circuits` the drivers and both currents, without
mechanics; `motors` the mechanics of both motors, with one current and one
driver model; `limits` the bed, travel, endstop and direction of one motor
without a driver; `editor` the two profiles `small` and `directed`, with one
endstop to type. All promises of the values are checked in every part, and the
theorems mix the groups. `MotionSpace` has ten horizontal
axes, five vertical ones and six given meshes, each chosen for a border: a bed
as large as its travel or beyond it, travel below zero, three and seven points,
a bed of twelve millimetres, and a probe that reaches six millimetres or
nothing.

Bounds of the liveness runs. `progress` and `waits` have the same parts with
smaller bounds, since the liveness check is slower: one event of the monitor, one
exchange of the card, workflows of four publications that flash one build.

Fairness. In `ConfigTransaction`, `FairSpec` assumes that the scheduler runs a
run that can take a step of its own (`Work`), and that the deadline of a
polling loop comes (`ReadyFails`). Every loop of `_wait_ready` compares with
`time.monotonic()` and the lock is polled for 30 seconds, which is what the code
guarantees. Nothing is assumed of the operator, the editor, Klipper, Moonraker
or the faults. So `ReachesReview` ends at the review, where the operator
decides. In `FirmwareWorkflow`, `FairSpec` is weak fairness of `Work(p)`, the
steps a process takes between two questions. `VerificationAnswers` rests only on
the publications, whose lock is polled for 30 seconds, and on the inspection of
the connected devices, which is finite; that a build or a flash ends is taken
for granted and no property needs it.

`McuMonitor` and `PhysicalDeployment` have weak fairness of the code and strong
fairness of `Expire`: a deadline is compared once per poll, so it may be
disabled between polls but is missed at most finitely often. Moonraker, udev,
the board and the hands at the printer are not fair. `SdCardExecutor` has weak
fairness of its own steps, which include the poll limits. `PowerControl`,
`SourceCache`, `FirmwareBuild` and `SshDeployment` have weak fairness of each
process and of the timer (`Timer`, `Late`); servers and other clients are not
fair. `AnsweringFinishes` assumes an operator who answers what is asked and
eventually stops going back and repeating: a wizard can promise no more. In
`MCProgress` and `MCHost` fairness is stated once for disjunctions of the parts'
actions; only one part is active in a behaviour, so it is the fairness of that
part.

## Proofs

`ConfigTransactionProofs` proves for all values of the constants that satisfy
`ConfigAssumption`, that is for any number of runs, processes and files and any
mix of transports and faults:

- `TypeCorrect`: `Spec => []TypeOK`;
- `SerializedAlways`: `Spec => []Serialized`;
- `RecoverableAlways`: `Spec => []Recoverable`;
- `IncludesBeforeRootAlways`: `Spec => []IncludesBeforeRoot`.

The three safety properties are not inductive. `IInv` adds, per run, what makes
them so:

- `CauseInv`: only a run that has left the lock by an exception carries Ctrl+C
  as its cause, so the exemption in `Serialized` cannot be entered from inside;
- `LockInv`: the holder named by the lock is the run that is inside;
- `EarlyInv`: a run without a snapshot has displaced nothing;
- `PlanInv`: a plan that is carried out was conditional on its transport;
- `SnapshotInv`: from the snapshot on, what is still to be replaced is saved
  with the reviewed bytes;
- `OrderInv`: what has left the publication loop has been replaced, and
  `printer.cfg` is chosen only when it alone is left;
- `WindowInv`: between the comparison and the replacement the target holds the
  compared bytes, unless the editor raced, or the file is absent and the
  creation itself compares again.

`WindowInv` is where the transports differ: a local run is protected by
`LockInv` (another local run cannot publish inside its window), an SFTP run by
`PlanInv` (it only creates absent files). Each conjunct is proved preserved
with one step per action; steps that do not publish are collected in
`QuietSteps`, with effect lemmas for the operators they share.

On top of `IInv` stands `FullInv`, what a run knows and says:

- `VerifiedInv`: a file that a run has verified, or put back, holds those bytes
  or has been written by somebody else since;
- `WaitInv`, `AnswerInv`: between a restart and the sample that ends the wait,
  a Ready that is not stale comes from a Klipper that loaded the files after
  they were verified;
- `RestoredInv`: what the rollback has passed holds its snapshot or has another
  author;
- `WrittenInv`, `ResultInv`: a run that carries a success or a harmless failure
  has written nothing it does not record.

From it follow, again for all values of the constants:

- `AttemptedWriteReportedAlways`, if `proposal` is not among the faults (with it
  the property is false, see *Findings*);
- `RestartIsVerifiedAlways`, `CommitIsActiveAlways`, `RecoveryIsProvenAlways`,
  the three action properties about what a restart, a commit and a recovery rest
  on.

Only the two liveness properties of this module remain model-checked.

`FirmwareWorkflowProofs` proves, for any number of processes, builds, serials,
runs and workflows and any faults:

- `TypeCorrect`: `Spec => []TypeOK`;
- `EvidenceAlways`: `Spec => []EvidenceIsCurrent`;
- `LineageImplemented`: `Spec => FollowsLineage`, the refinement of
  `CheckpointLineage` under `entry <- store`;
- `CompleteAlways`: `Spec => CompleteHasRun`.

All four follow from one invariant, `IInv`: what holds of the shared state
(`SharedInv`), and of each process (`LocalInv`):

- `PositionInv`: in which states of its checkpoint a process can be where it
  is. This is what makes every transition of the program one that the table
  allows, and it is nowhere written down in the code;
- `CopyInv`: whatever a process remembers of the file, its copy and the
  revision it captured at the start, is the stored revision or past. Past
  (`Past`) means that its workflow has been replaced, discarded or has gone on;
  it never becomes present again, so a comparison that succeeds can only succeed
  for the present revision (there is no ABA);
- `ReplaceInv`: a process about to create a workflow has captured nothing, a
  finished workflow, a revision that was refused, or the past. Together with
  `CopyInv` this is why a new workflow cannot overwrite an unfinished one;
- `RanInv`: while its own `DEPLOYING` is the stored revision, nobody has started
  the history `ran` again, so what a process observed on the MCU is still in it
  when it stores `COMPLETE`.

The proof that a step preserves `IInv` separates what a step does to its own
process from what it does to the others. `Step(p)` says that only the memory of
`p` changed, that `p` is well afterwards, and that the file made a step of the
lineage; `OthersStay` shows once that this disturbs nobody else
(`RememberedStays` is its core), and one lemma per action or group of actions
shows `Step(p)`. `NextPreserves` therefore yields the refinement with the
invariant. `CompleteStep` adds that only `RecordComplete` stores `COMPLETE`.

The proofs use `CheckpointAssumption`, `NoCheckpointAssumption` and
`WorkflowAssumption`, which say that the special values are not ordinary ones
and that the bounds are numbers. `IInv` was checked with TLC on the instances
of `workflow` before it was proved. Only
model-checked: `VerificationAnswers`, which needs fairness.

`PhysicalDeploymentProofs` proves for any files, faults and bounds:

- `FilesFollowFirmwareAlways`: `"timeout" \notin Faults => (Spec =>
  []FilesFollowFirmware)`. With the fault the third part, `WrittenIsDiagnosed`,
  is false (`unreported_timeout`); `FirmwareBeforeFilesAlways` states the other
  two parts for all faults;
- `ActiveAsReportedAlways`: `Spec => ActiveAsReported`, for all faults.

The invariant says where a run can be in which use of the shared waits
(`PlaceInv`), that the board runs the new firmware from the comparison of the
versions on (`FirmwareInv`: nobody flashes it back, and Klipper cannot report
what it does not run), and what a Ready means after the restart that was asked
for (`ActiveInv`), in a recovery after the one that follows the restored files
(`RecoveryInv`). That the attempted files are finite is part of it, because the
rollback takes them one by one.

`PrinterProofs` proves about the components of `PrinterParts`:

- `PresenceIsWatchedAlways`, under `DeviceAssumption`: the two threads of the
  monitor implement `BoardWatch`, and neither a removal nor a return is missed.
  `MonitorInv` relates the latches to what has been delivered, what waits to be
  delivered (`Pending`) and what the callback holds: an empty place is latched
  or its removal is pending, a returned board is latched, held or pending, and
  everything that can be returned has been proven or shown to the operator;
- `MediumIsPreparedAlways` and `VerifiedHasRunAlways`, under `NodeAssumption`
  (every partition is mounted somewhere, the system disk is attached, and two
  attached nodes share neither device nor mount points):
  `CardInv` carries the bytes from the comparison to the gate, the operator's
  exchanges apart, and says that neither the mount point nor the device of the
  selection can lead to the system disk, whatever is exchanged;
- `ChosenIsTheBoardAlways`, with no assumption, for any devices.

`HostProofs` proves about the components of `HostParts`, for any number of
processes, hosts, keys, paths and bounds:

- `TrustIsKeptAlways` under `SystemAssumption` (what the system trusts are pairs
  of a host and a key): what a process carries towards the store contains the
  store, while nobody else can change it (`CarriedInv`);
- `RuntimeIsWholeAlways` under `InstallAssumption` (two paths at least: the
  repository and the pin; two versions that differ): each path is untouched,
  moved or placed, in the order of the loop (`ForwardInv`), and a rollback can
  put back what it has not reached (`RollbackInv`);
- `RelayIsReportedAlways`: no assumption;
- `CacheIsSoundAlways` under `CacheAssumption`: a cache that was there is there
  or with the process that moved it aside (`KeptInv`); without damage or failing
  commands a valid cache is not rebuilt, so a fetch finds it (`FoundInv`);
- `BuildsAreTrueAlways`, which adds `BuildAssumption`: the identity that is
  published names the inputs of the file if there was at most one stray edit,
  because one alone is still there when the inputs are checked again
  (`ApprovedInv`, `CopiedInv`);
- `SettingsSurviveAlways` under `SettingsAssumption` (the first `printer.cfg` has
  nothing generated, Klipper's autosave text has only what Klipper saves, and a
  saved control mode is PID): a plan treats every option by itself, so the proof
  computes what is carried, kept and in force for each of the seven kinds
  (`CarriedAt`, `PlanKeeps`). `WellPlaced` says where an option can be: what Klipper
  saves is never in the hardware file, which is why it can always save. From
  `PlanAgain`, that to plan twice is to plan once, follows that a deployment
  settles.

`WizardProofs` proves about the runner and the components of `WizardParts`:

- `EngineStaysOnItsPath` and `WizardIsCoherentAlways` under `BoardsAssumption`
  (the kinds of drivers and probes are the catalogue's) and for a wizard entered
  at the board, the default of `start_step`, which nothing but a test overrides
  (`wizard/__init__.py:458`). `Rank` orders the questions, and every route of the
  catalogue leads to a later one. `EntryInv` says per question what the user data
  hold when it is asked: which driver still has no mode, which motors are settled,
  whose the values are and how much of the probe is there. Each step of the
  catalogue, entered so, leaves the next question what it expects and writes
  nothing but its own parts (`StepsFollow`, one lemma per step). `GoodPath` carries
  this through the runner: the history ascends to the current question, and every
  copy satisfies the `EntryInv` of its step and holds no answer but those of the
  steps before it, so Back and a repeat restore user data that were reached on this
  path;
- `SocketsAreTrueAlways` under `SocketAssumption` (special values are not
  sockets), for any motors and sockets. `QuestionInv` says that the motors before
  the question have pins and the others none of a socket, and that `assigned`,
  which Back does not reset, may be stale only where a motor has no pins;
  `SocketInv` that a socket is on offer or moves one motor;
- `ValuesAreCurrentAlways` under `ProvenanceAssumption` (sources state numbers,
  the drivers are the modelled ones), for any boards, profiles and answers, all
  groups of values mixed. `OwnerInv`: what is marked as the operator's was set
  since the profile was loaded. `ReviewInv`: a review carries the primary that was
  shown. `ReceiptInv`: the receipt of a typed current describes user data, perhaps
  past, in whose circumstances it was typed; `ContextTells` derives from equal
  contexts that the circumstances are those of today. Equal contexts do not say
  that mechanics which were still open when the current was typed are open
  today: `SameCircumstances` excepts them;
- `EditsAreWholeAlways` and `EditedValuesAreCurrent`, under the same assumption:
  in the editor's runs a key that the operator has set, in the user data or in the
  copies, is marked as his and the screen shows its value (`IsShown`), so saving
  commits what will be generated;
- `GeometryIsReachableAlways` under `GeometryAssumption` (answers are numbers or
  missing, the source's point counts are natural numbers, and a refusal is not a
  configuration), for any axes, rails, meshes and kinds of probe. `GeometryInv`
  says that what was generated and what the summary shows are what the answers
  decide (`Outcome`, `Summary`), so the promises are facts about one choice of
  answers. Their arithmetic is done once per axis: rounding moves a border by half
  a tenth at most (`TenthsNear`), a margin is 0, 2 or 10 mm and leaves 7 mm of
  eleven (`MarginIs`), a mesh that `Usable` accepts lies in what the probe reaches
  (`UsableIs`), and on a legal axis the bed is where the summary looks for it
  (`AlignedIs`).

`FirmwareProofs` proves about the components of `FirmwareParts`:

- `DeliveredAsApprovedAlways`, for any profiles, boards and bounds. `PlanInv`
  carries the profile that was resolved through every wait, `TouchedInv` says
  that before the last step of a method nothing is touched, and afterwards only
  under a plan that was resolved for this board; `OneProfile` derives from the
  checks of `load_profiles` that a method names at most one profile;
- `ContractIsFollowedAlways` and `DeliveredIsBuiltAlways` under
  `DocumentAssumption` (a contract has one target per variant, which
  `from_mapping` enforces) and, for the file names, `NamingAssumption` (where the
  bootloader ignores a known name, the file is named after the build; this holds
  of the contracts that are shipped and is not enforced by `from_mapping`).
  `LinkInv` says that what was reviewed, built and planned is what the decision
  names; because an accepted catalogue has no identity twice, names select one
  target (`OneSelected`), so the three are the same. `ResultInv` carries a
  verified deployment into the request that stands on it;
- `ProofIsTrueAlways`: no assumption. `BuildInv` holds the audit log equal to the
  flags of the objects in the tree from the end of an attempt on, which is what
  the cleaning between the attempts is for;
- `BuiltAsDeclaredAlways` under `SymbolAssumption` (machines, interfaces and
  start addresses are different symbols): the exact choice between interfaces and
  between starts leaves no second one on;
- `PublicationIsHonestAlways` under `FrontEndAssumption`. `MenuInv` says at which
  positions the destination may have been touched and by which way a run came
  there; `CheckedInv` keeps the file of the path equal to the bytes as long as
  nobody generates;
- `ImageIsSearchedAlways` under `AddressAssumption` (addresses are natural
  numbers), for files of any number of items, at any addresses. `TypeOK` of the
  file is all that is inductive; the rest is about the decoders. The library's
  induction theorems cannot be cited, so `SetInduction` derives induction over the
  numbers, for a set, from the least element of what the set lacks, `Recursion`
  that a recursive function exists, and `SortExists` that finitely many chunks can
  be put in order. `BaseIsUpper` identifies the base that the loop carries with
  the last base record before an item. `LaysOut` is the invariant of the joining
  loop: the chunks so far are disjoint, each at its place, and every other byte is
  a filled gap, of which Intel HEX has none; `OneMoreChunk` and `JoinLaysOut` keep
  it for every chunk that is not refused. Then every address has one writer
  (`LaidOutIsRead`, `FlashIs`), so the order in which a programmer writes them
  does not matter.

The assumptions say that special values are not ordinary ones and that bounds
are numbers, except where the list above says more. Each inductive invariant was
checked with TLC, on the instance of the component's run, before it was proved.

Model-checked only: the five liveness properties (`EveryRequestReturns`,
`TransactionEnds`, `VerificationAnswers`, `AnsweringFinishes`,
`HardwareWaitsEnd`), because liveness under fairness is out of the prover's reach.

## Findings

`unlocked_rollback` (property `RollbackIsSerialized`): Ctrl+C leaves the `with` block of the file lock before the
handler in `run` diagnoses the rollback, restarts Klipper and verifies it. The
comment at `config_transaction.py:390` says that the lock is held through the
rollback. `Serialized` is stated, and proved, with this exemption.

`lost_serial` (property `RegeneratedIsAccepted`): the MCU comes back under another name. The revision
`MCU_VERIFIED` stores the new name, but the saved answers in it keep the old
one; the correction of `user_data` is in memory only (`kace.py:365`). If the
process ends there, every resumed run generates with the old serial and rejects
its own file at the gate. `docs/en/DEPLOYMENT.md:217` promises the regeneration
from the verified checkpoint.

`unreported_timeout` (property `WrittenIsDiagnosed`): the handler of `TimeoutError` in `Deployer.run`
(`moonraker_deployer.py:797`) returns `TIMEOUT` without looking whether a file
was written. An input or output error of that kind after the first upload skips
the diagnosis that every other error leads to, against
`docs/en/DEPLOYMENT.md:42`.

`raised_travel` (property `SavedBedFits`): a bed enlarged in the profile editor raises the travel in the
copies without marking it as the operator's. The generator takes the profile's
own travel and refuses the bed that the editor validated and saved
(`wizard/steps/motion.py:606` calls the raise a "safe adjustment").

More divergences the models state, as properties that TLC violates and no run
keeps:

| Property | Module | What the code does |
|---|---|---|
| `AttemptedWriteReported` with the fault `proposal` | `ConfigTransaction` | an `OSError` of the proposal snapshot, likely when a full disk made the publication fail, leaves `run` as `PRECONDITION_FAILED` although files were published |
| `EndsTyped` | `FirmwareWorkflow` | the resume menu offers the recompilation in `DEPLOYING`, which the table refuses; `main()` does not catch it (`kace.py:417`). A second Ctrl+C inside the error handler ends the same way |
| `GenerationIsCurrent` | `FirmwareWorkflow` | the shared `printer.cfg` is replaced before the revision is compared (`kace.py:785`) |
| `DoneIsActive`, `RecoveryIsActive` without `touched` | `PhysicalDeployment` | the files are compared before the restart and again at the end, and Klipper reads them in between: an edit that is undone again may be what it has loaded |
| `GateIsPrepared` without `away` | `SdCardExecutor` | the rereading trusts the mount path: a card that is taken out after the last identification and replaced by one with the planned bytes is read in its place |
| `ReturnIsLatched` for a board in another port | `McuMonitor` | the check after the subscription follows the by-id link (`mcu_monitor.py:464`); a board that was moved before is never absent, and the wait ends by its deadline |
| `MissingSerialIsConfirmed` | `McuVerification` | a captured serial number that is gone is accepted without a confirmation when the port and the application agree |
| `EvidenceIsReturned`, `MismatchIsRaised` | `McuMonitor` | the two threads share evidence without a lock: the returned identity may be another one than the assessed, and a mismatch that is latched during the last round is lost |
| `IdentityDescribesFile` without `strays`, `PublishedIsMarked` | `FirmwareBuild` | an edit that is undone before the inputs are checked again, and a compilation by hand between the fingerprint check and the copy, go unnoticed |
| `QuitLeaves`, `BackLeadsToAnEarlierQuestion` | `Wizard` | the fan question takes Quit for an answer; Back after some automatic steps returns to the question it was chosen at |
| `UploadedIsChecked` with a second generator | `DeploymentFrontEnd` | the bytes are read before the preflight, which reads the file of the path again |
| `OverrideIsKept` | `ManagedConfig` | an option the owner added to a generated section moves to the hardware file with the first deployment; a later value in `printer.cfg` loses against it, with a warning, although `managed_config.py:469` says that root values keep their precedence |

`ManagedConfig` shows two more in the `root-v1` layout, for which its properties
are stated accordingly. A saved PID calibration silently overrides a newly
selected `watermark` control (`ModeIsInForce` is about the include layout, where
the plan is refused), although `docs/en/DEPLOYMENT.md:122` requires an explicit
resolution. And a section that is no longer generated stays behind the block
without a warning, for instance `[bltouch]` beside a new `[probe]`.

## Plan

Done: the publication transaction and the workflow with their proofs; the
monitor, the physical deployment and the card; the builds, the evidence and the
delivery; the front end and the trust store; the wizard, its values and its
geometry; the installer; the relay; the settings.

Proved besides: everything the passing runs check, liveness apart.

Left, in this order:

1. An abstract publication (`nothing`, `published`, `recovered`, `unknown`)
   that `ConfigTransaction` implements, and `KaceInstall`: the command line over
   it, for properties that relate the checkpoint to the live files.
2. The owner's includes and `moonraker.conf` in `ManagedConfig`; displays as a
   relation between pins and boards.

## Not modelled, and why

Text: the rendering of configurations, catalogues of boards and displays,
translations and menus are tables and pure functions over long texts; the
modules above take their outcomes as inputs. About two thirds of the program is
of this kind (`core/translations`, `core/generator.py`, the parsers, the
prompts). The electrical review is a rule table without state. Package
installation, service set-up (`scripts/bootstrap.sh`) and the HTTP client are
input and output; what a caller observes of them is an answer, an error or
silence. The bootstrap's transaction over the saved power file is built like the
installer's and smaller. The firmware configuration wizard drives external tools
by prompts. `restore_snapshot` is called by no automatic recovery. The content of a host's
file system below one rename or one fsync is taken as the operating system
documents it.
