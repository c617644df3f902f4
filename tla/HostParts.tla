------------------------------ MODULE HostParts ------------------------------
(***************************************************************************)
(* What the host and the services around KACE are used for: the shared     *)
(* source cache, the legacy build, the power relay, the SSH session with   *)
(* its trust store, the installer, and the settings that are deployed      *)
(* again and again.  The components stand side by side, each with its own  *)
(* variables, and this module says what each of them promises.             *)
(***************************************************************************)
EXTENDS Naturals

CONSTANTS
    Process,            \* builds and deployments that run on this host
    None, Absent, Refused, Elsewhere,
    MaxDamage, MaxFaults,                           \* SourceCache
    MaxEdits, MaxMakes,                             \* FirmwareBuild
    MaxEvents,                                      \* PowerControl
    Host, Key, System, MaxReinstalls, MaxCrashes,   \* SshDeployment
    Last, Old, New,                                 \* InstallPublication
    Choices, InitialFiles, UserValues, Saved,       \* ManagedConfig
    MaxChanges, MaxSaves

VARIABLES
    cache, renewed, quarantine, cacheLock, cachePc, checkout, had, damage, faults,
    buildLock, source, config, out, dest, buildPc, identity, retry, seen, built, mock,
    edits, makes, strays,
    powerFile, control, relay, api, powerPc, action, late, result, switched, events,
    exists, trust, trustLock, server, accepted, sshPc, host, client, temporary, channel,
    reinstalls, crashes,
    installed, backup, staging, wrapper, active, published, next, installPc, outcome, before,
    settings, deployed, wanted, blocked, changes, saves

Cache == INSTANCE SourceCache WITH temporary <- renewed, lock <- cacheLock, pc <- cachePc
Build == INSTANCE FirmwareBuild WITH lock <- buildLock, pc <- buildPc, result <- built
Power == INSTANCE PowerControl WITH file <- powerFile, pc <- powerPc
Ssh == INSTANCE SshDeployment WITH file <- trust, lock <- trustLock, pc <- sshPc
Install == INSTANCE InstallPublication WITH
    pc <- installPc, result <- outcome, had <- before
Settings == INSTANCE ManagedConfig WITH
    MaxEdits <- MaxChanges, files <- settings, last <- deployed, edits <- changes

theCache == <<cache, renewed, quarantine, cacheLock, cachePc, checkout, had, damage, faults>>
theBuild == <<buildLock, source, config, out, dest, buildPc, identity, retry, seen, built,
              mock, edits, makes, strays>>
thePower == <<powerFile, control, relay, api, powerPc, action, late, result, switched, events>>
theSsh == <<exists, trust, trustLock, server, accepted, sshPc, host, client, temporary,
            channel, reinstalls, crashes>>
theInstall == <<installed, backup, staging, wrapper, active, published, next, installPc,
                outcome, before>>
theSettings == <<settings, deployed, wanted, blocked, changes, saves>>

-----------------------------------------------------------------------------
\* A rebuild puts only a validated repository at the cache's path, or what it
\* had moved aside; one that fails leaves a cache where there was one; without
\* damage or failing commands no build finds its commit moved aside
\* (SourceCache); and a file that is called flashable was compiled from what its
\* identity names (FirmwareBuild).
BuildsAreTrue ==
    /\ [](Cache!FetchFindsCache /\ Build!IdentityDescribesFile)
    /\ Cache!PublishedIsValid /\ Cache!FailureKeepsCache
\* The relay is switched only under a configuration that enables it, and the
\* operator is shown the state that it is in at that moment (PowerControl).
RelayIsReported == Power!RelayIsReported
\* The trust store, with what the connections rest on (SshDeployment), and the
\* runtime of the kace command (InstallPublication).
TrustIsKept == Ssh!TrustIsKept
RuntimeIsWhole == Install!RuntimeIsWhole
\* What the owner and Klipper's calibrations give to a configuration stays in force
\* over its deployments, or its loss is shown; Klipper can always save; the same
\* deployment again changes nothing; and in the include layout the selected control
\* mode is in force (ManagedConfig).
SettingsSurvive ==
    [](Settings!UserValuesSurvive /\ Settings!SavingIsPossible
       /\ Settings!DeploymentSettles /\ Settings!ModeIsInForce)
    /\ Settings!LossIsWarned
=============================================================================
