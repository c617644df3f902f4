---------------------------- MODULE FirmwareParts ----------------------------
(***************************************************************************)
(* How firmware comes to be and leaves KACE: beside the delivery stand the *)
(* board's contract and the evidence about it, what it asks of Kconfig,    *)
(* the build with its proof, and the front end that publishes a            *)
(* configuration with the firmware.  Each has its own variables, and this  *)
(* module says what each of them promises.                                 *)
(***************************************************************************)
EXTENDS FirmwareDelivery

CONSTANTS
    None,
    Symbol, Requested, Asserted,                            \* ContractBuild
    Document, Alias, Processor, MaxEdits, MaxBuilds,        \* ContractEvidence
    arch, model, otherModel, low, usb, uart1, uart3,        \* TargetContract
    bridge, start7, start8,
    Generation, Absent, Undrawable, Miswired, Withheld,     \* DeploymentFrontEnd
    Incomplete, Foreign, MaxGenerations,
    Start, End, Blank, Address, Base, MaxBlocks, MaxRecords, MaxSpan    \* FirmwareImages

VARIABLES
    declared, resolved, injected, noLto, attempts, objects, log, compiled,
    evidence, buildProof, buildPc,
    directory, cache, decision, reviewed, chainProof, native, temporary,
    prepared, chainPlan, proofs, flashes, requests, builds, edits, chainPc,
    contract, config, contractPc,
    world, menuPc, way, scope, printer, bytes, passed, dest, copied, built, seen,
    active, key, exposed, held, outcome, made,
    format, items

Compilation == INSTANCE ContractBuild WITH
    native <- compiled, proof <- buildProof, pc <- buildPc
Chain == INSTANCE ContractEvidence WITH
    Mcu <- Processor, proof <- chainProof, plan <- chainPlan, pc <- chainPc
Target == INSTANCE TargetContract WITH target <- contract, pc <- contractPc
Menu == INSTANCE DeploymentFrontEnd WITH Blocked <- Withheld, pc <- menuPc
Image == INSTANCE FirmwareImages

theBuild == <<declared, resolved, injected, noLto, attempts, objects, log,
              compiled, evidence, buildProof, buildPc>>
theChain ==
    <<directory, cache, decision, reviewed, chainProof, native, temporary, prepared,
      chainPlan, proofs, flashes, requests, builds, edits, chainPc>>
theTarget == <<contract, config, contractPc>>
theMenu ==
    <<world, menuPc, way, scope, printer, bytes, passed, dest, copied, built, seen,
      active, key, exposed, held, outcome, made>>
theImage == <<format, items>>

-----------------------------------------------------------------------------
\* What reaches the board or the medium is what the operator approved, for
\* this processor and flash start, by a method the menu could plan; a delivery
\* that fails leaves nothing half-written (FirmwareDelivery).
DeliveredAsApproved ==
    /\ TypeOK /\ DeliveredIsApproved /\ DeliveredFits
    /\ MenuIsPlannable /\ LeavesNothingBehind
\* A build proof is never without the files it names and is about the artifact
\* beside it: the requested and asserted values survived, and the flags it
\* names are those of the objects in it (ContractBuild).
ProofIsTrue == Compilation!ProofDescribesArtifact /\ Compilation!ProofIsLast
\* A board that some contract supports is never left to the legacy builder; what
\* is planned was built from the contract the operator reviewed; a bootloader
\* that ignores a known file name never meets one twice; a promotion stands on
\* a verified delivery of that target (ContractEvidence).
ContractIsFollowed ==
    /\ Chain!NoFallback /\ Chain!ReviewedIsDelivered
    /\ Chain!NewNameEveryBuild /\ Chain!PromotionIsEarned
\* The board receives the bytes of the build that the plan stands for
\* (ContractEvidence).
DeliveredIsBuilt == Chain!DeliveredIsBuilt
\* The payload decoded from an accepted image is the flash memory, byte for byte
\* at its place, and a fingerprint in it is found (FirmwareImages).
ImageIsSearched == Image!TypeOK /\ Image!PayloadIsFlash /\ Image!FingerprintIsNotMissed
\* The firmware that is compiled is for the declared processor, interface and
\* flash start (TargetContract).
BuiltAsDeclared == Target!BuiltAsDeclared
\* Success means that the configuration that was read is at its destination and
\* loaded, with the board on the build of the checkpoint; a refusal published
\* nothing; no firmware is exported without its configuration; no secret
\* outlives the dialogue; and unless another process generates meanwhile, what
\* is uploaded has been checked (DeploymentFrontEnd).
PublicationIsHonest ==
    /\ Menu!TypeOK /\ Menu!SuccessIsActive /\ Menu!RefusedIsUntouched
    /\ Menu!FirmwareHasConfiguration /\ Menu!SecretsAreDropped
    /\ made = 0 => Menu!UploadedIsChecked
=============================================================================
