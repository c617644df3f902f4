---------------------------- MODULE PrinterParts ----------------------------
(***************************************************************************)
(* What happens between KACE and the printer: beside the physical          *)
(* deployment stand the SD-card executor, the presence monitor and the     *)
(* verification of the MCU, each with its own variables, and this module   *)
(* says what each of them promises.                                        *)
(***************************************************************************)
EXTENDS PhysicalDeployment

CONSTANTS
    None, Bootloader,                               \* McuIdentity
    Device, Board, Expected, Refused, MaxReports,   \* McuMonitor
    SerialDevice, Baseline, Contract, Bridge,              \* McuVerification
    Node, Inserted, Filesystems, Recipes, Before,   \* SdCardExecutor
    MaxSwaps, MaxMoves

VARIABLES
    plugged, events, source, callback, seen, latch, ambiguousIdentity,
    ambiguousAssessment, reconnected, lastAssessment, manual, waitPc,
    assessment, candidate, expired, outcome, waitReturned, emptied, back,
    host, unmounted, content, written, away, printer, staged, recipe, usb, powered,
    running, ran, daemon, reports, monitor, sdPc, state, picked, selected, buffer,
    observed, proof, swaps, moves,
    baseline, present, confirms, chosen

Monitor == INSTANCE McuMonitor WITH
    MaxMoves <- MaxReports, pc <- waitPc, returned <- waitReturned
Verification == INSTANCE McuVerification WITH Device <- SerialDevice
Card == INSTANCE SdCardExecutor WITH
    part <- written, attached <- usb, klipper <- daemon, pc <- sdPc

theMonitor ==
    <<plugged, events, source, callback, seen, latch, ambiguousIdentity,
      ambiguousAssessment, reconnected, lastAssessment, manual, waitPc, assessment,
      candidate, expired, outcome, waitReturned, emptied, back>>
theExecutor ==
    <<host, unmounted, content, written, away, printer, staged, recipe, usb, powered,
      running, ran, daemon, reports, monitor, sdPc, state, picked, selected, buffer,
      observed, proof, swaps, moves>>
theVerification == <<baseline, present, confirms, chosen>>

-----------------------------------------------------------------------------
\* The monitor implements BoardWatch: a wait returns what is proven or
\* confirmed, and only after the place of the board was empty.  A removal and
\* a return are noticed whether they come before, during or after the
\* subscription, whatever else is plugged in and out around them (McuMonitor).
PresenceIsWatched == Monitor!PresenceIsWatched
\* After a flash by hand nothing is accepted without the operator unless it is
\* in the original's place, runs the expected application and shows no other
\* serial; and what the operator confirms was the only device that could be
\* meant (McuVerification).
ChosenIsTheBoard == Verification!AutomaticIsProven /\ Verification!ConfirmedWasAlone
\* The operator is asked to cycle the power only when the medium that was
\* identified last holds the planned bytes, unless it was taken out since, and
\* no byte goes to a partition of the host's own disk, not even when a card
\* carries the same partition id (SdCardExecutor).
MediumIsPrepared == Card!MediumIsPrepared
\* A proof that says VERIFIED speaks of a board that has run the planned
\* firmware since the deployment started (SdCardExecutor).
VerifiedHasRun == Card!VerifiedHasRun
=============================================================================
