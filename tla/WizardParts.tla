----------------------------- MODULE WizardParts -----------------------------
(***************************************************************************)
(* The steps of the wizard that are components of their own, with open     *)
(* constants, and what each of them promises.                              *)
(***************************************************************************)
EXTENDS Naturals

CONSTANTS
    None, Custom, Own,
    Circuit, Printer, Scratch, BoardModel, BoardSays, ProfileSays,   \* ValueProvenance
    Models, Currents, Distances, Travels, Endstops, MotorCounts,
    Spare, WithTmc, ZMotors, Present, DriverMode,                    \* ZSocketAssignment
    Axes, Rails, Meshes, Kinds, Refused                              \* MotionSpace

VARIABLES
    user, typed, viewed, edited, screen, shown, draft, before,
    zIdx, pins, available, assigned, tmc, asking,
    x, y, z, kind, mesh, ties, made, summary

\* The editor works on the values.
Values == INSTANCE ProfileEditor WITH
    Boards <- Circuit, Profiles <- Printer, NoProfile <- Scratch, Drivers <- Models
Sockets == INSTANCE ZSocketAssignment WITH Sockets <- Spare, status <- asking
Space == INSTANCE MotionSpace WITH shown <- summary

theValues == <<user, typed, viewed, edited>>
theScreen == <<screen, shown, draft, before>>
theSockets == <<zIdx, pins, available, assigned, tmc, asking>>
theSpace == <<x, y, z, kind, mesh, ties, made, summary>>

-----------------------------------------------------------------------------
\* A generated current belongs to the selected circuit; a reviewed second Z
\* motor is generated only beside the primary it was reviewed with, and a
\* default never twists the gantry; what a profile or board states is generated
\* unless the operator has set it since; an automatic homing direction leads to
\* the endstop (ValueProvenance).
ValuesAreCurrent ==
    /\ Values!TypeOK
    /\ Values!CurrentBelongsToCircuit /\ Values!SourceIsNotHidden
    /\ Values!ReviewedBesideThisPrimary /\ Values!DefaultMovesWithPrimary
    /\ Values!AutomaticHomesToEndstop
\* Unfinished edits never reach the user data, and what was typed in the editor
\* and saved is generated and shown (ProfileEditor).
EditsAreWhole == []Values!SavedIsGenerated /\ Values!OnlyWholeEdits
\* Two motors never share a socket's pins, the assignment that later steps read
\* is where the pins are from, and a driver chip is configured for the socket
\* whose pins the motor has (ZSocketAssignment).
SocketsAreTrue == Sockets!SocketsAreTrue
\* Every generated position is on the bed and within the travel, the mesh is not
\* shrunk, what KACE chooses itself is not refused, and the summary shows what was
\* generated (MotionSpace).
GeometryIsReachable ==
    /\ Space!PositionsAreReachable /\ Space!MeshIsWide
    /\ Space!ChoicesAreAccepted /\ Space!SummaryIsGenerated
=============================================================================
