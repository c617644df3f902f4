---- MODULE ZSocketAssignment ----
\* Which driver socket moves which additional Z motor: the question loop of
\* _step_z_socket_assignment, which edits the board's parsed sections in place,
\* and _apply_z_tmc_mappings, which moves the TMC sections after it
\* (src/core/wizard/steps/hardware.py).
EXTENDS Naturals

CONSTANTS Sockets,    \* spare sockets of the board, active or commented (get_reusable_driver_sockets)
          WithTmc,    \* those with a TMC section for the selected model
          ZMotors,    \* number of Z motors: motor n is stepper_z<n-1>
          Present,    \* additional motors the board's own sections already describe
          DriverMode, \* "UART", "SPI" or "Standalone"
          None, Custom, Own

Motors == 2..ZMotors

SocketAssumption ==
    /\ WithTmc \subseteq Sockets /\ Present \subseteq Motors
    /\ DriverMode \in {"UART", "SPI", "Standalone"}
    /\ {None, Custom, Own} \cap Sockets = {}
    /\ None # Custom /\ None # Own /\ Custom # Own
    /\ ZMotors \in Nat \ {0}

VARIABLES zIdx,      \* the motor asked about
          pins,      \* whose pins each motor's section has: a socket's, typed ones, its own
          available, \* sockets still offered
          assigned,  \* assigned_drivers
          tmc,       \* the TMC section of each motor, named like its pins
          status     \* "asking", "assigned", "done", "back" (to the runner) or "left"
vars == <<zIdx, pins, available, assigned, tmc, status>>

TypeOK ==
    /\ zIdx \in 2..ZMotors + 1
    /\ pins \in [Motors -> Sockets \cup {None, Custom, Own}]
    /\ available \subseteq Sockets
    /\ assigned \in [Motors -> Sockets \cup {None, Custom}]
    /\ tmc \in [Motors -> Sockets \cup {None, Custom, Own}]
    /\ status \in {"asking", "assigned", "done", "back", "left"}

Init ==
    /\ zIdx = 2
    /\ pins = [m \in Motors |-> IF m \in Present THEN Own ELSE None]
    /\ available = Sockets
    /\ assigned = [m \in Motors |-> None]
    /\ tmc = [m \in Motors |-> None]
    /\ status = "asking"

Asking == status = "asking" /\ zIdx <= ZMotors /\ pins[zIdx] = None

\* A motor with a section is never asked about.
Skip ==
    /\ status = "asking" /\ zIdx <= ZMotors /\ pins[zIdx] # None
    /\ zIdx' = zIdx + 1
    /\ UNCHANGED <<pins, available, assigned, tmc, status>>

\* Mutant: the chosen socket stays on offer.
OfferAgain(s) ==
    /\ Asking /\ s \in available
    /\ pins' = [pins EXCEPT ![zIdx] = s]
    /\ assigned' = [assigned EXCEPT ![zIdx] = s]
    /\ zIdx' = zIdx + 1
    /\ UNCHANGED <<available, tmc, status>>
\* The socket's section loses its pins to the motor.
ChooseSocket(s) ==
    /\ Asking /\ s \in available
    /\ pins' = [pins EXCEPT ![zIdx] = s]
    /\ available' = available \ {s}
    /\ assigned' = [assigned EXCEPT ![zIdx] = s]
    /\ zIdx' = zIdx + 1
    /\ UNCHANGED <<tmc, status>>

\* Mutant: typed pins are stored without being recorded.
TypeUnrecorded ==
    /\ Asking
    /\ pins' = [pins EXCEPT ![zIdx] = Custom]
    /\ zIdx' = zIdx + 1
    /\ UNCHANGED <<available, assigned, tmc, status>>
\* Mutant: the index is advanced twice.
AdvanceTwice ==
    /\ Asking
    /\ pins' = [pins EXCEPT ![zIdx] = Custom]
    /\ assigned' = [assigned EXCEPT ![zIdx] = Custom]
    /\ zIdx' = zIdx + 2
    /\ UNCHANGED <<available, tmc, status>>
TypePins ==
    /\ Asking
    /\ pins' = [pins EXCEPT ![zIdx] = Custom]
    /\ assigned' = [assigned EXCEPT ![zIdx] = Custom]
    /\ zIdx' = zIdx + 1
    /\ UNCHANGED <<available, tmc, status>>

\* Quit, Ctrl+C, or an empty pin; "Back" in a pin question leaves the step.
Leave == Asking /\ status' \in {"left", "back"} /\ UNCHANGED <<zIdx, pins, available, assigned, tmc>>

\* Mutant: the socket is offered again while the motor keeps its pins.
BackKeepsPins ==
    /\ Asking /\ zIdx > 2
    /\ zIdx' = zIdx - 1
    /\ available' = available \cup ({assigned[zIdx - 1]} \cap Sockets)
    /\ UNCHANGED <<pins, assigned, tmc, status>>
\* "Back" in the menu takes a socket back from the motor before; typed pins and
\* pins of the board's own stay, and that motor is then skipped again.
Back ==
    /\ Asking /\ zIdx > 2
    /\ zIdx' = zIdx - 1
    /\ IF assigned[zIdx - 1] \in Sockets
       THEN /\ available' = available \cup {assigned[zIdx - 1]}
            /\ pins' = [pins EXCEPT ![zIdx - 1] = None]
       ELSE UNCHANGED <<available, pins>>
    /\ UNCHANGED <<assigned, tmc, status>>

Finish ==
    /\ status = "asking" /\ zIdx > ZMotors
    /\ status' = "assigned"
    /\ UNCHANGED <<zIdx, pins, available, assigned, tmc>>

\* The TMC sections follow: a socket's section moves to its motor; for typed pins
\* the chip's pin is typed too; a socket without one ends the generation.
Unmapped == {m \in Motors : assigned[m] \in Sockets \ WithTmc}
\* Mutant: every motor gets the section of the motor's own name.
MapOwn ==
    /\ status = "assigned" /\ status' = "done"
    /\ tmc' = [m \in Motors |-> IF assigned[m] = None THEN None ELSE Own]
    /\ UNCHANGED <<zIdx, pins, available, assigned>>
MapTmc ==
    /\ status = "assigned"
    /\ IF DriverMode = "Standalone" \/ Unmapped = {}
       THEN status' \in {"done"} \cup (IF \E m \in Motors : assigned[m] = Custom THEN {"back", "left"} ELSE {})
       ELSE status' = "left"
    /\ tmc' = IF status' # "done" \/ DriverMode = "Standalone" THEN tmc
              ELSE [m \in Motors |-> assigned[m]]
    /\ UNCHANGED <<zIdx, pins, available, assigned>>

Next == \/ Skip \/ TypePins \/ Leave \/ Back \/ Finish \/ MapTmc
        \/ \E s \in Sockets : ChooseSocket(s)

Spec == Init /\ [][Next]_vars

----
\* Through every way back and forth, two motors never share a socket's pins, and
\* every spare socket is either on offer or moves exactly one motor.
OneMotorPerSocket ==
    /\ \A s \in available, m \in Motors : pins[m] # s
    /\ \A s \in Sockets \ available : \E m \in Motors : \A n \in Motors : pins[n] = s <=> n = m

\* When the questions end, every motor has pins, and the assignment reported to
\* the later steps, also one chosen anew after going back, is where they are from.
AssignmentIsTrue ==
    status \in {"assigned", "done"} =>
        \A m \in Motors : pins[m] # None /\ (assigned[m] = pins[m] \/ (pins[m] = Own /\ assigned[m] = None))

\* A driver chip with a bus is configured for the socket whose pins the motor
\* has: never for another one, and never left out.
ChipFollowsPins ==
    (status = "done" /\ DriverMode # "Standalone") =>
        \A m \in Motors : pins[m] \in Sockets \cup {Custom} => tmc[m] = pins[m]

\* All of it: what the later steps, and the generated sections, rest on.
SocketsAreTrue == TypeOK /\ OneMotorPerSocket /\ AssignmentIsTrue /\ ChipFollowsPins
====
