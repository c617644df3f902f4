---------------------------- MODULE McuMonitor ----------------------------
(***************************************************************************)
(* McuPresenceMonitor of core/mcu_monitor.py: the waiting thread that arms *)
(* it and waits, the udev thread that delivers events into its latches,    *)
(* and the operator who plugs and unplugs boards.                          *)
(*                                                                         *)
(* A device is an identity and the by-id link that names it; the           *)
(* configured path is the link of Board.  The two threads share plain      *)
(* attributes without a lock, so every assignment is a step.               *)
(***************************************************************************)
EXTENDS McuIdentity, Sequences

CONSTANTS
    Device,     \* what can be plugged in, one record per board, mode and port
    Board,      \* the device the deployment starts with
    Expected,   \* VID:PIDs of the application firmware
    Refused,    \* the answer of a wait that accepts no board
    MaxMoves    \* bound on the events that udev has not delivered yet

VARIABLES
    plugged,                \* devices that are attached
    events,                 \* udev events not yet delivered
    source,                 \* the udev process: "off", "on", "dead"
    callback,               \* position of the udev thread
    seen,                   \* the candidate the udev thread assesses
    latch,                  \* the threading.Events that are set
    ambiguousIdentity,      \* _ambiguous_identity
    ambiguousAssessment,    \* the candidate of _ambiguous_assessment
    reconnected,            \* reconnected
    lastAssessment,         \* the candidate of last_assessment
    manual,                 \* manual_confirmation_used
    pc,                     \* position of the waiting thread
    assessment, candidate,  \* its local variables
    expired,                \* the deadline has passed
    outcome,                \* how the wait ended
    returned,               \* the identity it returned
    emptied,                \* the place of Board was empty after its baseline
    back                    \* Board was plugged in again while it was missed

world == <<plugged, emptied, back>>
thread == <<callback, seen>>
shared == <<latch, ambiguousIdentity, ambiguousAssessment, reconnected,
            lastAssessment>>
waiter == <<pc, assessment, candidate, manual, outcome, returned>>
vars == <<world, events, source, thread, shared, waiter, expired>>

InSlot(d) == OccupiesSameSlot(Board.id, d.id)
SlotEmpty(devices) == \A d \in devices : ~InSlot(d)
Judge(id) == Assess(Board.id, id, Expected)

\* from_properties: an event carries no by-path aliases.
FromProperties(id) == [id EXCEPT !.byPath = {}]

\* What the two threads can get to see of a device.
Seen == UNION {{d.id, FromProperties(d.id)} : d \in Device}

\* udev names the port of every serial device, and the configured link follows
\* the board that the deployment starts with and no other.
DeviceAssumption ==
    /\ Board \in Device /\ None \notin Expected
    /\ \A d \in Device :
          /\ DOMAIN d.id = {"node", "idPath", "devPath", "byPath", "serial", "vidPid"}
          /\ PhysicalPort(d.id) # {}
    /\ \A d \in Device : d.link = Board.link => d = Board
    /\ None \notin Seen
    /\ None \notin {"present", "mismatch", "ambiguous", "cancelled", "timeout",
                    "unavailable"}
    /\ MaxMoves \in Nat

\* A port and a device node belong to one attached device at a time.
Apart(d, e) == ~OccupiesSameSlot(d.id, e.id) /\ d.id.node # e.id.node

\* read: the device behind a node, or behind the configured path, if any.
AtNode(node) == {d \in plugged : d.id.node = node}
AtConfiguredPath == {d \in plugged : d.link = Board.link}

Init ==
    /\ \E d \in Device : (d = Board \/ Apart(Board, d)) /\ plugged = {Board, d}
    /\ events = <<>> /\ source = "off" /\ callback = "idle" /\ seen = None
    /\ latch = {} /\ ambiguousIdentity = None /\ ambiguousAssessment = None
    /\ reconnected = None /\ lastAssessment = None /\ manual = FALSE
    /\ pc = "baseline" /\ assessment = None /\ candidate = None
    /\ expired = FALSE /\ outcome = None /\ returned = None
    /\ emptied = FALSE /\ back = FALSE

-----------------------------------------------------------------------------
(* The bench: udev reports what happens while its monitor is subscribed.   *)

Moves == Len(events) < MaxMoves /\ outcome = None

Report(action, d) ==
    events' = IF source = "on" THEN Append(events, <<action, d.id>>) ELSE events

Unplug(d) ==
    /\ Moves
    /\ d \in plugged
    /\ plugged' = plugged \ {d}
    /\ emptied' = (emptied \/ (pc # "baseline" /\ SlotEmpty(plugged')))
    /\ back' = (back /\ d # Board)
    /\ Report("remove", d)
    /\ UNCHANGED <<source, thread, shared, waiter, expired>>

Plug(d) ==
    /\ Moves
    /\ d \notin plugged
    /\ \A e \in plugged : Apart(e, d) /\ e.link # d.link
    /\ plugged' = plugged \cup {d}
    /\ back' = (back \/ (d = Board /\ "absent" \in latch))
    /\ Report("add", d)
    /\ UNCHANGED <<emptied, source, thread, shared, waiter, expired>>

\* The udevadm process ends by itself; nothing notices.
SourceDies ==
    /\ source = "on" /\ outcome = None
    /\ source' = "dead"
    /\ UNCHANGED <<world, events, thread, shared, waiter, expired>>

-----------------------------------------------------------------------------
(* The udev thread: _on_event.                                             *)

Deliver(action) ==
    /\ source # "off" /\ callback = "idle" /\ events # <<>>
    /\ Head(events)[1] = action
    /\ events' = Tail(events)

OnRemove ==
    /\ Deliver("remove")
    /\ latch' = IF OccupiesSameSlot(Board.id, FromProperties(Head(events)[2]))
                THEN latch \cup {"absent"} ELSE latch
    /\ UNCHANGED <<world, source, thread, ambiguousIdentity,
                   ambiguousAssessment, reconnected, lastAssessment, waiter,
                   expired>>

\* Mutant: the order of removal and addition is not looked at.
OnAddAnyOrder ==
    /\ Deliver("add")
    /\ callback' = "refresh"
    /\ seen' = FromProperties(Head(events)[2])
    /\ UNCHANGED <<world, source, shared, waiter, expired>>

\* Mutant: nothing is looked at after a foreign board was seen.
OnAddFirstOnly ==
    /\ Deliver("add")
    /\ IF "absent" \in latch /\ "mismatch" \notin latch
       THEN callback' = "refresh" /\ seen' = FromProperties(Head(events)[2])
       ELSE UNCHANGED thread
    /\ UNCHANGED <<world, source, shared, waiter, expired>>

OnAdd ==
    /\ Deliver("add")
    /\ IF "absent" \in latch
       THEN callback' = "refresh" /\ seen' = FromProperties(Head(events)[2])
       ELSE UNCHANGED thread
    /\ UNCHANGED <<world, source, shared, waiter, expired>>

\* The node is read again and may meanwhile belong to another device; a read
\* that fails leaves the properties of the event.
Refresh ==
    /\ callback = "refresh"
    /\ \E id \in {seen} \cup {d.id : d \in AtNode(seen.node)} :
           IF Judge(id) \in {"MATCH", "AMBIGUOUS", "MISMATCH"}
           THEN callback' = "identity" /\ seen' = id
           ELSE callback' = "idle" /\ seen' = None
    /\ UNCHANGED <<world, events, source, shared, waiter, expired>>

StoreIdentity ==
    /\ callback = "identity"
    /\ callback' = "assessment"
    /\ reconnected' = IF Judge(seen) = "MATCH" THEN seen ELSE reconnected
    /\ ambiguousIdentity' =
           IF Judge(seen) = "AMBIGUOUS" THEN seen ELSE ambiguousIdentity
    /\ UNCHANGED <<world, events, source, seen, latch, ambiguousAssessment,
                   lastAssessment, waiter, expired>>

StoreAssessment ==
    /\ callback = "assessment"
    /\ callback' = "set"
    /\ IF Judge(seen) = "AMBIGUOUS"
       THEN ambiguousAssessment' = seen /\ UNCHANGED lastAssessment
       ELSE lastAssessment' = seen /\ UNCHANGED ambiguousAssessment
    /\ UNCHANGED <<world, events, source, seen, latch, ambiguousIdentity,
                   reconnected, waiter, expired>>

LatchOf == [MATCH |-> "present", AMBIGUOUS |-> "ambiguous",
            MISMATCH |-> "mismatch"]

SetLatch ==
    /\ callback = "set"
    /\ callback' = "idle"
    /\ latch' = latch \cup {LatchOf[Judge(seen)]}
    /\ seen' = None
    /\ UNCHANGED <<world, events, source, ambiguousIdentity,
                   ambiguousAssessment, reconnected, lastAssessment, waiter,
                   expired>>

-----------------------------------------------------------------------------
(* The waiting thread: arm.                                                *)

At(here, next) == pc = here /\ pc' = next
Local == <<assessment, candidate, manual, outcome, returned>>

\* Mutant: the identity is returned whatever ended the wait.
EndKeepsIdentity(how) ==
    /\ pc' = "done"
    /\ outcome' = how
    /\ UNCHANGED <<assessment, candidate, manual>>
    /\ returned' = reconnected

End(how) ==
    /\ pc' = "done"
    /\ outcome' = how
    /\ UNCHANGED <<assessment, candidate, manual>>
    /\ returned' = IF how = "present" THEN reconnected ELSE None

\* The deployment closes the monitor whatever the outcome.
Close == source' = "off"

ReadBaseline ==
    /\ pc = "baseline"
    /\ IF AtConfiguredPath = {}
       THEN End("unavailable") ELSE pc' = "start" /\ UNCHANGED Local
    /\ UNCHANGED <<world, events, source, thread, shared, expired>>

\* Mutant: the presence is not read again after the subscription.
StartSourceOnly ==
    /\ pc = "start"
    /\ source' = "on" /\ pc' \in {"absent", "round"} /\ UNCHANGED Local
    /\ UNCHANGED <<world, events, thread, shared, expired>>

StartSource ==
    /\ pc = "start"
    /\ \/ source' = "on" /\ pc' = "recheck" /\ UNCHANGED Local
       \/ Close /\ End("unavailable")
    /\ UNCHANGED <<world, events, thread, shared, expired>>

\* A caller waits for the removal first, or for the presence at once.
Recheck ==
    /\ pc = "recheck"
    /\ \/ /\ pc' \in IF AtConfiguredPath = {} THEN {"latch"}
                     ELSE {"absent", "round"}
          /\ UNCHANGED <<source, Local>>
       \/ Close /\ End("unavailable")
    /\ UNCHANGED <<world, events, thread, shared, expired>>

LatchAbsence ==
    /\ pc = "latch"
    /\ pc' \in {"absent", "round"}
    /\ latch' = latch \cup {"absent"}
    /\ UNCHANGED <<world, events, source, thread, ambiguousIdentity,
                   ambiguousAssessment, reconnected, lastAssessment, Local,
                   expired>>

-----------------------------------------------------------------------------
(* wait_for_absent and wait_for_present.                                   *)

Read(here, next) ==
    /\ At(here, next)
    /\ UNCHANGED <<world, events, source, thread, shared, Local, expired>>

Finish(how) ==
    /\ End(how) /\ Close
    /\ UNCHANGED <<world, events, thread, shared, expired>>

AwaitAbsent ==
    \/ "absent" \in latch /\ Read("absent", "round")
    \/ "absent" \notin latch /\ pc = "absent" /\ expired /\ Finish("timeout")

CheckMismatch ==
    \/ "mismatch" \in latch /\ pc = "round" /\ Finish("mismatch")
    \/ "mismatch" \notin latch /\ Read("round", "present")

CheckPresent ==
    \/ "present" \in latch /\ pc = "present" /\ Finish("present")
    \/ "present" \notin latch /\ "ambiguous" \in latch
       /\ Read("present", "readAssessment")
    \/ "present" \notin latch /\ "ambiguous" \notin latch
       /\ Read("present", "pause")

ReadAssessment ==
    /\ At("readAssessment", "readIdentity")
    /\ assessment' = ambiguousAssessment
    /\ UNCHANGED <<world, events, source, thread, shared, candidate, manual,
                   outcome, returned, expired>>

ReadIdentity ==
    /\ At("readIdentity", "clear")
    /\ candidate' = ambiguousIdentity
    /\ UNCHANGED <<world, events, source, thread, shared, assessment, manual,
                   outcome, returned, expired>>

ClearAmbiguous ==
    /\ At("clear", "prompt")
    /\ latch' = latch \ {"ambiguous"}
    /\ UNCHANGED <<world, events, source, thread, ambiguousIdentity,
                   ambiguousAssessment, reconnected, lastAssessment, Local,
                   expired>>

\* The operator is shown the assessment; without a resolver the wait ends.
Prompt ==
    \/ Read("prompt", "confirm")
    \/ pc = "prompt" /\ \E how \in {"cancelled", "ambiguous"} : Finish(how)

ConfirmIdentity ==
    /\ At("confirm", "confirmed")
    /\ reconnected' = candidate
    /\ UNCHANGED <<world, events, source, thread, latch, ambiguousIdentity,
                   ambiguousAssessment, lastAssessment, Local, expired>>

ConfirmAssessment ==
    /\ At("confirmed", "pause")
    /\ lastAssessment' = assessment
    /\ manual' = TRUE
    /\ latch' = latch \cup {"present"}
    /\ assessment' = None /\ candidate' = None     \* not read again
    /\ UNCHANGED <<world, events, source, thread, ambiguousIdentity,
                   ambiguousAssessment, reconnected, outcome, returned, expired>>

\* Mutant: the deadline is not looked at between two rounds.
PauseNoDeadline ==
    \/ "present" \in latch /\ pc = "pause" /\ Finish("present")
    \/ "present" \notin latch /\ Read("pause", "round")

\* Every tenth of a second: presence, then Ctrl+C, then the deadline.
Pause ==
    \/ "present" \in latch /\ pc = "pause" /\ Finish("present")
    \/ "present" \notin latch /\ pc = "pause" /\ expired /\ Finish("timeout")
    \/ "present" \notin latch /\ ~expired /\ Read("pause", "round")

Interrupt == pc \in {"absent", "pause"} /\ Finish("cancelled")

Expire ==
    /\ ~expired /\ pc \in {"absent", "pause"}
    /\ expired' = TRUE
    /\ UNCHANGED <<world, events, source, thread, shared, waiter>>

-----------------------------------------------------------------------------
Callback ==
    OnRemove \/ OnAdd \/ Refresh \/ StoreIdentity \/ StoreAssessment \/ SetLatch
Waiter ==
    \/ ReadBaseline \/ StartSource \/ Recheck \/ LatchAbsence \/ AwaitAbsent
    \/ CheckMismatch \/ CheckPresent \/ ReadAssessment \/ ReadIdentity
    \/ ClearAmbiguous \/ Prompt \/ ConfirmIdentity \/ ConfirmAssessment \/ Pause
Bench == SourceDies \/ \E d \in Device : Unplug(d) \/ Plug(d)

Next == Callback \/ Waiter \/ Bench \/ Interrupt \/ Expire
Spec == Init /\ [][Next]_vars

\* The waiting thread is scheduled and the operator answers a prompt.  A
\* deadline passes between two polls, so it is missed at most finitely often.
FairSpec == Spec /\ WF_vars(Waiter) /\ SF_vars(Expire)

-----------------------------------------------------------------------------
TypeOK ==
    /\ plugged \subseteq Device
    /\ Len(events) <= MaxMoves
    /\ source \in {"off", "on", "dead"}
    /\ callback \in {"idle", "refresh", "identity", "assessment", "set"}
    /\ latch \subseteq {"absent", "present", "ambiguous", "mismatch"}
    /\ pc \in {"baseline", "start", "recheck", "latch", "absent", "round",
               "present", "readAssessment", "readIdentity", "clear", "prompt",
               "confirm", "confirmed", "pause", "done"}
    /\ outcome \in {None, "present", "mismatch", "ambiguous", "cancelled",
                    "timeout", "unavailable"}
    /\ (returned # None) = (outcome = "present")

Armed == pc \notin {"baseline", "start", "recheck", "latch", "done"}
Settled == Armed /\ source = "on" /\ events = <<>> /\ callback = "idle"

\* "Close the setup race": a board that is gone when the threads have caught
\* up was noticed, whether it went before, during or after the subscription.
RemovalIsLatched == (Settled /\ SlotEmpty(plugged)) => "absent" \in latch

\* A board that was plugged in again after its absence was noticed, and runs
\* an expected application, is reported, whatever else was plugged in and out
\* around it.
ReturnIsLatched ==
    (Settled /\ back /\ Board.id.vidPid \in Expected) => "present" \in latch

\* What the monitor accepts left its place first, and is the proven board or
\* one an operator confirmed: never a foreign board, a bootloader or a device
\* of another port that nobody vouched for.
Watch == INSTANCE BoardWatch WITH
    Proven <- {id \in Seen : Judge(id) = "MATCH"},
    Confirmable <- {id \in Seen : Judge(id) = "AMBIGUOUS"},
    vacated <- emptied,
    vouched <- manual,
    answer <- IF outcome = "present" THEN returned
              ELSE IF outcome = None THEN None ELSE Refused
KeepsWatch == Watch!Spec

\* A removal and a return are noticed, whenever they come, and a wait returns
\* what BoardWatch allows (arm, _on_event, wait_for_present).
PresenceIsWatched == [](TypeOK /\ RemovalIsLatched /\ ReturnIsLatched) /\ KeepsWatch

\* Whoever waits gets an answer.
WaitEnds == <>(outcome # None)

\* docs/en/DEPLOYMENT.md: accepted evidence is what is recorded.  The identity
\* that is returned is the one that was assessed, or shown to the operator.
EvidenceIsReturned == outcome = "present" => lastAssessment = returned

\* McuIdentityMismatch is "raised when a different device appears in the
\* monitored physical slot".
MismatchIsRaised == outcome = "present" => "mismatch" \notin latch
=============================================================================
