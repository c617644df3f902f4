---------------------------- MODULE McuIdentity ----------------------------
(***************************************************************************)
(* The identity of a USB serial device and the evidence by which           *)
(* core/mcu_monitor.py decides whether the board that came back is the one *)
(* that left.                                                              *)
(*                                                                         *)
(* An identity is what udev reports of a tty.  A path is a pair of the     *)
(* connection and the interface behind it, a missing property is None.     *)
(***************************************************************************)
EXTENDS Naturals

CONSTANTS
    None,       \* a property udev does not report
    Bootloader  \* VID:PIDs of the board's bootloader

BootloaderAssumption == None \notin Bootloader

Threshold == 90

\* McuIdentityReader._physical_port: the connection without the interface,
\* of ID_PATH where there is one, else of DEVPATH.
PhysicalPort(id) ==
    IF id.idPath # None THEN {<<"path", id.idPath[1]>>}
    ELSE IF id.devPath # None THEN {<<"dev", id.devPath[1]>>}
    ELSE {}

\* Every place an identity names, by the kind of evidence.
Places(id) ==
    [port |-> PhysicalPort(id), byPath |-> id.byPath,
     idPath |-> {id.idPath} \ {None}, devPath |-> {id.devPath} \ {None},
     node |-> {id.node}]

TopologyKinds == {"port", "byPath", "idPath", "devPath"}

HasTopology(id) == \E k \in TopologyKinds : Places(id)[k] # {}

CommonTopology(a, b) ==
    {k \in TopologyKinds : Places(a)[k] \cap Places(b)[k] # {}}

\* The most precise evidence both identities have decides; the node is last.
Precision == <<"port", "byPath", "idPath", "devPath", "node">>

OccupiesSameSlot(a, b) ==
    \E i \in DOMAIN Precision :
        LET k == Precision[i] IN
        /\ Places(a)[k] \cap Places(b)[k] # {}
        /\ \A j \in 1..(i - 1) :
               Places(a)[Precision[j]] = {} \/ Places(b)[Precision[j]] = {}

SerialMatch(a, b) == a.serial # None /\ a.serial = b.serial
SerialConflict(a, b) == a.serial # None /\ b.serial # None /\ a.serial # b.serial

\* Mutant: the weaker topology of a device path is worth as much as a port.
TopologyScoreFlat(common) == IF common # {} THEN 60 ELSE 0

TopologyScore(common) ==
    IF common \cap {"port", "byPath"} # {} THEN 60
    ELSE IF "idPath" \in common THEN 55
    ELSE IF "devPath" \in common THEN 50
    ELSE 0

Score(baseline, candidate, expected) ==
    LET evidence == TopologyScore(CommonTopology(baseline, candidate))
                    + (IF candidate.vidPid \in expected THEN 30 ELSE 0)
    IN IF SerialMatch(baseline, candidate) THEN evidence + 10
       ELSE IF SerialConflict(baseline, candidate)
         THEN IF evidence < 20 THEN 0 ELSE evidence - 20
       ELSE evidence

Verdict == {"MATCH", "AMBIGUOUS", "MISMATCH", "TRANSIENT", "UNRELATED"}

\* assess_mcu_identity.
Assess(baseline, candidate, expected) ==
    LET application == candidate.vidPid \in expected
        samePlace == CommonTopology(baseline, candidate) # {}
    IN IF samePlace /\ candidate.vidPid \in Bootloader \ expected
         THEN "TRANSIENT"
       ELSE IF samePlace /\ expected # {} /\ candidate.vidPid # None
               /\ ~application
         THEN "MISMATCH"
       ELSE IF samePlace /\ application
               /\ ~SerialConflict(baseline, candidate)
               /\ Score(baseline, candidate, expected) >= Threshold
         THEN "MATCH"
       ELSE IF samePlace \/ application \/ SerialMatch(baseline, candidate)
         THEN "AMBIGUOUS"
       ELSE "UNRELATED"
=============================================================================
