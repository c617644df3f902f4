-------------------------- MODULE McuVerification --------------------------
(***************************************************************************)
(* verify_reappeared_mcu of core/firmware_workflow.py: which of the serial *)
(* devices that are present after the flash is taken for the MCU that was  *)
(* selected before it, and whether the operator has to confirm it.         *)
(*                                                                         *)
(* A device is a stable by-id link: the MCU model its name shows, the      *)
(* identity udev gives for it, and whether that identity can be read.      *)
(***************************************************************************)
EXTENDS McuIdentity

CONSTANTS
    Device,     \* [id, model, readable]; model is "same", "other" or None
    Baseline,   \* identities that may be in the checkpoint; None for legacy
    Contract,   \* VID:PIDs the checkpoint's artifact names, possibly none
    Bridge      \* VID:PIDs of the USB-serial bridge of the board, if it has one

VARIABLES
    baseline,   \* the identity captured when the MCU was selected
    present,    \* the devices that are plugged in
    confirms,   \* what the operator answers; FALSE also stands for auto mode
    chosen      \* the result, or None

vars == <<baseline, present, confirms, chosen>>

\* The identity that is compared: a device that cannot be read keeps its node.
Bare(node) ==
    [node |-> node, idPath |-> None, devPath |-> None, byPath |-> {},
     serial |-> None, vidPid |-> None]
Original == IF baseline = None THEN Bare("original") ELSE baseline
Candidate(d) == IF d.readable THEN d.id ELSE Bare(d.id.node)

ExpectedIds ==
    IF Contract # {} THEN Contract ELSE {Original.vidPid} \ {None}

\* Evidence that is not there makes a verdict ambiguous, unless it is a
\* refusal already.
Judged(d) ==
    LET verdict == Assess(Original, Candidate(d), ExpectedIds) IN
    IF (baseline = None \/ ~HasTopology(Candidate(d)))
       /\ verdict \notin {"MISMATCH", "TRANSIENT"}
    THEN "AMBIGUOUS" ELSE verdict

\* A name that shows another model is skipped; one that shows none counts
\* only for the contracted bridge, with positive evidence.
Eligible(d) ==
    /\ \/ d.model = "same"
       \/ /\ d.model = None
          /\ Candidate(d).vidPid \in Bridge
          /\ Judged(d) = "MATCH"
    /\ \/ ExpectedIds = {}
       \/ Candidate(d).vidPid \in ExpectedIds \cup {None}
    /\ Judged(d) \in {"MATCH", "AMBIGUOUS"}

Init ==
    /\ baseline \in Baseline
    /\ present \in SUBSET Device
    /\ confirms \in BOOLEAN
    /\ chosen = None

\* Mutant: the first of several candidates is taken.
PoolFirst(candidates) ==
    IF candidates = {} THEN {} ELSE {CHOOSE d \in candidates : TRUE}

\* Matches come before ambiguous candidates.
Pool(candidates) ==
    LET matches == {d \in candidates : Judged(d) = "MATCH"} IN
    IF matches # {} THEN matches ELSE candidates

Verify ==
    /\ chosen = None
    /\ LET pool == Pool({d \in present : Eligible(d)}) IN
       \E d \in pool :
           /\ pool = {d}
           /\ Judged(d) = "MATCH" \/ confirms
           /\ chosen' = [device |-> d, manual |-> Judged(d) # "MATCH"]
    /\ UNCHANGED <<baseline, present, confirms>>

\* Devices come and go until the user asks for the next verification.
Replug ==
    /\ chosen = None
    /\ \E d \in Device : present' = (present \ {d}) \cup ({d} \ present)
    /\ UNCHANGED <<baseline, confirms, chosen>>

Next == Verify \/ Replug
Spec == Init /\ [][Next]_vars

\* Nothing is accepted without the operator unless it is at the place where
\* the original was, runs the expected application and shows no other serial.
AutomaticIsProven ==
    (chosen # None /\ ~chosen.manual) =>
        LET id == Candidate(chosen.device)
            common == CommonTopology(Original, id)
        IN /\ baseline # None
           /\ id.vidPid \in ExpectedIds
           /\ ~SerialConflict(Original, id)
           /\ \/ common \cap {"port", "byPath"} # {}
              \/ common # {} /\ SerialMatch(Original, id)

\* The operator is never asked to choose: what is confirmed was the only
\* device of the model that could be meant, and no match was present beside it.
\* A device that shows another application than the expected is not meant.
ConfirmedWasAlone ==
    (chosen # None /\ chosen.manual) =>
        /\ confirms
        /\ \A d \in present \ {chosen.device} :
               ~(/\ d.model = "same" /\ Judged(d) \in {"MATCH", "AMBIGUOUS"}
                 /\ ExpectedIds # {} => Candidate(d).vidPid \in ExpectedIds \cup {None})

\* docs/en/DEPLOYMENT.md: evidence that is missing needs a confirmation.  A
\* serial number that was captured and is gone is missing evidence.
MissingSerialIsConfirmed ==
    (chosen # None /\ Original.serial # None
                   /\ Candidate(chosen.device).serial = None) => chosen.manual
=============================================================================
