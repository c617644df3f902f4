----------------------------- MODULE Checkpoint -----------------------------
(***************************************************************************)
(* The durable firmware checkpoint of core/firmware_workflow.py: its        *)
(* states, its transition table and the records its operations return.     *)
(*                                                                         *)
(* A checkpoint is reduced to what its transitions and gates look at.  The *)
(* SHA-256 of the stored bytes, by which two revisions are compared, is    *)
(* equality of records here.                                               *)
(***************************************************************************)
EXTENDS Naturals

CONSTANTS
    Artifact,       \* firmware builds, by their embedded identity
    Serial,         \* stable names under /dev/serial/by-id
    NoCheckpoint,   \* there is no checkpoint file
    None            \* no artifact, no serial path

ASSUME CheckpointAssumption ==
    /\ None \notin Artifact
    /\ None \notin Serial

State ==
    {"HARDWARE_SELECTED", "COMPILE_REQUIRED", "ARTIFACT_READY",
     "AWAITING_FLASH", "VERIFYING_MCU", "MCU_VERIFIED", "CONFIG_GENERATED",
     "READY_TO_DEPLOY", "DEPLOYING", "COMPLETE"}

\* seq is the sequence, artifact the build evidence, serial the
\* verified_serial_path, saved the mcu_path of the stored wizard data.
\* evidence is the build that was in the checkpoint when the flash evidence
\* was recorded; the code stores the time of it.
Record ==
    [id : Nat, state : State, seq : Nat, artifact : Artifact \cup {None},
     evidence : Artifact \cup {None}, serial : Serial \cup {None},
     saved : Serial]

ASSUME NoCheckpointAssumption == NoCheckpoint \notin Record

\* _TRANSITIONS: the way forward, the ways back, and the return to the
\* compiler, which only a deployment in progress forbids.
Transitions ==
    {<<"HARDWARE_SELECTED", "ARTIFACT_READY">>,
     <<"COMPILE_REQUIRED", "ARTIFACT_READY">>,
     <<"ARTIFACT_READY", "AWAITING_FLASH">>,
     <<"ARTIFACT_READY", "VERIFYING_MCU">>,
     <<"AWAITING_FLASH", "VERIFYING_MCU">>,
     <<"VERIFYING_MCU", "AWAITING_FLASH">>,
     <<"VERIFYING_MCU", "MCU_VERIFIED">>,
     <<"MCU_VERIFIED", "CONFIG_GENERATED">>,
     <<"CONFIG_GENERATED", "READY_TO_DEPLOY">>,
     <<"READY_TO_DEPLOY", "DEPLOYING">>,
     <<"DEPLOYING", "READY_TO_DEPLOY">>,
     <<"DEPLOYING", "COMPLETE">>}
    \cup {<<state, "COMPILE_REQUIRED">> :
             state \in State \ {"COMPILE_REQUIRED", "DEPLOYING"}}

\* The guard of transition_checkpoint; a state may be renewed.
Allowed(c, state) == state = c.state \/ <<c.state, state>> \in Transitions

\* _DEPLOYABLE_STATES, and the states that lead to them.
Deployable == {"READY_TO_DEPLOY", "DEPLOYING", "COMPLETE"}
Verified == {"MCU_VERIFIED", "CONFIG_GENERATED"} \cup Deployable

-----------------------------------------------------------------------------
(* What the operations return.                                             *)

\* create_checkpoint
Fresh(id, path) ==
    [id |-> id, state |-> "HARDWARE_SELECTED", seq |-> 1, artifact |-> None,
     evidence |-> None, serial |-> None, saved |-> path]

\* transition_checkpoint without and with user_data.
Moved(c, state) == [c EXCEPT !.state = state, !.seq = @ + 1]

Resaved(c, state, path) ==
    [c EXCEPT !.state = state, !.seq = @ + 1, !.saved = path]

\* A compiled artifact.  Older flash evidence stays in the record.
Compiled(c, artifact, path) ==
    [c EXCEPT !.state = "ARTIFACT_READY", !.seq = @ + 1,
              !.artifact = artifact, !.saved = path]

\* Mutant: flash evidence is recorded once.
MatchedOnce(c, serial) ==
    [c EXCEPT !.state = "MCU_VERIFIED", !.seq = @ + 1, !.serial = serial,
              !.evidence = IF @ = None THEN c.artifact ELSE @]

\* verify_reappeared_mcu: the stored wizard data are not updated.
Matched(c, serial) ==
    [c EXCEPT !.state = "MCU_VERIFIED", !.seq = @ + 1, !.serial = serial,
              !.evidence = c.artifact]

\* What a deployable checkpoint claims: a verified MCU, and flash evidence of
\* the very build it names.
Sound(c) ==
    c.state \in Verified =>
        c.artifact # None /\ c.serial # None /\ c.evidence = c.artifact
=============================================================================
