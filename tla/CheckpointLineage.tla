-------------------------- MODULE CheckpointLineage --------------------------
(***************************************************************************)
(* What the durable checkpoint promises to everybody who looks at the      *)
(* file: one history of revisions in which every workflow grows by one     *)
(* legal step at a time.  No process, lock or comparison appears here.     *)
(***************************************************************************)
EXTENDS Checkpoint

VARIABLES
    entry,          \* the checkpoint, or none
    created,        \* the last workflow id given out
    refused         \* revisions a process refused to resume

lineage == <<entry, created, refused>>

\* What a new workflow may replace: nothing, a finished workflow, or the
\* exact revision somebody looked at and refused.
Replaceable ==
    \/ entry = NoCheckpoint
    \/ entry \in refused
    \/ entry \in Record /\ entry.state = "COMPLETE"

\* One step of a workflow: the next revision in a state the table allows.  A
\* new artifact makes it ARTIFACT_READY, and its flash evidence changes only
\* when the MCU is verified.
Follows(c, d) ==
    /\ d.id = c.id
    /\ d.seq = c.seq + 1
    /\ Allowed(c, d.state)
    /\ d.artifact # c.artifact => d.state = "ARTIFACT_READY"
    /\ d.evidence # c.evidence \/ d.serial # c.serial
          => d.state = "MCU_VERIFIED" /\ d.evidence = d.artifact

Init == entry = NoCheckpoint /\ created = 0 /\ refused = {}

Create ==
    /\ Replaceable
    /\ created' = created + 1
    /\ \E path \in Serial : entry' = Fresh(created', path)
    /\ UNCHANGED refused

\* An id is given out and its workflow is never stored.
Abandon ==
    /\ created' = created + 1
    /\ UNCHANGED <<entry, refused>>

Advance ==
    /\ entry \in Record /\ entry' \in Record
    /\ Follows(entry, entry')
    /\ UNCHANGED <<created, refused>>

\* The operator discards an unfinished workflow.
Discard ==
    /\ entry \in Record /\ entry.state # "COMPLETE"
    /\ entry' = NoCheckpoint
    /\ UNCHANGED <<created, refused>>

Refuse ==
    /\ entry \in Record
    /\ refused' = refused \cup {entry}
    /\ UNCHANGED <<entry, created>>

Next == Create \/ Abandon \/ Advance \/ Discard \/ Refuse

Spec == Init /\ [][Next]_lineage
=============================================================================
