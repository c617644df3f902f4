------------------------- MODULE MCFirmwareWorkflow -------------------------
(***************************************************************************)
(* Scenarios of FirmwareWorkflow for TLC.                                  *)
(***************************************************************************)
EXTENDS FirmwareWorkflow, TLC

CONSTANTS p1, p2, a1, a2, s1, s2,
          Scenarios   \* which of the scenarios below a configuration explores

VARIABLE scenario

\* Processes and builds are interchangeable.
Interchangeable == Permutations(Process) \cup Permutations(Artifact)

\* One process at a time, resumed, with two builds and every fault.
Resumed == INSTANCE FirmwareWorkflow WITH Serial <- {s1}, MaxSequence <- 5
\* Two processes that work with one checkpoint file, and crashes; only builds are
\* flashed.
Shared == INSTANCE FirmwareWorkflow WITH
    Serial <- {s1}, Artifact <- {a1}, Faults <- {"crash"}, MaxSequence <- 5
BuildsOnly == firmware' \in {firmware} \cup Artifact
\* One process whose MCU may come back under another name.
Renamed == INSTANCE FirmwareWorkflow WITH
    Artifact <- {a1}, Faults <- {"crash"}, MaxRuns <- 2, MaxSequence <- 5, MaxWorkflows <- 1

\* A scenario with one build knows no other one, so that symmetry is sound.
MCInit ==
    /\ scenario \in Scenarios
    /\ Init
    /\ scenario # "resumed" => firmware \in {a1, Foreign}

MCNext ==
    \/ /\ scenario = "resumed"
       /\ \/ Resumed!Work(p1) \/ Resumed!Operator(p1) \/ Resumed!Crash(p1)
          \/ Resumed!Flash \/ Resumed!RemoveGenerated
       /\ UNCHANGED scenario
    \/ /\ scenario = "shared"
       /\ Shared!Next /\ BuildsOnly
       /\ UNCHANGED scenario
    \/ /\ scenario = "renamed"
       /\ \/ Renamed!Work(p1) \/ Renamed!Operator(p1) \/ Renamed!Crash(p1)
          \/ Renamed!Flash \/ Renamed!RemoveGenerated
       /\ UNCHANGED scenario

MCSpec == MCInit /\ [][MCNext]_<<vars, scenario>>
=============================================================================
