------------------------ MODULE MCConfigTransaction ------------------------
(***************************************************************************)
(* Scenarios of ConfigTransaction for TLC.  printer.cfg includes one       *)
(* generated file; t1 also manages moonraker.conf.  t1 and t2 are local    *)
(* runs of two processes, t3 is a run over SFTP, which shares no lock with *)
(* them.                                                                   *)
(***************************************************************************)
EXTENDS ConfigTransaction

CONSTANTS t1, t2, t3, p1, p2, root, include, moonraker, old, gen1, gen2, edit,
          Scenarios   \* which of the scenarios below a configuration explores

VARIABLE scenario

Owner == [t \in Txn |-> IF t = t2 THEN p2 ELSE p1]
Transports == [t \in Txn |-> IF t = t3 THEN "sftp" ELSE "local"]
ManagedFiles == [t \in Txn |-> IF t = t1 THEN Files ELSE {root, include}]
GeneratedByRun ==
    [t \in Txn |-> [f \in Files |-> IF t = t2 THEN gen2 ELSE gen1]]

\* A root that never saw KACE, one with an older include, one that is up to
\* date, and an empty directory.
FreshRoot == [f \in Files |-> IF f = include THEN Absent ELSE old]
DoneMoonraker == [FreshRoot EXCEPT ![moonraker] = gen1]
OldRoot == [f \in Files |-> old]
NewRoot == [f \in Files |-> gen1]
EmptyRoot == [f \in Files |-> Absent]
Roots == {FreshRoot, DoneMoonraker, OldRoot, NewRoot, EmptyRoot}

\* One run with an editor and every fault but a failing proposal snapshot.
One == INSTANCE ConfigTransaction WITH
    Bytes <- {old, edit}, MaxEdits <- 2, Faults <- AllFaults \ {"proposal"}
\* Two local runs that want different bytes.
Two == INSTANCE ConfigTransaction WITH
    Bytes <- {old, gen1, gen2}, MaxEdits <- 0, Faults <- {"interrupt", "crash"}
\* A local run and one over SFTP, with an editor.
Mixed == INSTANCE ConfigTransaction WITH
    Bytes <- {edit}, MaxEdits <- 1, Faults <- {"upload"}

Found ==
    [one |-> {FreshRoot, NewRoot}, two |-> {DoneMoonraker},
     mixed |-> {EmptyRoot}]

MCInit ==
    /\ scenario \in Scenarios
    /\ Init
    /\ live \in Found[scenario] /\ loaded \in Found[scenario]

MCNext ==
    \/ /\ scenario = "one"
       /\ \/ One!Work(t1) \/ One!Poll(t1) \/ One!Operator(t1)
          \/ One!Environment
       /\ UNCHANGED scenario
    \/ /\ scenario = "two"
       /\ \/ Two!Work(t1) \/ Two!Poll(t1) \/ Two!Operator(t1)
          \/ Two!Work(t2) \/ Two!Poll(t2) \/ Two!Operator(t2)
          \/ Two!Environment
       /\ UNCHANGED scenario
    \/ /\ scenario = "mixed"
       /\ \/ Mixed!Work(t2) \/ Mixed!Poll(t2) \/ Mixed!Operator(t2)
          \/ Mixed!Work(t3) \/ Mixed!Poll(t3) \/ Mixed!Operator(t3)
          \/ Mixed!Environment
       /\ UNCHANGED scenario

MCSpec == MCInit /\ [][MCNext]_<<vars, scenario>>
=============================================================================
