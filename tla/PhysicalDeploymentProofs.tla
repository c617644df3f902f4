----------------------- MODULE PhysicalDeploymentProofs -----------------------
(***************************************************************************)
(* Theorems about PhysicalDeployment, for every set of files, every method *)
(* of delivery, all faults and any number of saves by others.              *)
(***************************************************************************)
EXTENDS PhysicalDeployment, FiniteSetTheorems, TLAPS

USE DEF World, run, board, editor

-----------------------------------------------------------------------------
(* The inductive invariant.                                                *)

\* The positions before the first look at the files that will be written.
Opening ==
    {"gates", "review", "revalidate", "power", "capability", "arm", "firmware",
     "askPowerOff", "powerOff", "powerOn", "installing", "absent", "present",
     "recheck"}

\* Where a run can be in which use of the shared waits.
PlaceInv ==
    /\ pc \in Opening => phase = "firmware"
    /\ pc \in {"compare", "upload", "restartMoonraker"} => phase = "verify"
    /\ pc = "download" => phase \in {"verify", "final"}
    /\ pc = "moonraker" => phase # "final"
    /\ pc = "restart" => phase \in {"verify", "rollback"}
    /\ pc = "ready" => phase \in {"firmware", "config", "rollback"}
    /\ pc = "versions" => phase \in {"firmware", "config"}
    /\ pc \in {"restore", "restoredBytes", "rollbackFails", "confirm"}
        => phase = "rollback"
    /\ pc = "upload" => attempted # <<>>
    /\ phase = "firmware" => attempted = <<>>
    /\ phase = "rollback" => failure \notin {Nothing, "DONE"}
    /\ handler # "none" => phase = "rollback"

\* From the comparison of the versions on, the board runs the new firmware;
\* Klipper cannot report what the board does not run.
FirmwareInv ==
    /\ klipper.version = "new" => mcu = "new"
    /\ phase \in {"verify", "config", "final"} => mcu = "new"
    /\ pc = "recheck" => mcu = "new"
    /\ attempted # <<>> => mcu = "new"
    /\ Root \in Attempted => Attempted = Changed

\* The promise of the handlers, which an error of the kind TimeoutError breaks.
DiagnosedInv == "timeout" \notin Faults => WrittenIsDiagnosed

\* The uploads have been verified, and what is there since was saved by others.
Verified ==
    \/ phase \in {"config", "final"}
    \/ phase = "verify" /\ pc \in {"restartMoonraker", "moonraker", "restart"}

\* What was published is loaded, in the sense of DoneIsActive.
Active ==
    Changed # {} => \A f \in Files : klipper.loaded[f] = "new" \/ f \in touched

\* Once the restart has been asked for, a Klipper that is ready has loaded the
\* published files; the wait ends only with such a Klipper.
ActiveInv ==
    /\ Verified => \A f \in Files : files[f] = "new" \/ f \in touched
    /\ phase = "config" /\ klipper.state = "ready" => Active
    /\ phase = "config" /\ pc = "versions" => Active
    /\ phase = "final" => Active

\* The original files of a recovery are loaded, in the sense of RecoveryIsActive.
Recalled ==
    \A f \in Attempted : klipper.loaded[f] = planned[f] \/ f \in touched

\* The same for a recovery, from the comparison of its files on.
RecoveryInv ==
    phase = "rollback" =>
        /\ pc \in {"moonraker", "restart", "ready", "confirm"} =>
              \A f \in Attempted : files[f] = planned[f] \/ f \in touched
        /\ pc = "ready" /\ klipper.state = "ready" => Recalled
        /\ pc = "confirm" => Recalled

IInv ==
    /\ TypeOK /\ IsFiniteSet(Attempted) /\ PlaceInv /\ FirmwareInv /\ DiagnosedInv
    /\ ActiveInv /\ RecoveryInv

-----------------------------------------------------------------------------
(* What the operators of the steps do.                                     *)

\* What a step leaves alone keeps what is derived from it.
LEMMA Frame ==
  /\ attempted' = attempted => Attempted' = Attempted
  /\ planned' = planned => Changed' = Changed
  BY DEF Attempted, Changed

\* Remembering an attempt adds one file.
LEMMA AppendEffect ==
  ASSUME attempted \in Seq(Files), NEW f \in Files,
         attempted' = Append(attempted, f)
  PROVE  /\ attempted' \in Seq(Files) /\ attempted' # <<>>
         /\ Len(attempted') = Len(attempted) + 1
         /\ Attempted' = Attempted \cup {f}
<1>1. /\ attempted' \in Seq(Files) /\ Len(attempted') = Len(attempted) + 1
      /\ attempted'[Len(attempted) + 1] = f
      /\ \A i \in 1 .. Len(attempted) : attempted'[i] = attempted[i]
  OBVIOUS
<1>2. /\ DOMAIN attempted = 1 .. Len(attempted)
      /\ DOMAIN attempted' = 1 .. Len(attempted) + 1
      /\ Len(attempted) \in Nat
  BY <1>1
<1>3. Attempted' \subseteq Attempted \cup {f}
  <2>1. ASSUME NEW i \in DOMAIN attempted' PROVE attempted'[i] \in Attempted \cup {f}
    <3>1. i \in DOMAIN attempted \/ i = Len(attempted) + 1
      BY <1>2
    <3> QED
      BY <1>1, <1>2, <3>1 DEF Attempted
  <2> QED
    BY <2>1 DEF Attempted
<1>4. Attempted \cup {f} \subseteq Attempted'
  <2>1. \A i \in DOMAIN attempted : i \in DOMAIN attempted' /\ attempted'[i] = attempted[i]
    BY <1>1, <1>2
  <2>2. Len(attempted) + 1 \in DOMAIN attempted'
    BY <1>2
  <2> QED
    BY <1>1, <2>1, <2>2 DEF Attempted
<1> QED
  BY <1>1, <1>2, <1>3, <1>4

\* The order of the states: what can raise while files are written is at or
\* after APPLYING_CONFIG.
LEMMA Ranks ==
  \A s \in {"APPLYING_CONFIG", "VERIFYING_UPLOAD", "FIRMWARE_RESTART",
            "VERIFYING_CONFIG"} : Rank(s) >= Rank("APPLYING_CONFIG")
<1>1. DOMAIN StateOrder = 1 .. 11
  BY DEF StateOrder
<1>2. Rank("APPLYING_CONFIG") = 6
  BY <1>1 DEF Rank, StateOrder
<1>3. Rank("VERIFYING_UPLOAD") = 7
  BY <1>1 DEF Rank, StateOrder
<1>4. Rank("FIRMWARE_RESTART") = 8
  BY <1>1 DEF Rank, StateOrder
<1>5. Rank("VERIFYING_CONFIG") = 9
  BY <1>1 DEF Rank, StateOrder
<1> QED
  BY <1>2, <1>3, <1>4, <1>5

\* So an exception there leads to the rollback, unless TimeoutError takes it.
LEMMA RaiseEffect ==
  ASSUME PlaceInv, Raise, phase # "rollback",
         pc \in {"compare", "upload", "download", "restartMoonraker", "restart"}
  PROVE  Rollback("CONFIG_ERROR", "error") \/ ("timeout" \in Faults /\ End("TIMEOUT"))
<1>1. State \in {"APPLYING_CONFIG", "VERIFYING_UPLOAD", "FIRMWARE_RESTART",
                 "VERIFYING_CONFIG"}
  BY DEF State, PlaceInv
<1>2. Rank(State) >= Rank("APPLYING_CONFIG")
  BY <1>1, Ranks
<1> QED
  BY <1>2 DEF Raise


\* A rollback starts a recovery; it and the end of one are all that tell.
LEMMA PlaceNext ==
  ASSUME TypeOK, PlaceInv, Next
  PROVE  PlaceInv'
<1> USE FilesAssumption DEF TypeOK, PlaceInv, Opening, Results
<1>1. CASE Gates
  BY <1>1 DEF Gates, Goto, End
<1>2. CASE Review
  BY <1>2 DEF Review, Goto, End, NoWrite
<1>3. CASE Revalidate
  BY <1>3 DEF Revalidate, Goto, End, NoWrite
<1>4. CASE Power
  BY <1>4 DEF Power, Goto, End, NoWrite
<1>5. CASE Capability
  BY <1>5 DEF Capability, Goto, End, NoWrite
<1>6. CASE Arm
  BY <1>6 DEF Arm, Goto, End, NoWrite, AfterArm
<1>7. CASE Firmware
  BY <1>7 DEF Firmware, Goto, End, Outcomes
<1>8. CASE AskPowerOff
  BY <1>8 DEF AskPowerOff, Goto, End, NoWrite
<1>9. CASE PowerOff
  BY <1>9 DEF PowerOff, Switch, Goto, End
<1>10. CASE PowerOn
  BY <1>10 DEF PowerOn, Switch, Goto, End
<1>11. CASE Installed
  BY <1>11 DEF Installed, Goto, End, NoWrite
<1>12. CASE Absent
  BY <1>12 DEF Absent, Goto, End, NoWrite
<1>13. CASE Present
  BY <1>13 DEF Present, Goto, End, NoWrite
<1>14. CASE WaitMoonraker
  BY <1>14 DEF WaitMoonraker, Goto, NoWrite, MoonrakerNext
<1>15. CASE SampleReady
  BY <1>15 DEF SampleReady, ReadyNext
<1>16. CASE Expire
  BY <1>16 DEF Expire, WaitFails, End, Rollback, Recovered, NoWrite
<1>17. CASE Versions
  BY <1>17 DEF Versions, Goto, End, Rollback, NoWrite
<1>18. CASE Recheck
  BY <1>18 DEF Recheck, End, NoWrite
<1>19. CASE Compare
  BY <1>19, AppendEffect, RaiseEffect DEF Compare, Goto, Rollback, End
<1>20. CASE Upload
  BY <1>20, RaiseEffect DEF Upload, Goto, Rollback, End
<1>21. CASE Download
  BY <1>21, RaiseEffect DEF Download, Goto, End, Rollback, NoWrite,
     Compared, Rollback, End
<1>22. CASE RestartMoonraker
  BY <1>22, RaiseEffect DEF RestartMoonraker, NoWrite, Rollback, End
<1>23. CASE Restart
  BY <1>23, RaiseEffect DEF Restart, Recovered, Rollback, End
<1>24. CASE RollbackFails
  BY <1>24 DEF RollbackFails, Recovered, NoWrite
<1>25. CASE Restore
  BY <1>25 DEF Restore, Goto, Recovered, NoWrite
<1>26. CASE RestoredBytes
  BY <1>26 DEF RestoredBytes, Goto, Recovered, NoWrite, Compared
<1>27. CASE Confirm
  BY <1>27 DEF Confirm, Recovered, NoWrite
<1>28. CASE Interrupt
  BY <1>28 DEF Interrupt, End, Rollback, Recovered, NoWrite
<1>29. CASE Detach
  BY <1>29 DEF Detach
<1>30. CASE Attach
  BY <1>30 DEF Attach
<1>31. CASE Install
  BY <1>31 DEF Install
<1>32. CASE KlipperLost
  BY <1>32 DEF KlipperLost
<1>33. CASE KlipperStarts
  BY <1>33 DEF KlipperStarts
<1>34. CASE \E f \in Files : Edit(f)
  BY <1>34 DEF Edit
<1> QED
  BY <1>1, <1>2, <1>3, <1>4, <1>5, <1>6, <1>7, <1>8, <1>9, <1>10, <1>11,
     <1>12, <1>13, <1>14, <1>15, <1>16, <1>17, <1>18, <1>19, <1>20, <1>21,
     <1>22, <1>23, <1>24, <1>25, <1>26, <1>27, <1>28, <1>29, <1>30, <1>31,
     <1>32, <1>33, <1>34 DEF Next, Deployment, Around

\* A file that is attempted next is one that changes and was not attempted.
LEMMA NextFilesAreNew ==
  ASSUME NEW f \in NextFiles
  PROVE  /\ f \in Changed /\ f \in Files /\ f \notin Attempted
         /\ f = Root => Attempted \cup {f} = Changed \cup Attempted
<1>1. f \in Changed /\ f \in Files /\ f \notin Attempted
  BY DEF NextFiles, Changed
<1>2. f = Root => Changed \ Attempted = {Root}
  BY DEF NextFiles
<1> QED
  BY <1>1, <1>2

\* A recovery ends with a result and a verdict.
LEMMA RecoveredEffect ==
  ASSUME TypeOK, PlaceInv, phase = "rollback",
         Recovered(FALSE) \/ Recovered(Restored)
  PROVE  /\ pc' = "done" /\ result' \in Results /\ result' # Nothing
         /\ rollback' \in BOOLEAN
         /\ UNCHANGED <<phase, samples, handler, failure>>
<1>1. /\ pc' = "done" /\ UNCHANGED <<phase, samples, handler, failure>>
      /\ result' = "CANCELLED" \/ result' = failure
  BY DEF Recovered
<1>2. rollback' = FALSE \/ rollback' = Restored
  BY Zenon DEF Recovered
<1>3. Restored \in BOOLEAN
  BY Zenon DEF Restored
<1>4. rollback' \in BOOLEAN
  BY <1>2, <1>3, Zenon
<1>5. failure \in Results /\ failure # Nothing /\ "CANCELLED" \in Results
  BY DEF TypeOK, PlaceInv, Results
<1> QED
  BY <1>1, <1>4, <1>5, FilesAssumption

\* The step that ends a recovery, and what it leaves alone.
Recovers ==
    /\ phase = "rollback" /\ (Recovered(FALSE) \/ Recovered(Restored))
    /\ \/ Expire \/ Restart \/ RollbackFails \/ Restore \/ RestoredBytes
       \/ Confirm \/ Interrupt

\* It is the last step and keeps the types.
LEMMA RecoversEffect ==
  ASSUME TypeOK, PlaceInv, Recovers
  PROVE  /\ TypeOK' /\ pc' = "done" /\ rollback' \in BOOLEAN /\ pc # "done"
         /\ UNCHANGED <<World, planned, attempted, phase, handler>>
         /\ Attempted' = Attempted /\ Changed' = Changed
<1>1. /\ pc' = "done" /\ result' \in Results /\ result' # Nothing
      /\ rollback' \in BOOLEAN /\ UNCHANGED <<phase, samples, handler, failure>>
  BY RecoveredEffect DEF Recovers
<1>2. UNCHANGED <<World, planned, attempted>> /\ pc # "done"
  BY <1>1 DEF Recovers, Expire, Restart, RollbackFails, Restore, RestoredBytes,
              Confirm, Interrupt, Goto, NoWrite, Compared
<1>3. Attempted' = Attempted /\ Changed' = Changed
  BY <1>2, Frame
<1>4. rollback' \in BOOLEAN \cup {Nothing}
  BY <1>1, Zenon
<1> QED
  BY <1>1, <1>2, <1>3, <1>4 DEF TypeOK

\* The same actions when they do not end a recovery.
LEMMA NoRecovery ==
  ASSUME PlaceInv, ~Recovers
  PROVE  ~RollbackFails /\ ~Confirm
  BY Zenon DEF RollbackFails, Confirm, Recovers, PlaceInv

\* A deadline ends a deployment before the first write, and rolls it back after.
LEMMA ExpireEffect ==
  ASSUME Expire, ~Recovers
  PROVE  /\ NoWrite /\ pc \in {"moonraker", "ready", "versions"}
         /\ \/ phase = "firmware" /\ End("TIMEOUT")
            \/ phase \in {"verify", "config"} /\ Rollback("CONFIG_ERROR", "none")
<1>1. NoWrite /\ (pc \in {"moonraker", "ready"} \/ pc = "versions")
  BY Zenon DEF Expire
<1>2. WaitFails /\ ~(phase = "rollback" /\ Recovered(FALSE))
  BY Zenon DEF Expire, Recovers
<1> QED
  BY <1>1, <1>2, Zenon DEF WaitFails

\* The restart is asked for, or the request raises during the activation.
LEMMA RestartEffect ==
  ASSUME PlaceInv, Restart, ~Recovers
  PROVE  /\ pc = "restart"
         /\ \/ /\ klipper' = IF Changed = {} THEN klipper
                             ELSE [klipper EXCEPT !.state = "restarting"]
               /\ pc' = IF phase = "rollback" THEN "ready" ELSE "moonraker"
               /\ phase' = IF phase = "rollback" THEN phase ELSE "config"
               /\ samples' = 0
               /\ UNCHANGED <<handler, failure, result, rollback>>
            \/ /\ UNCHANGED klipper /\ phase = "verify" /\ Raise
         /\ UNCHANGED <<method, files, editor, relay, board, planned, attempted>>
<1>1. ~(phase = "rollback" /\ Recovered(FALSE))
  BY Zenon DEF Recovers
<1>2. pc = "restart" /\ (phase = "verify" \/ phase = "rollback")
  BY Zenon DEF Restart, PlaceInv
<1> QED
  BY <1>1, <1>2, Zenon DEF Restart

\* The files of a recovery are what they were.
LEMMA RestoreEffect ==
  ASSUME PlaceInv, ~Recovers
  PROVE  /\ Restore => /\ pc = "restore" /\ phase = "rollback" /\ Restored
                       /\ Goto("restoredBytes") /\ NoWrite
         /\ RestoredBytes => /\ pc = "restoredBytes" /\ phase = "rollback"
                             /\ Restored /\ Goto("moonraker") /\ Compared
<1>1. ~(phase = "rollback" /\ Recovered(FALSE)) \/ ~(Restore \/ RestoredBytes)
  BY Zenon DEF Recovers
<1>2. Restore \/ RestoredBytes => phase = "rollback"
  BY Zenon DEF Restore, RestoredBytes, PlaceInv
<1>3. ASSUME Restore
      PROVE  pc = "restore" /\ Restored /\ Goto("restoredBytes") /\ NoWrite
  BY <1>1, <1>2, <1>3, Zenon DEF Restore
<1>4. ASSUME RestoredBytes
      PROVE  pc = "restoredBytes" /\ Restored /\ Goto("moonraker") /\ Compared
  BY <1>1, <1>2, <1>4, Zenon DEF RestoredBytes
<1> QED
  BY <1>2, <1>3, <1>4, Zenon

\* Ctrl+C before the first write, after it, and during the rollback of an error.
LEMMA InterruptEffect ==
  ASSUME PlaceInv, Interrupt, ~Recovers
  PROVE  /\ NoWrite /\ pc \notin {"gates", "review", "revalidate", "power", "done"}
         /\ \/ handler = "none" /\ attempted = <<>> /\ End("CANCELLED")
            \/ /\ handler = "none" /\ attempted # <<>>
               /\ Rollback("CONFIG_ERROR", "cancel")
            \/ handler = "error" /\ End("KeyboardInterrupt")
<1>1. ~(phase = "rollback" /\ Recovered(FALSE))
  BY Zenon DEF Recovers
<1>2. handler = "cancel" => phase = "rollback"
  BY DEF PlaceInv
<1> QED
  BY <1>1, <1>2, Zenon DEF Interrupt

\* Every step keeps the types, the attempts apart.
LEMMA TypeNext ==
  ASSUME TypeOK, IsFiniteSet(Attempted), PlaceInv, Next
  PROVE  TypeOK' /\ IsFiniteSet(Attempted)'
<1>0. CASE Recovers
  BY <1>0, RecoversEffect
<1>1. CASE UNCHANGED <<attempted, planned>> /\ ~Recovers
  <2> SUFFICES TypeOK' /\ Attempted' = Attempted
    BY Frame
  <2>0. Attempted' = Attempted /\ Changed' = Changed
    BY <1>1, Frame
  <2> USE <1>1, <2>0, FilesAssumption
        DEF TypeOK, Texts, States, Results, PlaceInv, Opening, Wanted
  <2>1. CASE Review
    BY <2>1 DEF Review, Goto, End, NoWrite
  <2>2. CASE Revalidate
    BY <2>2 DEF Revalidate, Goto, End, NoWrite
  <2>3. CASE Power
    BY <2>3 DEF Power, Goto, End, NoWrite
  <2>4. CASE Capability
    BY <2>4 DEF Capability, Goto, End, NoWrite
  <2>5. CASE Arm
    BY <2>5 DEF Arm, Goto, End, NoWrite, AfterArm
  <2>6. CASE Firmware
    BY <2>6 DEF Firmware, Goto, End, Outcomes
  <2>7. CASE AskPowerOff
    BY <2>7 DEF AskPowerOff, Goto, End, NoWrite
  <2>8. CASE PowerOff
    BY <2>8 DEF PowerOff, Switch, Goto, End
  <2>9. CASE PowerOn
    BY <2>9 DEF PowerOn, Switch, Goto, End
  <2>10. CASE Installed
    BY <2>10 DEF Installed, Goto, End, NoWrite
  <2>11. CASE Absent
    BY <2>11 DEF Absent, Goto, End, NoWrite
  <2>12. CASE Present
    BY <2>12 DEF Present, Goto, End, NoWrite
  <2>13. CASE WaitMoonraker
    BY <2>13 DEF WaitMoonraker, Goto, NoWrite, MoonrakerNext
  <2>14. CASE SampleReady
    BY <2>14 DEF SampleReady, ReadyNext
  <2>15. CASE Expire
    BY <2>15, ExpireEffect DEF End, Rollback, NoWrite
  <2>16. CASE Versions
    BY <2>16 DEF Versions, Goto, End, Rollback, NoWrite
  <2>17. CASE Recheck
    BY <2>17 DEF Recheck, End, NoWrite
  <2>18. CASE Upload
    BY <2>18, RaiseEffect DEF Upload, Goto, Rollback, End
  <2>19. CASE Download
    BY <2>19, RaiseEffect DEF Download, Goto, End, Rollback, NoWrite,
       Compared, Rollback, End
  <2>20. CASE RestartMoonraker
    BY <2>20, RaiseEffect DEF RestartMoonraker, NoWrite, Rollback, End
  <2>21. CASE Restart
    BY <2>21, RestartEffect, RaiseEffect DEF Rollback, End
  <2>22. CASE RollbackFails
    BY <2>22, NoRecovery
  <2>23. CASE Restore
    BY <2>23, RestoreEffect DEF Goto, NoWrite, Restored
  <2>24. CASE RestoredBytes
    BY <2>24, RestoreEffect DEF Goto, Compared, Restored
  <2>25. CASE Confirm
    BY <2>25, NoRecovery
  <2>26. CASE Interrupt
    BY <2>26, InterruptEffect DEF End, Rollback, NoWrite
  <2>27. CASE Detach
    BY <2>27 DEF Detach
  <2>28. CASE Attach
    BY <2>28 DEF Attach
  <2>29. CASE Install
    BY <2>29 DEF Install
  <2>30. CASE KlipperLost
    BY <2>30 DEF KlipperLost
  <2>31. CASE KlipperStarts
    BY <2>31 DEF KlipperStarts
  <2>32. CASE \E f \in Files : Edit(f)
    BY <2>32 DEF Edit
  <2>97. CASE Gates
    BY <2>97 DEF Gates, Goto, End
  <2>98. CASE Compare
    BY <2>98, RaiseEffect DEF Compare, Goto, Rollback, End
  <2> QED
    BY <2>1, <2>2, <2>3, <2>4, <2>5, <2>6, <2>7, <2>8, <2>9, <2>10, <2>11,
       <2>12, <2>13, <2>14, <2>15, <2>16, <2>17, <2>18, <2>19, <2>20, <2>21,
       <2>22, <2>23, <2>24, <2>25, <2>26, <2>27, <2>28, <2>29, <2>30, <2>31,
       <2>32,
       <2>97, <2>98 DEF Next, Deployment, Around
<1>2. CASE Gates /\ ~UNCHANGED <<attempted, planned>>
  <2>1. /\ attempted' = attempted /\ attempted = <<>> /\ planned' = files
        /\ UNCHANGED <<method, files, edits, touched, relay, board, klipper, phase,
                       samples, handler, failure, result, rollback>>
        /\ pc' = "review" /\ pc = "gates"
    BY <1>2 DEF Gates, Goto, PlaceInv, Opening, End
  <2>2. Attempted' = Attempted /\ Attempted = {}
    BY <2>1, Frame DEF Attempted
  <2> QED
    BY <2>1, <2>2 DEF TypeOK, Changed
<1>3. CASE Compare /\ ~UNCHANGED <<attempted, planned>>
  <2>1. PICK f \in NextFiles :
           IF files[f] = planned[f]
           THEN attempted' = Append(attempted, f) /\ Goto("upload")
           ELSE UNCHANGED attempted /\ Raise
    BY <1>3 DEF Compare
  <2>2. /\ attempted' = Append(attempted, f) /\ Goto("upload")
        /\ UNCHANGED <<method, files, edits, touched, relay, board, klipper, planned>>
    BY <1>3, <2>1 DEF Compare
  <2>3. /\ attempted' \in Seq(Files) /\ Len(attempted') = Len(attempted) + 1
        /\ Attempted' = Attempted \cup {f}
    BY <2>2, NextFilesAreNew, AppendEffect DEF TypeOK
  <2>4. /\ IsFiniteSet(Attempted')
        /\ Cardinality(Attempted') = Cardinality(Attempted) + 1
    BY <2>3, NextFilesAreNew, FS_AddElement
  <2>5. Attempted' \subseteq Changed'
    BY <2>2, <2>3, NextFilesAreNew, Frame DEF TypeOK
  <2>6. pc = "compare" /\ pc' = "upload"
    BY <1>3, <2>2 DEF Compare, Goto
  <2> QED
    BY <2>2, <2>3, <2>4, <2>5, <2>6 DEF TypeOK, Goto
<1>4. UNCHANGED <<attempted, planned>> \/ Gates \/ Compare
  BY DEF Next, Deployment, Around, Review, Revalidate, Power, Capability, Arm,
         Firmware, AskPowerOff, PowerOff, PowerOn, Switch, Installed, Absent,
         Present, WaitMoonraker, SampleReady, Expire, Versions, Recheck, Upload,
         Download, RestartMoonraker, Restart, RollbackFails, Restore,
         RestoredBytes, Confirm, Interrupt, Detach, Attach, Install, KlipperLost,
         KlipperStarts, Edit, NoWrite, Compared
<1> QED
  BY <1>0, <1>1, <1>2, <1>3, <1>4

-----------------------------------------------------------------------------
(* The firmware of the board.                                              *)

\* A board keeps the new firmware, and Klipper reports what the board runs.
LEMMA BoardStep ==
  ASSUME TypeOK, PlaceInv, Next
  PROVE  /\ mcu = "new" => mcu' = "new"
         /\ klipper'.version = "new" => klipper.version = "new" \/ mcu = "new"
<1>0. CASE Recovers
  BY <1>0, RecoversEffect
<1>90. CASE ~Recovers
  <2> USE <1>90 DEF TypeOK, PlaceInv
  <2>1. CASE Gates
    BY <2>1 DEF Gates, Goto, End
  <2>2. CASE Review
    BY <2>2 DEF Review, Goto, End, NoWrite
  <2>3. CASE Revalidate
    BY <2>3 DEF Revalidate, Goto, End, NoWrite
  <2>4. CASE Power
    BY <2>4 DEF Power, Goto, End, NoWrite
  <2>5. CASE Capability
    BY <2>5 DEF Capability, Goto, End, NoWrite
  <2>6. CASE Arm
    BY <2>6 DEF Arm, Goto, End, NoWrite, AfterArm
  <2>7. CASE Firmware
    BY <2>7 DEF Firmware, Goto, End, Outcomes
  <2>8. CASE AskPowerOff
    BY <2>8 DEF AskPowerOff, Goto, End, NoWrite
  <2>9. CASE PowerOff
    BY <2>9 DEF PowerOff, Switch, Goto, End
  <2>10. CASE PowerOn
    BY <2>10 DEF PowerOn, Switch, Goto, End
  <2>11. CASE Installed
    BY <2>11 DEF Installed, Goto, End, NoWrite
  <2>12. CASE Absent
    BY <2>12 DEF Absent, Goto, End, NoWrite
  <2>13. CASE Present
    BY <2>13 DEF Present, Goto, End, NoWrite
  <2>14. CASE WaitMoonraker
    BY <2>14 DEF WaitMoonraker, Goto, NoWrite, MoonrakerNext
  <2>15. CASE SampleReady
    BY <2>15 DEF SampleReady, ReadyNext
  <2>16. CASE Expire
    BY <2>16, ExpireEffect DEF End, Rollback, NoWrite
  <2>17. CASE Versions
    BY <2>17 DEF Versions, Goto, End, Rollback, NoWrite
  <2>18. CASE Recheck
    BY <2>18 DEF Recheck, End, NoWrite
  <2>19. CASE Compare
    BY <2>19, RaiseEffect DEF Compare, Goto, Rollback, End
  <2>20. CASE Upload
    BY <2>20, RaiseEffect DEF Upload, Goto, Rollback, End
  <2>21. CASE Download
    BY <2>21, RaiseEffect DEF Download, Goto, End, Rollback, NoWrite,
       Compared, Rollback, End
  <2>22. CASE RestartMoonraker
    BY <2>22, RaiseEffect DEF RestartMoonraker, NoWrite, Rollback, End
  <2>23. CASE Restart
    BY <2>23, RestartEffect, RaiseEffect DEF Rollback, End
  <2>24. CASE RollbackFails
    BY <2>24, NoRecovery
  <2>25. CASE Restore
    BY <2>25, RestoreEffect DEF Goto, NoWrite, Restored
  <2>26. CASE RestoredBytes
    BY <2>26, RestoreEffect DEF Goto, Compared, Restored
  <2>27. CASE Confirm
    BY <2>27, NoRecovery
  <2>28. CASE Interrupt
    BY <2>28, InterruptEffect DEF End, Rollback, NoWrite
  <2>29. CASE Detach
    BY <2>29 DEF Detach
  <2>30. CASE Attach
    BY <2>30 DEF Attach
  <2>31. CASE Install
    BY <2>31 DEF Install
  <2>32. CASE KlipperLost
    BY <2>32 DEF KlipperLost
  <2>33. CASE KlipperStarts
    BY <2>33 DEF KlipperStarts
  <2>34. CASE \E f \in Files : Edit(f)
    BY <2>34 DEF Edit
  <2> QED
    BY <2>1, <2>2, <2>3, <2>4, <2>5, <2>6, <2>7, <2>8, <2>9, <2>10, <2>11,
       <2>12, <2>13, <2>14, <2>15, <2>16, <2>17, <2>18, <2>19, <2>20, <2>21,
       <2>22, <2>23, <2>24, <2>25, <2>26, <2>27, <2>28, <2>29, <2>30, <2>31,
       <2>32, <2>33, <2>34 DEF Next, Deployment, Around
<1> QED
  BY <1>0, <1>90

\* The new firmware is seen before the files are compared again, and the files
\* are compared before any of them is attempted.
LEMMA PhaseStep ==
  ASSUME TypeOK, PlaceInv, Next
  PROVE  /\ phase' \in {"verify", "config", "final"}
               => phase \in {"verify", "config", "final"} \/ pc = "recheck"
         /\ pc' = "recheck" => pc = "recheck" \/ klipper.version = "new"
         /\ attempted' = attempted \/ pc = "compare"
         /\ planned' = planned \/ attempted' = <<>>
<1>0. CASE Recovers
  BY <1>0, RecoversEffect
<1>90. CASE ~Recovers
  <2> USE <1>90 DEF TypeOK, PlaceInv, Opening
  <2>1. CASE Gates
    BY <2>1 DEF Gates, Goto, End
  <2>2. CASE Review
    BY <2>2 DEF Review, Goto, End, NoWrite
  <2>3. CASE Revalidate
    BY <2>3 DEF Revalidate, Goto, End, NoWrite
  <2>4. CASE Power
    BY <2>4 DEF Power, Goto, End, NoWrite
  <2>5. CASE Capability
    BY <2>5 DEF Capability, Goto, End, NoWrite
  <2>6. CASE Arm
    BY <2>6 DEF Arm, Goto, End, NoWrite, AfterArm
  <2>7. CASE Firmware
    BY <2>7 DEF Firmware, Goto, End, Outcomes
  <2>8. CASE AskPowerOff
    BY <2>8 DEF AskPowerOff, Goto, End, NoWrite
  <2>9. CASE PowerOff
    BY <2>9 DEF PowerOff, Switch, Goto, End
  <2>10. CASE PowerOn
    BY <2>10 DEF PowerOn, Switch, Goto, End
  <2>11. CASE Installed
    BY <2>11 DEF Installed, Goto, End, NoWrite
  <2>12. CASE Absent
    BY <2>12 DEF Absent, Goto, End, NoWrite
  <2>13. CASE Present
    BY <2>13 DEF Present, Goto, End, NoWrite
  <2>14. CASE WaitMoonraker
    BY <2>14 DEF WaitMoonraker, Goto, NoWrite, MoonrakerNext
  <2>15. CASE SampleReady
    BY <2>15 DEF SampleReady, ReadyNext
  <2>16. CASE Expire
    BY <2>16, ExpireEffect DEF End, Rollback, NoWrite
  <2>17. CASE Versions
    BY <2>17 DEF Versions, Goto, End, Rollback, NoWrite
  <2>18. CASE Recheck
    BY <2>18 DEF Recheck, End, NoWrite
  <2>19. CASE Compare
    BY <2>19, RaiseEffect DEF Compare, Goto, Rollback, End
  <2>20. CASE Upload
    BY <2>20, RaiseEffect DEF Upload, Goto, Rollback, End
  <2>21. CASE Download
    BY <2>21, RaiseEffect DEF Download, Goto, End, Rollback, NoWrite,
       Compared, Rollback, End
  <2>22. CASE RestartMoonraker
    BY <2>22, RaiseEffect DEF RestartMoonraker, NoWrite, Rollback, End
  <2>23. CASE Restart
    BY <2>23, RestartEffect, RaiseEffect DEF Rollback, End
  <2>24. CASE RollbackFails
    BY <2>24, NoRecovery
  <2>25. CASE Restore
    BY <2>25, RestoreEffect DEF Goto, NoWrite, Restored
  <2>26. CASE RestoredBytes
    BY <2>26, RestoreEffect DEF Goto, Compared, Restored
  <2>27. CASE Confirm
    BY <2>27, NoRecovery
  <2>28. CASE Interrupt
    BY <2>28, InterruptEffect DEF End, Rollback, NoWrite
  <2>29. CASE Detach
    BY <2>29 DEF Detach
  <2>30. CASE Attach
    BY <2>30 DEF Attach
  <2>31. CASE Install
    BY <2>31 DEF Install
  <2>32. CASE KlipperLost
    BY <2>32 DEF KlipperLost
  <2>33. CASE KlipperStarts
    BY <2>33 DEF KlipperStarts
  <2>34. CASE \E f \in Files : Edit(f)
    BY <2>34 DEF Edit
  <2> QED
    BY <2>1, <2>2, <2>3, <2>4, <2>5, <2>6, <2>7, <2>8, <2>9, <2>10, <2>11,
       <2>12, <2>13, <2>14, <2>15, <2>16, <2>17, <2>18, <2>19, <2>20, <2>21,
       <2>22, <2>23, <2>24, <2>25, <2>26, <2>27, <2>28, <2>29, <2>30, <2>31,
       <2>32, <2>33, <2>34 DEF Next, Deployment, Around
<1> QED
  BY <1>0, <1>90

\* Printer.cfg is attempted last.
LEMMA RootStep ==
  ASSUME TypeOK, PlaceInv, Next, Root \in Attempted => Attempted = Changed
  PROVE  Root \in Attempted' => Attempted' = Changed'
<1>1. CASE UNCHANGED <<attempted, planned>>
  BY <1>1, Frame
<1>2. CASE attempted' = <<>>
  BY <1>2 DEF Attempted
<1>3. CASE attempted' # attempted
  <2>1. CASE Compare
    <3>1. PICK f \in NextFiles : attempted' = Append(attempted, f)
      BY <1>3, <2>1 DEF Compare
    <3>2. planned' = planned
      BY <2>1 DEF Compare
    <3>3. Attempted' = Attempted \cup {f} /\ Changed' = Changed
      BY <3>1, <3>2, NextFilesAreNew, AppendEffect, Frame DEF TypeOK
    <3>4. Attempted \subseteq Changed
      BY DEF TypeOK
    <3> QED
      BY <3>3, <3>4, NextFilesAreNew
  <2> QED
    BY <1>3, <2>1 DEF Next, Deployment, Around, Gates, Review, Revalidate, Power,
       Capability, Arm, Firmware, AskPowerOff, PowerOff, PowerOn, Switch,
       Installed, Absent, Present, WaitMoonraker, SampleReady, Expire, Versions,
       Recheck, Upload, Download, RestartMoonraker, Restart, RollbackFails,
       Restore, RestoredBytes, Confirm, Interrupt, Detach, Attach, Install,
       KlipperLost, KlipperStarts, Edit, NoWrite, Compared
<1> QED
  BY <1>1, <1>2, <1>3, PhaseStep

\* Every step keeps what the phases say of the firmware.
LEMMA FirmwareNext ==
  ASSUME TypeOK, PlaceInv, FirmwareInv, Next
  PROVE  FirmwareInv'
<1>1. PlaceInv'
  BY PlaceNext
<1>2. pc = "compare" => phase = "verify"
  BY DEF PlaceInv
<1> QED
  BY <1>2, BoardStep, PhaseStep, RootStep DEF FirmwareInv

-----------------------------------------------------------------------------
(* The diagnosis of the files.                                             *)

\* Whatever ends a deployment that has written, other than DONE and Ctrl+C during
\* a rollback, comes with the verdict of a recovery.
LEMMA DiagnosedNext ==
  ASSUME TypeOK, PlaceInv, DiagnosedInv, Next
  PROVE  DiagnosedInv'
<1>0. CASE Recovers
  BY <1>0, RecoversEffect DEF DiagnosedInv, WrittenIsDiagnosed
<1>90. CASE ~Recovers
  <2> USE <1>90, FilesAssumption DEF TypeOK, PlaceInv, Opening, DiagnosedInv, WrittenIsDiagnosed
  <2>1. CASE Gates
    BY <2>1 DEF Gates, Goto, End
  <2>2. CASE Review
    BY <2>2 DEF Review, Goto, End, NoWrite
  <2>3. CASE Revalidate
    BY <2>3 DEF Revalidate, Goto, End, NoWrite
  <2>4. CASE Power
    BY <2>4 DEF Power, Goto, End, NoWrite
  <2>5. CASE Capability
    BY <2>5 DEF Capability, Goto, End, NoWrite
  <2>6. CASE Arm
    BY <2>6 DEF Arm, Goto, End, NoWrite, AfterArm
  <2>7. CASE Firmware
    BY <2>7 DEF Firmware, Goto, End, Outcomes
  <2>8. CASE AskPowerOff
    BY <2>8 DEF AskPowerOff, Goto, End, NoWrite
  <2>9. CASE PowerOff
    BY <2>9 DEF PowerOff, Switch, Goto, End
  <2>10. CASE PowerOn
    BY <2>10 DEF PowerOn, Switch, Goto, End
  <2>11. CASE Installed
    BY <2>11 DEF Installed, Goto, End, NoWrite
  <2>12. CASE Absent
    BY <2>12 DEF Absent, Goto, End, NoWrite
  <2>13. CASE Present
    BY <2>13 DEF Present, Goto, End, NoWrite
  <2>14. CASE WaitMoonraker
    BY <2>14 DEF WaitMoonraker, Goto, NoWrite, MoonrakerNext
  <2>15. CASE SampleReady
    BY <2>15 DEF SampleReady, ReadyNext
  <2>16. CASE Expire
    BY <2>16, ExpireEffect DEF End, Rollback, NoWrite
  <2>17. CASE Versions
    BY <2>17 DEF Versions, Goto, End, Rollback, NoWrite
  <2>18. CASE Recheck
    BY <2>18 DEF Recheck, End, NoWrite
  <2>19. CASE Compare
    BY <2>19, AppendEffect, RaiseEffect DEF Compare, Goto, Rollback, End
  <2>20. CASE Upload
    BY <2>20, RaiseEffect DEF Upload, Goto, Rollback, End
  <2>21. CASE Download
    BY <2>21, RaiseEffect DEF Download, Goto, End, Rollback, NoWrite,
       Compared, Rollback, End
  <2>22. CASE RestartMoonraker
    BY <2>22, RaiseEffect DEF RestartMoonraker, NoWrite, Rollback, End
  <2>23. CASE Restart
    BY <2>23, RestartEffect, RaiseEffect DEF Rollback, End
  <2>24. CASE RollbackFails
    BY <2>24, NoRecovery
  <2>25. CASE Restore
    BY <2>25, RestoreEffect DEF Goto, NoWrite, Restored
  <2>26. CASE RestoredBytes
    BY <2>26, RestoreEffect DEF Goto, Compared, Restored
  <2>27. CASE Confirm
    BY <2>27, NoRecovery
  <2>28. CASE Interrupt
    BY <2>28, InterruptEffect DEF End, Rollback, NoWrite
  <2>29. CASE Detach
    BY <2>29 DEF Detach
  <2>30. CASE Attach
    BY <2>30 DEF Attach
  <2>31. CASE Install
    BY <2>31 DEF Install
  <2>32. CASE KlipperLost
    BY <2>32 DEF KlipperLost
  <2>33. CASE KlipperStarts
    BY <2>33 DEF KlipperStarts
  <2>34. CASE \E f \in Files : Edit(f)
    BY <2>34 DEF Edit
  <2> QED
    BY <2>1, <2>2, <2>3, <2>4, <2>5, <2>6, <2>7, <2>8, <2>9, <2>10, <2>11,
       <2>12, <2>13, <2>14, <2>15, <2>16, <2>17, <2>18, <2>19, <2>20, <2>21,
       <2>22, <2>23, <2>24, <2>25, <2>26, <2>27, <2>28, <2>29, <2>30, <2>31,
       <2>32, <2>33, <2>34 DEF Next, Deployment, Around
<1> QED
  BY <1>0, <1>90

-----------------------------------------------------------------------------
(* What Klipper has loaded.                                                *)

\* A step leaves the attempts and the plan alone unless it plans or attempts.
LEMMA PlanStep ==
  ASSUME TypeOK, PlaceInv, Next
  PROVE  /\ Changed' = Changed \/ (phase = "firmware" /\ phase' = "firmware")
         /\ \/ Attempted' = Attempted
            \/ phase = "verify" /\ phase' = "verify"
<1>1. Gates \/ Compare \/ UNCHANGED <<attempted, planned>>
  BY DEF Next, Deployment, Around, Review, Revalidate, Power, Capability, Arm,
         Firmware, AskPowerOff, PowerOff, PowerOn, Switch, Installed, Absent,
         Present, WaitMoonraker, SampleReady, Expire, Versions, Recheck, Upload,
         Download, RestartMoonraker, Restart, RollbackFails, Restore,
         RestoredBytes, Confirm, Interrupt, Detach, Attach, Install, KlipperLost,
         KlipperStarts, Edit, NoWrite, Compared
<1>2. CASE Gates
  BY <1>2, Frame DEF Gates, Goto, End, PlaceInv, Opening
<1>3. CASE Compare
  <2>1. pc = "compare" /\ phase = "verify" /\ Changed' = Changed
    BY <1>3, Frame DEF Compare, PlaceInv
  <2>2. attempted' = attempted \/ phase' = phase
    BY <1>3 DEF Compare, Goto
  <2> QED
    BY <2>1, <2>2, Frame
<1>4. CASE UNCHANGED <<attempted, planned>>
  BY <1>4, Frame
<1> QED
  BY <1>1, <1>2, <1>3, <1>4


\* Once the uploads are verified, a file that is not the published one is one
\* that others have saved.
LEMMA VerifiedNext ==
  ASSUME TypeOK, PlaceInv, Next, Verified => \A f \in Files : files[f] = "new" \/ f \in touched
  PROVE  Verified' => \A f \in Files : files'[f] = "new" \/ f \in touched'
<1>0. CASE Recovers
  BY <1>0, RecoversEffect DEF Verified
<1>90. CASE ~Recovers
  <2> USE <1>90 DEF TypeOK, PlaceInv, Opening, Verified, Wanted
  <2>1. CASE Gates
    BY <2>1 DEF Gates, Goto, End
  <2>2. CASE Review
    BY <2>2 DEF Review, Goto, End, NoWrite
  <2>3. CASE Revalidate
    BY <2>3 DEF Revalidate, Goto, End, NoWrite
  <2>4. CASE Power
    BY <2>4 DEF Power, Goto, End, NoWrite
  <2>5. CASE Capability
    BY <2>5 DEF Capability, Goto, End, NoWrite
  <2>6. CASE Arm
    BY <2>6 DEF Arm, Goto, End, NoWrite, AfterArm
  <2>7. CASE Firmware
    BY <2>7 DEF Firmware, Goto, End, Outcomes
  <2>8. CASE AskPowerOff
    BY <2>8 DEF AskPowerOff, Goto, End, NoWrite
  <2>9. CASE PowerOff
    BY <2>9 DEF PowerOff, Switch, Goto, End
  <2>10. CASE PowerOn
    BY <2>10 DEF PowerOn, Switch, Goto, End
  <2>11. CASE Installed
    BY <2>11 DEF Installed, Goto, End, NoWrite
  <2>12. CASE Absent
    BY <2>12 DEF Absent, Goto, End, NoWrite
  <2>13. CASE Present
    BY <2>13 DEF Present, Goto, End, NoWrite
  <2>14. CASE WaitMoonraker
    BY <2>14 DEF WaitMoonraker, Goto, NoWrite, MoonrakerNext
  <2>15. CASE SampleReady
    BY <2>15 DEF SampleReady, ReadyNext
  <2>16. CASE Expire
    BY <2>16, ExpireEffect DEF End, Rollback, NoWrite
  <2>17. CASE Versions
    BY <2>17 DEF Versions, Goto, End, Rollback, NoWrite
  <2>18. CASE Recheck
    BY <2>18 DEF Recheck, End, NoWrite
  <2>19. CASE Compare
    BY <2>19, RaiseEffect DEF Compare, Goto, Rollback, End
  <2>20. CASE Upload
    BY <2>20, RaiseEffect DEF Upload, Goto, Rollback, End
  <2>21. CASE Download
    BY <2>21, RaiseEffect DEF Download, Goto, End, Rollback, NoWrite,
       Compared, Rollback, End
  <2>22. CASE RestartMoonraker
    BY <2>22, RaiseEffect DEF RestartMoonraker, NoWrite, Rollback, End
  <2>23. CASE Restart
    BY <2>23, RestartEffect, RaiseEffect DEF Rollback, End
  <2>24. CASE RollbackFails
    BY <2>24, NoRecovery
  <2>25. CASE Restore
    BY <2>25, RestoreEffect DEF Goto, NoWrite, Restored
  <2>26. CASE RestoredBytes
    BY <2>26, RestoreEffect DEF Goto, Compared, Restored
  <2>27. CASE Confirm
    BY <2>27, NoRecovery
  <2>28. CASE Interrupt
    BY <2>28, InterruptEffect DEF End, Rollback, NoWrite
  <2>29. CASE Detach
    BY <2>29 DEF Detach
  <2>30. CASE Attach
    BY <2>30 DEF Attach
  <2>31. CASE Install
    BY <2>31 DEF Install
  <2>32. CASE KlipperLost
    BY <2>32 DEF KlipperLost
  <2>33. CASE KlipperStarts
    BY <2>33 DEF KlipperStarts
  <2>34. CASE \E f \in Files : Edit(f)
    BY <2>34 DEF Edit
  <2> QED
    BY <2>1, <2>2, <2>3, <2>4, <2>5, <2>6, <2>7, <2>8, <2>9, <2>10, <2>11,
       <2>12, <2>13, <2>14, <2>15, <2>16, <2>17, <2>18, <2>19, <2>20, <2>21,
       <2>22, <2>23, <2>24, <2>25, <2>26, <2>27, <2>28, <2>29, <2>30, <2>31,
       <2>32, <2>33, <2>34 DEF Next, Deployment, Around
<1> QED
  BY <1>0, <1>90

\* Klipper becomes ready by loading what is there, and the activation goes on
\* with a Klipper that was ready twice.
LEMMA ActivationStep ==
  ASSUME TypeOK, PlaceInv, ActiveInv, Next
  PROVE  /\ phase' = "config" /\ klipper'.state = "ready" => Active'
         /\ phase' = "config" /\ pc' = "versions" => Active'
         /\ phase' = "final" => Active'
<1>0. CASE Recovers
  BY <1>0, RecoversEffect DEF ActiveInv, Active
<1>90. CASE ~Recovers
  <2> USE <1>90, PlanStep DEF TypeOK, PlaceInv, Opening, ActiveInv, Active, Verified, Wanted
  <2>1. CASE Gates
    BY <2>1 DEF Gates, Goto, End
  <2>2. CASE Review
    BY <2>2 DEF Review, Goto, End, NoWrite
  <2>3. CASE Revalidate
    BY <2>3 DEF Revalidate, Goto, End, NoWrite
  <2>4. CASE Power
    BY <2>4 DEF Power, Goto, End, NoWrite
  <2>5. CASE Capability
    BY <2>5 DEF Capability, Goto, End, NoWrite
  <2>6. CASE Arm
    BY <2>6 DEF Arm, Goto, End, NoWrite, AfterArm
  <2>7. CASE Firmware
    BY <2>7 DEF Firmware, Goto, End, Outcomes
  <2>8. CASE AskPowerOff
    BY <2>8 DEF AskPowerOff, Goto, End, NoWrite
  <2>9. CASE PowerOff
    BY <2>9 DEF PowerOff, Switch, Goto, End
  <2>10. CASE PowerOn
    BY <2>10 DEF PowerOn, Switch, Goto, End
  <2>11. CASE Installed
    BY <2>11 DEF Installed, Goto, End, NoWrite
  <2>12. CASE Absent
    BY <2>12 DEF Absent, Goto, End, NoWrite
  <2>13. CASE Present
    BY <2>13 DEF Present, Goto, End, NoWrite
  <2>14. CASE WaitMoonraker
    BY <2>14 DEF WaitMoonraker, Goto, NoWrite, MoonrakerNext
  <2>15. CASE SampleReady
    BY <2>15 DEF SampleReady, ReadyNext
  <2>16. CASE Expire
    BY <2>16, ExpireEffect DEF End, Rollback, NoWrite
  <2>17. CASE Versions
    BY <2>17 DEF Versions, Goto, End, Rollback, NoWrite
  <2>18. CASE Recheck
    BY <2>18 DEF Recheck, End, NoWrite
  <2>19. CASE Compare
    BY <2>19, RaiseEffect DEF Compare, Goto, Rollback, End
  <2>20. CASE Upload
    BY <2>20, RaiseEffect DEF Upload, Goto, Rollback, End
  <2>21. CASE Download
    BY <2>21, RaiseEffect DEF Download, Goto, End, Rollback, NoWrite,
       Compared, Rollback, End
  <2>22. CASE RestartMoonraker
    BY <2>22, RaiseEffect DEF RestartMoonraker, NoWrite, Rollback, End
  <2>23. CASE Restart
    BY <2>23, RestartEffect, RaiseEffect DEF Rollback, End
  <2>24. CASE RollbackFails
    BY <2>24, NoRecovery
  <2>25. CASE Restore
    BY <2>25, RestoreEffect DEF Goto, NoWrite, Restored
  <2>26. CASE RestoredBytes
    BY <2>26, RestoreEffect DEF Goto, Compared, Restored
  <2>27. CASE Confirm
    BY <2>27, NoRecovery
  <2>28. CASE Interrupt
    BY <2>28, InterruptEffect DEF End, Rollback, NoWrite
  <2>29. CASE Detach
    BY <2>29 DEF Detach
  <2>30. CASE Attach
    BY <2>30 DEF Attach
  <2>31. CASE Install
    BY <2>31 DEF Install
  <2>32. CASE KlipperLost
    BY <2>32 DEF KlipperLost
  <2>33. CASE KlipperStarts
    BY <2>33 DEF KlipperStarts
  <2>34. CASE \E f \in Files : Edit(f)
    BY <2>34 DEF Edit
  <2> QED
    BY <2>1, <2>2, <2>3, <2>4, <2>5, <2>6, <2>7, <2>8, <2>9, <2>10, <2>11,
       <2>12, <2>13, <2>14, <2>15, <2>16, <2>17, <2>18, <2>19, <2>20, <2>21,
       <2>22, <2>23, <2>24, <2>25, <2>26, <2>27, <2>28, <2>29, <2>30, <2>31,
       <2>32, <2>33, <2>34 DEF Next, Deployment, Around
<1> QED
  BY <1>0, <1>90

\* A Klipper that is ready during the activation has loaded the published files.
LEMMA ActiveNext ==
  ASSUME TypeOK, PlaceInv, ActiveInv, Next
  PROVE  ActiveInv'
<1>1. (Verified => \A f \in Files : files[f] = "new" \/ f \in touched)'
  BY VerifiedNext DEF ActiveInv
<1>2. /\ (phase = "config" /\ klipper.state = "ready" => Active)'
      /\ (phase = "config" /\ pc = "versions" => Active)'
      /\ (phase = "final" => Active)'
  BY ActivationStep
<1> QED
  BY <1>1, <1>2 DEF ActiveInv


\* The same for a recovery: after its comparison only the saves of others differ
\* from the original files, and a Klipper that is ready has loaded those.
LEMMA RecoveryNext ==
  ASSUME TypeOK, PlaceInv, RecoveryInv, Next
  PROVE  RecoveryInv'
<1>0. CASE Recovers
  BY <1>0, RecoversEffect DEF RecoveryInv, Recalled
<1>90. CASE ~Recovers
  <2> USE <1>90, PlanStep DEF TypeOK, PlaceInv, Opening, RecoveryInv, Recalled
  <2>1. CASE Gates
    BY <2>1 DEF Gates, Goto, End
  <2>2. CASE Review
    BY <2>2 DEF Review, Goto, End, NoWrite
  <2>3. CASE Revalidate
    BY <2>3 DEF Revalidate, Goto, End, NoWrite
  <2>4. CASE Power
    BY <2>4 DEF Power, Goto, End, NoWrite
  <2>5. CASE Capability
    BY <2>5 DEF Capability, Goto, End, NoWrite
  <2>6. CASE Arm
    BY <2>6 DEF Arm, Goto, End, NoWrite, AfterArm
  <2>7. CASE Firmware
    BY <2>7 DEF Firmware, Goto, End, Outcomes
  <2>8. CASE AskPowerOff
    BY <2>8 DEF AskPowerOff, Goto, End, NoWrite
  <2>9. CASE PowerOff
    BY <2>9 DEF PowerOff, Switch, Goto, End
  <2>10. CASE PowerOn
    BY <2>10 DEF PowerOn, Switch, Goto, End
  <2>11. CASE Installed
    BY <2>11 DEF Installed, Goto, End, NoWrite
  <2>12. CASE Absent
    BY <2>12 DEF Absent, Goto, End, NoWrite
  <2>13. CASE Present
    BY <2>13 DEF Present, Goto, End, NoWrite
  <2>14. CASE WaitMoonraker
    BY <2>14 DEF WaitMoonraker, Goto, NoWrite, MoonrakerNext
  <2>15. CASE SampleReady
    BY <2>15 DEF SampleReady, ReadyNext
  <2>16. CASE Expire
    BY <2>16, ExpireEffect DEF End, Rollback, NoWrite
  <2>17. CASE Versions
    BY <2>17 DEF Versions, Goto, End, Rollback, NoWrite
  <2>18. CASE Recheck
    BY <2>18 DEF Recheck, End, NoWrite
  <2>19. CASE Compare
    BY <2>19, RaiseEffect DEF Compare, Goto, Rollback, End
  <2>20. CASE Upload
    BY <2>20, RaiseEffect DEF Upload, Goto, Rollback, End
  <2>21. CASE Download
    BY <2>21, RaiseEffect DEF Download, Goto, End, Rollback, NoWrite,
       Compared, Rollback, End
  <2>22. CASE RestartMoonraker
    BY <2>22, RaiseEffect DEF RestartMoonraker, NoWrite, Rollback, End
  <2>23. CASE Restart
    BY <2>23, RestartEffect, RaiseEffect DEF Rollback, End
  <2>24. CASE RollbackFails
    BY <2>24, NoRecovery
  <2>25. CASE Restore
    BY <2>25, RestoreEffect DEF Goto, NoWrite, Restored
  <2>26. CASE RestoredBytes
    BY <2>26, RestoreEffect DEF Goto, Compared, Restored
  <2>27. CASE Confirm
    BY <2>27, NoRecovery
  <2>28. CASE Interrupt
    BY <2>28, InterruptEffect DEF End, Rollback, NoWrite
  <2>29. CASE Detach
    BY <2>29 DEF Detach
  <2>30. CASE Attach
    BY <2>30 DEF Attach
  <2>31. CASE Install
    BY <2>31 DEF Install
  <2>32. CASE KlipperLost
    BY <2>32 DEF KlipperLost
  <2>33. CASE KlipperStarts
    BY <2>33 DEF KlipperStarts
  <2>34. CASE \E f \in Files : Edit(f)
    BY <2>34 DEF Edit
  <2> QED
    BY <2>1, <2>2, <2>3, <2>4, <2>5, <2>6, <2>7, <2>8, <2>9, <2>10, <2>11,
       <2>12, <2>13, <2>14, <2>15, <2>16, <2>17, <2>18, <2>19, <2>20, <2>21,
       <2>22, <2>23, <2>24, <2>25, <2>26, <2>27, <2>28, <2>29, <2>30, <2>31,
       <2>32, <2>33, <2>34 DEF Next, Deployment, Around
<1> QED
  BY <1>0, <1>90

-----------------------------------------------------------------------------
(* The theorems.                                                           *)

\* The first state satisfies the invariant.
LEMMA IInvInit ==
  ASSUME Init
  PROVE  IInv
<1>1. attempted = <<>> /\ Attempted = {}
  BY DEF Init, Attempted
<1>2. IsFiniteSet(Attempted) /\ Cardinality(Attempted) = 0 /\ Len(attempted) = 0
      /\ attempted \in Seq(Files)
  BY <1>1, FS_EmptySet
<1>3. files \in [Files -> Texts]
  BY DEF Init, Texts
<1>4. klipper \in [state : States, loaded : [Files -> Texts], version : {"old", "new"}]
  <2>1. [f \in Files |-> "old"] \in [Files -> Texts]
    BY DEF Texts
  <2> QED
    BY <1>3, <2>1 DEF Init, States
<1>5. rollback \in BOOLEAN \cup {Nothing}
  BY Zenon DEF Init
<1>6. TypeOK
  BY <1>1, <1>2, <1>3, <1>4, <1>5, FilesAssumption DEF Init, TypeOK
<1>7. PlaceInv
  BY <1>1 DEF Init, PlaceInv, Opening
<1>8. FirmwareInv
  BY <1>1, <1>7, FilesAssumption DEF Init, FirmwareInv
<1>9. DiagnosedInv /\ ActiveInv /\ RecoveryInv
  BY DEF Init, DiagnosedInv, WrittenIsDiagnosed, ActiveInv, Verified, RecoveryInv
<1> QED
  BY <1>2, <1>6, <1>7, <1>8, <1>9 DEF IInv

\* Every step, and a step of the surroundings, keeps it.
LEMMA IInvNext ==
  ASSUME IInv, [Next]_vars
  PROVE  IInv'
<1>1. CASE Next
  <2> USE <1>1 DEF IInv
  <2>1. TypeOK' /\ IsFiniteSet(Attempted)'
    BY TypeNext
  <2>2. PlaceInv' /\ FirmwareInv'
    BY PlaceNext, FirmwareNext
  <2>3. DiagnosedInv'
    BY DiagnosedNext
  <2>4. ActiveInv' /\ RecoveryInv'
    BY ActiveNext, RecoveryNext
  <2> QED
    BY <2>1, <2>2, <2>3, <2>4
<1>2. CASE UNCHANGED vars
  <2>1. UNCHANGED <<method, files, edits, touched, pc, phase, samples, planned,
                    attempted, handler, failure, result, rollback, relay,
                    attached, left, returned, media, mcu, klipper>>
    BY <1>2 DEF vars
  <2>2. Attempted' = Attempted /\ Changed' = Changed
    BY <2>1, Frame
  <2>3. TypeOK' /\ IsFiniteSet(Attempted)'
    BY <2>1, <2>2 DEF IInv, TypeOK
  <2>4. PlaceInv' /\ FirmwareInv'
    BY <2>1, <2>2 DEF IInv, PlaceInv, FirmwareInv
  <2>5. DiagnosedInv'
    BY <2>1, Zenon DEF IInv, DiagnosedInv, WrittenIsDiagnosed
  <2>6. ActiveInv' /\ RecoveryInv'
    BY <2>1, <2>2 DEF IInv, ActiveInv, Active, Verified, RecoveryInv, Recalled
  <2> QED
    BY <2>3, <2>4, <2>5, <2>6 DEF IInv
<1> QED
  BY <1>1, <1>2

\* The invariant of the deployment.
THEOREM IInvariance == Spec => []IInv
<1>1. Init => IInv
  BY IInvInit
<1>2. IInv /\ [Next]_vars => IInv'
  BY IInvNext
<1> QED
  BY <1>1, <1>2, PTL DEF Spec

\* Without an error of the kind TimeoutError, no file is written before the new
\* firmware was seen, printer.cfg is written last, and a deployment that wrote
\* and does not reach DONE says whether its files were restored: the gates, the
\* order of NextFiles and the ranks of the states in Deployer.run.
THEOREM FilesFollowFirmwareAlways ==
  "timeout" \notin Faults => (Spec => []FilesFollowFirmware)
<1> SUFFICES ASSUME "timeout" \notin Faults
             PROVE  Spec => []FilesFollowFirmware
  OBVIOUS
<1>1. IInv => FilesFollowFirmware
  BY DEF IInv, FirmwareInv, DiagnosedInv, FilesFollowFirmware, FirmwareBeforeFiles
<1> QED
  BY <1>1, IInvariance, PTL

\* With it, all of that but the diagnosis.
THEOREM FirmwareBeforeFilesAlways == Spec => [](TypeOK /\ FirmwareBeforeFiles)
<1>1. IInv => TypeOK /\ FirmwareBeforeFiles
  BY DEF IInv, FirmwareInv, FirmwareBeforeFiles
<1> QED
  BY <1>1, IInvariance, PTL


\* Only the final comparison leads to DONE.
LEMMA DoneStep ==
  ASSUME TypeOK, PlaceInv, Next, result' = "DONE", result = Nothing
  PROVE  phase = "final" /\ files = Wanted /\ UNCHANGED <<World, planned>>
<1>0. CASE Recovers
  <2>1. result' \in {"CANCELLED", failure}
    BY <1>0 DEF Recovers, Recovered
  <2> QED
    BY <1>0, <2>1 DEF Recovers, PlaceInv
<1>90. CASE ~Recovers
  <2> USE <1>90, FilesAssumption DEF TypeOK, PlaceInv, Opening, Results
  <2>1. CASE Gates
    BY <2>1 DEF Gates, Goto, End
  <2>2. CASE Review
    BY <2>2 DEF Review, Goto, End, NoWrite
  <2>3. CASE Revalidate
    BY <2>3 DEF Revalidate, Goto, End, NoWrite
  <2>4. CASE Power
    BY <2>4 DEF Power, Goto, End, NoWrite
  <2>5. CASE Capability
    BY <2>5 DEF Capability, Goto, End, NoWrite
  <2>6. CASE Arm
    BY <2>6 DEF Arm, Goto, End, NoWrite, AfterArm
  <2>7. CASE Firmware
    BY <2>7 DEF Firmware, Goto, End, Outcomes
  <2>8. CASE AskPowerOff
    BY <2>8 DEF AskPowerOff, Goto, End, NoWrite
  <2>9. CASE PowerOff
    BY <2>9 DEF PowerOff, Switch, Goto, End
  <2>10. CASE PowerOn
    BY <2>10 DEF PowerOn, Switch, Goto, End
  <2>11. CASE Installed
    BY <2>11 DEF Installed, Goto, End, NoWrite
  <2>12. CASE Absent
    BY <2>12 DEF Absent, Goto, End, NoWrite
  <2>13. CASE Present
    BY <2>13 DEF Present, Goto, End, NoWrite
  <2>14. CASE WaitMoonraker
    BY <2>14 DEF WaitMoonraker, Goto, NoWrite, MoonrakerNext
  <2>15. CASE SampleReady
    BY <2>15 DEF SampleReady, ReadyNext
  <2>16. CASE Expire
    BY <2>16, ExpireEffect DEF End, Rollback, NoWrite
  <2>17. CASE Versions
    BY <2>17 DEF Versions, Goto, End, Rollback, NoWrite
  <2>18. CASE Recheck
    BY <2>18 DEF Recheck, End, NoWrite
  <2>19. CASE Compare
    BY <2>19, RaiseEffect DEF Compare, Goto, Rollback, End
  <2>20. CASE Upload
    BY <2>20, RaiseEffect DEF Upload, Goto, Rollback, End
  <2>21. CASE Download
    BY <2>21, RaiseEffect DEF Download, Goto, End, Rollback, NoWrite,
       Compared, Rollback, End
  <2>22. CASE RestartMoonraker
    BY <2>22, RaiseEffect DEF RestartMoonraker, NoWrite, Rollback, End
  <2>23. CASE Restart
    BY <2>23, RestartEffect, RaiseEffect DEF Rollback, End
  <2>24. CASE RollbackFails
    BY <2>24, NoRecovery
  <2>25. CASE Restore
    BY <2>25, RestoreEffect DEF Goto, NoWrite, Restored
  <2>26. CASE RestoredBytes
    BY <2>26, RestoreEffect DEF Goto, Compared, Restored
  <2>27. CASE Confirm
    BY <2>27, NoRecovery
  <2>28. CASE Interrupt
    BY <2>28, InterruptEffect DEF End, Rollback, NoWrite
  <2>29. CASE Detach
    BY <2>29 DEF Detach
  <2>30. CASE Attach
    BY <2>30 DEF Attach
  <2>31. CASE Install
    BY <2>31 DEF Install
  <2>32. CASE KlipperLost
    BY <2>32 DEF KlipperLost
  <2>33. CASE KlipperStarts
    BY <2>33 DEF KlipperStarts
  <2>34. CASE \E f \in Files : Edit(f)
    BY <2>34 DEF Edit
  <2> QED
    BY <2>1, <2>2, <2>3, <2>4, <2>5, <2>6, <2>7, <2>8, <2>9, <2>10, <2>11,
       <2>12, <2>13, <2>14, <2>15, <2>16, <2>17, <2>18, <2>19, <2>20, <2>21,
       <2>22, <2>23, <2>24, <2>25, <2>26, <2>27, <2>28, <2>29, <2>30, <2>31,
       <2>32, <2>33, <2>34 DEF Next, Deployment, Around
<1> QED
  BY <1>0, <1>90

\* Only what ends a recovery gives a verdict.
LEMMA VerdictStep ==
  ASSUME TypeOK, PlaceInv, Next, ~Recovers
  PROVE  rollback' = rollback
<1> USE DEF PlaceInv, Opening
<1>1. CASE Gates
  BY <1>1 DEF Gates, Goto, End
<1>2. CASE Review
  BY <1>2 DEF Review, Goto, End, NoWrite
<1>3. CASE Revalidate
  BY <1>3 DEF Revalidate, Goto, End, NoWrite
<1>4. CASE Power
  BY <1>4 DEF Power, Goto, End, NoWrite
<1>5. CASE Capability
  BY <1>5 DEF Capability, Goto, End, NoWrite
<1>6. CASE Arm
  BY <1>6 DEF Arm, Goto, End, NoWrite, AfterArm
<1>7. CASE Firmware
  BY <1>7 DEF Firmware, Goto, End, Outcomes
<1>8. CASE AskPowerOff
  BY <1>8 DEF AskPowerOff, Goto, End, NoWrite
<1>9. CASE PowerOff
  BY <1>9 DEF PowerOff, Switch, Goto, End
<1>10. CASE PowerOn
  BY <1>10 DEF PowerOn, Switch, Goto, End
<1>11. CASE Installed
  BY <1>11 DEF Installed, Goto, End, NoWrite
<1>12. CASE Absent
  BY <1>12 DEF Absent, Goto, End, NoWrite
<1>13. CASE Present
  BY <1>13 DEF Present, Goto, End, NoWrite
<1>14. CASE WaitMoonraker
  BY <1>14 DEF WaitMoonraker, Goto, NoWrite, MoonrakerNext
<1>15. CASE SampleReady
  BY <1>15 DEF SampleReady, ReadyNext
<1>16. CASE Expire
  BY <1>16, ExpireEffect DEF End, Rollback, NoWrite
<1>17. CASE Versions
  BY <1>17 DEF Versions, Goto, End, Rollback, NoWrite
<1>18. CASE Recheck
  BY <1>18 DEF Recheck, End, NoWrite
<1>19. CASE Compare
  BY <1>19, RaiseEffect DEF Compare, Goto, Rollback, End
<1>20. CASE Upload
  BY <1>20, RaiseEffect DEF Upload, Goto, Rollback, End
<1>21. CASE Download
  BY <1>21, RaiseEffect DEF Download, Goto, End, Rollback, NoWrite,
     Compared, Rollback, End
<1>22. CASE RestartMoonraker
  BY <1>22, RaiseEffect DEF RestartMoonraker, NoWrite, Rollback, End
<1>23. CASE Restart
  BY <1>23, RestartEffect, RaiseEffect DEF Rollback, End
<1>24. CASE RollbackFails
  BY <1>24, NoRecovery
<1>25. CASE Restore
  BY <1>25, RestoreEffect DEF Goto, NoWrite, Restored
<1>26. CASE RestoredBytes
  BY <1>26, RestoreEffect DEF Goto, Compared, Restored
<1>27. CASE Confirm
  BY <1>27, NoRecovery
<1>28. CASE Interrupt
  BY <1>28, InterruptEffect DEF End, Rollback, NoWrite
<1>29. CASE Detach
  BY <1>29 DEF Detach
<1>30. CASE Attach
  BY <1>30 DEF Attach
<1>31. CASE Install
  BY <1>31 DEF Install
<1>32. CASE KlipperLost
  BY <1>32 DEF KlipperLost
<1>33. CASE KlipperStarts
  BY <1>33 DEF KlipperStarts
<1>34. CASE \E f \in Files : Edit(f)
  BY <1>34 DEF Edit
<1> QED
  BY <1>1, <1>2, <1>3, <1>4, <1>5, <1>6, <1>7, <1>8, <1>9, <1>10, <1>11,
     <1>12, <1>13, <1>14, <1>15, <1>16, <1>17, <1>18, <1>19, <1>20, <1>21,
     <1>22, <1>23, <1>24, <1>25, <1>26, <1>27, <1>28, <1>29, <1>30, <1>31,
     <1>32, <1>33, <1>34 DEF Next, Deployment, Around

\* Only the last comparison of a recovery reports it as successful.
LEMMA RecoveredStep ==
  ASSUME TypeOK, PlaceInv, Next, rollback' = TRUE, rollback = Nothing
  PROVE  pc = "confirm" /\ Restored /\ phase = "rollback"
<1>1. ~(rollback' = rollback) /\ ~Recovered(FALSE)
  <2>1. Nothing # TRUE
    BY FilesAssumption, Zenon
  <2>2. Recovered(FALSE) => rollback' = FALSE
    BY Zenon DEF Recovered
  <2> QED
    BY <2>1, <2>2, Zenon
<1>2. Recovers
  BY <1>1, VerdictStep, Zenon
<1>3. phase = "rollback"
  BY <1>2, Zenon DEF Recovers
<1>4. ~Expire
  <2>1. ~(phase = "firmware") /\ ~(phase \in {"verify", "config"})
    BY <1>3
  <2> QED
    BY <1>1, <2>1, Zenon DEF Expire, WaitFails
<1>5. ~Restart /\ ~Restore /\ ~RestoredBytes /\ ~RollbackFails
  BY <1>1, Zenon DEF Restart, Restore, RestoredBytes, RollbackFails, Goto, Raise,
     Rollback, End
<1>6. ~Interrupt
  BY <1>1, Zenon DEF Interrupt, Rollback, End
<1>7. Confirm
  BY <1>2, <1>4, <1>5, <1>6, Zenon DEF Recovers
<1>8. pc = "confirm" /\ rollback' = Restored
  BY <1>7, Zenon DEF Confirm, Recovered
<1>9. Restored
  <2>1. (\A f \in Attempted : files[f] = planned[f]) = TRUE
    BY <1>8, Zenon DEF Restored
  <2> QED
    BY <2>1 DEF Restored
<1> QED
  BY <1>3, <1>8, <1>9

\* A deployment is only DONE with the new firmware, the published files and a
\* Klipper that loaded them, and a recovery only successful with the original
\* files and a Klipper that loaded those; what others saved and put back since
\* the comparison is left out.  Every path of Deployer.run and _rollback.
THEOREM ActiveAsReportedAlways == Spec => ActiveAsReported
<1>1. ASSUME IInv, Next, result' = "DONE", result = Nothing
      PROVE  /\ mcu = "new" /\ files = Wanted
             /\ Changed # {} =>
                  \A f \in Files : klipper.loaded[f] = "new" \/ f \in touched
  <2>1. phase = "final" /\ files = Wanted
    BY <1>1, DoneStep DEF IInv
  <2> QED
    BY <1>1, <2>1 DEF IInv, FirmwareInv, ActiveInv, Active
<1>2. ASSUME IInv, Next, rollback' = TRUE, rollback = Nothing
      PROVE  \A f \in Attempted :
               /\ files[f] = planned[f]
               /\ klipper.loaded[f] = planned[f] \/ f \in touched
  <2>1. pc = "confirm" /\ Restored /\ phase = "rollback"
    BY <1>2, RecoveredStep DEF IInv
  <2> QED
    BY <1>2, <2>1 DEF IInv, RecoveryInv, Recalled, Restored
<1>3. IInv /\ [Next]_vars =>
        [result' = "DONE" /\ result = Nothing =>
            /\ mcu = "new" /\ files = Wanted
            /\ Changed # {} =>
                  \A f \in Files : klipper.loaded[f] = "new" \/ f \in touched]_vars
  BY <1>1
<1>4. IInv /\ [Next]_vars =>
        [rollback' = TRUE /\ rollback = Nothing =>
            \A f \in Attempted :
                /\ files[f] = planned[f]
                /\ klipper.loaded[f] = planned[f] \/ f \in touched]_vars
  BY <1>2
<1>5. Spec => DoneIsActive
  BY <1>3, IInvariance, PTL DEF Spec, DoneIsActive
<1>6. Spec => RecoveryIsActive
  BY <1>4, IInvariance, PTL DEF Spec, RecoveryIsActive
<1> QED
  BY <1>5, <1>6 DEF ActiveAsReported

=============================================================================
