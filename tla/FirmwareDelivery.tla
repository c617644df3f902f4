-------------------------- MODULE FirmwareDelivery --------------------------
(***************************************************************************)
(* firmware/deployment: from a compiled artifact over an exact board       *)
(* profile and a staged copy to a flashed board or a prepared medium.      *)
(* Files are known by their content and may be changed by others between   *)
(* any two steps; messages, file names and events are left out.            *)
(***************************************************************************)
EXTENDS Naturals, FiniteSets

CONSTANTS
    Board,          \* the board ids
    Startup,        \* those that need startup pins in the firmware
    Robin,          \* those whose bootloader wants an encoded image
    Mcu, Offset,    \* resolved models and application addresses
    Bridge,         \* USB VID:PIDs
    NoBridge,       \* none was seen, or the device has no by-id path
    ProfileItems,   \* the entries a profile file may have
    MaxTampers      \* bound on the changes others make to the files

VARIABLES
    profiles,       \* the loaded profiles
    target,         \* the board, its detected MCU and the bridge it is behind
    artifact,       \* what the build says of itself
    method, plan,   \* what the operator chose and the profile it resolved to
    pc,
    build,          \* content of the build's file
    staged,         \* content of the staged copy
    encoded,        \* the staged copy has a transformation proof
    payload,        \* what was read after the confirmation
    medium, scrap,  \* the firmware file on the medium, and a temporary one
    board,          \* what runs on the board
    status,         \* the DeploymentStatus, "none" before
    tampers

files == <<build, staged, encoded>>
goals == <<payload, medium, scrap, board>>
fixed == <<profiles, target, artifact>>
vars == <<fixed, method, plan, pc, files, goals, status, tampers>>

Methods == {"MANUAL", "USB"}
Content == {"absent", "native", "robin", "other"}

-----------------------------------------------------------------------------
(* The profiles.                                                           *)

Profile == [boards : SUBSET Board, method : Methods,
            strategy : {"AVRDUDE", "SD_CARD", "PREPARE_ONLY"}, auto : BOOLEAN,
            mcu : Mcu, offset : Offset, bridges : SUBSET Bridge]

ASSUME DeliveryAssumption ==
    /\ Startup \cup Robin \subseteq Board
    /\ NoBridge \notin Bridge
    /\ ProfileItems \subseteq Profile
    /\ MaxTampers \in Nat

\* _validate_profile
Valid(p) ==
    /\ p.boards # {}
    /\ p.strategy = "AVRDUDE" => p.method = "USB" /\ p.auto /\ p.bridges # {}
    /\ p.strategy # "AVRDUDE" => p.method = "MANUAL" /\ ~p.auto
    /\ p.strategy = "SD_CARD" => p.bridges # {}

\* load_profiles: one profile per board and method.
Loaded(set) ==
    /\ set # {}
    /\ \A p \in set : Valid(p)
    /\ \A p, q \in set : p # q => p.method # q.method \/ p.boards \cap q.boards = {}

\* Mutant: an artifact for another application address passes.
FitsAnyOffset(p) == p.mcu = artifact.mcu /\ p.mcu = target.mcu

\* profile_artifact_blockers finds nothing.
Fits(p) == /\ p.mcu = artifact.mcu
           /\ p.mcu = target.mcu
           /\ p.offset = artifact.offset

Fallback == [boards |-> {}, method |-> "MANUAL", strategy |-> "PREPARE_ONLY",
             auto |-> FALSE, mcu |-> artifact.mcu, offset |-> artifact.offset,
             bridges |-> {}]

OfBoard == {p \in profiles : target.board \in p.boards}

Available == IF OfBoard = {} THEN {"MANUAL"} ELSE {p.method : p \in {q \in OfBoard : Fits(q)}}

\* Mutant: the first profile of the method is taken, whatever it says.
ResolveAny(m) ==
    IF OfBoard = {} THEN (IF m = "MANUAL" THEN {Fallback} ELSE {})
    ELSE {p \in OfBoard : p.method = m}

\* resolve: the profiles it may return; none means that it raises.
Resolve(m) ==
    IF OfBoard = {} THEN (IF m = "MANUAL" THEN {Fallback} ELSE {})
    ELSE {p \in OfBoard : p.method = m /\ Fits(p)}

\* _automation_blockers finds nothing.
Eligible == plan.strategy = "AVRDUDE" /\ plan.auto /\ target.bridge \in plan.bridges

-----------------------------------------------------------------------------
TypeOK ==
    /\ profiles \subseteq Profile
    /\ method \in Methods \cup {"none"}
    /\ plan \in Profile
    /\ {build, staged, payload, scrap} \subseteq Content
    /\ medium \in Content \cup {"earlier"}
    /\ board \in Content \cup {"earlier", "partial"}
    /\ encoded \in BOOLEAN
    /\ status \in {"none", "refused", "MEDIA_PREPARED", "ACTION_REQUIRED",
                   "FLASHED", "CANCELLED", "FAILED"}
    /\ tampers \in 0 .. MaxTampers

Init ==
    /\ \E items \in SUBSET ProfileItems :
           Cardinality(items) <= 2 /\ Loaded(items) /\ profiles = items
    /\ target \in [board : Board, mcu : Mcu, bridge : Bridge \cup {NoBridge}]
    /\ artifact \in [mcu : Mcu, offset : Offset, deployable : BOOLEAN]
    /\ method = "none"
    /\ plan = Fallback
    /\ pc = "plan"
    /\ build = "native" /\ staged = "absent" /\ encoded = FALSE
    /\ payload = "absent" /\ medium = "earlier" /\ scrap = "absent" /\ board = "earlier"
    /\ status = "none"
    /\ tampers = 0

Goto(step) == pc' = step /\ UNCHANGED status
Return(result) == pc' = "done" /\ status' = result

\* _require_startup: a board's startup pins are looked up in the file itself.
StartupIn(content) == target.board \in Startup => content = "native"

-----------------------------------------------------------------------------
(* plan and prepare.                                                       *)

Plan ==
    /\ pc = "plan"
    /\ method' \in Methods
    /\ IF artifact.deployable /\ StartupIn(build) /\ Resolve(method') # {}
       THEN plan' \in Resolve(method') /\ \E step \in {"copy", "encode"} : Goto(step)
       ELSE Return("refused") /\ UNCHANGED plan
    /\ UNCHANGED <<fixed, files, goals, tampers>>

\* prepare copies the build under the name of the profile ...
Copy ==
    /\ pc = "copy"
    /\ IF build # "absent" /\ StartupIn(build) THEN staged' = build /\ Goto("digest")
       ELSE Return("refused") /\ UNCHANGED staged
    /\ UNCHANGED <<fixed, method, plan, build, encoded, goals, tampers>>

\* ... and compares the copy with the build's identity.
Digest ==
    /\ pc = "digest"
    /\ IF staged = "native" THEN Goto("execute") ELSE Return("refused")
    /\ UNCHANGED <<fixed, method, plan, files, goals, tampers>>

\* prepare_robin: an image that is there already is never replaced.
Encode ==
    /\ pc = "encode"
    /\ IF /\ plan.strategy = "PREPARE_ONLY" /\ target.board \in Robin
          /\ build = "native" /\ staged = "absent"
       THEN staged' = "robin" /\ encoded' = TRUE /\ Goto("execute")
       ELSE Return("refused") /\ UNCHANGED <<staged, encoded>>
    /\ UNCHANGED <<fixed, method, plan, build, goals, tampers>>

-----------------------------------------------------------------------------
(* execute.                                                                *)

\* verify_prepared_artifact
Prepared ==
    IF encoded THEN build = "native" /\ staged = "robin" ELSE staged = "native"

Execute ==
    /\ pc = "execute"
    /\ IF Prepared /\ StartupIn(IF encoded THEN build ELSE staged)
       THEN Goto(IF method = "USB" THEN "usb" ELSE "manual")
       ELSE Return("FAILED")
    /\ UNCHANGED <<fixed, method, plan, files, goals, tampers>>

\* UsbDeploymentMethod.execute up to the question.
Usb ==
    /\ pc = "usb"
    /\ IF staged # "native" THEN Return("FAILED")
       ELSE IF ~Eligible THEN Return("ACTION_REQUIRED") ELSE Goto("confirm")
    /\ UNCHANGED <<fixed, method, plan, files, goals, tampers>>

\* Mutant: the error code is returned as the status.
ConfirmCode ==
    /\ pc = "confirm"
    /\ \/ Goto("payload")
       \/ \E r \in {"CANCELLED", "BACKEND_MISSING"} : Return(r)
    /\ UNCHANGED <<fixed, method, plan, files, goals, tampers>>

Confirm ==
    /\ pc = "confirm"
    /\ \/ Goto("payload")
       \/ \E r \in {"CANCELLED", "FAILED"} : Return(r)
    /\ UNCHANGED <<fixed, method, plan, files, goals, tampers>>

\* Mutant: what was approved before the question is flashed.
PayloadTrusted ==
    /\ pc = "payload"
    /\ payload' = staged
    /\ IF staged # "absent" THEN Goto("flash") ELSE Return("FAILED")
    /\ UNCHANGED <<fixed, method, plan, files, medium, scrap, board, tampers>>

\* The file is read once more, and what was read is compared and flashed.
Payload ==
    /\ pc = "payload"
    /\ payload' = staged
    /\ IF staged = "native" THEN Goto("flash") ELSE Return("FAILED")
    /\ UNCHANGED <<fixed, method, plan, files, medium, scrap, board, tampers>>

\* avrdude may fail or run into its time limit with anything on the board.
Flash ==
    /\ pc = "flash"
    /\ \/ board' = payload /\ Return("FLASHED")
       \/ board' \in {board, payload, "partial"} /\ Return("FAILED")
    /\ UNCHANGED <<fixed, method, plan, files, payload, medium, scrap, tampers>>

\* ManualDeploymentMethod.execute; without a medium the operator is told where
\* the staged file is.
Manual ==
    /\ pc = "manual"
    /\ IF ~Prepared THEN Return("FAILED")
       ELSE IF plan.strategy = "PREPARE_ONLY" THEN Return("ACTION_REQUIRED")
       ELSE \/ Goto("place")
            \/ \E r \in {"CANCELLED", "FAILED"} : Return(r)
    /\ UNCHANGED <<fixed, method, plan, files, goals, tampers>>

\* Mutant: a copy that fails leaves its temporary file.
PlaceLeaves ==
    /\ pc = "place"
    /\ IF staged = "absent" THEN Return("FAILED") /\ UNCHANGED scrap
       ELSE \/ scrap' = staged /\ Goto("compare")
            \/ scrap' = "other" /\ Return("FAILED")
    /\ UNCHANGED <<fixed, method, plan, files, payload, medium, board, tampers>>

Place ==
    /\ pc = "place"
    /\ \/ staged # "absent" /\ scrap' = staged /\ Goto("compare")
       \/ Return("FAILED") /\ UNCHANGED scrap
    /\ UNCHANGED <<fixed, method, plan, files, payload, medium, board, tampers>>

\* Mutant: the staged file is compared instead of the copy.
CompareStaged ==
    /\ pc = "compare"
    /\ scrap' = "absent"
    /\ \/ staged = "native" /\ medium' = scrap /\ Return("MEDIA_PREPARED")
       \/ UNCHANGED medium /\ Return("FAILED")
    /\ UNCHANGED <<fixed, method, plan, files, payload, board, tampers>>

\* The copy on the medium is compared before it gets its name.
Compare ==
    /\ pc = "compare"
    /\ scrap' = "absent"
    /\ \/ scrap = "native" /\ medium' = scrap /\ Return("MEDIA_PREPARED")
       \/ UNCHANGED medium /\ Return("FAILED")
    /\ UNCHANGED <<fixed, method, plan, files, payload, board, tampers>>

-----------------------------------------------------------------------------
\* Another build, or somebody, replaces or removes a file.
Tamper ==
    /\ tampers < MaxTampers
    /\ pc # "done"
    /\ tampers' = tampers + 1
    /\ \E content \in {"absent", "native", "other"} :
           \/ build' = content /\ UNCHANGED staged
           \/ staged' = content /\ UNCHANGED build
    /\ UNCHANGED <<fixed, method, plan, pc, encoded, goals, status>>

Next == \/ Plan \/ Copy \/ Digest \/ Encode \/ Execute
        \/ Usb \/ Confirm \/ Payload \/ Flash
        \/ Manual \/ Place \/ Compare \/ Tamper

Spec == Init /\ [][Next]_vars

-----------------------------------------------------------------------------
(* Properties.                                                             *)

\* Whatever others do to the build and to the staged file at any time, what
\* KACE puts on the board or under the firmware's name on a medium is the build
\* whose identity was approved ("AVRDUDE consumes the exact bytes rehashed
\* after operator confirmation").
DeliveredIsApproved ==
    /\ medium \in {"earlier", "native"}
    /\ board \in {"earlier", "partial", "native"}
    /\ status = "FLASHED" => board = "native"
    /\ status = "MEDIA_PREPARED" => medium = "native"

\* Firmware reaches a board or a medium only by a profile of exactly this
\* board, for which both the build and the detected MCU are of its model and
\* the build starts where the bootloader jumps to; over USB only behind a
\* bridge the profile lists.
DeliveredFits ==
    (board # "earlier" \/ medium # "earlier") =>
        /\ plan \in OfBoard
        /\ artifact.mcu = target.mcu /\ artifact.offset = plan.offset
        /\ board # "earlier" => target.bridge \in plan.bridges

\* The methods the menu offers are those that can be planned, and a method
\* names one profile.
MenuIsPlannable ==
    \A m \in Methods : /\ m \in Available <=> Resolve(m) # {}
                       /\ Cardinality(Resolve(m)) <= 1

\* A delivery that was not made leaves nothing behind: no temporary file on the
\* medium, and after a cancellation neither medium nor board is touched.
LeavesNothingBehind ==
    /\ pc = "done" => scrap = "absent"
    /\ status \in {"CANCELLED", "ACTION_REQUIRED", "refused"} =>
           board = "earlier" /\ medium = "earlier"
=============================================================================
