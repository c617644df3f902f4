----------------------------- MODULE WizardProofs -----------------------------
(***************************************************************************)
(* Theorems about the steps of the wizard in WizardParts, and about the    *)
(* runner over the catalogue of steps.                                     *)
(***************************************************************************)
EXTENDS Wizard, WizardParts, Integers, TLAPS

-----------------------------------------------------------------------------
(* ZSocketAssignment: for any number of Z motors and spare sockets, with   *)
(* any TMC sections and any motors already described.                      *)

\* The motors before the question have pins; the others have none of a socket.
\* Where a motor has pins, assigned says whose; elsewhere it may be stale.
QuestionInv ==
    /\ \A m \in Sockets!Motors : m < zIdx => pins[m] # None
    /\ \A m \in Sockets!Motors : m >= zIdx => pins[m] \notin Spare
    /\ \A m \in Sockets!Motors : pins[m] # None =>
           assigned[m] = pins[m] \/ (pins[m] = Own /\ assigned[m] = None)
    /\ asking \in {"assigned", "done"} => zIdx > ZMotors

\* A socket on offer moves nothing, and one that is taken moves one motor.
SocketInv ==
    /\ \A s \in Spare, m \in Sockets!Motors : pins[m] = s => s \notin available
    /\ \A s \in Spare \ available : \E m \in Sockets!Motors : pins[m] = s
    /\ \A m, n \in Sockets!Motors : pins[m] \in Spare /\ pins[m] = pins[n] => m = n

MotorInv == Sockets!TypeOK /\ QuestionInv /\ SocketInv /\ Sockets!ChipFollowsPins

\* The first state satisfies the invariant.
LEMMA MotorInit ==
  ASSUME Sockets!SocketAssumption, Sockets!Init
  PROVE  MotorInv
<1> USE DEF Sockets!SocketAssumption, Sockets!Init, Sockets!Motors
<1>1. Sockets!TypeOK
  BY DEF Sockets!TypeOK
<1> QED
  BY <1>1 DEF MotorInv, QuestionInv, SocketInv, Sockets!ChipFollowsPins

\* Every step keeps the types.
LEMMA MotorType ==
  ASSUME Sockets!SocketAssumption, Sockets!TypeOK, [Sockets!Next]_(Sockets!vars)
  PROVE  Sockets!TypeOK'
<1> USE DEF Sockets!TypeOK, Sockets!Asking, Sockets!Motors, Sockets!SocketAssumption
<1>1. CASE Sockets!Skip
  BY <1>1 DEF Sockets!Skip
<1>2. CASE Sockets!TypePins
  BY <1>2 DEF Sockets!TypePins
<1>3. CASE Sockets!Leave
  BY <1>3 DEF Sockets!Leave
<1>4. CASE Sockets!Back
  BY <1>4 DEF Sockets!Back
<1>5. CASE Sockets!Finish
  BY <1>5 DEF Sockets!Finish
<1>6. CASE Sockets!MapTmc
  <2>1. asking' \in {"done", "back", "left"}
    BY <1>6 DEF Sockets!MapTmc
  <2>2. tmc' = tmc \/ tmc' = [m \in Sockets!Motors |-> assigned[m]]
    BY <1>6 DEF Sockets!MapTmc
  <2>3. tmc' \in [Sockets!Motors -> Spare \cup {None, Custom, Own}]
    BY <2>2
  <2> QED
    BY <1>6, <2>1, <2>3 DEF Sockets!MapTmc
<1>7. CASE \E s \in Spare : Sockets!ChooseSocket(s)
  BY <1>7 DEF Sockets!ChooseSocket
<1>8. CASE UNCHANGED Sockets!vars
  BY <1>8 DEF Sockets!vars
<1> QED
  BY <1>1, <1>2, <1>3, <1>4, <1>5, <1>6, <1>7, <1>8 DEF Sockets!Next

\* Every step keeps the motors before the question and the sockets apart.
LEMMA MotorPins ==
  ASSUME Sockets!SocketAssumption, MotorInv, [Sockets!Next]_(Sockets!vars)
  PROVE  (QuestionInv /\ SocketInv)'
<1> USE DEF MotorInv, Sockets!TypeOK, QuestionInv, SocketInv, Sockets!Asking, Sockets!Motors,
           Sockets!SocketAssumption
<1>1. CASE Sockets!Skip
  BY <1>1 DEF Sockets!Skip
<1>2. CASE Sockets!TypePins
  BY <1>2 DEF Sockets!TypePins
<1>3. CASE Sockets!Leave
  BY <1>3 DEF Sockets!Leave
<1>4. CASE Sockets!Back
  <2>1. zIdx - 1 \in Sockets!Motors /\ zIdx' = zIdx - 1 /\ UNCHANGED <<assigned, tmc, asking>>
    BY <1>4 DEF Sockets!Back
  <2>2. CASE assigned[zIdx - 1] \in Spare
    <3>1. pins[zIdx - 1] = assigned[zIdx - 1]
      BY <2>1, <2>2
    <3>2. /\ available' = available \cup {assigned[zIdx - 1]}
          /\ pins' = [pins EXCEPT ![zIdx - 1] = None]
      BY <1>4, <2>2 DEF Sockets!Back
    <3> QED
      BY <1>4, <2>1, <2>2, <3>1, <3>2 DEF Sockets!Back
  <2>3. CASE assigned[zIdx - 1] \notin Spare
    <3>1. UNCHANGED <<available, pins>> /\ pins[zIdx - 1] \notin Spare
      BY <1>4, <2>1, <2>3 DEF Sockets!Back
    <3> QED
      BY <1>4, <2>1, <3>1 DEF Sockets!Back
  <2> QED
    BY <2>2, <2>3
<1>5. CASE Sockets!Finish
  BY <1>5 DEF Sockets!Finish
<1>6. CASE Sockets!MapTmc
  BY <1>6 DEF Sockets!MapTmc
<1>7. CASE \E s \in Spare : Sockets!ChooseSocket(s)
  <2>1. PICK s \in Spare : Sockets!ChooseSocket(s)
    BY <1>7
  <2>2. QuestionInv'
    BY <2>1 DEF Sockets!ChooseSocket
  <2>3. SocketInv'
    BY <2>1 DEF Sockets!ChooseSocket
  <2> QED
    BY <2>2, <2>3
<1>8. CASE UNCHANGED Sockets!vars
  BY <1>8 DEF Sockets!vars
<1> QED
  BY <1>1, <1>2, <1>3, <1>4, <1>5, <1>6, <1>7, <1>8 DEF Sockets!Next

\* The chips are mapped once, when every motor has its pins.
LEMMA MotorChips ==
  ASSUME Sockets!SocketAssumption, MotorInv, [Sockets!Next]_(Sockets!vars)
  PROVE  Sockets!ChipFollowsPins'
<1> USE DEF MotorInv, Sockets!ChipFollowsPins
<1>1. CASE Sockets!MapTmc
  <2> SUFFICES ASSUME asking' = "done", DriverMode # "Standalone", NEW m \in Sockets!Motors,
                      pins'[m] \in Spare \cup {Custom}
               PROVE  tmc'[m] = pins'[m]
    BY DEF Sockets!ChipFollowsPins
  <2>1. tmc' = [n \in Sockets!Motors |-> assigned[n]] /\ pins' = pins
    BY <1>1 DEF Sockets!MapTmc
  <2>2. pins[m] # None /\ pins[m] # Own
    BY <2>1 DEF Sockets!SocketAssumption
  <2>3. assigned[m] = pins[m]
    BY <2>2 DEF QuestionInv
  <2> QED
    BY <2>1, <2>3
<1>2. CASE \/ Sockets!Skip \/ Sockets!TypePins \/ Sockets!Leave \/ Sockets!Back
           \/ Sockets!Finish \/ \E s \in Spare : Sockets!ChooseSocket(s)
  BY <1>2 DEF Sockets!Skip, Sockets!TypePins, Sockets!Leave, Sockets!Back, Sockets!Finish,
              Sockets!ChooseSocket, Sockets!Asking
<1>3. CASE UNCHANGED Sockets!vars
  BY <1>3 DEF Sockets!vars
<1> QED
  BY <1>1, <1>2, <1>3 DEF Sockets!Next

\* What the property says of each socket.
LEMMA OneEach ==
  ASSUME Sockets!TypeOK, SocketInv
  PROVE  Sockets!OneMotorPerSocket
<1>1. ASSUME NEW s \in available, NEW m \in Sockets!Motors
      PROVE  pins[m] # s
  BY <1>1 DEF SocketInv, Sockets!TypeOK
<1>2. ASSUME NEW s \in Spare \ available
      PROVE  \E m \in Sockets!Motors : \A n \in Sockets!Motors : pins[n] = s <=> n = m
  BY <1>2 DEF SocketInv
<1> QED
  BY <1>1, <1>2 DEF Sockets!OneMotorPerSocket

\* Through every way back and forth: two motors never share a socket's pins, a
\* socket is on offer or moves one motor, the reported assignment is where the
\* pins are from, and a chip is configured for the socket whose pins its motor
\* has.
THEOREM SocketsAreTrueAlways == Sockets!SocketAssumption => (Sockets!Spec => []SocketsAreTrue)
<1> SUFFICES ASSUME Sockets!SocketAssumption
             PROVE  Sockets!Spec => []SocketsAreTrue
  OBVIOUS
<1>1. Sockets!Init => MotorInv
  BY MotorInit
<1>2. MotorInv /\ [Sockets!Next]_(Sockets!vars) => MotorInv'
  BY MotorType, MotorPins, MotorChips DEF MotorInv
<1>3. MotorInv => SocketsAreTrue
  <2> SUFFICES ASSUME MotorInv
               PROVE  SocketsAreTrue
    OBVIOUS
  <2>1. Sockets!AssignmentIsTrue
    BY DEF MotorInv, Sockets!TypeOK, QuestionInv, Sockets!AssignmentIsTrue, Sockets!Motors,
           Sockets!SocketAssumption
  <2> QED
    BY <2>1, OneEach DEF MotorInv, SocketsAreTrue, Sockets!SocketsAreTrue
<1> QED
  BY <1>1, <1>2, <1>3, PTL DEF Sockets!Spec


-----------------------------------------------------------------------------
(* ValueProvenance: where the values come from.                            *)

\* User data are a record, of which every step keeps the form.
UserOK(u) ==
    /\ u = [board |-> u.board, driver |-> u.driver, profile |-> u.profile, motors |-> u.motors,
            value |-> u.value, owner |-> u.owner, receipts |-> u.receipts, review |-> u.review]
    /\ u.board \in Circuit /\ u.profile \in Printer \cup {Scratch}
    /\ u.driver \in Models /\ u.motors \in MotorCounts
    /\ u.value \in [Values!Keys -> Nat \cup {Values!Absent}]
    /\ u.owner \in [Values!Keys -> Values!Provenances \cup {"none"}]
    /\ u.receipts = [k \in Values!TmcKeys |-> u.receipts[k]]
DataInv ==
    /\ UserOK(user)
    /\ edited \subseteq Values!Keys
    /\ typed = [k \in Values!TmcKeys |-> typed[k]]

\* What is marked as the operator's is among the keys set by the operator, and
\* only a direction is inferred.
OwnerOK(u, ks) ==
    /\ \A k \in Values!Keys \ Values!TmcKeys :
           u.owner[k] \in {"USER_OVERRIDE", "INFERRED"} => k \in ks
    /\ \A k \in Values!Keys \ {Values!Direction} : u.owner[k] # "INFERRED"
OwnerInv == OwnerOK(user, edited)

\* A review was made beside the primary that was shown.
ReviewInv == user.review # Values!NoReview => user.review.context.primary = viewed

\* A typed current was typed for user data that its receipt describes.
ReceiptInv ==
    \A k \in Values!TmcKeys : user.owner[k] = "USER_OVERRIDE" =>
        \E u : /\ user.receipts[k].context = Values!TmcCurrentContext(u)
               /\ typed[k] = {Values!Circumstances(u)}
               /\ \A s \in Values!Secondary : u.owner[s] # "INFERRED"

ValueInv == DataInv /\ OwnerInv /\ ReviewInv /\ ReceiptInv

\* The keys, one by one.
LEMMA KeysAre ==
  /\ Values!Keys = {"rotation_distance_z", "rotation_distance_z1", "gear_ratio_z",
                    "gear_ratio_z1", "z_size", "z_position_max", "z_position_endstop",
                    "run_current_z1", "hold_current_z1", "homing_positive_dir_z"}
  /\ DOMAIN Values!SafeDefault = {"rotation_distance_z", "rotation_distance_z1", "gear_ratio_z",
                    "gear_ratio_z1", "z_size", "z_position_max", "z_position_endstop"}
<1>1. DOMAIN Values!SafeDefault = {"rotation_distance_z", "rotation_distance_z1", "gear_ratio_z",
                    "gear_ratio_z1", "z_size", "z_position_max", "z_position_endstop"}
  BY DEF Values!SafeDefault
<1> QED
  BY <1>1 DEF Values!Keys, Values!TmcKeys, Values!Direction

\* What is resolved for a key other than the maximum and the direction.
LEMMA ResolvedAt ==
  ASSUME NEW u, NEW k, k \notin {"z_position_max", Values!Direction}
  PROVE  Values!Resolved(u, k) = IF Values!Resolvable(u, k) THEN Values!Claimed(u, k)
                                 ELSE Values!Absent
BY DEF Values!Resolved

\* The context of a current tells the circumstances, but for mechanics that were
\* still open.
LEMMA ContextTells ==
  ASSUME NEW u, NEW w, Values!TmcCurrentContext(u) = Values!TmcCurrentContext(w),
         \A s \in Values!Secondary : u.owner[s] # "INFERRED" /\ w.owner[s] # "INFERRED",
         \A s \in Values!Secondary : Values!Resolvable(w, s) => Values!Provenance(w, s) # "UNRESOLVED"
  PROVE  Values!SameCircumstances(Values!Circumstances(u), Values!Circumstances(w))
<1>1. /\ u.board = w.board /\ u.driver = w.driver /\ u.profile = w.profile /\ u.motors = w.motors
      /\ Values!Overrides(u) = Values!Overrides(w)
      /\ [k \in Values!Secondary |-> Values!ProfileSource(u)[k]]
            = [k \in Values!Secondary |-> Values!ProfileSource(w)[k]]
  BY DEF Values!TmcCurrentContext
<1>2. ASSUME NEW k \in Values!Secondary
      PROVE  Values!Resolved(u, k) \in {Values!Absent, Values!Resolved(w, k)}
  <2>1. k \in {"rotation_distance_z1", "gear_ratio_z1"}
    BY DEF Values!Secondary
  <2>2. /\ Values!Resolved(u, k) = IF Values!Resolvable(u, k) THEN Values!Claimed(u, k)
                                   ELSE Values!Absent
        /\ Values!Resolved(w, k) = IF Values!Resolvable(w, k) THEN Values!Claimed(w, k)
                                   ELSE Values!Absent
    BY <2>1, ResolvedAt DEF Values!Direction
  <2>3. Values!Resolvable(u, k) <=> Values!Resolvable(w, k)
    BY <1>1, <2>1 DEF Values!Resolvable, Values!TmcKeys, Values!Secondary
  <2>4. /\ Values!SourceValue(u, k) = Values!ProfileSource(u)[k]
        /\ Values!SourceValue(w, k) = Values!ProfileSource(w)[k]
    BY <2>1 DEF Values!SourceValue, Values!TmcKeys
  <2>5. Values!SourceValue(u, k) = Values!SourceValue(w, k)
    BY <1>1, <2>4
  <2>6. u.owner[k] = "USER_OVERRIDE" <=> w.owner[k] = "USER_OVERRIDE"
    <3>1. /\ DOMAIN Values!Overrides(u) = {s \in Values!Secondary : u.owner[s] = "USER_OVERRIDE"}
          /\ DOMAIN Values!Overrides(w) = {s \in Values!Secondary : w.owner[s] = "USER_OVERRIDE"}
      BY DEF Values!Overrides
    <3> QED
      BY <1>1, <3>1
  <2>7. u.owner[k] = "USER_OVERRIDE" => u.value[k] = w.value[k]
    <3> SUFFICES ASSUME u.owner[k] = "USER_OVERRIDE"
                 PROVE  u.value[k] = w.value[k]
      OBVIOUS
    <3>1. Values!Overrides(u)[k] = u.value[k] /\ Values!Overrides(w)[k] = w.value[k]
      BY <2>6 DEF Values!Overrides
    <3> QED
      BY <1>1, <3>1
  <2>8. Values!Provenance(w, k) = Values!Claim(w, k) \/ Values!CurrentRefused(w, k)
    BY <2>1 DEF Values!Provenance, Values!Direction
  <2>9. ~Values!CurrentRefused(w, k)
    BY <2>1 DEF Values!CurrentRefused, Values!TmcKeys
  <2>10. k \in DOMAIN Values!SafeDefault /\ k # "hold_current_z1"
    BY <2>1, KeysAre
  <2>11. /\ Values!Claim(u, k) =
               IF u.owner[k] = "USER_OVERRIDE"
               THEN IF u.value[k] # Values!Absent THEN "USER_OVERRIDE" ELSE "UNRESOLVED"
               ELSE IF Values!SourceValue(u, k) # Values!Absent THEN "PROFILE"
               ELSE IF u.owner[k] = "PROFILE" THEN "UNRESOLVED" ELSE "SAFE_DEFAULT"
         /\ Values!Claim(w, k) =
               IF w.owner[k] = "USER_OVERRIDE"
               THEN IF w.value[k] # Values!Absent THEN "USER_OVERRIDE" ELSE "UNRESOLVED"
               ELSE IF Values!SourceValue(w, k) # Values!Absent THEN "PROFILE"
               ELSE IF w.owner[k] = "PROFILE" THEN "UNRESOLVED" ELSE "SAFE_DEFAULT"
    BY <2>10 DEF Values!Claim
  <2>12. Values!Resolvable(w, k) => Values!Claim(w, k) # "UNRESOLVED"
    BY <2>8, <2>9
  <2>13. /\ Values!Claimed(u, k) =
               IF Values!Claim(u, k) = "USER_OVERRIDE" THEN u.value[k]
               ELSE IF Values!Claim(u, k) = "PROFILE" THEN Values!SourceValue(u, k)
               ELSE IF Values!Claim(u, k) = "SAFE_DEFAULT" THEN Values!SafeDefault[k] ELSE Values!Absent
         /\ Values!Claimed(w, k) =
               IF Values!Claim(w, k) = "USER_OVERRIDE" THEN w.value[k]
               ELSE IF Values!Claim(w, k) = "PROFILE" THEN Values!SourceValue(w, k)
               ELSE IF Values!Claim(w, k) = "SAFE_DEFAULT" THEN Values!SafeDefault[k] ELSE Values!Absent
    BY DEF Values!Claimed
  <2>14. CASE ~Values!Resolvable(w, k)
    BY <2>2, <2>3, <2>14
  <2>15. CASE Values!Resolvable(w, k)
    BY <2>2, <2>3, <2>5, <2>6, <2>7, <2>11, <2>12, <2>13, <2>15
  <2> QED
    BY <2>14, <2>15
<1> QED
  BY <1>1, <1>2 DEF Values!SameCircumstances, Values!Circumstances

\* The mechanics of the motors, the bed and the travel are not driver settings.
LEMMA KeyKinds ==
  /\ Values!TmcKeys = {"run_current_z1", "hold_current_z1"}
  /\ Values!Secondary = {"rotation_distance_z1", "gear_ratio_z1"}
  /\ Values!Primary = {"rotation_distance_z", "gear_ratio_z"}
  /\ Values!Direction = "homing_positive_dir_z"
  /\ Values!Absent = -1
BY DEF Values!TmcKeys, Values!Secondary, Values!Primary, Values!Direction, Values!Absent

\* What the sources state are numbers, and so are the defaults.
LEMMA SourcesAreNumbers ==
  ASSUME Values!ProvenanceAssumption, NEW u, UserOK(u), NEW k \in Values!Keys
  PROVE  /\ Values!SourceValue(u, k) \in Nat \cup {Values!Absent}
         /\ Values!ProfileSource(u)[k] \in Nat \cup {Values!Absent}
         /\ k \in DOMAIN Values!SafeDefault => Values!SafeDefault[k] \in Nat
         /\ Values!Claimed(u, k) \in Nat \cup {Values!Absent}
<1>1. /\ Values!ProfileSource(u)[k] \in Nat \cup {Values!Absent}
      /\ Values!BoardValue(u, k) \in Nat \cup {Values!Absent}
  BY DEF Values!ProvenanceAssumption, UserOK, Values!ProfileSource, Values!BoardValue
<1>2. Values!SourceValue(u, k) \in Nat \cup {Values!Absent}
  BY <1>1 DEF Values!SourceValue
<1>3. k \in DOMAIN Values!SafeDefault => Values!SafeDefault[k] \in Nat
  BY KeysAre DEF Values!SafeDefault
<1>4. Values!Claim(u, k) = "SAFE_DEFAULT" => k \in DOMAIN Values!SafeDefault
  BY DEF Values!Claim
<1>5. Values!Claimed(u, k) \in Nat \cup {Values!Absent}
  BY <1>2, <1>3, <1>4 DEF Values!Claimed, UserOK
<1> QED
  BY <1>1, <1>2, <1>3, <1>5

\* The resolution does not look at receipts of what was confirmed.
LEMMA ReviewIsNotLookedAt ==
  ASSUME NEW u, UserOK(u), NEW r, NEW k
  PROVE  Values!Resolved([u EXCEPT !.review = r], k) = Values!Resolved(u, k)
<1> DEFINE w == [u EXCEPT !.review = r]
<1>1. /\ w.board = u.board /\ w.driver = u.driver /\ w.profile = u.profile
      /\ w.motors = u.motors /\ w.value = u.value /\ w.owner = u.owner
  BY DEF UserOK
<1> HIDE DEF w
<1>2. Values!HasSection(w) = Values!HasSection(u)
  BY <1>1 DEF Values!HasSection
<1>3. ASSUME NEW j
      PROVE  /\ Values!SourceValue(w, j) = Values!SourceValue(u, j)
             /\ Values!Resolvable(w, j) = Values!Resolvable(u, j)
  BY <1>1, <1>2 DEF Values!SourceValue, Values!BoardValue, Values!ProfileSource, Values!Resolvable
<1>4. ASSUME NEW j
      PROVE  Values!Claim(w, j) = Values!Claim(u, j)
  BY <1>1, <1>3 DEF Values!Claim
<1>5. ASSUME NEW j
      PROVE  Values!Claimed(w, j) = Values!Claimed(u, j)
  <2>1. Values!Claim(w, j) = Values!Claim(u, j) /\ Values!SourceValue(w, j) = Values!SourceValue(u, j)
    BY <1>3, <1>4
  <2> QED
    BY <1>1, <2>1 DEF Values!Claimed
<1>6. Values!PositionMax(w) = Values!PositionMax(u)
  BY <1>4, <1>5 DEF Values!PositionMax
<1>7. Values!Inferred(w) = Values!Inferred(u)
  BY <1>5, <1>6 DEF Values!Inferred
<1>8. Values!Resolved(w, k) = Values!Resolved(u, k)
  BY <1>3, <1>4, <1>5, <1>6, <1>7 DEF Values!Resolved
<1> QED
  BY <1>8 DEF w

\* A step that asks for no current and reviews nothing keeps both receipts.
LEMMA ReceiptsAreKept ==
  ASSUME ReviewInv, ReceiptInv, user'.receipts = user.receipts, user'.review = user.review,
         typed' = typed, viewed' = viewed,
         \A k \in Values!TmcKeys : user'.owner[k] = "USER_OVERRIDE" => user.owner[k] = "USER_OVERRIDE"
  PROVE  ReviewInv' /\ ReceiptInv'
BY DEF ReviewInv, ReceiptInv

-----------------------------------------------------------------------------
\* The wizard begins with defaults, each marked as one.
LEMMA ValueInit ==
  ASSUME Values!ProvenanceAssumption, Values!Init
  PROVE  ValueInv
<1>1. DataInv
  <2>1. edited = {} /\ typed = [k \in Values!TmcKeys |-> {}]
    BY DEF Values!Init
  <2>2. UserOK(user)
    BY KeysAre, KeyKinds DEF Values!Init, UserOK, Values!SafeDefault, Values!Provenances
  <2> QED
    BY <2>1, <2>2 DEF DataInv
<1>2. /\ user.review = Values!NoReview
      /\ \A k \in Values!Keys : user.owner[k] \in {"SAFE_DEFAULT", "none"}
  BY DEF Values!Init
<1>3. OwnerInv
  BY <1>2 DEF OwnerInv, OwnerOK
<1>4. ReviewInv
  BY <1>2 DEF ReviewInv
<1>5. ReceiptInv
  BY <1>2, KeysAre, KeyKinds DEF ReceiptInv
<1> QED
  BY <1>1, <1>3, <1>4, <1>5 DEF ValueInv

\* Another board, driver, number of motors, or no profile.
LEMMA SelectionStep ==
  ASSUME Values!ProvenanceAssumption, ValueInv,
         \/ \E b \in Circuit : Values!SelectBoard(b)
         \/ \E d \in Models : Values!SelectDriver(d)
         \/ \E n \in MotorCounts : Values!SelectMotors(n)
         \/ Values!ScratchBuild
  PROVE  ValueInv'
<1>1. UserOK(user)
  BY DEF ValueInv, DataInv
<1>2. /\ UserOK(user')
      /\ user'.value = user.value /\ user'.owner = user.owner
      /\ user'.receipts = user.receipts /\ user'.review = user.review
      /\ UNCHANGED <<typed, viewed, edited>>
  <2>1. CASE \E b \in Circuit : Values!SelectBoard(b)
    BY <1>1, <2>1 DEF Values!SelectBoard, Values!Became, Values!Kept, UserOK
  <2>2. CASE \E d \in Models : Values!SelectDriver(d)
    BY <1>1, <2>2 DEF Values!SelectDriver, Values!Became, Values!Kept, UserOK
  <2>3. CASE \E n \in MotorCounts : Values!SelectMotors(n)
    BY <1>1, <2>3 DEF Values!SelectMotors, Values!Became, Values!Kept, UserOK
  <2>4. CASE Values!ScratchBuild
    BY <1>1, <2>4 DEF Values!ScratchBuild, Values!Became, Values!Kept, UserOK
  <2> QED
    BY <2>1, <2>2, <2>3, <2>4
<1>3. DataInv'
  BY <1>2 DEF ValueInv, DataInv
<1>4. OwnerInv'
  BY <1>2 DEF ValueInv, OwnerInv, OwnerOK
<1>5. ReviewInv' /\ ReceiptInv'
  BY <1>2, ReceiptsAreKept DEF ValueInv
<1> QED
  BY <1>3, <1>4, <1>5 DEF ValueInv

\* The marks of a profile: every key it can state is its own, or a default.
LEMMA ProfileMarks ==
  ASSUME Values!ProvenanceAssumption, UserOK(user), NEW p \in Printer, Values!LoadProfile(p)
  PROVE  /\ UserOK(user') /\ user'.receipts = user.receipts /\ user'.review = user.review
         /\ \A k \in Values!Keys : user'.owner[k] \in {"PROFILE", "SAFE_DEFAULT", "none"}
         /\ edited' = {} /\ UNCHANGED <<typed, viewed>>
<1>1. UserOK(user)
  OBVIOUS
<1> DEFINE says(k) == IF ProfileSays[p][k] # Values!Absent THEN ProfileSays[p][k]
                      ELSE IF k \in {"z_size", "z_position_max", "z_position_endstop"}
                           THEN Values!SafeDefault[k] ELSE user.value[k]
           marks(k) == IF k = Values!Direction THEN user.owner[k]
                       ELSE IF ProfileSays[p][k] # Values!Absent THEN "PROFILE" ELSE "SAFE_DEFAULT"
<1>2. /\ user' = [user EXCEPT !.profile = p, !.value = [k \in Values!Keys |-> says(k)],
                              !.owner = [k \in Values!Keys |-> marks(k)]]
      /\ user.owner[Values!Direction] = "none"
      /\ edited' = {} /\ UNCHANGED <<typed, viewed>>
  BY <1>1 DEF Values!LoadProfile, Values!Became, Values!MarkProfileValues, UserOK
<1>3. \A k \in Values!Keys : says(k) \in Nat \cup {Values!Absent}
  BY <1>1, KeysAre DEF Values!ProvenanceAssumption, Values!SafeDefault, UserOK
<1>4. \A k \in Values!Keys : marks(k) \in {"PROFILE", "SAFE_DEFAULT", "none"}
  BY <1>2
<1> HIDE DEF says, marks
<1>5. /\ user'.value = [k \in Values!Keys |-> says(k)]
      /\ user'.owner = [k \in Values!Keys |-> marks(k)]
      /\ user'.receipts = user.receipts /\ user'.review = user.review
      /\ user'.board = user.board /\ user'.driver = user.driver
      /\ user'.motors = user.motors /\ user'.profile = p
      /\ user' = [board |-> user.board, driver |-> user.driver, profile |-> p,
                  motors |-> user.motors, value |-> [k \in Values!Keys |-> says(k)],
                  owner |-> [k \in Values!Keys |-> marks(k)], receipts |-> user.receipts,
                  review |-> user.review]
  BY <1>1, <1>2 DEF UserOK
<1>6. user'.value \in [Values!Keys -> Nat \cup {Values!Absent}]
  BY <1>3, <1>5
<1>7. user'.owner \in [Values!Keys -> Values!Provenances \cup {"none"}]
  BY <1>4, <1>5 DEF Values!Provenances
<1>8. UserOK(user')
  BY <1>1, <1>5, <1>6, <1>7 DEF UserOK
<1>9. \A k \in Values!Keys : user'.owner[k] \in {"PROFILE", "SAFE_DEFAULT", "none"}
  BY <1>4, <1>5
<1>10. user'.receipts = user.receipts /\ user'.review = user.review
  BY <1>5
<1>11. edited' = {} /\ UNCHANGED <<typed, viewed>>
  BY <1>2
<1> QED
  BY <1>8, <1>9, <1>10, <1>11

\* Loading a profile keeps the invariant.
LEMMA ProfileStep ==
  ASSUME Values!ProvenanceAssumption, ValueInv, NEW p \in Printer, Values!LoadProfile(p)
  PROVE  ValueInv'
<1>1. /\ UserOK(user') /\ user'.receipts = user.receipts /\ user'.review = user.review
      /\ \A k \in Values!Keys : user'.owner[k] \in {"PROFILE", "SAFE_DEFAULT", "none"}
      /\ edited' = {} /\ UNCHANGED <<typed, viewed>>
  BY ProfileMarks DEF ValueInv, DataInv
<1>2. DataInv'
  BY <1>1 DEF DataInv, ValueInv
<1>3. OwnerInv'
  BY <1>1 DEF OwnerInv, OwnerOK
<1>4. ReviewInv' /\ ReceiptInv'
  BY <1>1, KeysAre, KeyKinds, ReceiptsAreKept DEF ValueInv
<1> QED
  BY <1>2, <1>3, <1>4 DEF ValueInv

\* What the operator sets outside the driver settings is marked and remembered.
LEMMA SettingKeeps ==
  ASSUME NEW u, UserOK(u), NEW ks, ks \subseteq Values!Keys \ Values!TmcKeys,
         NEW value \in [Values!Keys -> Nat \cup {Values!Absent}]
  PROVE  LET w == Values!MarkUserOverride([u EXCEPT !.value = value], ks)
         IN  /\ UserOK(w) /\ w.value = value
             /\ w.owner = [k \in Values!Keys |-> IF k \in ks THEN "USER_OVERRIDE" ELSE u.owner[k]]
             /\ w.receipts = u.receipts /\ w.review = u.review
             /\ w.board = u.board /\ w.driver = u.driver /\ w.profile = u.profile
             /\ w.motors = u.motors
             /\ \A ts : OwnerOK(u, ts) => OwnerOK(w, ts \cup ks)
<1> DEFINE w == Values!MarkUserOverride([u EXCEPT !.value = value], ks)
           marks == [k \in Values!Keys |-> IF k \in ks THEN "USER_OVERRIDE" ELSE u.owner[k]]
<1>1. w = [board |-> u.board, driver |-> u.driver, profile |-> u.profile, motors |-> u.motors,
           value |-> value, owner |-> marks, receipts |-> u.receipts, review |-> u.review]
  <2> DEFINE v == [u EXCEPT !.value = value]
  <2>1. v = [board |-> u.board, driver |-> u.driver, profile |-> u.profile, motors |-> u.motors,
             value |-> value, owner |-> u.owner, receipts |-> u.receipts, review |-> u.review]
    BY DEF UserOK
  <2> HIDE DEF v
  <2>2. [v EXCEPT !.owner = marks]
          = [board |-> u.board, driver |-> u.driver, profile |-> u.profile, motors |-> u.motors,
             value |-> value, owner |-> marks, receipts |-> u.receipts, review |-> u.review]
    BY <2>1
  <2>3. v.owner = u.owner
    BY <2>1
  <2>4. w = [v EXCEPT !.owner = marks]
    BY <2>3 DEF Values!MarkUserOverride, v
  <2> QED
    BY <2>2, <2>4
<1>2. marks \in [Values!Keys -> Values!Provenances \cup {"none"}]
  BY DEF UserOK, Values!Provenances
<1>3. /\ w.value = value /\ w.owner = marks
      /\ w.receipts = u.receipts /\ w.review = u.review
      /\ w.board = u.board /\ w.driver = u.driver /\ w.profile = u.profile /\ w.motors = u.motors
  BY <1>1
<1>4. UserOK(w)
  <2> HIDE DEF w, marks
  <2> QED
    BY <1>1, <1>2, <1>3 DEF UserOK
<1>5. ASSUME NEW ts, OwnerOK(u, ts)
      PROVE  OwnerOK(w, ts \cup ks)
  <2> HIDE DEF w
  <2> QED
    BY <1>3, <1>5 DEF OwnerOK
<1> HIDE DEF w
<1>6. w.owner = [k \in Values!Keys |-> IF k \in ks THEN "USER_OVERRIDE" ELSE u.owner[k]]
  BY <1>3
<1>7. /\ UserOK(w) /\ w.value = value
      /\ w.owner = [k \in Values!Keys |-> IF k \in ks THEN "USER_OVERRIDE" ELSE u.owner[k]]
      /\ w.receipts = u.receipts /\ w.review = u.review
      /\ w.board = u.board /\ w.driver = u.driver /\ w.profile = u.profile
      /\ w.motors = u.motors
      /\ \A ts : OwnerOK(u, ts) => OwnerOK(w, ts \cup ks)
  BY <1>3, <1>4, <1>5, <1>6
<1> QED
  BY <1>7 DEF w

\* A setting made in the wizard keeps the invariant.
LEMMA SettingStep ==
  ASSUME ValueInv, NEW ks, ks \subseteq Values!Keys \ Values!TmcKeys,
         NEW value \in [Values!Keys -> Nat \cup {Values!Absent}],
         user' = Values!MarkUserOverride([user EXCEPT !.value = value], ks),
         edited' = edited \cup ks, UNCHANGED <<typed, viewed>>
  PROVE  ValueInv'
<1>1. UserOK(user) /\ OwnerOK(user, edited)
  BY DEF ValueInv, DataInv, OwnerInv
<1>2. /\ UserOK(user')
      /\ user'.owner = [k \in Values!Keys |-> IF k \in ks THEN "USER_OVERRIDE" ELSE user.owner[k]]
      /\ user'.receipts = user.receipts /\ user'.review = user.review
      /\ OwnerOK(user', edited \cup ks)
  BY <1>1, SettingKeeps
<1>3. DataInv'
  BY <1>2 DEF ValueInv, DataInv
<1>4. OwnerInv'
  BY <1>2 DEF OwnerInv
<1>5. \A k \in Values!TmcKeys : user'.owner[k] = user.owner[k]
  BY <1>2 DEF Values!Keys
<1>6. ReviewInv' /\ ReceiptInv'
  BY <1>2, <1>5, ReceiptsAreKept DEF ValueInv
<1> QED
  BY <1>3, <1>4, <1>6 DEF ValueInv

\* The bed, and the travel that follows it.
LEMMA VolumeStep ==
  ASSUME Values!ProvenanceAssumption, ValueInv, NEW v \in Travels, Values!StepVolume(v)
  PROVE  ValueInv'
<1>1. UserOK(user) /\ v \in Nat
  BY DEF ValueInv, DataInv, Values!ProvenanceAssumption
<1> DEFINE follows == user.value["z_position_max"] = user.value["z_size"]
           value == [user.value EXCEPT !["z_size"] = v,
                                       !["z_position_max"] = IF follows THEN v ELSE @]
<1>2. value \in [Values!Keys -> Nat \cup {Values!Absent}]
  BY <1>1 DEF UserOK
<1>3. [user EXCEPT !.value["z_size"] = v, !.value["z_position_max"] = IF follows THEN v ELSE @]
        = [user EXCEPT !.value = value]
  BY <1>1 DEF UserOK
<1>4. /\ user' = Values!MarkUserOverride([user EXCEPT !.value = value], {"z_size"})
      /\ edited' = edited \cup {"z_size"} /\ UNCHANGED <<typed, viewed>>
  BY <1>3 DEF Values!StepVolume, Values!Became
<1> HIDE DEF value
<1> QED
  BY <1>2, <1>4, SettingStep, KeysAre, KeyKinds

\* The travel and the endstop.
LEMMA LimitsStep ==
  ASSUME Values!ProvenanceAssumption, ValueInv, NEW max \in Travels, NEW e \in Endstops,
         Values!StepLimits(max, e)
  PROVE  ValueInv'
<1>1. UserOK(user) /\ max \in Nat /\ e \in Nat
  BY DEF ValueInv, DataInv, Values!ProvenanceAssumption
<1> DEFINE value == [user.value EXCEPT !["z_position_max"] = max, !["z_position_endstop"] = e]
           ks == {"z_position_max", "z_position_endstop"}
<1>2. value \in [Values!Keys -> Nat \cup {Values!Absent}]
  BY <1>1 DEF UserOK
<1>3. [user EXCEPT !.value["z_position_max"] = max, !.value["z_position_endstop"] = e]
        = [user EXCEPT !.value = value]
  BY <1>1 DEF UserOK
<1>4. /\ user' = Values!MarkUserOverride([user EXCEPT !.value = value], ks)
      /\ edited' = edited \cup ks /\ UNCHANGED <<typed, viewed>>
  BY <1>3 DEF Values!StepLimits, Values!Became
<1>5. ks \subseteq Values!Keys \ Values!TmcKeys
  BY KeysAre, KeyKinds
<1> HIDE DEF value, ks
<1> QED
  BY <1>2, <1>4, <1>5, SettingStep

\* The direction, given or left to be inferred.
LEMMA DirectionKeeps ==
  ASSUME NEW u, UserOK(u), NEW mode \in {"auto", "min", "max"}
  PROVE  LET w == Values!ApplyHomingDirection(u, mode)
         IN  /\ UserOK(w)
             /\ \A k \in Values!Keys \ {Values!Direction} :
                    w.value[k] = u.value[k] /\ w.owner[k] = u.owner[k]
             /\ w.receipts = u.receipts /\ w.review = u.review
             /\ w.board = u.board /\ w.driver = u.driver /\ w.profile = u.profile
             /\ w.motors = u.motors
             /\ \A ts : OwnerOK(u, ts) => OwnerOK(w, ts \cup {Values!Direction})
<1> DEFINE w == Values!ApplyHomingDirection(u, mode)
           way == IF mode = "auto"
                  THEN Values!InferHomingPositiveDir(u.value["z_position_endstop"],
                                                     u.value["z_position_max"])
                  ELSE IF mode = "max" THEN 1 ELSE 0
           value == [u.value EXCEPT ![Values!Direction] = way]
           marks == [u.owner EXCEPT ![Values!Direction] =
                        IF mode = "auto" THEN "INFERRED" ELSE "USER_OVERRIDE"]
<1>1. way \in Nat \cup {Values!Absent}
  BY DEF Values!InferHomingPositiveDir
<1> HIDE DEF way
<1>2. Values!Direction \in Values!Keys
  BY DEF Values!Keys
<1>3. value \in [Values!Keys -> Nat \cup {Values!Absent}]
  BY <1>1, <1>2 DEF UserOK
<1>4. marks \in [Values!Keys -> Values!Provenances \cup {"none"}]
  BY <1>2 DEF UserOK, Values!Provenances
<1>5. w = [board |-> u.board, driver |-> u.driver, profile |-> u.profile, motors |-> u.motors,
           value |-> value, owner |-> marks, receipts |-> u.receipts, review |-> u.review]
  <2>1. CASE mode = "auto"
    BY <2>1 DEF Values!ApplyHomingDirection, UserOK, way
  <2>2. CASE mode # "auto"
    <3>1. w = Values!MarkUserOverride([u EXCEPT !.value[Values!Direction] = way],
                                      {Values!Direction})
      BY <2>2 DEF Values!ApplyHomingDirection, way
    <3>2. [u EXCEPT !.value[Values!Direction] = way] = [u EXCEPT !.value = value]
      BY DEF UserOK
    <3>3. w.owner = marks
      BY <2>2, <3>1, <3>2, <1>2 DEF Values!MarkUserOverride, UserOK
    <3> QED
      BY <3>1, <3>2, <3>3, <2>2 DEF Values!MarkUserOverride, UserOK
  <2> QED
    BY <2>1, <2>2
<1> HIDE DEF w
<1>6. /\ w.value = value /\ w.owner = marks
      /\ w.receipts = u.receipts /\ w.review = u.review
      /\ w.board = u.board /\ w.driver = u.driver /\ w.profile = u.profile /\ w.motors = u.motors
  BY <1>5
<1>7. \A k \in Values!Keys \ {Values!Direction} :
          w.value[k] = u.value[k] /\ w.owner[k] = u.owner[k]
  BY <1>6 DEF UserOK
<1> HIDE DEF value, marks
<1>8. UserOK(w)
  BY <1>3, <1>4, <1>5, <1>6 DEF UserOK
<1>9. ASSUME NEW ts, OwnerOK(u, ts)
      PROVE  OwnerOK(w, ts \cup {Values!Direction})
  BY <1>7, <1>9 DEF OwnerOK
<1>10. /\ UserOK(w)
       /\ \A k \in Values!Keys \ {Values!Direction} :
              w.value[k] = u.value[k] /\ w.owner[k] = u.owner[k]
       /\ w.receipts = u.receipts /\ w.review = u.review
       /\ w.board = u.board /\ w.driver = u.driver /\ w.profile = u.profile
       /\ w.motors = u.motors
       /\ \A ts : OwnerOK(u, ts) => OwnerOK(w, ts \cup {Values!Direction})
  BY <1>6, <1>7, <1>8, <1>9
<1> QED
  BY <1>10 DEF w

\* The direction step.
LEMMA DirectionStep ==
  ASSUME ValueInv, NEW mode \in {"auto", "min", "max"}, Values!StepHomingDirection(mode)
  PROVE  ValueInv'
<1>1. UserOK(user) /\ OwnerOK(user, edited)
  BY DEF ValueInv, DataInv, OwnerInv
<1>2. /\ user' = Values!ApplyHomingDirection(user, mode)
      /\ edited' = edited \cup {Values!Direction} /\ UNCHANGED <<typed, viewed>>
  BY DEF Values!StepHomingDirection, Values!Became
<1>3. /\ UserOK(user')
      /\ \A k \in Values!Keys \ {Values!Direction} : user'.owner[k] = user.owner[k]
      /\ user'.receipts = user.receipts /\ user'.review = user.review
      /\ OwnerOK(user', edited')
  BY <1>1, <1>2, DirectionKeeps
<1>4. DataInv' /\ OwnerInv'
  BY <1>2, <1>3 DEF ValueInv, DataInv, OwnerInv, Values!Keys
<1>5. \A k \in Values!TmcKeys : user'.owner[k] = user.owner[k]
  BY <1>3, KeysAre, KeyKinds
<1>6. ReviewInv' /\ ReceiptInv'
  BY <1>2, <1>3, <1>5, ReceiptsAreKept DEF ValueInv
<1> QED
  BY <1>4, <1>6 DEF ValueInv

\* The context of a receipt does not look at receipts.
LEMMA ContextIgnoresReceipts ==
  ASSUME NEW u, UserOK(u), NEW r
  PROVE  Values!TmcCurrentContext([u EXCEPT !.receipts = r]) = Values!TmcCurrentContext(u)
<1> DEFINE w == [u EXCEPT !.receipts = r]
<1>1. /\ w.board = u.board /\ w.driver = u.driver /\ w.profile = u.profile
      /\ w.motors = u.motors /\ w.value = u.value /\ w.owner = u.owner
  BY DEF UserOK
<1> HIDE DEF w
<1>2. Values!Overrides(w) = Values!Overrides(u)
  BY <1>1 DEF Values!Overrides
<1>3. \A k : Values!BoardValue(w, k) = Values!BoardValue(u, k)
  BY <1>1 DEF Values!BoardValue, Values!HasSection
<1>4. Values!ProfileSource(w) = Values!ProfileSource(u)
  BY <1>1 DEF Values!ProfileSource
<1>5. Values!TmcCurrentContext(w) = Values!TmcCurrentContext(u)
  BY <1>1, <1>2, <1>3, <1>4 DEF Values!TmcCurrentContext
<1> QED
  BY <1>5 DEF w

\* The currents that were asked for get receipts for the user data they go into.
LEMMA CurrentsStep ==
  ASSUME Values!ProvenanceAssumption, ValueInv, Values!StepTmcCurrents
  PROVE  ValueInv'
<1>1. UserOK(user) /\ OwnerOK(user, edited)
  BY DEF ValueInv, DataInv, OwnerInv
<1>2. PICK a \in Values!Answers(user) :
          /\ user' = Values!Answered(user, a)
          /\ typed' = [k \in Values!TmcKeys |->
                          IF k \in DOMAIN a /\ a[k] # Values!Absent
                          THEN {Values!Circumstances(user')} ELSE typed[k]]
          /\ edited' = edited \cup DOMAIN a /\ viewed' = viewed
  BY DEF Values!StepTmcCurrents, Values!Became
<1>3. /\ DOMAIN a \subseteq Values!TmcKeys
      /\ \A k \in DOMAIN a : a[k] \in Nat \cup {Values!Absent}
  BY DEF Values!Answers, Values!Missing, Values!ProvenanceAssumption
<1> DEFINE given == {k \in DOMAIN a : a[k] # Values!Absent}
           value == [k \in Values!Keys |-> IF k \in DOMAIN a THEN a[k] ELSE user.value[k]]
           marks == [k \in Values!Keys |-> IF k \in given THEN "USER_OVERRIDE"
                                           ELSE IF k \in DOMAIN a THEN "none" ELSE user.owner[k]]
           v == [board |-> user.board, driver |-> user.driver, profile |-> user.profile,
                 motors |-> user.motors, value |-> value, owner |-> marks,
                 receipts |-> user.receipts, review |-> user.review]
           receipts == [k \in Values!TmcKeys |->
               IF k \in given THEN [value |-> a[k], context |-> Values!TmcCurrentContext(v)]
               ELSE IF k \in DOMAIN a THEN Values!NoReceipt ELSE user.receipts[k]]
<1>4. [user EXCEPT !.value = value, !.owner = marks] = v
  <2> HIDE DEF value, marks
  <2>1. user = [board |-> user.board, driver |-> user.driver, profile |-> user.profile,
                motors |-> user.motors, value |-> user.value, owner |-> user.owner,
                receipts |-> user.receipts, review |-> user.review]
    BY <1>1 DEF UserOK
  <2> DEFINE w == [user EXCEPT !.value = value]
  <2>2. w = [board |-> user.board, driver |-> user.driver, profile |-> user.profile,
             motors |-> user.motors, value |-> value, owner |-> user.owner,
             receipts |-> user.receipts, review |-> user.review]
    BY <2>1
  <2>3. [user EXCEPT !.value = value, !.owner = marks] = [w EXCEPT !.owner = marks]
    OBVIOUS
  <2> HIDE DEF w
  <2>4. [w EXCEPT !.owner = marks] = v
    BY <2>2
  <2> QED
    BY <2>3, <2>4
<1>5. /\ value \in [Values!Keys -> Nat \cup {Values!Absent}]
      /\ marks \in [Values!Keys -> Values!Provenances \cup {"none"}]
  BY <1>1, <1>3 DEF UserOK, Values!Provenances
<1>6. UserOK(v)
  <2>1. /\ v.board = user.board /\ v.driver = user.driver /\ v.profile = user.profile
        /\ v.motors = user.motors /\ v.value = value /\ v.owner = marks
        /\ v.receipts = user.receipts /\ v.review = user.review
    OBVIOUS
  <2>2. v = [board |-> v.board, driver |-> v.driver, profile |-> v.profile, motors |-> v.motors,
             value |-> v.value, owner |-> v.owner, receipts |-> v.receipts, review |-> v.review]
    OBVIOUS
  <2> HIDE DEF v, value, marks
  <2> QED
    BY <1>1, <1>5, <2>1, <2>2 DEF UserOK
<1>7. user' = [v EXCEPT !.receipts = receipts]
  <2>1. v.receipts = user.receipts
    OBVIOUS
  <2> DEFINE w == [user EXCEPT
                    !.value = [k \in Values!Keys |-> IF k \in DOMAIN a THEN a[k] ELSE @[k]],
                    !.owner = [k \in Values!Keys |-> IF k \in given THEN "USER_OVERRIDE"
                                                    ELSE IF k \in DOMAIN a THEN "none" ELSE @[k]]]
  <2>2. w = v
    <3>1. w = [user EXCEPT
                    !.value = [k \in Values!Keys |-> IF k \in DOMAIN a THEN a[k] ELSE user.value[k]],
                    !.owner = [k \in Values!Keys |-> IF k \in given THEN "USER_OVERRIDE"
                                         ELSE IF k \in DOMAIN a THEN "none" ELSE user.owner[k]]]
      OBVIOUS
    <3> HIDE DEF w, v
    <3> QED
      BY <1>4, <3>1
  <2>3. user' = [w EXCEPT !.receipts = [k \in Values!TmcKeys |->
                      IF k \in given
                      THEN [value |-> a[k], context |-> Values!TmcCurrentContext(w)]
                      ELSE IF k \in DOMAIN a THEN Values!NoReceipt ELSE @[k]]]
    <3>1. user' = Values!Answered(user, a)
      BY <1>2
    <3> QED
      BY <3>1 DEF Values!Answered
  <2> HIDE DEF v, value, marks, w
  <2>4. [v EXCEPT !.receipts = [k \in Values!TmcKeys |->
                      IF k \in given
                      THEN [value |-> a[k], context |-> Values!TmcCurrentContext(v)]
                      ELSE IF k \in DOMAIN a THEN Values!NoReceipt ELSE @[k]]]
          = [v EXCEPT !.receipts = receipts]
    BY <2>1
  <2> QED
    BY <2>2, <2>3, <2>4
<1>8. v.owner = marks /\ v.review = user.review
  OBVIOUS
<1> HIDE DEF v, value
<1>9. /\ UserOK(user') /\ user'.owner = marks /\ user'.receipts = receipts
      /\ user'.review = user.review
  <2>1. receipts = [k \in Values!TmcKeys |-> receipts[k]]
    OBVIOUS
  <2> HIDE DEF receipts, marks
  <2> QED
    BY <1>6, <1>7, <1>8, <2>1 DEF UserOK
<1>10. Values!TmcCurrentContext(user') = Values!TmcCurrentContext(v)
  BY <1>6, <1>7, ContextIgnoresReceipts
<1>11. DataInv'
  BY <1>2, <1>3, <1>9, KeysAre, KeyKinds DEF ValueInv, DataInv
<1>12. OwnerInv'
  <2>1. \A k \in Values!Keys \ Values!TmcKeys : user'.owner[k] = user.owner[k]
    BY <1>3, <1>9
  <2>2. \A k \in Values!Keys \ {Values!Direction} : user'.owner[k] # "INFERRED"
    BY <1>1, <1>9 DEF OwnerOK
  <2> QED
    BY <1>1, <1>2, <2>1, <2>2 DEF OwnerInv, OwnerOK
<1>13. ReviewInv'
  BY <1>2, <1>9 DEF ValueInv, ReviewInv
<1>14. ASSUME NEW k \in Values!TmcKeys, user'.owner[k] = "USER_OVERRIDE"
       PROVE  \E u : /\ user'.receipts[k].context = Values!TmcCurrentContext(u)
                     /\ typed'[k] = {Values!Circumstances(u)}
                     /\ \A s \in Values!Secondary : u.owner[s] # "INFERRED"
  <2>1. CASE k \in given
    <3>1. user'.receipts[k].context = Values!TmcCurrentContext(v)
      BY <1>9, <2>1
    <3>2. typed'[k] = {Values!Circumstances(user')}
      BY <1>2, <2>1
    <3>3. \A s \in Values!Secondary : user'.owner[s] # "INFERRED"
      BY <1>12, KeysAre, KeyKinds DEF OwnerInv, OwnerOK
    <3> HIDE DEF given, marks, receipts
    <3> QED
      BY <1>10, <3>1, <3>2, <3>3
  <2>2. CASE k \notin given
    <3>1. k \in Values!Keys
      BY DEF Values!Keys
    <3>2. k \notin DOMAIN a
      BY <1>9, <1>14, <2>2, <3>1
    <3>3. user'.owner[k] = user.owner[k] /\ user'.receipts[k] = user.receipts[k]
      BY <1>9, <3>1, <3>2
    <3>4. typed'[k] = typed[k]
      BY <1>2, <3>2
    <3> HIDE DEF given, marks, receipts
    <3> QED
      BY <1>14, <3>3, <3>4 DEF ValueInv, ReceiptInv
  <2> QED
    BY <2>1, <2>2
<1>15. ReceiptInv'
  BY <1>14 DEF ReceiptInv
<1> QED
  BY <1>11, <1>12, <1>13, <1>15 DEF ValueInv

\* Another review, with the rest as it was.
LEMMA ReviewReplaced ==
  ASSUME NEW u, UserOK(u), NEW r
  PROVE  LET w == [u EXCEPT !.review = r]
         IN  /\ UserOK(w) /\ w.review = r
             /\ w.value = u.value /\ w.owner = u.owner /\ w.receipts = u.receipts
             /\ w.board = u.board /\ w.driver = u.driver /\ w.profile = u.profile
             /\ w.motors = u.motors
<1> DEFINE w == [u EXCEPT !.review = r]
<1>1. w = [board |-> u.board, driver |-> u.driver, profile |-> u.profile, motors |-> u.motors,
           value |-> u.value, owner |-> u.owner, receipts |-> u.receipts, review |-> r]
  BY DEF UserOK
<1> HIDE DEF w
<1>2. /\ w.board = u.board /\ w.driver = u.driver /\ w.profile = u.profile
      /\ w.motors = u.motors /\ w.value = u.value /\ w.owner = u.owner
      /\ w.receipts = u.receipts /\ w.review = r
  BY <1>1
<1>3. UserOK(w)
  BY <1>1, <1>2 DEF UserOK
<1>4. /\ UserOK(w) /\ w.review = r
      /\ w.value = u.value /\ w.owner = u.owner /\ w.receipts = u.receipts
      /\ w.board = u.board /\ w.driver = u.driver /\ w.profile = u.profile
      /\ w.motors = u.motors
  BY <1>2, <1>3
<1> QED
  BY <1>4 DEF w

\* A stale review takes back marks of the second motor and nothing else.
LEMMA ClearKeeps ==
  ASSUME NEW u, UserOK(u)
  PROVE  LET w == Values!ClearCopied(u)
         IN  /\ UserOK(w) /\ w.review = Values!NoReview /\ w.receipts = u.receipts
             /\ \A k \in Values!Keys : w.owner[k] \in {u.owner[k], "none"}
<1> DEFINE w == Values!ClearCopied(u)
           mine == {k \in Values!Secondary :
                       <<k, u.value[k]>> \in u.review.owned /\ u.owner[k] = "USER_OVERRIDE"}
           value == [k \in Values!Keys |-> IF k \in mine THEN Values!Absent ELSE u.value[k]]
           marks == [k \in Values!Keys |-> IF k \in mine THEN "none" ELSE u.owner[k]]
<1>1. w = [u EXCEPT !.review = Values!NoReview, !.value = value, !.owner = marks]
  BY DEF Values!ClearCopied
<1>2. /\ value \in [Values!Keys -> Nat \cup {Values!Absent}]
      /\ marks \in [Values!Keys -> Values!Provenances \cup {"none"}]
      /\ \A k \in Values!Keys : marks[k] \in {u.owner[k], "none"}
  BY DEF UserOK
<1> HIDE DEF value, marks, w
<1>3. w = [board |-> u.board, driver |-> u.driver, profile |-> u.profile, motors |-> u.motors,
           value |-> value, owner |-> marks, receipts |-> u.receipts, review |-> Values!NoReview]
  BY <1>1 DEF UserOK
<1>4. /\ w.board = u.board /\ w.driver = u.driver /\ w.profile = u.profile
      /\ w.motors = u.motors /\ w.value = value /\ w.owner = marks
      /\ w.receipts = u.receipts /\ w.review = Values!NoReview
  BY <1>3
<1>5. UserOK(w)
  BY <1>2, <1>3, <1>4 DEF UserOK
<1>6. /\ UserOK(w) /\ w.review = Values!NoReview /\ w.receipts = u.receipts
      /\ \A k \in Values!Keys : w.owner[k] \in {u.owner[k], "none"}
  BY <1>2, <1>4, <1>5
<1> QED
  BY <1>6 DEF w

\* With one motor a review is taken back.
LEMMA SkipStep ==
  ASSUME ValueInv, Values!SkipZ
  PROVE  ValueInv'
<1>1. UserOK(user) /\ OwnerOK(user, edited)
  BY DEF ValueInv, DataInv, OwnerInv
<1>2. user' = Values!ClearCopied(user) /\ UNCHANGED <<typed, viewed, edited>>
  BY DEF Values!SkipZ, Values!Became, Values!Kept
<1>3. /\ UserOK(user') /\ user'.review = Values!NoReview /\ user'.receipts = user.receipts
      /\ \A k \in Values!Keys : user'.owner[k] \in {user.owner[k], "none"}
  BY <1>1, <1>2, ClearKeeps
<1>4. DataInv'
  BY <1>2, <1>3 DEF ValueInv, DataInv
<1>5. OwnerInv'
  BY <1>1, <1>2, <1>3 DEF OwnerInv, OwnerOK
<1>6. ReviewInv'
  BY <1>3 DEF ReviewInv
<1>7. ReceiptInv'
  BY <1>2, <1>3 DEF ValueInv, ReceiptInv, Values!Keys
<1> QED
  BY <1>4, <1>5, <1>6, <1>7 DEF ValueInv

\* Values that are resolved are numbers.
LEMMA ResolvedIsNumber ==
  ASSUME Values!ProvenanceAssumption, NEW u, UserOK(u), NEW k \in Values!Primary
  PROVE  Values!Resolved(u, k) \in Nat \cup {Values!Absent}
<1>1. k \in Values!Keys /\ k \notin {"z_position_max", Values!Direction}
  BY KeysAre, KeyKinds
<1>2. Values!Resolved(u, k) = IF Values!Resolvable(u, k) THEN Values!Claimed(u, k) ELSE Values!Absent
  BY <1>1, ResolvedAt
<1> QED
  BY <1>1, <1>2, SourcesAreNumbers

\* A choice for the second motor.
LEMMA ChosenKeeps ==
  ASSUME Values!ProvenanceAssumption, NEW u, UserOK(u),
         NEW c \in Values!Choices(u), NEW owned
  PROVE  LET w == Values!Chosen(u, c, owned)
         IN  /\ UserOK(w) /\ w.receipts = u.receipts
             /\ \A k \in Values!Keys : w.owner[k] = IF k \in Values!Secondary
                                                    THEN "USER_OVERRIDE" ELSE u.owner[k]
<1> DEFINE value == [k \in Values!Keys |-> IF k \in Values!Secondary THEN c[k] ELSE u.value[k]]
           v == Values!MarkUserOverride([u EXCEPT !.value = value], Values!Secondary)
           r == [owned |-> owned \cup {<<k, c[k]>> : k \in Values!Secondary}]
           w == [v EXCEPT !.review = r]
<1>1. \A k \in Values!Secondary : c[k] \in Nat \cup {Values!Absent}
  <2>1. CASE c \in [Values!Secondary -> Distances]
    BY <2>1 DEF Values!ProvenanceAssumption
  <2>2. CASE c = [k \in Values!Secondary |-> Values!Resolved(u, Values!Partner(k))]
    <3>1. \A k \in Values!Secondary : Values!Partner(k) \in Values!Primary
      BY DEF Values!Partner, Values!Primary
    <3>2. ASSUME NEW k \in Values!Secondary
          PROVE  Values!Resolved(u, Values!Partner(k)) \in Nat \cup {Values!Absent}
      BY <3>1, ResolvedIsNumber
    <3> QED
      BY <2>2, <3>2
  <2> QED
    BY <2>1, <2>2 DEF Values!Choices
<1>2. value \in [Values!Keys -> Nat \cup {Values!Absent}]
  BY <1>1 DEF UserOK
<1>3. Values!Secondary \subseteq Values!Keys \ Values!TmcKeys
  BY KeysAre, KeyKinds
<1>4. Values!Chosen(u, c, owned) = w
  BY DEF Values!Chosen
<1> HIDE DEF value
<1>5. /\ UserOK(v) /\ v.receipts = u.receipts
      /\ v.owner = [k \in Values!Keys |-> IF k \in Values!Secondary
                                          THEN "USER_OVERRIDE" ELSE u.owner[k]]
  BY <1>2, <1>3, SettingKeeps
<1> HIDE DEF v, r
<1>6. UserOK(w) /\ w.owner = v.owner /\ w.receipts = v.receipts
  BY <1>5, ReviewReplaced
<1> HIDE DEF w
<1>7. \A k \in Values!Keys : w.owner[k] = IF k \in Values!Secondary
                                         THEN "USER_OVERRIDE" ELSE u.owner[k]
  BY <1>5, <1>6
<1> QED
  BY <1>4, <1>5, <1>6, <1>7

\* The second motor is reviewed beside the primary on the screen.
LEMMA ReviewStep ==
  ASSUME Values!ProvenanceAssumption, ValueInv, Values!ReviewZ
  PROVE  ValueInv'
<1>1. UserOK(user) /\ OwnerOK(user, edited)
  BY DEF ValueInv, DataInv, OwnerInv
<1> DEFINE fresh == Values!ZConfirmationMatches(user)
           base == IF fresh THEN [user EXCEPT !.review = Values!NoReview]
                   ELSE Values!ClearCopied(user)
           kept == IF fresh THEN user.review.owned ELSE {}
<1>2. /\ UserOK(base) /\ base.receipts = user.receipts
      /\ \A k \in Values!Keys : base.owner[k] \in {user.owner[k], "none"}
  <2>1. CASE fresh
    BY <1>1, <2>1, ReviewReplaced
  <2>2. CASE ~fresh
    BY <1>1, <2>2, ClearKeeps
  <2> QED
    BY <2>1, <2>2
<1>3. PICK v \in (IF Values!CanKeep(base) THEN {[base EXCEPT !.review = [owned |-> kept]]} ELSE {})
                    \cup {Values!Chosen(base, c, kept) : c \in Values!Choices(base)} :
          /\ user' = Values!Confirmed(v, {o \in v.review.owned : v.value[o[1]] = o[2]})
          /\ viewed' = [k \in Values!Primary |-> Values!Resolved(v, k)]
          /\ edited' = edited \cup {k \in Values!Secondary : v.owner[k] = "USER_OVERRIDE"}
          /\ typed' = typed
  BY DEF Values!ReviewZ, Values!Became
<1> HIDE DEF base, kept
<1>4. /\ UserOK(v) /\ v.receipts = user.receipts
      /\ \A k \in Values!Keys : \/ v.owner[k] \in {user.owner[k], "none"}
                                \/ k \in Values!Secondary /\ v.owner[k] = "USER_OVERRIDE"
  <2>1. CASE v = [base EXCEPT !.review = [owned |-> kept]]
    <3>1. UserOK(v) /\ v.receipts = base.receipts /\ v.owner = base.owner
      BY <1>2, <2>1, ReviewReplaced
    <3> QED
      BY <1>2, <3>1
  <2>2. CASE \E c \in Values!Choices(base) : v = Values!Chosen(base, c, kept)
    <3>1. PICK c \in Values!Choices(base) : v = Values!Chosen(base, c, kept)
      BY <2>2
    <3>2. /\ UserOK(v) /\ v.receipts = base.receipts
          /\ \A k \in Values!Keys : v.owner[k] = IF k \in Values!Secondary
                                                 THEN "USER_OVERRIDE" ELSE base.owner[k]
      BY <1>2, <3>1, ChosenKeeps
    <3> QED
      BY <1>2, <3>2
  <2> QED
    BY <2>1, <2>2
<1> DEFINE blank == [v EXCEPT !.review = Values!NoReview]
           r == [owned |-> {o \in v.review.owned : v.value[o[1]] = o[2]},
                 context |-> Values!ZMechanicsContext(blank),
                 values |-> [k \in Values!Secondary |-> Values!Resolved(blank, k)]]
<1>5. UserOK(blank)
  BY <1>4, ReviewReplaced
<1>6. user' = [blank EXCEPT !.review = r]
  BY <1>3 DEF Values!Confirmed
<1>7. blank.owner = v.owner /\ blank.receipts = v.receipts
  BY <1>4, ReviewReplaced
<1>8. r.context.primary = viewed'
  <2>1. Values!ZMechanicsContext(blank).primary = [k \in Values!Primary |-> Values!Resolved(blank, k)]
    BY DEF Values!ZMechanicsContext
  <2>2. ASSUME NEW k \in Values!Primary
        PROVE  Values!Resolved(blank, k) = Values!Resolved(v, k)
    BY <1>4, ReviewIsNotLookedAt
  <2>3. r.context = Values!ZMechanicsContext(blank)
    OBVIOUS
  <2> HIDE DEF blank, r
  <2> QED
    BY <1>3, <2>1, <2>2, <2>3
<1> HIDE DEF blank, r
<1>9. UserOK(user') /\ user'.owner = v.owner /\ user'.receipts = user.receipts /\ user'.review = r
  BY <1>4, <1>5, <1>6, <1>7, ReviewReplaced
<1>10. DataInv'
  BY <1>3, <1>9, KeysAre, KeyKinds DEF ValueInv, DataInv
<1>11. OwnerInv'
  BY <1>1, <1>3, <1>4, <1>9, KeyKinds DEF OwnerInv, OwnerOK
<1>12. ReviewInv'
  BY <1>8, <1>9 DEF ReviewInv
<1>13. \A k \in Values!TmcKeys : user'.owner[k] = "USER_OVERRIDE" => user.owner[k] = "USER_OVERRIDE"
  BY <1>4, <1>9, KeysAre, KeyKinds
<1>14. ReceiptInv'
  <2>1. user'.receipts = user.receipts /\ typed' = typed
    BY <1>3, <1>9
  <2> QED
    BY <1>13, <2>1 DEF ValueInv, ReceiptInv
<1> QED
  BY <1>10, <1>11, <1>12, <1>14 DEF ValueInv

\* Every step of the wizard keeps the invariant.
LEMMA ValueNext ==
  ASSUME Values!ProvenanceAssumption, ValueInv, [Values!Next]_(Values!vars)
  PROVE  ValueInv'
<1>1. CASE Values!Next
  <2>1. CASE \/ \E b \in Circuit : Values!SelectBoard(b)
             \/ \E d \in Models : Values!SelectDriver(d)
             \/ \E n \in MotorCounts : Values!SelectMotors(n)
             \/ Values!ScratchBuild
    BY <2>1, SelectionStep
  <2>2. CASE \E p \in Printer : Values!LoadProfile(p)
    BY <2>2, ProfileStep
  <2>3. CASE \E v \in Travels : Values!StepVolume(v)
    BY <2>3, VolumeStep
  <2>4. CASE \E max \in Travels, e \in Endstops : Values!StepLimits(max, e)
    BY <2>4, LimitsStep
  <2>5. CASE \E mode \in {"auto", "min", "max"} : Values!StepHomingDirection(mode)
    BY <2>5, DirectionStep
  <2>6. CASE Values!StepTmcCurrents
    BY <2>6, CurrentsStep
  <2>7. CASE Values!ReviewZ
    BY <2>7, ReviewStep
  <2>8. CASE Values!SkipZ
    BY <2>8, SkipStep
  <2> QED
    BY <1>1, <2>1, <2>2, <2>3, <2>4, <2>5, <2>6, <2>7, <2>8 DEF Values!Next
<1>2. CASE UNCHANGED Values!vars
  BY <1>2 DEF Values!vars, ValueInv, DataInv, UserOK, OwnerInv, OwnerOK, ReviewInv, ReceiptInv
<1> QED
  BY <1>1, <1>2

-----------------------------------------------------------------------------
(* The promises follow from the invariant.                                 *)

\* The user data have their types.
LEMMA TypeFollows ==
  ASSUME ValueInv
  PROVE  Values!TypeOK
BY DEF ValueInv, DataInv, UserOK, Values!TypeOK

\* A current that is the operator's has a receipt for the user data as they are.
LEMMA CurrentFollows ==
  ASSUME Values!ProvenanceAssumption, ValueInv
  PROVE  Values!CurrentBelongsToCircuit
<1> SUFFICES ASSUME Values!Accepted(user), NEW k \in Values!TmcKeys,
                    Values!Resolved(user, k) # Values!Absent,
                    Values!Resolved(user, k) # Values!BoardValue(user, k)
             PROVE  \E c \in typed[k] : Values!SameCircumstances(c, Values!Circumstances(user))
  BY DEF Values!CurrentBelongsToCircuit
<1>1. k \in Values!Keys /\ k \notin {"z_position_max", Values!Direction} /\ k \notin DOMAIN Values!SafeDefault
  BY KeysAre, KeyKinds
<1>2. Values!Resolvable(user, k) /\ Values!Resolved(user, k) = Values!Claimed(user, k)
  BY <1>1, ResolvedAt
<1>3. Values!Provenance(user, k) # "UNRESOLVED"
  BY <1>1, <1>2 DEF Values!Accepted
<1>4. ~Values!CurrentRefused(user, k)
  BY <1>3 DEF Values!Provenance
<1>5. Values!SourceValue(user, k) = Values!BoardValue(user, k)
  BY DEF Values!SourceValue
<1>6. Values!Claim(user, k) # "SAFE_DEFAULT"
  BY <1>1 DEF Values!Claim
<1>7. Values!Claim(user, k) = "USER_OVERRIDE"
  BY <1>2, <1>5, <1>6 DEF Values!Claimed
<1>8. user.owner[k] = "USER_OVERRIDE"
  BY <1>7 DEF Values!Claim
<1>9. Values!ConfirmationMatches(user, k)
  BY <1>4, <1>7 DEF Values!CurrentRefused
<1>10. user.receipts[k].context = Values!TmcCurrentContext(user)
  <2>1. user.receipts[k] = [value |-> user.value[k], context |-> Values!TmcCurrentContext(user)]
    BY <1>9 DEF Values!ConfirmationMatches
  <2> QED
    BY <2>1
<1>11. PICK u : /\ user.receipts[k].context = Values!TmcCurrentContext(u)
                /\ typed[k] = {Values!Circumstances(u)}
                /\ \A s \in Values!Secondary : u.owner[s] # "INFERRED"
  BY <1>8 DEF ValueInv, ReceiptInv
<1>12. \A s \in Values!Secondary : user.owner[s] # "INFERRED"
  BY KeysAre, KeyKinds DEF ValueInv, OwnerInv, OwnerOK
<1>13. \A s \in Values!Secondary :
           Values!Resolvable(user, s) => Values!Provenance(user, s) # "UNRESOLVED"
  BY KeysAre, KeyKinds DEF Values!Accepted
<1>14. Values!TmcCurrentContext(u) = Values!TmcCurrentContext(user)
  BY <1>10, <1>11
<1>15. \A s \in Values!Secondary : u.owner[s] # "INFERRED" /\ user.owner[s] # "INFERRED"
  BY <1>11, <1>12
<1>16. Values!SameCircumstances(Values!Circumstances(u), Values!Circumstances(user))
  BY <1>13, <1>14, <1>15, ContextTells
<1> QED
  BY <1>11, <1>16

\* A key the operator did not set is not his, so that its source comes first.
LEMMA SourceFollows ==
  ASSUME Values!ProvenanceAssumption, ValueInv
  PROVE  Values!SourceIsNotHidden
<1> SUFFICES ASSUME Values!Accepted(user), NEW k \in Values!Keys \ (Values!TmcKeys \cup edited),
                    Values!Resolvable(user, k), Values!ProfileSource(user)[k] # Values!Absent
             PROVE  Values!Resolved(user, k) = Values!ProfileSource(user)[k]
  BY DEF Values!SourceIsNotHidden
<1>1. user.owner[k] \notin {"USER_OVERRIDE", "INFERRED"}
  BY DEF ValueInv, OwnerInv, OwnerOK
<1>2. Values!SourceValue(user, k) = Values!ProfileSource(user)[k]
  BY DEF Values!SourceValue
<1>3. k # "hold_current_z1"
  BY KeyKinds
<1>4. Values!Claim(user, k) = "PROFILE"
  BY <1>1, <1>2, <1>3 DEF Values!Claim
<1>5. Values!Claimed(user, k) = Values!ProfileSource(user)[k]
  BY <1>2, <1>4 DEF Values!Claimed
<1>6. Values!Resolved(user, k) = Values!Claimed(user, k)
  BY <1>4 DEF Values!Resolved, Values!PositionMax
<1> QED
  BY <1>5, <1>6

\* An accepted review is one of the primary that is generated.
LEMMA ReviewFollows ==
  ASSUME ValueInv
  PROVE  Values!ReviewedBesideThisPrimary
<1> SUFFICES ASSUME user.review # Values!NoReview, Values!Accepted(user)
             PROVE  viewed = [k \in Values!Primary |-> Values!Resolved(user, k)]
  BY DEF Values!ReviewedBesideThisPrimary
<1>1. user.review.context = Values!ZMechanicsContext(user)
  BY DEF Values!Accepted, Values!ZConfirmationMatches
<1>2. Values!ZMechanicsContext(user).primary = [k \in Values!Primary |-> Values!Resolved(user, k)]
  BY DEF Values!ZMechanicsContext
<1> QED
  BY <1>1, <1>2 DEF ValueInv, ReviewInv

\* Defaults of coupled motors agree.
LEMMA DefaultFollows ==
  Values!DefaultMovesWithPrimary
<1> SUFFICES ASSUME user.motors > 1, Values!Accepted(user), NEW k \in Values!Secondary,
                    Values!Provenance(user, k) = "SAFE_DEFAULT",
                    ~(k = "gear_ratio_z1" /\ Values!IndependentlyDefined(user))
             PROVE  Values!Resolved(user, k) = Values!Resolved(user, Values!Partner(k))
  BY DEF Values!DefaultMovesWithPrimary
<1>1. k \in {"rotation_distance_z1", "gear_ratio_z1"}
  BY KeyKinds
<1>2. Values!Resolvable(user, k)
  BY <1>1 DEF Values!Resolvable, Values!TmcKeys
<1>3. Values!Resolved(user, Values!Partner(k)) = Values!SafeDefault[k]
  BY <1>2 DEF Values!Accepted, Values!ZMechanicsValid
<1>4. Values!Claim(user, k) = "SAFE_DEFAULT"
  BY <1>1, KeyKinds DEF Values!Provenance
<1>5. Values!Resolved(user, k) = Values!Claimed(user, k)
  BY <1>1, <1>2, ResolvedAt, KeyKinds
<1>6. Values!Claimed(user, k) = Values!SafeDefault[k]
  BY <1>4 DEF Values!Claimed
<1> QED
  BY <1>3, <1>5, <1>6

\* An automatic direction is inferred from the endstop and travel that are generated.
LEMMA AutomaticFollows ==
  ASSUME Values!ProvenanceAssumption, ValueInv
  PROVE  Values!AutomaticHomesToEndstop
<1> DEFINE endstop == Values!Resolved(user, "z_position_endstop")
           max == Values!Resolved(user, "z_position_max")
           way == Values!Resolved(user, Values!Direction)
<1> SUFFICES ASSUME user.owner[Values!Direction] = "INFERRED", Values!Accepted(user)
             PROVE  IF way = 0 THEN endstop < max - endstop ELSE max - endstop < endstop
  BY DEF Values!AutomaticHomesToEndstop
<1>1. UserOK(user)
  BY DEF ValueInv, DataInv
<1>2. Values!Claim(user, Values!Direction) = "UNRESOLVED"
  BY DEF Values!Claim, Values!Direction
<1>3. /\ Values!Resolvable(user, Values!Direction)
      /\ Values!Resolvable(user, "z_position_endstop") /\ Values!Resolvable(user, "z_position_max")
  BY KeyKinds DEF Values!Resolvable
<1>4. /\ way = Values!Inferred(user)
      /\ endstop = Values!Claimed(user, "z_position_endstop")
      /\ max = Values!PositionMax(user)
  BY <1>2, <1>3 DEF Values!Resolved, Values!Direction
<1>5. Values!Provenance(user, Values!Direction) # "UNRESOLVED"
  BY <1>3, KeysAre, KeyKinds DEF Values!Accepted
<1>6. Values!Inferred(user) # Values!Absent
  BY <1>2, <1>5 DEF Values!Provenance
<1>7. /\ endstop \in Nat \cup {Values!Absent} /\ max \in Nat \cup {Values!Absent}
  <2>1. /\ Values!Claimed(user, "z_position_endstop") \in Nat \cup {Values!Absent}
        /\ Values!Claimed(user, "z_position_max") \in Nat \cup {Values!Absent}
        /\ Values!Claimed(user, "z_size") \in Nat \cup {Values!Absent}
    BY <1>1, KeysAre, SourcesAreNumbers
  <2> QED
    BY <1>4, <2>1 DEF Values!PositionMax
<1>8. way = Values!InferHomingPositiveDir(endstop, max)
  BY <1>4 DEF Values!Inferred
<1>9. way # Values!Absent
  BY <1>4, <1>6
<1> HIDE DEF endstop, max, way
<1>10. /\ endstop \in Nat /\ max \in Nat /\ max > 0
       /\ \/ way = 0 /\ 4 * endstop <= max
          \/ way = 1 /\ 4 * endstop >= 3 * max
  BY <1>7, <1>8, <1>9, KeyKinds DEF Values!InferHomingPositiveDir
<1> QED
  BY <1>10

\* The values are current (ValuesAreCurrent), for any boards, profiles and
\* answers and in every order of the steps.
THEOREM ValuesAreCurrentAlways ==
  ASSUME Values!ProvenanceAssumption
  PROVE  Values!Spec => []ValuesAreCurrent
<1>1. Values!Init => ValueInv
  BY ValueInit
<1>2. ValueInv /\ [Values!Next]_(Values!vars) => ValueInv'
  BY ValueNext
<1>3. ValueInv => ValuesAreCurrent
  BY TypeFollows, CurrentFollows, SourceFollows, ReviewFollows, DefaultFollows, AutomaticFollows
     DEF ValuesAreCurrent
<1> QED
  BY <1>1, <1>2, <1>3, PTL DEF Values!Spec

-----------------------------------------------------------------------------
(* ProfileEditor: the review screen of a profile and its staged editor.    *)

\* User data in which no current was typed and no motor reviewed: the screen
\* follows the loading of a profile.
Untyped(u) ==
    /\ UserOK(u) /\ u.review = Values!NoReview
    /\ \A k \in Values!TmcKeys : u.owner[k] # "USER_OVERRIDE"
    /\ \A k \in Values!Keys \ {Values!Direction} : u.owner[k] # "INFERRED"

\* The keys of the bed and the travel that the operator has set are his, and the
\* screen shows their values.
IsShown(u, s, ks) ==
    /\ s = [k \in Values!Shown |-> s[k]]
    /\ \A k \in ks \cap Values!Geometry :
           u.owner[k] = "USER_OVERRIDE" /\ u.value[k] \in Nat /\ s[k] = u.value[k]

EditInv ==
    /\ Untyped(user) /\ Untyped(draft.user) /\ Untyped(before)
    /\ edited \subseteq Values!Keys /\ draft.touched \subseteq Values!Keys
    /\ OwnerOK(user, edited) /\ OwnerOK(draft.user, edited \cup draft.touched)
    /\ typed = [k \in Values!TmcKeys |-> typed[k]]
    /\ screen \in {"review", "editor"} =>
           /\ IsShown(user, shown, edited)
           /\ IsShown(draft.user, draft.shown, edited \cup draft.touched)

\* The screen as the editor leaves it, with fresh copies.
LEMMA FreshCopies ==
  ASSUME Untyped(user'), Untyped(before'), edited' \subseteq Values!Keys,
         OwnerOK(user', edited'), typed' = [k \in Values!TmcKeys |-> typed'[k]],
         screen' \in {"review", "editor"} => IsShown(user', shown', edited'),
         draft' = Values!Draft(user', shown')
  PROVE  EditInv'
<1>1. draft'.user = user' /\ draft'.shown = shown' /\ draft'.touched = {}
  BY DEF Values!Draft
<1>2. edited' \cup draft'.touched = edited'
  BY <1>1
<1> QED
  BY <1>1, <1>2 DEF EditInv

\* Before a profile is loaded there is nothing to show.
LEMMA EditInit ==
  ASSUME Values!ProvenanceAssumption, Values!EInit
  PROVE  EditInv
<1>1. ValueInv
  BY ValueInit DEF Values!EInit
<1>2. /\ user.review = Values!NoReview
      /\ \A k \in Values!Keys : user.owner[k] \in {"SAFE_DEFAULT", "none"}
  BY DEF Values!Init, Values!EInit
<1>3. Untyped(user)
  BY <1>1, <1>2, KeysAre, KeyKinds DEF ValueInv, DataInv, Untyped
<1>4. /\ draft.user = user /\ draft.touched = {} /\ before = user
      /\ screen = "wizard"
  BY DEF Values!EInit, Values!Draft
<1>5. edited \cup draft.touched = edited
  BY <1>4
<1>6. /\ edited \subseteq Values!Keys /\ OwnerOK(user, edited)
      /\ typed = [k \in Values!TmcKeys |-> typed[k]]
  BY <1>1 DEF ValueInv, DataInv, OwnerInv
<1> QED
  BY <1>3, <1>4, <1>5, <1>6 DEF EditInv

\* A profile is loaded and shown.
LEMMA LoadStep ==
  ASSUME Values!ProvenanceAssumption, EditInv, NEW p \in Printer, Values!StepProfile(p)
  PROVE  EditInv'
<1>1. Untyped(user) /\ UserOK(user)
  BY DEF EditInv, Untyped
<1>2. /\ UserOK(user') /\ user'.review = user.review
      /\ \A k \in Values!Keys : user'.owner[k] \in {"PROFILE", "SAFE_DEFAULT", "none"}
      /\ edited' = {} /\ typed' = typed
  BY <1>1, ProfileMarks DEF Values!StepProfile
<1>3. Untyped(user')
  BY <1>1, <1>2, KeysAre, KeyKinds DEF Untyped
<1>4. OwnerOK(user', edited')
  BY <1>2 DEF OwnerOK
<1>5. /\ before' = user /\ shown' = Values!Loaded(p) /\ draft' = Values!Draft(user', shown')
  BY DEF Values!StepProfile
<1>6. IsShown(user', shown', edited')
  BY <1>2, <1>5 DEF IsShown, Values!Loaded
<1>7. typed' = [k \in Values!TmcKeys |-> typed'[k]]
  BY <1>2 DEF EditInv
<1> QED
  BY <1>1, <1>2, <1>3, <1>4, <1>5, <1>6, <1>7, FreshCopies

\* An edit of the draft.
LEMMA DraftedKeeps ==
  ASSUME EditInv, NEW u, NEW s, NEW ks, Values!Drafted(u, s, ks), ks \subseteq Values!Keys,
         Untyped(u), OwnerOK(u, edited \cup draft.touched \cup ks),
         IsShown(draft.user, draft.shown, edited \cup draft.touched) =>
             IsShown(u, s, edited \cup draft.touched \cup ks)
  PROVE  EditInv'
<1>1. /\ draft'.user = u /\ draft'.shown = s /\ draft'.touched = draft.touched \cup ks
      /\ screen = "editor" /\ UNCHANGED <<user, typed, viewed, edited, screen, shown, before>>
  BY DEF Values!Drafted, Values!vars
<1>2. edited' \cup draft'.touched = edited \cup draft.touched \cup ks
  BY <1>1
<1> QED
  BY <1>1, <1>2 DEF EditInv

\* A setting made in a draft.
SetIn(u, value, k) == Values!MarkUserOverride([u EXCEPT !.value = value], {k})

\* What a setting of the bed or the travel leaves in a draft.
LEMMA SettingShown ==
  ASSUME NEW u, Untyped(u), NEW ts, OwnerOK(u, ts), NEW k \in Values!Geometry,
         NEW value \in [Values!Keys -> Nat \cup {Values!Absent}]
  PROVE  /\ Untyped(SetIn(u, value, k)) /\ OwnerOK(SetIn(u, value, k), ts \cup {k})
         /\ SetIn(u, value, k).value = value
         /\ SetIn(u, value, k).owner[k] = "USER_OVERRIDE"
         /\ \A j \in Values!Keys \ {k} : SetIn(u, value, k).owner[j] = u.owner[j]
<1> DEFINE ks == {k}
           w == Values!MarkUserOverride([u EXCEPT !.value = value], ks)
<1>1. k \in Values!Keys \ Values!TmcKeys /\ k # Values!Direction
  BY KeysAre, KeyKinds DEF Values!Geometry
<1>2. UserOK(u)
  BY DEF Untyped
<1>3. ks \subseteq Values!Keys \ Values!TmcKeys
  BY <1>1
<1> HIDE DEF ks
<1>4. /\ UserOK(w) /\ w.value = value /\ w.review = u.review
      /\ w.owner = [j \in Values!Keys |-> IF j \in ks THEN "USER_OVERRIDE" ELSE u.owner[j]]
      /\ OwnerOK(w, ts \cup ks)
  BY <1>2, <1>3, SettingKeeps
<1> HIDE DEF w
<1>5. \A j : j \in ks <=> j = k
  BY DEF ks
<1>6. w.owner[k] = "USER_OVERRIDE" /\ \A j \in Values!Keys \ {k} : w.owner[j] = u.owner[j]
  BY <1>1, <1>4, <1>5
<1>7. Untyped(w)
  BY <1>1, <1>4, <1>6 DEF Untyped, Values!Keys
<1>8. SetIn(u, value, k) = w /\ ks = {k}
  BY DEF w, ks, SetIn
<1> QED
  BY <1>4, <1>6, <1>7, <1>8

\* A larger bed raises the travel, and both are shown.
LEMMA EditVolumeStep ==
  ASSUME Values!ProvenanceAssumption, EditInv, NEW v \in Travels, Values!EditVolume(v)
  PROVE  EditInv'
<1> DEFINE u == draft.user
           ts == edited \cup draft.touched
           low == u.value["z_position_max"] < v
           raised == IF low THEN v ELSE u.value["z_position_max"]
           value == [u.value EXCEPT !["z_size"] = v, !["z_position_max"] = raised]
           ks == {"z_size"}
           w == SetIn(u, value, "z_size")
           s == [draft.shown EXCEPT !["z_size"] = v,
                                    !["z_position_max"] = IF low THEN v ELSE @]
<1>1. Untyped(u) /\ OwnerOK(u, ts) /\ v \in Nat /\ UserOK(u)
  BY DEF EditInv, Untyped, Values!ProvenanceAssumption
<1>2. value \in [Values!Keys -> Nat \cup {Values!Absent}]
  BY <1>1, KeysAre DEF UserOK
<1>3. [u EXCEPT !.value["z_size"] = v, !.value["z_position_max"] = raised] = [u EXCEPT !.value = value]
  BY <1>1 DEF UserOK
<1>4. Values!Drafted(w, s, ks)
  BY <1>3 DEF Values!EditVolume, SetIn
<1>5. /\ value["z_size"] = v /\ value["z_position_max"] = raised
      /\ \A k \in Values!Keys \ {"z_size", "z_position_max"} : value[k] = u.value[k]
  BY <1>1, KeysAre DEF UserOK
<1>6. u.value["z_position_max"] \in Nat \cup {-1}
  BY <1>1, KeysAre, KeyKinds DEF UserOK
<1> HIDE DEF u, ts, value, w, ks
<1>7. /\ Untyped(w) /\ OwnerOK(w, ts \cup ks) /\ w.value = value
      /\ w.owner["z_size"] = "USER_OVERRIDE"
      /\ \A j \in Values!Keys \ {"z_size"} : w.owner[j] = u.owner[j]
  <2>1. "z_size" \in Values!Geometry
    BY DEF Values!Geometry
  <2>2. ks = {"z_size"}
    BY DEF ks
  <2>3. Untyped(u) /\ OwnerOK(u, ts)
    BY <1>1
  <2>4. ASSUME NEW k \in Values!Geometry
        PROVE  /\ Untyped(SetIn(u, value, k)) /\ OwnerOK(SetIn(u, value, k), ts \cup {k})
               /\ SetIn(u, value, k).value = value
               /\ SetIn(u, value, k).owner[k] = "USER_OVERRIDE"
               /\ \A j \in Values!Keys \ {k} : SetIn(u, value, k).owner[j] = u.owner[j]
    BY <1>2, <2>3, SettingShown
  <2> QED
    BY <2>1, <2>2, <2>4 DEF w
<1>8. ASSUME IsShown(u, draft.shown, ts)
      PROVE  IsShown(w, s, ts \cup ks)
  <2>1. /\ s = [k \in Values!Shown |-> s[k]]
        /\ s["z_size"] = v
        /\ s["z_position_max"] = IF low THEN v ELSE draft.shown["z_position_max"]
        /\ s["z_position_endstop"] = draft.shown["z_position_endstop"]
    BY <1>8 DEF IsShown, Values!Shown, Values!Geometry
  <2> HIDE DEF s
  <2>2. ASSUME NEW k \in (ts \cup {"z_size"}) \cap Values!Geometry
        PROVE  w.owner[k] = "USER_OVERRIDE" /\ w.value[k] \in Nat /\ s[k] = w.value[k]
    <3>1. CASE k = "z_size"
      BY <1>1, <1>5, <1>7, <2>1, <3>1
    <3>2. CASE k = "z_position_max"
      BY <1>1, <1>5, <1>7, <1>8, <2>1, <3>2, KeysAre DEF IsShown
    <3>3. CASE k = "z_position_endstop"
      BY <1>5, <1>7, <1>8, <2>1, <3>3, KeysAre DEF IsShown
    <3> QED
      BY <3>1, <3>2, <3>3 DEF Values!Geometry
  <2> QED
    BY <2>1, <2>2 DEF IsShown, ks
<1> HIDE DEF s
<1>9. ks \subseteq Values!Keys
  BY KeysAre DEF ks
<1> QED
  BY <1>4, <1>7, <1>8, <1>9, DraftedKeeps DEF u, ts

\* A limit is set and shown.
LEMMA EditLimitStep ==
  ASSUME EditInv, NEW k \in {"z_position_max", "z_position_endstop"}, NEW n \in Nat,
         Values!EditLimit(k, n)
  PROVE  EditInv'
<1> DEFINE u == draft.user
           ts == edited \cup draft.touched
           value == [u.value EXCEPT ![k] = n]
           ks == {k}
           w == SetIn(u, value, k)
           s == [draft.shown EXCEPT ![k] = n]
<1>1. Untyped(u) /\ OwnerOK(u, ts) /\ UserOK(u)
  BY DEF EditInv, Untyped
<1>2. k \in Values!Keys /\ k \in Values!Geometry
  BY KeysAre DEF Values!Geometry
<1>3. /\ value \in [Values!Keys -> Nat \cup {Values!Absent}]
      /\ value[k] = n /\ \A j \in Values!Keys \ {k} : value[j] = u.value[j]
  BY <1>1, <1>2 DEF UserOK
<1>4. [u EXCEPT !.value[k] = n] = [u EXCEPT !.value = value]
  BY <1>1 DEF UserOK
<1>5. Values!Drafted(w, s, ks)
  BY <1>4 DEF Values!EditLimit, SetIn
<1> HIDE DEF u, ts, value, w, ks
<1>6. /\ Untyped(w) /\ OwnerOK(w, ts \cup ks) /\ w.value = value
      /\ w.owner[k] = "USER_OVERRIDE"
      /\ \A j \in Values!Keys \ {k} : w.owner[j] = u.owner[j]
  <2>1. ks = {k}
    BY DEF ks
  <2>2. Untyped(u) /\ OwnerOK(u, ts) /\ k \in Values!Geometry
        /\ value \in [Values!Keys -> Nat \cup {Values!Absent}]
    BY <1>1, <1>2, <1>3
  <2>3. /\ Untyped(SetIn(u, value, k)) /\ OwnerOK(SetIn(u, value, k), ts \cup {k})
        /\ SetIn(u, value, k).value = value
        /\ SetIn(u, value, k).owner[k] = "USER_OVERRIDE"
        /\ \A j \in Values!Keys \ {k} : SetIn(u, value, k).owner[j] = u.owner[j]
    BY <2>2, SettingShown
  <2> QED
    BY <2>1, <2>3 DEF w
<1>7. ASSUME IsShown(u, draft.shown, ts)
      PROVE  IsShown(w, s, ts \cup ks)
  <2>1. /\ s = [j \in Values!Shown |-> s[j]]
        /\ s[k] = n
        /\ \A j \in Values!Geometry \ {k} : s[j] = draft.shown[j]
    BY <1>2, <1>7 DEF IsShown, Values!Shown
  <2> HIDE DEF s
  <2>2. ASSUME NEW j \in (ts \cup {k}) \cap Values!Geometry
        PROVE  w.owner[j] = "USER_OVERRIDE" /\ w.value[j] \in Nat /\ s[j] = w.value[j]
    <3>1. CASE j = k
      BY <1>3, <1>6, <2>1, <3>1
    <3>2. CASE j # k
      <4>1. j \in ts \cap Values!Geometry /\ j \in Values!Keys
        BY <3>2, KeysAre DEF Values!Geometry
      <4>2. u.owner[j] = "USER_OVERRIDE" /\ u.value[j] \in Nat /\ draft.shown[j] = u.value[j]
        BY <1>7, <4>1 DEF IsShown
      <4> QED
        BY <1>3, <1>6, <2>1, <3>2, <4>1, <4>2
    <3> QED
      BY <3>1, <3>2
  <2> QED
    BY <2>1, <2>2 DEF IsShown, ks
<1> HIDE DEF s
<1>8. ks \subseteq Values!Keys
  BY <1>2 DEF ks
<1> QED
  BY <1>5, <1>6, <1>7, <1>8, DraftedKeeps DEF u, ts

\* A direction keeps untyped user data untyped.
LEMMA DirectionUntyped ==
  ASSUME NEW u, Untyped(u), NEW ts, OwnerOK(u, ts), NEW mode \in {"auto", "min", "max"}
  PROVE  LET w == Values!ApplyHomingDirection(u, mode)
         IN  /\ Untyped(w) /\ OwnerOK(w, ts \cup {Values!Direction})
             /\ \A k \in Values!Geometry : w.value[k] = u.value[k] /\ w.owner[k] = u.owner[k]
<1> DEFINE w == Values!ApplyHomingDirection(u, mode)
<1>1. /\ UserOK(w) /\ w.review = u.review
      /\ \A k \in Values!Keys \ {Values!Direction} :
             w.value[k] = u.value[k] /\ w.owner[k] = u.owner[k]
      /\ OwnerOK(w, ts \cup {Values!Direction})
  BY DirectionKeeps DEF Untyped
<1>2. /\ Values!TmcKeys \subseteq Values!Keys \ {Values!Direction}
      /\ Values!Geometry \subseteq Values!Keys \ {Values!Direction}
  BY KeysAre, KeyKinds DEF Values!Geometry
<1> HIDE DEF w
<1>3. /\ Untyped(w) /\ OwnerOK(w, ts \cup {Values!Direction})
      /\ \A k \in Values!Geometry : w.value[k] = u.value[k] /\ w.owner[k] = u.owner[k]
  BY <1>1, <1>2 DEF Untyped
<1> QED
  BY <1>3 DEF w

\* The direction of the draft.
LEMMA EditDirectionStep ==
  ASSUME EditInv, NEW mode \in {"auto", "min", "max"}, Values!EditDirection(mode)
  PROVE  EditInv'
<1> DEFINE u == draft.user
           ts == edited \cup draft.touched
           w == Values!ApplyHomingDirection(u, mode)
           s == [draft.shown EXCEPT ![Values!Direction] =
                    IF mode = "auto" THEN Values!Absent ELSE IF mode = "max" THEN 1 ELSE 0]
<1>1. Untyped(u) /\ OwnerOK(u, ts)
  BY DEF EditInv
<1>2. Values!Drafted(w, s, {Values!Direction})
  BY DEF Values!EditDirection
<1> HIDE DEF u, ts
<1>3. /\ Untyped(w) /\ OwnerOK(w, ts \cup {Values!Direction})
      /\ \A k \in Values!Geometry : w.value[k] = u.value[k] /\ w.owner[k] = u.owner[k]
  BY <1>1, DirectionUntyped
<1> HIDE DEF w
<1>4. Values!Direction \notin Values!Geometry
  BY KeyKinds DEF Values!Geometry
<1>5. ASSUME IsShown(u, draft.shown, ts)
      PROVE  IsShown(w, s, ts \cup {Values!Direction})
  <2>1. /\ s = [j \in Values!Shown |-> s[j]]
        /\ \A j \in Values!Geometry : s[j] = draft.shown[j]
    BY <1>4, <1>5 DEF IsShown, Values!Shown
  <2> HIDE DEF s
  <2> QED
    BY <1>3, <1>4, <1>5, <2>1 DEF IsShown
<1> HIDE DEF s
<1>6. {Values!Direction} \subseteq Values!Keys
  BY DEF Values!Keys
<1> QED
  BY <1>2, <1>3, <1>5, <1>6, DraftedKeeps DEF u, ts

\* Opening, saving and leaving the editor, and leaving the screen.
LEMMA ScreenStep ==
  ASSUME EditInv, Values!OpenEditor \/ Values!Save \/ Values!Discard \/ Values!Confirm
                  \/ Values!ReviewBack \/ \E mode \in {"auto", "min", "max"} :
                                              Values!HomingDirections(mode)
  PROVE  EditInv'
<1>1. CASE Values!OpenEditor
  <2>1. /\ UNCHANGED <<user, typed, viewed, edited, shown, draft, before>>
        /\ screen = "review" /\ screen' = "editor"
    BY <1>1 DEF Values!OpenEditor, Values!vars
  <2> QED
    BY <2>1 DEF EditInv
<1>2. CASE Values!Save
  <2>1. /\ user' = draft.user /\ shown' = draft.shown /\ edited' = edited \cup draft.touched
        /\ draft' = Values!Draft(user', shown') /\ UNCHANGED <<typed, viewed, before>>
        /\ screen = "editor"
    BY <1>2 DEF Values!Save
  <2>2. /\ Untyped(user') /\ Untyped(before') /\ edited' \subseteq Values!Keys
        /\ OwnerOK(user', edited') /\ typed' = [k \in Values!TmcKeys |-> typed'[k]]
        /\ IsShown(user', shown', edited')
    BY <2>1 DEF EditInv
  <2> QED
    BY <2>1, <2>2, FreshCopies
<1>3. CASE Values!Discard
  <2>1. /\ UNCHANGED <<user, typed, viewed, edited, shown, before>> /\ screen = "editor"
        /\ draft' = Values!Draft(user', shown')
    BY <1>3 DEF Values!Discard, Values!vars
  <2>2. /\ Untyped(user') /\ Untyped(before') /\ edited' \subseteq Values!Keys
        /\ OwnerOK(user', edited') /\ typed' = [k \in Values!TmcKeys |-> typed'[k]]
        /\ IsShown(user', shown', edited')
    BY <2>1 DEF EditInv
  <2> QED
    BY <2>1, <2>2, FreshCopies
<1>4. CASE Values!Confirm
  <2>1. /\ UNCHANGED <<user, typed, viewed, edited>> /\ screen' = "wizard"
        /\ draft' = Values!Draft(user', shown') /\ before' = user'
    BY <1>4 DEF Values!Confirm, Values!Leave, Values!vars
  <2>2. /\ Untyped(user') /\ Untyped(before') /\ edited' \subseteq Values!Keys
        /\ OwnerOK(user', edited') /\ typed' = [k \in Values!TmcKeys |-> typed'[k]]
    BY <2>1 DEF EditInv
  <2> QED
    BY <2>1, <2>2, FreshCopies
<1>5. CASE Values!ReviewBack
  <2>1. /\ UNCHANGED <<typed, viewed>> /\ screen' = "wizard" /\ user' = before
        /\ edited' = {k \in Values!Keys : before.owner[k] \in {"USER_OVERRIDE", "INFERRED"}}
        /\ draft' = Values!Draft(user', shown') /\ before' = user'
    BY <1>5 DEF Values!ReviewBack, Values!Leave
  <2>2. /\ Untyped(user') /\ Untyped(before') /\ edited' \subseteq Values!Keys
        /\ typed' = [k \in Values!TmcKeys |-> typed'[k]]
    BY <2>1 DEF EditInv
  <2>3. OwnerOK(user', edited')
    BY <2>1, <2>2 DEF OwnerOK, Untyped
  <2> QED
    BY <2>1, <2>2, <2>3, FreshCopies
<1>6. ASSUME NEW mode \in {"auto", "min", "max"}, Values!HomingDirections(mode)
      PROVE  EditInv'
  <2>1. /\ user' = Values!ApplyHomingDirection(user, mode)
        /\ edited' = edited \cup {Values!Direction} /\ UNCHANGED <<typed, viewed>>
        /\ screen' = "wizard" /\ draft' = Values!Draft(user', shown') /\ before' = user'
    BY <1>6 DEF Values!HomingDirections, Values!StepHomingDirection, Values!Became, Values!Leave
  <2>2. Untyped(user) /\ OwnerOK(user, edited)
    BY DEF EditInv
  <2>3. Untyped(user') /\ OwnerOK(user', edited')
    BY <2>1, <2>2, DirectionUntyped
  <2>4. /\ edited' \subseteq Values!Keys /\ typed' = [k \in Values!TmcKeys |-> typed'[k]]
    BY <2>1 DEF EditInv, Values!Keys
  <2> QED
    BY <2>1, <2>3, <2>4, FreshCopies
<1> QED
  BY <1>1, <1>2, <1>3, <1>4, <1>5, <1>6

\* Every step of the editor and its screen keeps the invariant.
LEMMA EditNext ==
  ASSUME Values!ProvenanceAssumption, EditInv, [Values!ENext]_(Values!evars)
  PROVE  EditInv'
<1>1. CASE Values!ENext
  <2>1. CASE \E p \in Printer : Values!StepProfile(p)
    BY <2>1, LoadStep
  <2>2. CASE \E v \in Travels : Values!EditVolume(v)
    BY <2>2, EditVolumeStep
  <2>3. CASE \E v \in Travels : Values!EditLimit("z_position_max", v)
    BY <2>3, EditLimitStep DEF Values!ProvenanceAssumption
  <2>4. CASE \E v \in Endstops : Values!EditLimit("z_position_endstop", v)
    BY <2>4, EditLimitStep DEF Values!ProvenanceAssumption
  <2>5. CASE \E mode \in {"auto", "min", "max"} : Values!EditDirection(mode)
    BY <2>5, EditDirectionStep
  <2>6. CASE \/ Values!OpenEditor \/ Values!Save \/ Values!Discard \/ Values!Confirm
             \/ Values!ReviewBack
             \/ \E mode \in {"auto", "min", "max"} : Values!HomingDirections(mode)
    BY <2>6, ScreenStep
  <2> QED
    BY <1>1, <2>1, <2>2, <2>3, <2>4, <2>5, <2>6 DEF Values!ENext
<1>2. CASE UNCHANGED Values!evars
  <2>1. UNCHANGED <<user, typed, viewed, edited, screen, shown, draft, before>>
    BY <1>2 DEF Values!evars, Values!vars
  <2> QED
    BY <2>1 DEF EditInv, Untyped, UserOK, OwnerOK, IsShown
<1> QED
  BY <1>1, <1>2

\* The values are current in the editor's runs as well.
LEMMA EditedValues ==
  ASSUME EditInv
  PROVE  ValueInv
<1>1. DataInv /\ OwnerInv
  BY DEF EditInv, Untyped, DataInv, OwnerInv
<1>2. ReviewInv /\ ReceiptInv
  BY DEF EditInv, Untyped, ReviewInv, ReceiptInv
<1> QED
  BY <1>1, <1>2 DEF ValueInv

\* What the operator set is his, so it is generated.
LEMMA SavedFollows ==
  ASSUME EditInv
  PROVE  Values!SavedIsGenerated
<1> SUFFICES ASSUME screen = "review", NEW k \in edited \cap Values!Geometry
             PROVE  Values!Resolved(user, k) = user.value[k] /\ shown[k] = user.value[k]
  BY DEF Values!SavedIsGenerated
<1>1. user.owner[k] = "USER_OVERRIDE" /\ user.value[k] \in Nat /\ shown[k] = user.value[k]
  BY DEF EditInv, IsShown
<1>2. k \in {"z_size", "z_position_max", "z_position_endstop"}
  BY DEF Values!Geometry
<1>3. Values!Claim(user, k) = "USER_OVERRIDE"
  BY <1>1, <1>2, KeyKinds DEF Values!Claim
<1>4. Values!Claimed(user, k) = user.value[k]
  BY <1>3 DEF Values!Claimed
<1>5. Values!Resolvable(user, k)
  BY <1>2, KeyKinds DEF Values!Resolvable
<1>6. Values!Resolved(user, k) = Values!Claimed(user, k)
  BY <1>2, <1>3, <1>5, KeyKinds DEF Values!Resolved, Values!PositionMax
<1> QED
  BY <1>1, <1>4, <1>6

\* Only saving leaves the editor with other user data.
LEMMA WholeEdits ==
  ASSUME [Values!ENext]_(Values!evars)
  PROVE  [(screen = "editor" /\ user' # user)
              => (screen' = "review" /\ Values!Valid(user'))]_(Values!evars)
<1> SUFFICES ASSUME Values!ENext, screen = "editor", user' # user
             PROVE  screen' = "review" /\ Values!Valid(user')
  OBVIOUS
<1>1. ~(\E p \in Printer : Values!StepProfile(p)) /\ ~Values!OpenEditor
  BY DEF Values!StepProfile, Values!OpenEditor
<1>2. \A u, s, ks : ~Values!Drafted(u, s, ks)
  BY DEF Values!Drafted, Values!vars
<1>3. /\ \A v : ~Values!EditVolume(v)
      /\ \A k, v : ~Values!EditLimit(k, v)
      /\ \A mode : ~Values!EditDirection(mode)
  <2>1. ASSUME NEW v, Values!EditVolume(v)
        PROVE  FALSE
    BY <1>2, <2>1 DEF Values!EditVolume
  <2>2. ASSUME NEW k, NEW v, Values!EditLimit(k, v)
        PROVE  FALSE
    BY <1>2, <2>2 DEF Values!EditLimit
  <2>3. ASSUME NEW mode, Values!EditDirection(mode)
        PROVE  FALSE
    BY <1>2, <2>3 DEF Values!EditDirection
  <2> QED
    BY <2>1, <2>2, <2>3
<1>4. ~Values!Discard /\ ~Values!Confirm /\ ~Values!ReviewBack
  BY DEF Values!Discard, Values!Confirm, Values!ReviewBack, Values!vars
<1>5. \A mode : ~Values!HomingDirections(mode)
  BY DEF Values!HomingDirections
<1>6. Values!Save
  BY <1>1, <1>3, <1>4, <1>5 DEF Values!ENext
<1> QED
  BY <1>6 DEF Values!Save

\* The editor changes the user data only as a whole, and what was saved is
\* generated and shown (EditsAreWhole), for any profiles.
THEOREM EditsAreWholeAlways ==
  ASSUME Values!ProvenanceAssumption
  PROVE  Values!ESpec => EditsAreWhole
<1>1. Values!EInit => EditInv
  BY EditInit
<1>2. EditInv /\ [Values!ENext]_(Values!evars) => EditInv'
  BY EditNext
<1>3. EditInv => Values!SavedIsGenerated
  BY SavedFollows
<1>4. [Values!ENext]_(Values!evars)
        => [(screen = "editor" /\ user' # user)
               => (screen' = "review" /\ Values!Valid(user'))]_(Values!evars)
  BY WholeEdits
<1> QED
  BY <1>1, <1>2, <1>3, <1>4, PTL DEF Values!ESpec, EditsAreWhole, Values!OnlyWholeEdits

\* The values stay current (ValuesAreCurrent) while the editor works on them.
THEOREM EditedValuesAreCurrent ==
  ASSUME Values!ProvenanceAssumption
  PROVE  Values!ESpec => []ValuesAreCurrent
<1>1. Values!EInit => EditInv
  BY EditInit
<1>2. EditInv /\ [Values!ENext]_(Values!evars) => EditInv'
  BY EditNext
<1>3. EditInv => ValuesAreCurrent
  BY EditedValues, TypeFollows, CurrentFollows, SourceFollows, ReviewFollows, DefaultFollows,
     AutomaticFollows DEF ValuesAreCurrent
<1> QED
  BY <1>1, <1>2, <1>3, PTL DEF Values!ESpec

-----------------------------------------------------------------------------
(* MotionSpace: for any axes, rails, meshes and kinds of probe, what bed,  *)
(* travel, margins and rounding come to on an axis, the parts of an        *)
(* accepted configuration, and that it stays the one the answers decide.   *)

\* The greater and the lesser of two numbers.
LEMMA Extremes ==
  ASSUME NEW a \in Int, NEW b \in Int
  PROVE  /\ Space!Max({a, b}) = IF a >= b THEN a ELSE b
         /\ Space!Min({a, b}) = IF a <= b THEN a ELSE b
<1>1. ASSUME NEW m \in {a, b}, \A n \in {a, b} : m >= n
      PROVE  Space!Max({a, b}) = m
  <2>1. Space!Max({a, b}) = CHOOSE c \in {a, b} : \A n \in {a, b} : c >= n
    BY DEF Space!Max
  <2>2. \A c \in {a, b} : (\A n \in {a, b} : c >= n) => c = m
    BY <1>1
  <2> QED
    BY <1>1, <2>1, <2>2
<1>2. ASSUME NEW m \in {a, b}, \A n \in {a, b} : m =< n
      PROVE  Space!Min({a, b}) = m
  <2>1. Space!Min({a, b}) = CHOOSE c \in {a, b} : \A n \in {a, b} : c =< n
    BY DEF Space!Min
  <2>2. \A c \in {a, b} : (\A n \in {a, b} : c =< n) => c = m
    BY <1>2
  <2> QED
    BY <1>2, <2>1, <2>2
<1>3. CASE a >= b
  BY <1>1, <1>2, <1>3
<1>4. CASE a < b
  BY <1>1, <1>2, <1>4
<1> QED
  BY <1>3, <1>4

\* A stretch is its two ends.
LEMMA StretchIs ==
  ASSUME NEW a \in Int, NEW b \in Int
  PROVE  /\ [low |-> a, high |-> b] \in Space!Stretch
         /\ [low |-> a, high |-> b].low = a /\ [low |-> a, high |-> b].high = b
BY DEF Space!Stretch

\* Where two stretches overlap.
LEMMA OverlapIs ==
  ASSUME NEW r \in Space!Stretch, NEW s \in Space!Stretch
  PROVE  /\ Space!Overlap(r, s) \in Space!Stretch
         /\ Space!Overlap(r, s).low = IF r.low >= s.low THEN r.low ELSE s.low
         /\ Space!Overlap(r, s).high = IF r.high <= s.high THEN r.high ELSE s.high
<1>1. r.low \in Int /\ r.high \in Int /\ s.low \in Int /\ s.high \in Int
  BY DEF Space!Stretch
<1>2. /\ Space!Max({r.low, s.low}) = IF r.low >= s.low THEN r.low ELSE s.low
      /\ Space!Min({r.high, s.high}) = IF r.high <= s.high THEN r.high ELSE s.high
  BY <1>1, Extremes
<1> QED
  BY <1>1, <1>2 DEF Space!Overlap, Space!Stretch

\* The travel, the bed and what the probe reaches of it.
LEMMA AxisIs ==
  ASSUME Space!GeometryAssumption, NEW a \in Axes
  PROVE  /\ Space!Travel(a) \in Space!Stretch /\ Space!Bed(a) \in Space!Stretch
         /\ Space!Probeable(a) \in Space!Stretch /\ a.offset \in Int
         /\ Space!Probeable(a).low >= Space!Bed(a).low
         /\ Space!Probeable(a).low >= Space!Travel(a).low + a.offset
         /\ Space!Probeable(a).high <= Space!Bed(a).high
         /\ Space!Probeable(a).high <= Space!Travel(a).high + a.offset
<1>1. /\ a.size \in Int /\ a.offset \in Int
      /\ a.min \in Int \cup {None} /\ a.max \in Int \cup {None} /\ a.endstop \in Int \cup {None}
      /\ a.low \in Int \cup {None} /\ a.high \in Int \cup {None}
  BY DEF Space!GeometryAssumption
<1>2. Space!Travel(a) \in Space!Stretch
  BY <1>1 DEF Space!Travel, Space!Given, Space!Stretch
<1>3. Space!Travel(a).low \in Int /\ Space!Travel(a).high \in Int
  BY <1>2 DEF Space!Stretch
<1>4. Space!Max({Space!Travel(a).low, 0}) \in Int
  BY <1>3, Extremes
<1>5. Space!Bed(a) \in Space!Stretch
  BY <1>1, <1>4 DEF Space!Bed, Space!Given, Space!Stretch
<1>6. /\ Space!Shifted(Space!Travel(a), a.offset) \in Space!Stretch
      /\ Space!Shifted(Space!Travel(a), a.offset).low = Space!Travel(a).low + a.offset
      /\ Space!Shifted(Space!Travel(a), a.offset).high = Space!Travel(a).high + a.offset
  BY <1>1, <1>3 DEF Space!Shifted, Space!Stretch
<1> DEFINE s == Space!Shifted(Space!Travel(a), a.offset)
<1>7. /\ Space!Probeable(a) \in Space!Stretch
      /\ Space!Probeable(a).low = IF Space!Bed(a).low >= s.low THEN Space!Bed(a).low ELSE s.low
      /\ Space!Probeable(a).high = IF Space!Bed(a).high <= s.high THEN Space!Bed(a).high ELSE s.high
  BY <1>5, <1>6, OverlapIs DEF Space!Probeable
<1>8. Space!Bed(a).low \in Int /\ Space!Bed(a).high \in Int
  BY <1>5 DEF Space!Stretch
<1> QED
  BY <1>1, <1>2, <1>3, <1>5, <1>6, <1>7, <1>8

\* One decimal is at most half a tenth away.
LEMMA TenthsNear ==
  ASSUME NEW border, NEW v \in Int
  PROVE  /\ Space!Tenths(border, v) \in Int
         /\ Space!Tenths(border, v) >= v - 5 /\ Space!Tenths(border, v) <= v + 5
<1> DEFINE q == v \div 10
           m == v % 10
<1>1. q \in Int /\ m \in 0..9 /\ v = q * 10 + m
  OBVIOUS
<1>2. Space!Tenths(border, v) = IF m > 5 \/ (m = 5 /\ border \in ties) THEN q * 10 + 10 ELSE q * 10
  BY DEF Space!Tenths
<1> HIDE DEF q, m
<1> QED
  BY <1>1, <1>2

\* So are the ends of a stretch.
LEMMA FormattedNear ==
  ASSUME NEW r \in Space!Stretch
  PROVE  /\ Space!Formatted(r) \in Space!Stretch
         /\ Space!Formatted(r).low >= r.low - 5 /\ Space!Formatted(r).low <= r.low + 5
         /\ Space!Formatted(r).high >= r.high - 5 /\ Space!Formatted(r).high <= r.high + 5
<1>1. r.low \in Int /\ r.high \in Int
  BY DEF Space!Stretch
<1>2. /\ Space!Tenths("low", r.low) \in Int /\ Space!Tenths("high", r.high) \in Int
      /\ Space!Tenths("low", r.low) >= r.low - 5 /\ Space!Tenths("low", r.low) <= r.low + 5
      /\ Space!Tenths("high", r.high) >= r.high - 5 /\ Space!Tenths("high", r.high) <= r.high + 5
  BY <1>1, TenthsNear
<1> QED
  BY <1>2 DEF Space!Formatted, Space!Stretch

\* A margin is at most a centimetre, and two millimetres where eleven are left.
LEMMA MarginIs ==
  ASSUME NEW r \in Space!Stretch
  PROVE  /\ Space!WithMargin(r) \in Space!Stretch
         /\ \E m \in {0, 200, 1000} :
                /\ Space!WithMargin(r).low = r.low + m /\ Space!WithMargin(r).high = r.high - m
                /\ r.high - r.low >= 1100 => m > 0 /\ r.high - r.low - 2 * m >= 700
<1>1. r.low \in Int /\ r.high \in Int /\ r = [low |-> r.low, high |-> r.high]
  BY DEF Space!Stretch
<1>2. \A m \in {200, 1000} :
          /\ Space!Inset(r, m) \in Space!Stretch
          /\ Space!Inset(r, m).low = r.low + m /\ Space!Inset(r, m).high = r.high - m
          /\ Space!Length(Space!Inset(r, m)) = r.high - r.low - 2 * m
  BY <1>1 DEF Space!Inset, Space!Length, Space!Stretch
<1> DEFINE wide == Space!Inset(r, 1000)
           narrow == Space!Inset(r, 200)
<1>3. /\ wide \in Space!Stretch /\ wide.low = r.low + 1000 /\ wide.high = r.high - 1000
      /\ Space!Length(wide) = r.high - r.low - 2000
  BY <1>1, <1>2
<1>4. /\ narrow \in Space!Stretch /\ narrow.low = r.low + 200 /\ narrow.high = r.high - 200
      /\ Space!Length(narrow) = r.high - r.low - 400
  BY <1>1, <1>2
<1>5. Space!WithMargin(r) = IF Space!Length(wide) < 1000
                            THEN IF Space!Length(narrow) < 200 THEN r ELSE narrow
                            ELSE wide
  BY <1>1, <1>3 DEF Space!WithMargin
<1> HIDE DEF wide, narrow
<1>6. CASE Space!WithMargin(r) = wide /\ Space!Length(wide) >= 1000
  BY <1>1, <1>3, <1>6
<1>7. CASE Space!WithMargin(r) = narrow /\ Space!Length(wide) < 1000
  BY <1>1, <1>3, <1>4, <1>7
<1>8. CASE Space!WithMargin(r) = r /\ Space!Length(narrow) < 200
  BY <1>1, <1>4, <1>8
<1>9. Space!Length(wide) \in Int /\ Space!Length(narrow) \in Int
  BY <1>1, <1>3, <1>4
<1> QED
  BY <1>5, <1>6, <1>7, <1>8, <1>9

\* What lies on what the probe reaches is on the bed, and the nozzle can go there.
LEMMA ReachableIs ==
  ASSUME Space!GeometryAssumption, NEW a \in Axes, NEW low \in Int, NEW high \in Int,
         Space!Within(low, Space!Probeable(a)), Space!Within(high, Space!Probeable(a))
  PROVE  Space!Reachable(a, [low |-> low, high |-> high])
<1> DEFINE t == Space!Travel(a)
           b == Space!Bed(a)
           p == Space!Probeable(a)
<1>1. /\ t.low \in Int /\ t.high \in Int /\ b.low \in Int /\ b.high \in Int
      /\ p.low \in Int /\ p.high \in Int /\ a.offset \in Int
      /\ p.low >= b.low /\ p.low >= t.low + a.offset
      /\ p.high <= b.high /\ p.high <= t.high + a.offset
  BY AxisIs DEF Space!Stretch
<1>2. p.low <= low /\ low <= p.high /\ p.low <= high /\ high <= p.high
  BY DEF Space!Within
<1> HIDE DEF t, b, p
<1>3. /\ b.low <= low /\ low <= b.high /\ b.low <= high /\ high <= b.high
      /\ t.low <= low - a.offset /\ low - a.offset <= t.high
      /\ t.low <= high - a.offset /\ high - a.offset <= t.high
  BY <1>1, <1>2
<1> QED
  BY <1>3 DEF Space!Reachable, Space!Within, t, b

\* The mesh of an axis: how much its margin takes, and that it is within what the
\* probe reaches where that is eleven millimetres.
LEMMA MeshOnAxis ==
  ASSUME Space!GeometryAssumption, NEW a \in Axes
  PROVE  LET m == Space!Formatted(Space!WithMargin(Space!Probeable(a)))
             p == Space!Probeable(a)
         IN  /\ m \in Space!Stretch
             /\ m.low - p.low <= 1005 /\ p.high - m.high <= 1005
             /\ Space!Length(p) >= 1100 => /\ Space!Length(m) >= 690
                                           /\ m.low >= p.low /\ m.high <= p.high
<1> DEFINE p == Space!Probeable(a)
           w == Space!WithMargin(p)
           m == Space!Formatted(w)
<1>1. p \in Space!Stretch
  BY AxisIs
<1> HIDE DEF p
<1>2. PICK d \in {0, 200, 1000} :
         /\ w.low = p.low + d /\ w.high = p.high - d
         /\ p.high - p.low >= 1100 => d > 0 /\ p.high - p.low - 2 * d >= 700
  BY <1>1, MarginIs
<1>3. w \in Space!Stretch
  BY <1>1, MarginIs
<1> HIDE DEF w
<1>4. /\ m \in Space!Stretch
      /\ m.low >= w.low - 5 /\ m.low <= w.low + 5 /\ m.high >= w.high - 5 /\ m.high <= w.high + 5
  BY <1>3, FormattedNear
<1> HIDE DEF m
<1>5. p.low \in Int /\ p.high \in Int /\ m.low \in Int /\ m.high \in Int
  BY <1>1, <1>4 DEF Space!Stretch
<1>6. m.low - p.low <= 1005 /\ p.high - m.high <= 1005
  BY <1>2, <1>4, <1>5
<1>7. ASSUME p.high - p.low >= 1100
      PROVE  m.high - m.low >= 690 /\ m.low >= p.low /\ m.high <= p.high
  BY <1>2, <1>4, <1>5, <1>7
<1>8. Space!Length(p) >= 1100 => /\ Space!Length(m) >= 690
                                 /\ m.low >= p.low /\ m.high <= p.high
  BY <1>7 DEF Space!Length
<1> QED
  BY <1>4, <1>6, <1>8 DEF m, w, p

\* What overlaps a stretch wholly lies in it, and conversely.
LEMMA OverlapWhole ==
  ASSUME NEW r \in Space!Stretch, NEW s \in Space!Stretch
  PROVE  Space!Overlap(r, s) = r <=> r.low >= s.low /\ r.high <= s.high
<1> DEFINE o == Space!Overlap(r, s)
<1>1. /\ o \in Space!Stretch
      /\ o.low = IF r.low >= s.low THEN r.low ELSE s.low
      /\ o.high = IF r.high <= s.high THEN r.high ELSE s.high
  BY OverlapIs
<1> HIDE DEF o
<1>2. /\ r = [low |-> r.low, high |-> r.high] /\ o = [low |-> o.low, high |-> o.high]
      /\ r.low \in Int /\ r.high \in Int /\ s.low \in Int /\ s.high \in Int
  BY <1>1 DEF Space!Stretch
<1>3. ASSUME o = r PROVE r.low >= s.low /\ r.high <= s.high
  BY <1>1, <1>2, <1>3
<1>4. ASSUME r.low >= s.low /\ r.high <= s.high PROVE o = r
  <2>1. o.low = r.low /\ o.high = r.high
    BY <1>1, <1>2, <1>4
  <2> QED
    BY <2>1, <1>2
<1> QED
  BY <1>3, <1>4 DEF o

\* The middle of what the probe reaches is reached, and the nozzle stays within
\* its travel.
LEMMA HomeIs ==
  ASSUME Space!GeometryAssumption, NEW a \in Axes, Space!Length(Space!Probeable(a)) > 0
  PROVE  /\ Space!SafeZHome(a) \in Int
         /\ Space!Within(Space!SafeZHome(a) + a.offset, Space!Probeable(a))
         /\ Space!Within(Space!SafeZHome(a), Space!Travel(a))
<1> DEFINE t == Space!Travel(a)
           p == Space!Probeable(a)
           h == Space!SafeZHome(a)
<1>1. /\ t.low \in Int /\ t.high \in Int /\ p.low \in Int /\ p.high \in Int /\ a.offset \in Int
      /\ p.low >= t.low + a.offset /\ p.high <= t.high + a.offset
  BY AxisIs DEF Space!Stretch
<1>2. p.low < p.high
  BY <1>1 DEF Space!Length
<1>3. h = (p.low + p.high) \div 2 - a.offset
  BY DEF Space!SafeZHome
<1> HIDE DEF t, p, h
<1>4. h \in Int /\ p.low <= h + a.offset /\ h + a.offset <= p.high
  BY <1>1, <1>2, <1>3
<1>5. t.low <= h /\ h <= t.high
  BY <1>1, <1>4
<1> QED
  BY <1>4, <1>5 DEF t, p, h, Space!Within

\* The ends of the levelling points are reached where the probe reaches a
\* centimetre, also after rounding.
LEMMA LevellingIs ==
  ASSUME Space!GeometryAssumption, NEW a \in Axes
  PROVE  /\ Space!Levelling(a) \in Space!Stretch
         /\ Space!Length(Space!Probeable(a)) >= 1010 =>
                /\ Space!Within(Space!Levelling(a).low + a.offset, Space!Probeable(a))
                /\ Space!Within(Space!Levelling(a).high + a.offset, Space!Probeable(a))
<1> DEFINE p == Space!Probeable(a)
           r == Space!Inset(p, 1000)
           q == [low |-> Space!Min({r.low, r.high}), high |-> Space!Max({r.low, r.high})]
           s == Space!Shifted(q, -a.offset)
           l == Space!Formatted(s)
<1>1. p.low \in Int /\ p.high \in Int /\ a.offset \in Int
  BY AxisIs DEF Space!Stretch
<1>2. Space!Levelling(a) = l
  BY DEF Space!Levelling
<1> HIDE DEF p
<1>3. /\ r.low = p.low + 1000 /\ r.high = p.high - 1000
      /\ r.low \in Int /\ r.high \in Int
  BY <1>1 DEF Space!Inset
<1> HIDE DEF r
<1>4. /\ q.low = IF r.low <= r.high THEN r.low ELSE r.high
      /\ q.high = IF r.low >= r.high THEN r.low ELSE r.high
  <2> DEFINE u == r.low
             v == r.high
  <2>1. u \in Int /\ v \in Int
    BY <1>3
  <2> HIDE DEF u, v
  <2>2. /\ Space!Max({u, v}) = IF u >= v THEN u ELSE v
        /\ Space!Min({u, v}) = IF u <= v THEN u ELSE v
    BY <2>1, Extremes
  <2> QED
    BY <2>2 DEF u, v
<1> HIDE DEF q
<1>5. s \in Space!Stretch /\ s.low = q.low - a.offset /\ s.high = q.high - a.offset
  BY <1>1, <1>3, <1>4 DEF Space!Shifted, Space!Stretch
<1> HIDE DEF s
<1>6. /\ l \in Space!Stretch
      /\ l.low >= s.low - 5 /\ l.low <= s.low + 5 /\ l.high >= s.high - 5 /\ l.high <= s.high + 5
  BY <1>5, FormattedNear
<1> HIDE DEF l
<1>7. s.low \in Int /\ s.high \in Int /\ l.low \in Int /\ l.high \in Int /\ q.low \in Int /\ q.high \in Int
  BY <1>1, <1>3, <1>4, <1>5, <1>6 DEF Space!Stretch
<1>8. ASSUME p.high - p.low >= 1010
      PROVE  /\ p.low <= l.low + a.offset /\ l.low + a.offset <= p.high
             /\ p.low <= l.high + a.offset /\ l.high + a.offset <= p.high
  <2>1. q.low >= p.low + 10 /\ q.low <= p.high - 10 /\ q.high >= p.low + 10 /\ q.high <= p.high - 5
    BY <1>1, <1>3, <1>4, <1>8
  <2> QED
    BY <1>1, <1>5, <1>6, <1>7, <2>1
<1> QED
  BY <1>2, <1>6, <1>8 DEF p, Space!Length, Space!Within

\* The middle of a legal bed and the parking position are on it, and it is within
\* the travel.
LEMMA MacroIs ==
  ASSUME Space!GeometryAssumption, NEW a \in Axes, Space!Legal(a)
  PROVE  \A v \in {Space!Center(a), Space!Park(a)} :
             v \in Int /\ Space!Within(v, Space!Travel(a)) /\ Space!Within(v, Space!Bed(a))
<1> DEFINE t == Space!Travel(a)
           b == Space!Bed(a)
           n == b.high - b.low
           tenth == n \div 10
           near == Space!Min({1000, tenth})
<1>1. /\ t.low \in Int /\ t.high \in Int /\ b.low \in Int /\ b.high \in Int
  BY AxisIs DEF Space!Stretch
<1>2. b.low < b.high /\ t.low <= b.low /\ b.high <= t.high
  BY <1>1 DEF Space!Legal, Space!Length
<1>3. /\ Space!Center(a) = (b.low + b.high) \div 2
      /\ Space!Park(a) = b.low + near
  BY DEF Space!Center, Space!Park, Space!Length
<1> HIDE DEF t, b
<1>4. n \in Int /\ n > 0 /\ tenth \in Int /\ 0 <= tenth /\ tenth <= n
  BY <1>1, <1>2
<1> HIDE DEF tenth
<1>5. near = IF 1000 <= tenth THEN 1000 ELSE tenth
  BY <1>4, Extremes
<1> HIDE DEF near
<1>6. near \in Int /\ 0 <= near /\ near <= n
  BY <1>4, <1>5
<1>7. \A v \in Int : b.low <= v /\ v <= b.high => t.low <= v /\ v <= t.high
  BY <1>1, <1>2
<1>8. Space!Center(a) \in Int /\ b.low <= Space!Center(a) /\ Space!Center(a) <= b.high
  BY <1>1, <1>2, <1>3
<1>9. Space!Park(a) \in Int /\ b.low <= Space!Park(a) /\ Space!Park(a) <= b.high
  BY <1>1, <1>2, <1>3, <1>6
<1> QED
  BY <1>7, <1>8, <1>9 DEF Space!Within, t, b

\* The rail and the height of the printer are numbers, and so is the lift between
\* two points of the mesh.
LEMMA RailIs ==
  ASSUME Space!GeometryAssumption, z \in Rails
  PROVE  Space!Rail \in Space!Stretch /\ Space!Height \in Int
<1>1. /\ z.size \in Int /\ z.min \in Int \cup {None} /\ z.max \in Int \cup {None}
      /\ z.height \in Int \cup {None}
  BY DEF Space!GeometryAssumption
<1> QED
  BY <1>1 DEF Space!Rail, Space!Height, Space!Given, Space!Stretch

\* The height a macro lifts to is on a legal rail.
LEMMA SafeZIs ==
  ASSUME Space!GeometryAssumption, z \in Rails, Space!LegalRail,
         NEW most \in Int, NEW share \in Nat \ {0}
  PROVE  Space!SafeZ(most, share) \in Int /\ Space!Within(Space!SafeZ(most, share), Space!Rail)
<1> DEFINE r == Space!Rail
           h == Space!Height
           part == h \div share
           least == Space!Min({most, part})
           lifted == Space!Max({r.low, least})
<1>1. r.low \in Int /\ r.high \in Int /\ h \in Int
  BY RailIs DEF Space!Stretch
<1>2. r.low < h /\ h <= r.high
  BY DEF Space!LegalRail
<1>3. Space!SafeZ(most, share) = Space!Min({h, lifted})
  BY DEF Space!SafeZ
<1> HIDE DEF r, h
<1>4. part \in Int
  BY <1>1
<1> HIDE DEF part
<1>5. least \in Int
  BY <1>4, Extremes
<1> HIDE DEF least
<1> DEFINE low == r.low
<1>6. low \in Int
  BY <1>1
<1> HIDE DEF low
<1>7. Space!Max({low, least}) \in Int /\ Space!Max({low, least}) >= low
  BY <1>5, <1>6, Extremes
<1>8. lifted \in Int /\ lifted >= r.low
  BY <1>7 DEF low
<1> HIDE DEF lifted
<1>9. Space!Min({h, lifted}) = IF h <= lifted THEN h ELSE lifted
  BY <1>1, <1>8, Extremes
<1>10. /\ Space!SafeZ(most, share) \in Int
       /\ r.low <= Space!SafeZ(most, share) /\ Space!SafeZ(most, share) <= r.high
  BY <1>1, <1>2, <1>3, <1>8, <1>9
<1> QED
  BY <1>10 DEF Space!Within, r

\* The least and the most of a pair.
LEMMA PairIs ==
  ASSUME NEW pair \in Int \X Int
  PROVE  /\ Space!Most(pair) = IF pair[1] >= pair[2] THEN pair[1] ELSE pair[2]
         /\ Space!Least(pair) = IF pair[1] <= pair[2] THEN pair[1] ELSE pair[2]
<1> DEFINE u == pair[1]
           v == pair[2]
<1>1. u \in Int /\ v \in Int
  OBVIOUS
<1>2. Space!Most(pair) = Space!Max({u, v}) /\ Space!Least(pair) = Space!Min({u, v})
  BY DEF Space!Most, Space!Least
<1> HIDE DEF u, v
<1>3. /\ Space!Max({u, v}) = IF u >= v THEN u ELSE v
      /\ Space!Min({u, v}) = IF u <= v THEN u ELSE v
  BY <1>1, Extremes
<1> QED
  BY <1>2, <1>3 DEF u, v

\* How many points an axis gets from its length.
LEMMA LengthsAre ==
  ASSUME Space!GeometryAssumption, x \in Axes, y \in Axes
  PROVE  Space!Lengths \in (3..7) \X (3..7)
<1>1. \A n \in Int : Space!AxisProbeCount(n) \in 3..7
  BY DEF Space!AxisProbeCount
<1>2. Space!Length(Space!Bed(x)) \in Int /\ Space!Length(Space!Bed(y)) \in Int
  BY AxisIs DEF Space!Stretch, Space!Length
<1> QED
  BY <1>1, <1>2 DEF Space!Lengths

\* The numbers of points: seven on one axis make it at least four on the other.
LEMMA CountsAre ==
  ASSUME Space!GeometryAssumption, x \in Axes, y \in Axes, mesh \in Meshes
  PROVE  /\ Space!Points \in Nat \X Nat /\ Space!Counts \in Nat \X Nat
         /\ mesh.counts = None /\ mesh.algorithm = None =>
                /\ Space!Counts \in (3..7) \X (3..7)
                /\ \/ Space!Most(Space!Points) = 0
                   \/ Space!Most(Space!Counts) <= 6
                   \/ Space!Least(Space!Counts) >= 4
<1>1. mesh.counts \in (Nat \X Nat) \cup {None} /\ mesh.pps \in (Nat \X Nat) \cup {None}
  BY DEF Space!GeometryAssumption
<1>2. Space!Points \in Nat \X Nat
  BY <1>1 DEF Space!Points, Space!Given
<1>3. Space!Lengths \in (3..7) \X (3..7)
  BY LengthsAre
<1> DEFINE p == Space!Points
           l == Space!Lengths
           one == l[1]
           two == l[2]
           c == <<Space!Max({4, one}), Space!Max({4, two})>>
<1>4. one \in 3..7 /\ two \in 3..7
  BY <1>3
<1>5. Space!Counts = IF mesh.counts = None /\ mesh.algorithm = None /\ Space!Most(p) > 0 /\ Space!Most(l) > 6
                     THEN c ELSE Space!Given(mesh.counts, l)
  BY DEF Space!Counts
<1>6. Space!Most(p) \in Nat
  <2>1. p[1] \in Nat /\ p[2] \in Nat /\ p \in Int \X Int
    BY <1>2
  <2> QED
    BY <2>1, PairIs
<1>7. Space!Most(l) \in Int
  <2>1. l[1] \in Int /\ l[2] \in Int /\ l \in Int \X Int
    BY <1>3
  <2> QED
    BY <2>1, PairIs
<1> HIDE DEF p, one, two
<1>8. /\ Space!Max({4, one}) = IF 4 >= one THEN 4 ELSE one
      /\ Space!Max({4, two}) = IF 4 >= two THEN 4 ELSE two
  BY <1>4, Extremes
<1>9. c \in (4..7) \X (4..7)
  BY <1>4, <1>8
<1> HIDE DEF c
<1>10. Space!Least(c) >= 4
  <2>1. c \in Int \X Int /\ c[1] >= 4 /\ c[2] >= 4 /\ c[1] \in Int /\ c[2] \in Int
    BY <1>9
  <2> QED
    BY <2>1, PairIs
<1> HIDE DEF l
<1>11. c \in Nat \X Nat /\ c \in (3..7) \X (3..7)
  BY <1>9
<1>12. l \in Nat \X Nat
  BY <1>3 DEF l
<1>13. Space!Counts \in Nat \X Nat
  BY <1>1, <1>5, <1>11, <1>12 DEF Space!Given
<1>14. ASSUME mesh.counts = None, mesh.algorithm = None
       PROVE  /\ Space!Counts \in (3..7) \X (3..7)
              /\ \/ Space!Most(p) = 0
                 \/ Space!Most(Space!Counts) <= 6
                 \/ Space!Least(Space!Counts) >= 4
  <2>1. CASE Space!Most(p) > 0 /\ Space!Most(l) > 6
    BY <1>5, <1>10, <1>11, <1>14, <2>1
  <2>2. CASE ~ (Space!Most(p) > 0 /\ Space!Most(l) > 6)
    <3>1. Space!Counts = l
      BY <1>5, <1>14, <2>2 DEF Space!Given
    <3>2. Space!Most(p) = 0 \/ Space!Most(l) <= 6
      BY <1>6, <1>7, <2>2
    <3> QED
      BY <1>3, <3>1, <3>2 DEF l
  <2> QED
    BY <2>1, <2>2
<1> QED
  BY <1>2, <1>13, <1>14 DEF p

\* A derived mesh is a section of the configuration.
LEMMA SectionIs ==
  ASSUME Space!GeometryAssumption, x \in Axes, y \in Axes, mesh \in Meshes,
         NEW mx \in Space!Stretch, NEW my \in Space!Stretch
  PROVE  Space!MeshOf(mx, my) \in Space!MeshSection
<1>1. mesh.algorithm \in {"lagrange", "bicubic", None} /\ mesh.lift \in Int \cup {None}
  BY DEF Space!GeometryAssumption
<1>2. Space!Algorithm \in {"lagrange", "bicubic"}
  BY <1>1 DEF Space!Algorithm, Space!Given
<1>3. Space!Lift \in Int
  BY <1>1 DEF Space!Lift, Space!Given
<1>4. Space!Points \in Nat \X Nat /\ Space!Counts \in Nat \X Nat
  BY CountsAre
<1> QED
  BY <1>2, <1>3, <1>4 DEF Space!MeshOf, Space!MeshSection

\* What generate_config derives, and when it does.
MeshX == Space!Formatted(Space!WithMargin(Space!Probeable(x)))
MeshY == Space!Formatted(Space!WithMargin(Space!Probeable(y)))
Accepted == /\ Space!Legal(x) /\ Space!Legal(y) /\ Space!LegalRail
            /\ kind # "none" => /\ Space!Reached(x) /\ Space!Reached(y)
                                /\ Space!Usable(MeshX, MeshY, Space!Rail.low)
Outcome == IF Accepted THEN Space!Generated(MeshX, MeshY) ELSE Refused
\* What print_summary derives.
Tip(a) == Space!Overlap(Space!Aligned(a), Space!Shifted(Space!Travel(a), a.offset))
TipX == Space!Formatted(Space!WithMargin(Tip(x)))
TipY == Space!Formatted(Space!WithMargin(Tip(y)))
Summary == IF Space!Usable(TipX, TipY, Space!Given(z.min, 0)) THEN Space!MeshOf(TipX, TipY) ELSE Refused

\* The answers are answers, and what was derived was derived from them.
GeometryInv ==
    /\ x \in Axes /\ y \in Axes /\ z \in Rails /\ mesh \in Meshes
    /\ made # None => made = Outcome
    /\ summary # None => made # None /\ made # Refused /\ kind # "none" /\ summary = Summary

\* The parts of an accepted configuration.
LEMMA GeneratedIs ==
  ASSUME Accepted
  PROVE  /\ Outcome = Space!Generated(MeshX, MeshY)
         /\ kind # "none" => /\ Outcome.mesh = Space!MeshOf(MeshX, MeshY)
                             /\ Outcome.mesh.x = MeshX /\ Outcome.mesh.y = MeshY
                             /\ Outcome.home = <<Space!SafeZHome(x), Space!SafeZHome(y)>>
                             /\ Outcome.levelling = <<Space!Levelling(x), Space!Levelling(y)>>
         /\ Outcome.macros = <<{Space!Center(x), Space!Park(x)}, {Space!Center(y), Space!Park(y)},
                               {Space!SafeZ(5000, 5), Space!SafeZ(2000, 10)}>>
<1>1. Outcome = Space!Generated(MeshX, MeshY)
  BY DEF Outcome
<1> QED
  BY <1>1 DEF Space!Generated, Space!MeshOf

\* It is a configuration.
LEMMA ConfigurationIs ==
  ASSUME Space!GeometryAssumption, GeometryInv, Accepted
  PROVE  Space!Generated(MeshX, MeshY) \in Space!Configuration
<1>1. x \in Axes /\ y \in Axes /\ z \in Rails /\ mesh \in Meshes
  BY DEF GeometryInv
<1>2. MeshX \in Space!Stretch /\ MeshY \in Space!Stretch
  BY <1>1, MeshOnAxis DEF MeshX, MeshY
<1>3. Space!MeshOf(MeshX, MeshY) \in Space!MeshSection
  BY <1>1, <1>2, SectionIs
<1>4. CASE kind = "none"
  <2>1. /\ Space!Generated(MeshX, MeshY).macros \in (SUBSET Int) \X (SUBSET Int) \X (SUBSET Int)
        /\ {Space!SafeZ(5000, 5), Space!SafeZ(2000, 10)} \subseteq Int
        /\ {Space!Center(x), Space!Park(x)} \subseteq Int /\ {Space!Center(y), Space!Park(y)} \subseteq Int
    <3>1. Space!Legal(x) /\ Space!Legal(y) /\ Space!LegalRail
      BY DEF Accepted
    <3>2. Space!SafeZ(5000, 5) \in Int /\ Space!SafeZ(2000, 10) \in Int
      BY <1>1, <3>1, SafeZIs
    <3>3. /\ Space!Center(x) \in Int /\ Space!Park(x) \in Int
          /\ Space!Center(y) \in Int /\ Space!Park(y) \in Int
      BY <1>1, <3>1, MacroIs
    <3> QED
      BY <3>2, <3>3 DEF Space!Generated
  <2> QED
    BY <1>4, <2>1 DEF Space!Generated, Space!Configuration
<1>5. CASE kind # "none"
  <2>1. Space!Legal(x) /\ Space!Legal(y) /\ Space!LegalRail /\ Space!Reached(x) /\ Space!Reached(y)
    BY <1>5 DEF Accepted
  <2>2. Space!SafeZ(5000, 5) \in Int /\ Space!SafeZ(2000, 10) \in Int
    BY <1>1, <2>1, SafeZIs
  <2>3. /\ Space!Center(x) \in Int /\ Space!Park(x) \in Int
        /\ Space!Center(y) \in Int /\ Space!Park(y) \in Int
    BY <1>1, <2>1, MacroIs
  <2>4. Space!SafeZHome(x) \in Int /\ Space!SafeZHome(y) \in Int
    BY <1>1, <2>1, HomeIs DEF Space!Reached
  <2>5. Space!Levelling(x) \in Space!Stretch /\ Space!Levelling(y) \in Space!Stretch
    BY <1>1, LevellingIs
  <2> QED
    BY <1>3, <2>2, <2>3, <2>4, <2>5 DEF Space!Generated, Space!Configuration
<1> QED
  BY <1>4, <1>5

\* Usable meshes lie within what the probe reaches.
LEMMA UsableIs ==
  ASSUME Space!GeometryAssumption, NEW a \in Axes, NEW m \in Space!Stretch,
         Space!Length(m) > 0, Space!Overlap(m, Space!Probeable(a)) = m
  PROVE  Space!Reachable(a, m)
<1> DEFINE p == Space!Probeable(a)
<1>1. p \in Space!Stretch
  BY AxisIs
<1>2. m.low >= p.low /\ m.high <= p.high
  BY <1>1, OverlapWhole
<1>3. /\ m.low \in Int /\ m.high \in Int /\ p.low \in Int /\ p.high \in Int
      /\ m = [low |-> m.low, high |-> m.high] /\ m.low < m.high
  BY <1>1 DEF Space!Stretch, Space!Length
<1>4. Space!Within(m.low, p) /\ Space!Within(m.high, p)
  BY <1>2, <1>3 DEF Space!Within
<1>5. Space!Reachable(a, [low |-> m.low, high |-> m.high])
  BY <1>3, <1>4, ReachableIs
<1> QED
  BY <1>3, <1>5

\* What the probe homes over and levels at can be reached.
LEMMA PointsAreReachable ==
  ASSUME Space!GeometryAssumption, NEW a \in Axes, Space!Reached(a)
  PROVE  /\ Space!Reachable(a, Space!Point(Space!SafeZHome(a) + a.offset))
         /\ Space!Length(Space!Probeable(a)) >= 1010 =>
                Space!Reachable(a, Space!Shifted(Space!Levelling(a), a.offset))
<1>1. a.offset \in Int /\ Space!SafeZHome(a) \in Int
      /\ Space!Within(Space!SafeZHome(a) + a.offset, Space!Probeable(a))
  BY AxisIs, HomeIs DEF Space!Reached
<1>2. Space!Reachable(a, [low |-> Space!SafeZHome(a) + a.offset, high |-> Space!SafeZHome(a) + a.offset])
  BY <1>1, ReachableIs
<1>3. Space!Levelling(a).low \in Int /\ Space!Levelling(a).high \in Int
  BY LevellingIs DEF Space!Stretch
<1>4. ASSUME Space!Length(Space!Probeable(a)) >= 1010
      PROVE  Space!Reachable(a, [low |-> Space!Levelling(a).low + a.offset,
                                 high |-> Space!Levelling(a).high + a.offset])
  BY <1>1, <1>3, <1>4, LevellingIs, ReachableIs
<1> QED
  BY <1>2, <1>4 DEF Space!Point, Space!Shifted

\* No generated position leaves the bed or the travel.
LEMMA PositionsFollow ==
  ASSUME Space!GeometryAssumption, GeometryInv
  PROVE  Space!PositionsAreReachable
<1>1. x \in Axes /\ y \in Axes /\ z \in Rails /\ mesh \in Meshes
  BY DEF GeometryInv
<1>2. ASSUME Space!Published PROVE Accepted /\ made = Outcome
  BY <1>2 DEF Space!Published, GeometryInv, Outcome
<1>3. ASSUME Space!Published
      PROVE  /\ \A v \in made.macros[1] : Space!Within(v, Space!Travel(x)) /\ Space!Within(v, Space!Bed(x))
             /\ \A v \in made.macros[2] : Space!Within(v, Space!Travel(y)) /\ Space!Within(v, Space!Bed(y))
             /\ \A v \in made.macros[3] : Space!Within(v, Space!Rail)
  <2>1. Space!Legal(x) /\ Space!Legal(y) /\ Space!LegalRail
    BY <1>2, <1>3 DEF Accepted
  <2>2. \A v \in {Space!Center(x), Space!Park(x)} :
            Space!Within(v, Space!Travel(x)) /\ Space!Within(v, Space!Bed(x))
    BY <1>1, <2>1, MacroIs
  <2>3. \A v \in {Space!Center(y), Space!Park(y)} :
            Space!Within(v, Space!Travel(y)) /\ Space!Within(v, Space!Bed(y))
    BY <1>1, <2>1, MacroIs
  <2>4. Space!Within(Space!SafeZ(5000, 5), Space!Rail) /\ Space!Within(Space!SafeZ(2000, 10), Space!Rail)
    BY <1>1, <2>1, SafeZIs
  <2>5. made.macros = <<{Space!Center(x), Space!Park(x)}, {Space!Center(y), Space!Park(y)},
                        {Space!SafeZ(5000, 5), Space!SafeZ(2000, 10)}>>
    BY <1>2, <1>3, GeneratedIs
  <2>6. /\ made.macros[1] = {Space!Center(x), Space!Park(x)}
        /\ made.macros[2] = {Space!Center(y), Space!Park(y)}
        /\ made.macros[3] = {Space!SafeZ(5000, 5), Space!SafeZ(2000, 10)}
    BY <2>5
  <2> QED
    BY <2>2, <2>3, <2>4, <2>6
<1>4. ASSUME Space!Probed
      PROVE  /\ Space!Reachable(x, made.mesh.x) /\ Space!Reachable(y, made.mesh.y)
             /\ Space!Reachable(x, Space!Point(made.home[1] + x.offset))
             /\ Space!Reachable(y, Space!Point(made.home[2] + y.offset))
             /\ Space!Length(Space!Probeable(x)) >= 1010 =>
                    Space!Reachable(x, Space!Shifted(made.levelling[1], x.offset))
             /\ Space!Length(Space!Probeable(y)) >= 1010 =>
                    Space!Reachable(y, Space!Shifted(made.levelling[2], y.offset))
  <2>1. Space!Published /\ kind # "none"
    BY <1>4 DEF Space!Probed
  <2>2. Accepted /\ made = Outcome
    BY <1>2, <2>1
  <2>3. Space!Reached(x) /\ Space!Reached(y) /\ Space!Usable(MeshX, MeshY, Space!Rail.low)
    BY <2>1, <2>2 DEF Accepted
  <2>4. /\ made.mesh.x = MeshX /\ made.mesh.y = MeshY
        /\ made.home[1] = Space!SafeZHome(x) /\ made.home[2] = Space!SafeZHome(y)
        /\ made.levelling[1] = Space!Levelling(x) /\ made.levelling[2] = Space!Levelling(y)
    <3>1. /\ made.mesh.x = MeshX /\ made.mesh.y = MeshY
          /\ made.home = <<Space!SafeZHome(x), Space!SafeZHome(y)>>
          /\ made.levelling = <<Space!Levelling(x), Space!Levelling(y)>>
      BY <2>1, <2>2, GeneratedIs
    <3> QED
      BY <3>1
  <2>5. MeshX \in Space!Stretch /\ MeshY \in Space!Stretch
    BY <1>1, MeshOnAxis DEF MeshX, MeshY
  <2>6. Space!Reachable(x, MeshX) /\ Space!Reachable(y, MeshY)
    BY <1>1, <2>3, <2>5, UsableIs DEF Space!Usable
  <2> QED
    BY <1>1, <2>3, <2>4, <2>6, PointsAreReachable
<1> QED
  BY <1>3, <1>4 DEF Space!PositionsAreReachable

\* The mesh covers what the probe reaches up to a centimetre.
LEMMA WidthFollows ==
  ASSUME Space!GeometryAssumption, GeometryInv
  PROVE  Space!MeshIsWide
<1> SUFFICES ASSUME Space!Probed
             PROVE  \A pair \in {<<x, made.mesh.x>>, <<y, made.mesh.y>>} :
                        /\ pair[2].low - Space!Probeable(pair[1]).low <= 1005
                        /\ Space!Probeable(pair[1]).high - pair[2].high <= 1005
  BY DEF Space!MeshIsWide
<1>1. x \in Axes /\ y \in Axes /\ Accepted /\ made = Outcome /\ kind # "none"
  BY DEF Space!Probed, Space!Published, GeometryInv, Outcome
<1>2. made.mesh.x = MeshX /\ made.mesh.y = MeshY
  BY <1>1, GeneratedIs
<1>3. /\ MeshX.low - Space!Probeable(x).low <= 1005 /\ Space!Probeable(x).high - MeshX.high <= 1005
      /\ MeshY.low - Space!Probeable(y).low <= 1005 /\ Space!Probeable(y).high - MeshY.high <= 1005
  BY <1>1, MeshOnAxis DEF MeshX, MeshY
<1> QED
  BY <1>2, <1>3

\* What KACE chooses itself is usable.
LEMMA ChosenIsUsable ==
  ASSUME Space!GeometryAssumption, GeometryInv, kind # "none",
         Space!Legal(x), Space!Legal(y), Space!LegalRail,
         Space!Length(Space!Probeable(x)) >= 1100, Space!Length(Space!Probeable(y)) >= 1100,
         mesh.counts = None, mesh.algorithm = None, mesh.lift = None, Space!Rail.high >= 500
  PROVE  Space!Usable(MeshX, MeshY, Space!Rail.low)
<1>1. x \in Axes /\ y \in Axes /\ z \in Rails /\ mesh \in Meshes
  BY DEF GeometryInv
<1>2. /\ MeshX \in Space!Stretch /\ MeshY \in Space!Stretch
      /\ Space!Length(MeshX) >= 690 /\ Space!Length(MeshY) >= 690
      /\ MeshX.low >= Space!Probeable(x).low /\ MeshX.high <= Space!Probeable(x).high
      /\ MeshY.low >= Space!Probeable(y).low /\ MeshY.high <= Space!Probeable(y).high
  BY <1>1, MeshOnAxis DEF MeshX, MeshY
<1>3. Space!Overlap(MeshX, Space!Probeable(x)) = MeshX /\ Space!Overlap(MeshY, Space!Probeable(y)) = MeshY
  BY <1>1, <1>2, AxisIs, OverlapWhole
<1>4. Space!Length(MeshX) \in Int /\ Space!Length(MeshY) \in Int
  BY <1>2 DEF Space!Stretch, Space!Length
<1>5. Space!Length(MeshX) > 0 /\ Space!Length(MeshY) > 0
  BY <1>2, <1>4
<1> DEFINE c == Space!Counts
           p == Space!Points
<1>6. /\ c \in (3..7) \X (3..7) /\ p \in Nat \X Nat
      /\ Space!Most(p) = 0 \/ Space!Most(c) <= 6 \/ Space!Least(c) >= 4
  BY <1>1, CountsAre
<1>7. Space!Interpolates
  <2>1. Space!Algorithm = IF Space!Least(c) >= 4 THEN "bicubic" ELSE "lagrange"
    BY DEF Space!Algorithm, Space!Given
  <2>2. CASE Space!Most(p) = 0
    BY <2>2 DEF Space!Interpolates
  <2>3. CASE Space!Least(c) >= 4
    BY <2>1, <2>3 DEF Space!Interpolates
  <2>4. CASE Space!Most(c) <= 6 /\ ~ (Space!Least(c) >= 4)
    BY <2>1, <2>4 DEF Space!Interpolates
  <2> QED
    BY <1>6, <2>2, <2>3, <2>4
<1>8. \A r \in Space!Stretch, n \in 3..7 : Space!Length(r) >= 690 => Space!Spaced(r, n)
  <2> TAKE r \in Space!Stretch, n \in 3..7
  <2> DEFINE length == Space!Length(r)
  <2>1. length \in Int
    BY DEF Space!Stretch, Space!Length
  <2> HIDE DEF length
  <2>2. ASSUME length >= 690 PROVE length \div (n - 1) >= 100
    <3>1. /\ length \div 2 >= 100 /\ length \div 3 >= 100 /\ length \div 4 >= 100
          /\ length \div 5 >= 100 /\ length \div 6 >= 100
      BY <2>1, <2>2
    <3>2. n - 1 = 2 \/ n - 1 = 3 \/ n - 1 = 4 \/ n - 1 = 5 \/ n - 1 = 6
      OBVIOUS
    <3> QED
      BY <3>1, <3>2
  <2> QED
    BY <2>2 DEF Space!Spaced, length
<1>9. Space!Spaced(MeshX, c[1]) /\ Space!Spaced(MeshY, c[2])
  <2>1. c[1] \in 3..7 /\ c[2] \in 3..7
    BY <1>6
  <2> QED
    BY <1>2, <1>8, <2>1
<1>10. Space!Clear(Space!Rail.low)
  <2>1. Space!Rail.low \in Int /\ Space!Rail.high \in Int
    BY <1>1, RailIs DEF Space!Stretch
  <2>2. Space!Rail.low <= 0
    BY DEF Space!LegalRail, Space!Within
  <2>3. Space!Lift = 300 \/ Space!Lift = 500
    BY DEF Space!Lift, Space!Given
  <2>4. 0 <= Space!Lift /\ Space!Rail.low <= Space!Lift /\ Space!Lift <= Space!Rail.high
    BY <2>1, <2>2, <2>3
  <2> QED
    BY <2>4 DEF Space!Clear, Space!Within
<1> QED
  BY <1>3, <1>5, <1>7, <1>9, <1>10 DEF Space!Usable

\* Where there are no answers of the source, what is legal and reached is accepted.
LEMMA ChoicesFollow ==
  ASSUME Space!GeometryAssumption, GeometryInv
  PROVE  Space!ChoicesAreAccepted
<1> SUFFICES ASSUME made = Refused,
                    Space!Legal(x), Space!Legal(y), Space!LegalRail,
                    ~ (Space!Length(Space!Probeable(x)) < 1100),
                    ~ (Space!Length(Space!Probeable(y)) < 1100),
                    mesh.counts = None, mesh.algorithm = None, mesh.lift = None,
                    ~ (Space!Rail.high < 500)
             PROVE  FALSE
  BY DEF Space!ChoicesAreAccepted
<1>1. x \in Axes /\ y \in Axes /\ z \in Rails /\ mesh \in Meshes
  BY DEF GeometryInv
<1>2. Refused # None /\ Refused \notin Space!Configuration
  BY DEF Space!GeometryAssumption
<1>3. made = Outcome
  BY <1>2 DEF GeometryInv
<1>4. Space!Length(Space!Probeable(x)) \in Int /\ Space!Length(Space!Probeable(y)) \in Int
  BY <1>1, AxisIs DEF Space!Stretch, Space!Length
<1>5. Space!Rail.high \in Int
  BY <1>1, RailIs DEF Space!Stretch
<1>6. /\ Space!Length(Space!Probeable(x)) >= 1100 /\ Space!Length(Space!Probeable(y)) >= 1100
      /\ Space!Rail.high >= 500
  BY <1>4, <1>5
<1>7. Space!Reached(x) /\ Space!Reached(y)
  <2>1. Space!Length(Space!Probeable(x)) > 0 /\ Space!Length(Space!Probeable(y)) > 0
    BY <1>4, <1>6
  <2> QED
    BY <1>1, <2>1, HomeIs DEF Space!Reached
<1>8. kind # "none" => Space!Usable(MeshX, MeshY, Space!Rail.low)
  BY <1>6, ChosenIsUsable
<1>9. Accepted
  BY <1>7, <1>8 DEF Accepted
<1>10. Space!Generated(MeshX, MeshY) \in Space!Configuration
  BY <1>9, ConfigurationIs
<1> QED
  BY <1>2, <1>3, <1>9, <1>10 DEF Outcome

\* A bed that fits on the travel is where it was.
LEMMA AlignedIs ==
  ASSUME Space!GeometryAssumption, NEW a \in Axes, Space!Legal(a)
  PROVE  Tip(a) = Space!Probeable(a)
<1> DEFINE t == Space!Travel(a)
           b == Space!Bed(a)
           d == t.high - b.high
           back == Space!Shifted(b, d)
<1>1. t.high \in Int /\ b.low \in Int /\ b.high \in Int
  BY AxisIs DEF Space!Stretch
<1>2. b.high <= t.high
  BY DEF Space!Legal
<1>3. d \in Int /\ d >= 0
  BY <1>1, <1>2
<1>4. back.low = b.low + d
  BY DEF Space!Shifted
<1>5. ~ (back.low < b.low)
  BY <1>1, <1>3, <1>4
<1>6. Space!Aligned(a) = b
  BY <1>5 DEF Space!Aligned
<1> QED
  BY <1>6 DEF Tip, Space!Probeable

\* The summary shows the mesh that was generated.
LEMMA SummaryFollows ==
  ASSUME Space!GeometryAssumption, GeometryInv
  PROVE  Space!SummaryIsGenerated
<1> SUFFICES ASSUME summary # None PROVE summary = made.mesh
  BY DEF Space!SummaryIsGenerated
<1>1. /\ x \in Axes /\ y \in Axes /\ z \in Rails
      /\ made = Outcome /\ made # Refused /\ kind # "none" /\ summary = Summary
  BY DEF GeometryInv
<1>2. Accepted
  BY <1>1 DEF Outcome
<1>3. Space!Legal(x) /\ Space!Legal(y) /\ Space!LegalRail /\ Space!Usable(MeshX, MeshY, Space!Rail.low)
  BY <1>1, <1>2 DEF Accepted
<1>4. TipX = MeshX /\ TipY = MeshY
  BY <1>1, <1>3, AlignedIs DEF TipX, TipY, MeshX, MeshY
<1>5. Space!Clear(Space!Given(z.min, 0))
  <2>1. Space!Clear(Space!Rail.low)
    BY <1>3 DEF Space!Usable
  <2>2. CASE z.min = None
    BY <2>1, <2>2 DEF Space!Clear, Space!Within, Space!Given
  <2>3. CASE z.min # None
    BY <2>1, <2>3 DEF Space!Given, Space!Rail
  <2> QED
    BY <2>2, <2>3
<1>6. Space!Usable(TipX, TipY, Space!Given(z.min, 0))
  BY <1>3, <1>4, <1>5 DEF Space!Usable
<1>7. summary = Space!MeshOf(MeshX, MeshY)
  BY <1>1, <1>4, <1>6 DEF Summary
<1> QED
  BY <1>1, <1>2, <1>7, GeneratedIs

\* The invariant holds where nothing is derived yet.
LEMMA GeometryInit ==
  ASSUME Space!Init
  PROVE  GeometryInv
BY DEF Space!Init, GeometryInv

\* What is derived depends on the answers alone.
LEMMA AnswersDecide ==
  ASSUME x' = x, y' = y, z' = z, kind' = kind, mesh' = mesh, ties' = ties
  PROVE  Outcome' = Outcome /\ Summary' = Summary
<1>1. \A border, v : Space!Tenths(border, v)' = Space!Tenths(border, v)
  BY DEF Space!Tenths
<1>2. \A r : Space!Formatted(r)' = Space!Formatted(r)
  BY <1>1 DEF Space!Formatted
<1>3. /\ Space!Rail' = Space!Rail /\ Space!Height' = Space!Height /\ Space!Lift' = Space!Lift
      /\ Space!Points' = Space!Points /\ Space!Lengths' = Space!Lengths
  BY DEF Space!Rail, Space!Height, Space!Lift, Space!Points, Space!Lengths
<1>4. Space!Counts' = Space!Counts
  BY <1>3 DEF Space!Counts
<1>5. Space!Algorithm' = Space!Algorithm
  BY <1>4 DEF Space!Algorithm
<1>6. Space!Interpolates' <=> Space!Interpolates
  BY <1>3, <1>4, <1>5 DEF Space!Interpolates
<1>7. \A low : Space!Clear(low)' <=> Space!Clear(low)
  BY <1>3 DEF Space!Clear
<1>8. \A mx, my, low : Space!Usable(mx, my, low)' <=> Space!Usable(mx, my, low)
  BY <1>4, <1>6, <1>7 DEF Space!Usable
<1>9. \A mx, my : Space!MeshOf(mx, my)' = Space!MeshOf(mx, my)
  BY <1>3, <1>4, <1>5 DEF Space!MeshOf
<1>10. Space!LegalRail' <=> Space!LegalRail
  BY <1>3 DEF Space!LegalRail
<1>11. \A most, share : Space!SafeZ(most, share)' = Space!SafeZ(most, share)
  BY <1>3 DEF Space!SafeZ
<1>12. \A a : Space!Levelling(a)' = Space!Levelling(a)
  BY <1>2 DEF Space!Levelling
<1>13. \A mx, my : Space!Generated(mx, my)' = Space!Generated(mx, my)
  <2>1. /\ Space!SafeZ(5000, 5)' = Space!SafeZ(5000, 5)
        /\ Space!SafeZ(2000, 10)' = Space!SafeZ(2000, 10)
        /\ Space!Levelling(x)' = Space!Levelling(x) /\ Space!Levelling(y)' = Space!Levelling(y)
    BY <1>11, <1>12
  <2> TAKE mx, my
  <2>2. Space!MeshOf(mx, my)' = Space!MeshOf(mx, my)
    BY <1>9
  <2>3. CASE kind = "none"
    BY <2>1, <2>3 DEF Space!Generated
  <2>4. CASE kind # "none"
    BY <2>1, <2>2, <2>4 DEF Space!Generated
  <2> QED
    BY <2>3, <2>4
<1>14. MeshX' = MeshX /\ MeshY' = MeshY /\ TipX' = TipX /\ TipY' = TipY
  BY <1>2 DEF MeshX, MeshY, TipX, TipY, Tip
<1>15. Accepted' <=> Accepted
  BY <1>3, <1>8, <1>10, <1>14 DEF Accepted
<1>16. Outcome' = Outcome
  BY <1>13, <1>14, <1>15 DEF Outcome
<1>17. Summary' = Summary
  BY <1>8, <1>9, <1>14 DEF Summary
<1> QED
  BY <1>16, <1>17

\* What is derived stays what the answers say: no answer changes any more.
LEMMA GeometryKept ==
  ASSUME GeometryInv, [Space!Next]_(Space!mvars)
  PROVE  GeometryInv'
<1>1. CASE Space!Generate
  <2>1. /\ x' = x /\ y' = y /\ z' = z /\ kind' = kind /\ mesh' = mesh /\ ties' = ties
        /\ summary' = summary /\ made = None
    BY <1>1 DEF Space!Generate
  <2>2. Outcome' = Outcome
    BY <2>1, AnswersDecide
  <2>3. made' = Outcome
    BY <1>1 DEF Space!Generate, Outcome, Accepted, MeshX, MeshY
  <2>4. summary = None
    BY <2>1 DEF GeometryInv
  <2> QED
    BY <2>1, <2>2, <2>3, <2>4 DEF GeometryInv
<1>2. CASE Space!Summarise
  <2>1. /\ x' = x /\ y' = y /\ z' = z /\ kind' = kind /\ mesh' = mesh /\ ties' = ties
        /\ made' = made /\ made # None /\ made # Refused /\ kind # "none"
    BY <1>2 DEF Space!Summarise
  <2>2. Outcome' = Outcome /\ Summary' = Summary
    BY <2>1, AnswersDecide
  <2>3. summary' = Summary
    BY <1>2 DEF Space!Summarise, Summary, TipX, TipY, Tip
  <2> QED
    BY <2>1, <2>2, <2>3 DEF GeometryInv
<1>3. CASE UNCHANGED Space!mvars
  <2>1. /\ x' = x /\ y' = y /\ z' = z /\ kind' = kind /\ mesh' = mesh /\ ties' = ties
        /\ made' = made /\ summary' = summary
    BY <1>3 DEF Space!mvars
  <2>2. Outcome' = Outcome /\ Summary' = Summary
    BY <2>1, AnswersDecide
  <2> QED
    BY <2>1, <2>2 DEF GeometryInv
<1> QED
  BY <1>1, <1>2, <1>3 DEF Space!Next

\* For every set of answers, whatever the offset, the margins and the rounding do:
\* no generated position leaves the bed or the travel, the mesh covers what the
\* probe reaches up to a centimetre, what KACE chooses itself is accepted, and the
\* summary shows the mesh that was generated (generate_config, print_summary).
THEOREM GeometryIsReachableAlways ==
  Space!GeometryAssumption => (Space!Spec => []GeometryIsReachable)
<1> SUFFICES ASSUME Space!GeometryAssumption
             PROVE  Space!Spec => []GeometryIsReachable
  OBVIOUS
<1>1. Space!Init => GeometryInv
  BY GeometryInit
<1>2. GeometryInv /\ [Space!Next]_(Space!mvars) => GeometryInv'
  BY GeometryKept
<1>3. GeometryInv => GeometryIsReachable
  BY PositionsFollow, WidthFollows, ChoicesFollow, SummaryFollows DEF GeometryIsReachable
<1> QED
  BY <1>1, <1>2, <1>3, PTL DEF Space!Spec

-----------------------------------------------------------------------------
(* Wizard: the runner over the whole catalogue of WizardSteps, for any     *)
(* boards, motors, drivers, profiles and probes it may offer.  What makes  *)
(* the invariant inductive is an order on the questions: every answer      *)
(* leads to a later one, so what a step is entered with can be said by its *)
(* rank, a history never holds a step twice, and the copy of a step says   *)
(* what its path had written.                                              *)

\* The order of the questions: every route of the catalogue leads to a later one.
Rank(s) ==
    CASE s = "board" -> 1 [] s = "fan_assignment" -> 2 [] s = "z_motors" -> 3
      [] s = "z_socket_assignment" -> 4 [] s = "driver_type" -> 5 [] s = "driver_mode" -> 6
      [] s = "printer_profile" -> 7 [] s = "profile_review" -> 8 [] s = "kinematics" -> 9
      [] s = "x_volume" -> 10 [] s = "y_volume" -> 11 [] s = "z_volume" -> 12
      [] s = "x_limits" -> 13 [] s = "y_limits" -> 14 [] s = "z_limits" -> 15
      [] s = "homing_directions" -> 16 [] s = "z_mechanics" -> 17 [] s = "tmc_currents" -> 18
      [] s = "probe" -> 19 [] s = "custom_probe_pin" -> 20 [] s = "custom_probe_pullup" -> 21
      [] s = "custom_probe_inverted" -> 22 [] s = "custom_probe_offset_preview" -> 23
      [] s = "custom_probe_z_offset" -> 24 [] s = "custom_probe_speed" -> 25
      [] s = "custom_probe_samples" -> 26 [] s = "custom_probe_samples_result" -> 27
      [] s = "custom_probe_samples_tolerance" -> 28
      [] s = "custom_probe_samples_tolerance_retries" -> 29
      [] s = "custom_probe_sample_retract_dist" -> 30 [] s = "custom_probe" -> 31
      [] s = "custom_probe_review" -> 32 [] s = "bltouch_pins" -> 33 [] s = "probe_offsets" -> 34
      [] s = "probe_homing" -> 35 [] s = "hotend_therm" -> 36 [] s = "bed_therm" -> 37
      [] s = "display" -> 38 [] s = "web_ui" -> 39 [] s = Nothing -> 40

\* What the user data are when a step is entered: the driver's mode ...
DriverEntry(d, s) ==
    /\ Rank(s) <= Rank("driver_mode") => d.mode = "Standalone"
    /\ s = "driver_mode" => IsTmc(d)
    /\ Rank(s) > Rank("driver_mode") /\ d.mode # "Standalone" => IsTmc(d)
\* ... the sockets and the mechanics of additional Z motors ...
MotorEntry(d, s) ==
    /\ Rank(s) <= Rank("z_socket_assignment") => d.sockets = Nothing
    /\ Rank(s) > Rank("z_socket_assignment") =>
          IF d.z > 1 THEN d.sockets \in {"reused", "custom"} ELSE d.sockets = Nothing
    /\ Rank(s) <= Rank("z_mechanics") => d.zmech = Nothing
    /\ Rank(s) > Rank("z_mechanics") => d.zmech = IF d.z > 1 THEN "confirmed" ELSE Nothing
\* ... the values with a provenance: a profile is confirmed right after it was
\* loaded, and where none was loaded they are asked one by one ...
ValueEntry(d, s) ==
    /\ Rank(s) <= Rank("printer_profile") => ~ d.loaded
    /\ s = "profile_review" => d.loaded
    /\ Rank(s) > Rank("profile_review") /\ d.loaded => d.auth
    /\ d.auth => d.loaded
    /\ \A v \in ValueSteps : Rank(s) > Rank(v) => d.value[v] = "user" \/ d.auth
\* ... and the probe, of which a custom one is asked for piece by piece.
ProbeEntry(d, s) ==
    /\ Rank(s) <= Rank("probe") => d.probe = "none"
    /\ Rank(s) > Rank("probe") /\ Rank(s) <= Rank("custom_probe_review") => d.probe = "custom"
    /\ Rank(s) <= Rank("custom_probe") => d.custom = Nothing
    /\ Rank(s) > Rank("custom_probe") => (d.probe = "custom" <=> d.custom = "built")
    /\ d.probe = "custom" =>
          /\ \A g \in {"custom_probe_pin"} \cup GuidedValues \cup SignalOptions :
                Rank(s) > Rank(g) => g \in d.guided
          /\ Rank(s) > Rank("custom_probe_offset_preview") => d.offsets = "given"
    /\ Rank(s) > Rank("bltouch_pins") /\ d.probe = "bltouch" /\ NeedsBltouchPins(d) => d.blt = "both"
    /\ Rank(s) > Rank("probe_offsets") /\ d.probe # "none" => d.offsets = "given"
    /\ Rank(s) > Rank("probe_homing") /\ d.probe # "none" => d.fits
EntryInv(d, s) ==
    d \in UserData /\ DriverEntry(d, s) /\ MotorEntry(d, s) /\ ValueEntry(d, s) /\ ProbeEntry(d, s)

\* Every part of the user data that is not the default was written by one of steps.
WrittenBy(d, steps) ==
    /\ \A piece \in DOMAIN Writers :
          d[piece] # InitialDefaults[piece] => Writers[piece] \cap steps # {}
    /\ \A v \in ValueSteps :
          /\ d.value[v] = "profile" => "printer_profile" \in steps
          /\ d.value[v] = "user" => steps \cap {v, "profile_review", "probe_homing"} # {}

\* The steps answered before the k-th of a history.
Before(h, k) == {h[j] : j \in 1..(k - 1)}
\* A history ascends.
Ascends(h) == \A i, j \in 1..Len(h) : i < j => Rank(h[i]) < Rank(h[j])

\* A history leads from the first question to the step c, every copy is the user
\* data its step was entered with, and only phases behind are complete.
GoodPath(c, h, copies, done) ==
    /\ c \in Steps
    /\ ToSet(h) \subseteq DOMAIN copies
    /\ DOMAIN copies \subseteq ToSet(h) \cup (IF h = <<>> THEN {c} ELSE {})
    /\ IF h = <<>> THEN c = "board" ELSE h[1] = "board"
    /\ \A i \in 1..Len(h) : Rank(h[i]) < Rank(c)
    /\ \A k \in 1..Len(h) : /\ EntryInv(copies[h[k]], h[k])
                           /\ WrittenBy(copies[h[k]], Before(h, k))
    /\ \A p \in done : p < PhaseNumber(c)

\* The inductive invariant of the engine.
EngineInv ==
    /\ TypeOK
    /\ Ascends(history)
    /\ status \in {"running", "finished"} =>
          EntryInv(userData, current) /\ WrittenBy(userData, ToSet(history))
    /\ status = "running" => GoodPath(current, history, snapshots, completed)
    /\ status = "finished" => current = Nothing

\* The ranks.
LEMMA RankIs ==
  /\ Rank("board") = 1 /\ Rank("fan_assignment") = 2 /\ Rank("z_motors") = 3
  /\ Rank("z_socket_assignment") = 4 /\ Rank("driver_type") = 5 /\ Rank("driver_mode") = 6
  /\ Rank("printer_profile") = 7 /\ Rank("profile_review") = 8 /\ Rank("kinematics") = 9
  /\ Rank("x_volume") = 10 /\ Rank("y_volume") = 11 /\ Rank("z_volume") = 12
  /\ Rank("x_limits") = 13 /\ Rank("y_limits") = 14 /\ Rank("z_limits") = 15
  /\ Rank("homing_directions") = 16 /\ Rank("z_mechanics") = 17 /\ Rank("tmc_currents") = 18
  /\ Rank("probe") = 19 /\ Rank("custom_probe_pin") = 20 /\ Rank("custom_probe_pullup") = 21
  /\ Rank("custom_probe_inverted") = 22 /\ Rank("custom_probe_offset_preview") = 23
  /\ Rank("custom_probe_z_offset") = 24 /\ Rank("custom_probe_speed") = 25
  /\ Rank("custom_probe_samples") = 26 /\ Rank("custom_probe_samples_result") = 27
  /\ Rank("custom_probe_samples_tolerance") = 28
  /\ Rank("custom_probe_samples_tolerance_retries") = 29
  /\ Rank("custom_probe_sample_retract_dist") = 30 /\ Rank("custom_probe") = 31
  /\ Rank("custom_probe_review") = 32 /\ Rank("bltouch_pins") = 33 /\ Rank("probe_offsets") = 34
  /\ Rank("probe_homing") = 35 /\ Rank("hotend_therm") = 36 /\ Rank("bed_therm") = 37
  /\ Rank("display") = 38 /\ Rank("web_ui") = 39 /\ Rank(Nothing) = 40
BY DEF Rank, Nothing

\* The phases follow the ranks.
LEMMA PhaseIs ==
  ASSUME NEW s \in Steps
  PROVE  /\ Rank(s) \in 1..39 /\ PhaseNumber(s) \in 1..4
         /\ PhaseNumber(s) = IF Rank(s) <= 6 THEN 1 ELSE IF Rank(s) <= 18 THEN 2
                             ELSE IF Rank(s) <= 37 THEN 3 ELSE 4
<1>1. /\ s \in Hardware => s \notin Motion /\ s \notin Sensors /\ s \notin Software
      /\ s \in Motion => s \notin Sensors /\ s \notin Software
      /\ s \in Sensors => s \notin Software
  BY DEF Hardware, Motion, Volumes, Limits, Sensors, ProbeSteps, SignalOptions, GuidedValues,
         Thermistors, Software
<1>2. CASE s \in Hardware
  <2>1. Rank(s) \in 1..6
    BY <1>2, RankIs DEF Hardware
  <2>2. PhaseNumber(s) = 1
    BY <1>1, <1>2 DEF PhaseNumber
  <2> QED
    BY <2>1, <2>2
<1>3. CASE s \in Motion
  <2>1. Rank(s) \in 7..18
    BY <1>3, RankIs DEF Motion, Volumes, Limits
  <2>2. PhaseNumber(s) = 2
    BY <1>1, <1>3 DEF PhaseNumber
  <2> QED
    BY <2>1, <2>2
<1>4. CASE s \in Sensors
  <2>1. Rank(s) \in 19..37
    BY <1>4, RankIs DEF Sensors, ProbeSteps, SignalOptions, GuidedValues, Thermistors
  <2>2. PhaseNumber(s) = 3
    BY <1>1, <1>4 DEF PhaseNumber
  <2> QED
    BY <2>1, <2>2
<1>5. CASE s \in Software
  <2>1. Rank(s) \in 38..39
    BY <1>5, RankIs DEF Software
  <2>2. PhaseNumber(s) = 4
    BY <1>1, <1>5 DEF PhaseNumber
  <2> QED
    BY <2>1, <2>2
<1> QED
  BY <1>2, <1>3, <1>4, <1>5 DEF Steps

\* The prompt of each step.
LEMMA OutcomesAre ==
  ASSUME NEW d
  PROVE  /\ Outcomes("board", d) = StepBoard(d)
         /\ Outcomes("fan_assignment", d) = StepFanAssignment(d)
         /\ Outcomes("z_motors", d) = StepZMotors(d)
         /\ Outcomes("z_socket_assignment", d) = StepZSockets(d)
         /\ Outcomes("driver_type", d) = StepDriverType(d)
         /\ Outcomes("driver_mode", d) = StepDriverMode(d)
         /\ Outcomes("tmc_currents", d) = StepTmcCurrents(d)
         /\ Outcomes("printer_profile", d) = StepPrinterProfile(d)
         /\ Outcomes("profile_review", d) = StepProfileReview(d)
         /\ \A s \in Limits : Outcomes(s, d) = StepLimits(s, d)
         /\ \A s \in ValueSteps \ Limits : Outcomes(s, d) = StepValue(s, d)
         /\ Outcomes("homing_directions", d) = StepHomingDirections(d)
         /\ Outcomes("z_mechanics", d) = StepZMechanics(d)
         /\ Outcomes("probe", d) = StepProbe(d)
         /\ Outcomes("custom_probe_pin", d) = StepProbePin(d)
         /\ \A s \in SignalOptions : Outcomes(s, d) = StepSignalOption(s, d)
         /\ \A s \in GuidedValues : Outcomes(s, d) = StepGuidedValue(s, d)
         /\ \A s \in {"custom_probe_offset_preview", "probe_offsets"} : Outcomes(s, d) = StepOffsets(d)
         /\ Outcomes("custom_probe", d) = StepCustomProbe(d)
         /\ Outcomes("custom_probe_review", d) = StepCustomProbeReview(d)
         /\ Outcomes("bltouch_pins", d) = StepBltouchPins(d)
         /\ Outcomes("probe_homing", d) = StepProbeHoming(d)
         /\ Outcomes("display", d) = StepDisplay(d)
         /\ Outcomes("web_ui", d) = StepWebUi(d)
<1>1. \A s \in Hardware \cup {"tmc_currents"} : Outcomes(s, d) = HardwareOutcomes(s, d)
  BY DEF Outcomes, Hardware, Motion, Volumes, Limits, ProbeSteps, SignalOptions, GuidedValues, Thermistors
<1>2. \A s \in (Motion \ {"tmc_currents"}) \cup Thermistors : Outcomes(s, d) = MotionOutcomes(s, d)
  BY DEF Outcomes, Hardware, Motion, Volumes, Limits, ProbeSteps, SignalOptions, GuidedValues, Thermistors
<1>3. \A s \in ProbeSteps : Outcomes(s, d) = ProbeOutcomes(s, d)
  BY DEF Outcomes, Hardware, Motion, Volumes, Limits, ProbeSteps, SignalOptions, GuidedValues, Thermistors
<1>4. Outcomes("display", d) = StepDisplay(d) /\ Outcomes("web_ui", d) = StepWebUi(d)
  BY DEF Outcomes, Hardware, Motion, Volumes, Limits, ProbeSteps, SignalOptions, GuidedValues, Thermistors
<1>5. /\ Outcomes("board", d) = StepBoard(d)
      /\ Outcomes("fan_assignment", d) = StepFanAssignment(d)
      /\ Outcomes("z_motors", d) = StepZMotors(d)
      /\ Outcomes("z_socket_assignment", d) = StepZSockets(d)
      /\ Outcomes("driver_type", d) = StepDriverType(d)
      /\ Outcomes("driver_mode", d) = StepDriverMode(d)
      /\ Outcomes("tmc_currents", d) = StepTmcCurrents(d)
  BY <1>1 DEF HardwareOutcomes, Hardware
<1>6. /\ Outcomes("printer_profile", d) = StepPrinterProfile(d)
      /\ Outcomes("profile_review", d) = StepProfileReview(d)
      /\ Outcomes("homing_directions", d) = StepHomingDirections(d)
      /\ Outcomes("z_mechanics", d) = StepZMechanics(d)
  BY <1>2 DEF MotionOutcomes, Motion, ValueSteps, Volumes, Limits, Thermistors
<1>7. \A s \in Limits : Outcomes(s, d) = StepLimits(s, d)
  BY <1>2 DEF MotionOutcomes, Motion, ValueSteps, Volumes, Limits, Thermistors
<1>8. \A s \in ValueSteps \ Limits : Outcomes(s, d) = StepValue(s, d)
  BY <1>2 DEF MotionOutcomes, Motion, ValueSteps, Volumes, Limits, Thermistors
<1>9. /\ Outcomes("probe", d) = StepProbe(d)
      /\ Outcomes("custom_probe_pin", d) = StepProbePin(d)
      /\ \A s \in {"custom_probe_offset_preview", "probe_offsets"} : Outcomes(s, d) = StepOffsets(d)
      /\ Outcomes("custom_probe", d) = StepCustomProbe(d)
      /\ Outcomes("custom_probe_review", d) = StepCustomProbeReview(d)
      /\ Outcomes("bltouch_pins", d) = StepBltouchPins(d)
      /\ Outcomes("probe_homing", d) = StepProbeHoming(d)
  BY <1>3 DEF ProbeOutcomes, ProbeSteps, SignalOptions, GuidedValues
<1>10. \A s \in SignalOptions : Outcomes(s, d) = StepSignalOption(s, d)
  BY <1>3 DEF ProbeOutcomes, ProbeSteps, SignalOptions, GuidedValues
<1>11. \A s \in GuidedValues : Outcomes(s, d) = StepGuidedValue(s, d)
  BY <1>3 DEF ProbeOutcomes, ProbeSteps, SignalOptions, GuidedValues
<1> QED
  BY <1>4, <1>5, <1>6, <1>7, <1>8, <1>9, <1>10, <1>11

\* Where each step leads that has one successor.
LEMMA RoutesAre ==
  ASSUME NEW a, NEW d
  PROVE  /\ Route("fan_assignment", a, d) = "z_motors"
         /\ Route("z_socket_assignment", a, d) = "driver_type"
         /\ Route("driver_mode", a, d) = "printer_profile"
         /\ Route("profile_review", a, d) = "homing_directions"
         /\ Route("kinematics", a, d) = "x_volume" /\ Route("x_volume", a, d) = "y_volume"
         /\ Route("y_volume", a, d) = "z_volume" /\ Route("z_volume", a, d) = "x_limits"
         /\ Route("x_limits", a, d) = "y_limits" /\ Route("y_limits", a, d) = "z_limits"
         /\ Route("z_limits", a, d) = "homing_directions"
         /\ Route("homing_directions", a, d) = "z_mechanics"
         /\ Route("z_mechanics", a, d) = "tmc_currents" /\ Route("tmc_currents", a, d) = "probe"
         /\ Route("custom_probe_pin", a, d) = "custom_probe_pullup"
         /\ Route("custom_probe_pullup", a, d) = "custom_probe_inverted"
         /\ Route("custom_probe_inverted", a, d) = "custom_probe_offset_preview"
         /\ Route("custom_probe_offset_preview", a, d) = "custom_probe_z_offset"
         /\ Route("custom_probe_z_offset", a, d) = "custom_probe_speed"
         /\ Route("custom_probe_speed", a, d) = "custom_probe_samples"
         /\ Route("custom_probe_samples", a, d) = "custom_probe_samples_result"
         /\ Route("custom_probe_samples_result", a, d) = "custom_probe_samples_tolerance"
         /\ Route("custom_probe_samples_tolerance", a, d) = "custom_probe_samples_tolerance_retries"
         /\ Route("custom_probe_samples_tolerance_retries", a, d) = "custom_probe_sample_retract_dist"
         /\ Route("custom_probe_sample_retract_dist", a, d) = "custom_probe"
         /\ Route("custom_probe", a, d) = "custom_probe_review"
         /\ Route("custom_probe_review", a, d) = "probe_homing"
         /\ Route("bltouch_pins", a, d) = "probe_offsets" /\ Route("probe_offsets", a, d) = "probe_homing"
         /\ Route("probe_homing", a, d) = "hotend_therm" /\ Route("hotend_therm", a, d) = "bed_therm"
         /\ Route("bed_therm", a, d) = "display" /\ Route("display", a, d) = "web_ui"
         /\ Route("web_ui", a, d) = Nothing
BY DEF Route, NextStep, DefaultNext

\* Where the others lead.
LEMMA BranchesAre ==
  ASSUME NEW a, NEW d
  PROVE  /\ Route("board", a, d) = IF HasFanOptions(d) THEN "fan_assignment" ELSE "z_motors"
         /\ Route("z_motors", a, d) = IF a = "single" THEN "driver_type" ELSE "z_socket_assignment"
         /\ Route("driver_type", a, d) = IF a \in {"standard", "A4988"} THEN "printer_profile" ELSE "driver_mode"
         /\ Route("printer_profile", a, d) = IF d.loaded THEN "profile_review" ELSE "kinematics"
         /\ Route("probe", a, d) = AfterProbe(a, d)
BY DEF Route, NextStep, DefaultNext

Parts == {"board", "raw", "fans", "z", "sockets", "type", "mode", "profile", "loaded", "auth",
          "value", "fits", "homing", "zmech", "currents", "probe", "blt", "offsets", "guided",
          "custom", "display", "web"}
\* What a step may have changed of the user data: its own parts, and parts that
\* an earlier step has written before it.
Wrote(s, d, e) ==
    /\ \A piece \in DOMAIN Writers :
          e[piece] # d[piece] => s \in Writers[piece] \/ d[piece] # InitialDefaults[piece]
    /\ \A v \in ValueSteps : e.value[v] # d.value[v] =>
          \/ e.value[v] = "profile" /\ s = "printer_profile"
          \/ e.value[v] = "user" /\ s \in {v, "profile_review", "probe_homing"}
\* An outcome is well formed, and an answer leads to a later question that finds
\* the user data as it expects them.
LeadsOn(s, e, n) == n \in Steps \cup {Nothing} /\ Rank(n) > Rank(s) /\ EntryInv(e, n)
Follows(s, d, o) ==
    /\ o.data \in UserData
    /\ o.kind = "answered" => Wrote(s, d, o.data) /\ LeadsOn(s, o.data, Route(s, o.ans, o.data))

\* The user data are what they were.
LEMMA NothingWritten ==
  ASSUME NEW d \in UserData, NEW s
  PROVE  Wrote(s, d, d)
BY DEF Wrote

\* The parts by their names.
LEMMA PartNames ==
  /\ "board" \in Parts /\ "raw" \in Parts /\ "fans" \in Parts /\ "z" \in Parts
  /\ "sockets" \in Parts /\ "type" \in Parts /\ "mode" \in Parts /\ "profile" \in Parts
  /\ "loaded" \in Parts /\ "auth" \in Parts /\ "value" \in Parts /\ "fits" \in Parts
  /\ "homing" \in Parts /\ "zmech" \in Parts /\ "currents" \in Parts /\ "probe" \in Parts
  /\ "blt" \in Parts /\ "offsets" \in Parts /\ "guided" \in Parts /\ "custom" \in Parts
  /\ "display" \in Parts /\ "web" \in Parts
BY DEF Parts

\* A step may write a part that is its own, or that no step owns.
MayWrite(s, f) == f \in Parts \ {"value"} /\ (f \in DOMAIN Writers => s \in Writers[f])
\* The steps with one part to write.
LEMMA WritersAre ==
  /\ MayWrite("board", "board") /\ MayWrite("fan_assignment", "fans")
  /\ MayWrite("z_motors", "z") /\ MayWrite("z_socket_assignment", "sockets")
  /\ MayWrite("driver_type", "type") /\ MayWrite("driver_mode", "mode")
  /\ MayWrite("printer_profile", "profile") /\ MayWrite("z_mechanics", "zmech")
  /\ MayWrite("probe", "probe") /\ MayWrite("custom_probe", "custom")
  /\ MayWrite("bltouch_pins", "blt") /\ MayWrite("probe_offsets", "offsets")
BY DEF MayWrite, Writers, Parts

\* One part of them was written, which is not a value.
LEMMA PartIs ==
  ASSUME NEW d \in UserData, NEW f \in Parts, NEW v
  PROVE  /\ [d EXCEPT ![f] = v][f] = v
         /\ \A p \in Parts \ {f} : [d EXCEPT ![f] = v][p] = d[p]
<1>1. DOMAIN d = Parts
  BY DEF Parts, UserData
<1> QED
  BY <1>1

\* A step may write its own part.
LEMMA PartWritten ==
  ASSUME NEW d \in UserData, NEW e \in UserData, NEW s, NEW f \in Parts \ {"value"},
         \A p \in Parts \ {f} : e[p] = d[p], f \in DOMAIN Writers => s \in Writers[f]
  PROVE  Wrote(s, d, e)
<1>1. DOMAIN Writers \subseteq Parts
  BY DEF Writers, Parts
<1>2. \A piece \in DOMAIN Writers : piece # f => e[piece] = d[piece]
  BY <1>1
<1>3. e.value = d.value
  BY DEF Parts
<1> QED
  BY <1>2, <1>3 DEF Wrote

\* The mode is not touched.
LEMMA DriverStays ==
  ASSUME NEW d, NEW e, e.mode = d.mode, e.type = d.type \/ d.mode = "Standalone",
         NEW s \in Steps, NEW n \in Steps \cup {Nothing}, Rank(s) < Rank(n),
         n # "driver_mode", DriverEntry(d, s)
  PROVE  DriverEntry(e, n)
<1>1. Rank(s) \in Int /\ Rank(n) \in Int /\ Rank("driver_mode") \in Int
  BY PhaseIs, RankIs
<1> QED
  BY <1>1 DEF DriverEntry, IsTmc

\* The motors are not touched, and no question about them is passed.
LEMMA MotorStays ==
  ASSUME NEW d, NEW e, e.z = d.z, e.sockets = d.sockets, e.zmech = d.zmech,
         NEW s \in Steps, NEW n \in Steps \cup {Nothing}, Rank(s) < Rank(n), MotorEntry(d, s),
         Rank(n) <= 4 \/ (Rank(s) > 4 /\ Rank(n) <= 17) \/ Rank(s) > 17
  PROVE  MotorEntry(e, n)
<1>1. /\ Rank(s) \in Int /\ Rank(n) \in Int
      /\ Rank("z_socket_assignment") = 4 /\ Rank("z_mechanics") = 17
  BY PhaseIs, RankIs
<1> QED
  BY <1>1 DEF MotorEntry

\* The values are not touched, and no question about them is passed.
LEMMA ValueStays ==
  ASSUME NEW d, NEW e, e.loaded = d.loaded, e.auth = d.auth, e.value = d.value,
         NEW s \in Steps, NEW n \in Steps \cup {Nothing}, Rank(s) < Rank(n), ValueEntry(d, s),
         Rank(n) <= 7 \/ (Rank(s) > 15 /\ Rank(n) <= 36) \/ Rank(s) > 37
  PROVE  ValueEntry(e, n)
<1>1. /\ Rank(s) \in Int /\ Rank(n) \in Int
      /\ Rank("printer_profile") = 7 /\ Rank("profile_review") = 8
      /\ \A v \in ValueSteps : Rank(v) \in 9..15 \cup 36..37
  BY PhaseIs, RankIs DEF ValueSteps, Volumes, Limits, Thermistors
<1>2. n # "profile_review" /\ s # "profile_review"
  BY <1>1
<1>3. \A v \in ValueSteps : Rank(n) > Rank(v) => Rank(s) > Rank(v)
  BY <1>1
<1> QED
  BY <1>1, <1>2, <1>3 DEF ValueEntry

\* The probe is not touched: the question is before it or after it.
LEMMA ProbeStays ==
  ASSUME NEW d, NEW e, e.probe = d.probe, e.custom = d.custom, e.guided = d.guided,
         e.offsets = d.offsets, e.blt = d.blt, e.fits = d.fits \/ d.probe = "none",
         e.board = d.board \/ d.probe = "none",
         NEW s \in Steps, NEW n \in Steps \cup {Nothing}, Rank(s) < Rank(n), ProbeEntry(d, s),
         Rank(n) <= 19 \/ Rank(s) > 35
  PROVE  ProbeEntry(e, n)
<1>1. /\ Rank(s) \in Int /\ Rank(n) \in Int
      /\ Rank("probe") = 19 /\ Rank("custom_probe_review") = 32 /\ Rank("custom_probe") = 31
      /\ Rank("custom_probe_offset_preview") = 23 /\ Rank("bltouch_pins") = 33
      /\ Rank("probe_offsets") = 34 /\ Rank("probe_homing") = 35
      /\ \A g \in {"custom_probe_pin"} \cup GuidedValues \cup SignalOptions : Rank(g) \in 20..30
  BY PhaseIs, RankIs DEF GuidedValues, SignalOptions
<1>2. CASE Rank(n) <= 19
  BY <1>1, <1>2 DEF ProbeEntry
<1>3. CASE Rank(s) > 35
  BY <1>1, <1>3 DEF ProbeEntry, NeedsBltouchPins
<1> QED
  BY <1>2, <1>3

\* The kinds of outcomes.
LEMMA OutcomeIs ==
  ASSUME NEW e
  PROVE  /\ \A a : /\ Answered(a, e).kind = "answered" /\ Answered(a, e).ans = a
                   /\ Answered(a, e).data = e
         /\ WentBack(e).kind = "back" /\ WentBack(e).data = e
         /\ Retry(e).kind = "retry" /\ Retry(e).data = e
         /\ Left(e).kind = "left" /\ Left(e).data = e
         /\ \A o \in Menu(e) \cup Text(e) : o.kind # "answered" /\ o.data = e
BY DEF Answered, WentBack, Retry, Left, QuitChosen, Menu, Text

\* What leads on from a step whose own part alone was written.
LEMMA PartFollows ==
  ASSUME NEW d \in UserData, NEW s, NEW f, MayWrite(s, f), NEW v, NEW o,
         o.data = [d EXCEPT ![f] = v], o.data \in UserData,
         o.kind = "answered" => LeadsOn(s, o.data, Route(s, o.ans, o.data))
  PROVE  Follows(s, d, o)
<1>1. f \in Parts \ {"value"} /\ (f \in DOMAIN Writers => s \in Writers[f])
  BY DEF MayWrite
<1>2. \A p \in Parts \ {f} : o.data[p] = d[p]
  BY <1>1, PartIs
<1>3. Wrote(s, d, o.data)
  BY <1>1, <1>2, PartWritten
<1> QED
  BY <1>3 DEF Follows

\* What leads on from a step that wrote nothing.
LEMMA SameFollows ==
  ASSUME NEW d \in UserData, NEW s, NEW o, o.data = d,
         o.kind = "answered" => LeadsOn(s, d, Route(s, o.ans, d))
  PROVE  Follows(s, d, o)
BY NothingWritten DEF Follows

\* The parts that later questions depend on.
Kept == {"mode", "type", "z", "sockets", "zmech", "loaded", "auth", "value", "probe", "custom",
         "guided", "offsets", "blt", "fits", "board"}
\* A step that wrote none of them leads on.
LEMMA KeptLeadsOn ==
  ASSUME NEW d, NEW s \in Steps, EntryInv(d, s), NEW e \in UserData, \A p \in Kept : e[p] = d[p],
         NEW n \in Steps \cup {Nothing}, Rank(s) < Rank(n), n # "driver_mode",
         Rank(n) <= 4 \/ (Rank(s) > 15 /\ Rank(n) <= 17) \/ (Rank(s) > 17 /\ Rank(n) <= 19) \/ Rank(s) > 37
  PROVE  LeadsOn(s, e, n)
<1>1. Rank(s) \in 1..39 /\ Rank(n) \in 1..40
  BY PhaseIs, RankIs
<1>2. DriverEntry(d, s) /\ MotorEntry(d, s) /\ ValueEntry(d, s) /\ ProbeEntry(d, s)
  BY DEF EntryInv
<1>3. /\ e.mode = d.mode /\ e.type = d.type /\ e.z = d.z /\ e.sockets = d.sockets /\ e.zmech = d.zmech
      /\ e.loaded = d.loaded /\ e.auth = d.auth /\ e.value = d.value /\ e.fits = d.fits
      /\ e.probe = d.probe /\ e.blt = d.blt /\ e.offsets = d.offsets /\ e.guided = d.guided
      /\ e.custom = d.custom /\ e.board = d.board
  BY DEF Kept
<1>4. DriverEntry(e, n)
  BY <1>2, <1>3, DriverStays
<1>5. MotorEntry(e, n)
  BY <1>1, <1>2, <1>3, MotorStays
<1>6. ValueEntry(e, n)
  BY <1>1, <1>2, <1>3, ValueStays
<1>7. ProbeEntry(e, n)
  BY <1>1, <1>2, <1>3, ProbeStays
<1> QED
  BY <1>1, <1>4, <1>5, <1>6, <1>7 DEF LeadsOn, EntryInv

\* The board.
LEMMA BoardFollows ==
  ASSUME NEW d, EntryInv(d, "board"), NEW o \in Outcomes("board", d)
  PROVE  Follows("board", d, o)
<1>1. d \in UserData /\ "board" \in Steps
  BY DEF EntryInv, Steps, Hardware
<1>2. CASE o.data = d /\ o.kind # "answered"
  BY <1>1, <1>2, SameFollows
<1>3. ASSUME NEW b \in Boards, o.data = [d EXCEPT !.board = b], o.kind = "left"
      PROVE  Follows("board", d, o)
  <2>1. o.data \in UserData
    BY <1>1, <1>3 DEF UserData
  <2> QED
    BY <1>1, <1>3, <2>1, PartFollows, WritersAre
<1> DEFINE with(b, fetched) == [d EXCEPT !.board = b, !.raw = fetched]
<1>4. ASSUME NEW b \in Boards, NEW fetched \in BOOLEAN, o.data = with(b, fetched)
      PROVE  Follows("board", d, o)
  <2> DEFINE w == [d EXCEPT !.board = b]
             e == [w EXCEPT !.raw = fetched]
  <2>1. o.data = e
    BY <1>4
  <2>2. w \in UserData
    BY <1>1 DEF UserData
  <2>3. e \in UserData
    BY <2>2 DEF UserData
  <2>4. \A p \in Parts \ {"board", "raw"} : e[p] = d[p]
    <3>1. \A p \in Parts \ {"board"} : w[p] = d[p]
      BY <1>1, PartIs, PartNames
    <3> HIDE DEF w
    <3>2. \A p \in Parts \ {"raw"} : e[p] = w[p]
      BY <2>2, PartIs, PartNames
    <3> QED
      BY <3>1, <3>2
  <2> HIDE DEF w, e
  <2>5. Wrote("board", d, e)
    <3>1. DOMAIN Writers \subseteq Parts \ {"raw"}
      BY DEF Writers, Parts
    <3>2. e.value = d.value
      BY <2>4 DEF Parts
    <3> QED
      BY <2>4, <3>1, <3>2 DEF Wrote, Writers
  <2>6. Route("board", o.ans, e) \in {"fan_assignment", "z_motors"}
    BY BranchesAre
  <2>7. ASSUME NEW n \in {"fan_assignment", "z_motors"} PROVE LeadsOn("board", e, n)
    <3>1. n \in Steps /\ Rank(n) \in 2..3 /\ Rank("board") = 1 /\ n # "driver_mode"
      BY RankIs DEF Steps, Hardware
    <3>2. DriverEntry(d, "board") /\ MotorEntry(d, "board") /\ ValueEntry(d, "board") /\ ProbeEntry(d, "board")
      BY DEF EntryInv
    <3>3. /\ e.mode = d.mode /\ e.type = d.type /\ e.z = d.z /\ e.sockets = d.sockets /\ e.zmech = d.zmech
          /\ e.loaded = d.loaded /\ e.auth = d.auth /\ e.value = d.value /\ e.fits = d.fits
          /\ e.probe = d.probe /\ e.blt = d.blt /\ e.offsets = d.offsets /\ e.guided = d.guided
          /\ e.custom = d.custom
      BY <2>4 DEF Parts
    <3>4. d.probe = "none"
      BY <3>2, RankIs DEF ProbeEntry
    <3>5. DriverEntry(e, n)
      BY <1>1, <3>1, <3>2, <3>3, DriverStays
    <3>6. MotorEntry(e, n)
      BY <1>1, <3>1, <3>2, <3>3, MotorStays
    <3>7. ValueEntry(e, n)
      BY <1>1, <3>1, <3>2, <3>3, ValueStays
    <3>8. ProbeEntry(e, n)
      BY <1>1, <3>1, <3>2, <3>3, <3>4, ProbeStays
    <3> QED
      BY <2>3, <3>1, <3>5, <3>6, <3>7, <3>8 DEF LeadsOn, EntryInv
  <2> QED
    BY <2>1, <2>3, <2>5, <2>6, <2>7 DEF Follows
<1>5. o \in StepBoard(d)
  BY OutcomesAre
<1>6. CASE o \in Menu(d) \cup {Retry(d)}
  BY <1>2, <1>6, OutcomeIs
<1>7. CASE o \in {Left([d EXCEPT !.board = b]) : b \in BrokenBoards}
  <2>1. PICK b \in BrokenBoards : o = Left([d EXCEPT !.board = b])
    BY <1>7
  <2>2. b \in Boards
    BY BoardsAssumption
  <2>3. o.data = [d EXCEPT !.board = b] /\ o.kind = "left"
    BY <2>1 DEF Left
  <2> QED
    BY <1>3, <2>2, <2>3
<1> DEFINE found == {Answered(b, with(b, fetched)) : b \in Boards \ BrokenBoards, fetched \in BOOLEAN}
<1>8. CASE o \in found
  <2> HIDE DEF with
  <2>1. PICK b \in Boards \ BrokenBoards, fetched \in BOOLEAN : o = Answered(b, with(b, fetched))
    BY <1>8
  <2>2. o.data = with(b, fetched) /\ o.kind = "answered"
    BY <2>1 DEF Answered
  <2> QED
    BY <1>4, <2>2
<1>9. StepBoard(d) = Menu(d) \cup {Retry(d)} \cup {Left([d EXCEPT !.board = b]) : b \in BrokenBoards}
                     \cup found
  BY DEF StepBoard
<1> HIDE DEF found
<1> QED
  BY <1>5, <1>6, <1>7, <1>8, <1>9

\* The fans.
LEMMA FansFollow ==
  ASSUME NEW d, EntryInv(d, "fan_assignment"), NEW o \in Outcomes("fan_assignment", d)
  PROVE  Follows("fan_assignment", d, o)
<1>1. d \in UserData /\ "fan_assignment" \in Steps /\ "z_motors" \in Steps
  BY DEF EntryInv, Steps, Hardware
<1>2. Route("fan_assignment", o.ans, o.data) = "z_motors" /\ Rank("fan_assignment") = 2 /\ Rank("z_motors") = 3
  BY RoutesAre, RankIs
<1>3. CASE o.data = d
  <2>1. LeadsOn("fan_assignment", d, "z_motors")
    BY <1>1, <1>2, KeptLeadsOn
  <2> QED
    BY <1>1, <1>2, <1>3, <2>1, SameFollows
<1>4. CASE o.data = [d EXCEPT !.fans = "assigned"]
  <2>1. o.data \in UserData
    BY <1>1, <1>4 DEF UserData
  <2>2. \A p \in Kept : o.data[p] = d[p]
    <3>1. \A p \in Parts \ {"fans"} : o.data[p] = d[p]
      BY <1>1, <1>4, PartIs, PartNames
    <3> QED
      BY <3>1 DEF Kept, Parts
  <2>3. LeadsOn("fan_assignment", o.data, "z_motors")
    BY <1>1, <1>2, <2>1, <2>2, KeptLeadsOn
  <2> QED
    BY <1>1, <1>2, <1>4, <2>1, <2>3, PartFollows, WritersAre
<1>5. o \in StepFanAssignment(d)
  BY OutcomesAre
<1>6. o.data = d \/ o.data = [d EXCEPT !.fans = "assigned"]
  BY <1>5, OutcomeIs DEF StepFanAssignment
<1> QED
  BY <1>3, <1>4, <1>6

\* The number of Z motors: one of them needs no socket.
LEMMA MotorsFollow ==
  ASSUME NEW d, EntryInv(d, "z_motors"), NEW o \in Outcomes("z_motors", d)
  PROVE  Follows("z_motors", d, o)
<1>1. d \in UserData /\ "z_motors" \in Steps
  BY DEF EntryInv, Steps, Hardware
<1>2. CASE o.data = d /\ o.kind # "answered"
  BY <1>1, <1>2, SameFollows
<1>3. ASSUME NEW m \in ZCounts, o.data = [d EXCEPT !.z = m],
             o.ans = IF m = 1 THEN "single" ELSE "several"
      PROVE  Follows("z_motors", d, o)
  <2> DEFINE e == [d EXCEPT !.z = m]
             n == IF m = 1 THEN "driver_type" ELSE "z_socket_assignment"
  <2>1. e \in UserData
    BY <1>1 DEF UserData
  <2>2. (\A p \in Parts \ {"z"} : e[p] = d[p]) /\ e.z = m
    BY <1>1, PartIs, PartNames
  <2>3. o.data = e
    BY <1>3
  <2> HIDE DEF e
  <2>4. Route("z_motors", o.ans, e) = n
    BY <1>3, BranchesAre
  <2>5. /\ n \in Steps /\ Rank("z_motors") = 3 /\ n # "driver_mode" /\ Rank(n) \in 4..5
        /\ m # 1 => Rank(n) = 4
    BY RankIs DEF Steps, Hardware
  <2> HIDE DEF n
  <2>6. DriverEntry(d, "z_motors") /\ MotorEntry(d, "z_motors") /\ ValueEntry(d, "z_motors") /\ ProbeEntry(d, "z_motors")
    BY DEF EntryInv
  <2>7. /\ e.mode = d.mode /\ e.type = d.type /\ e.sockets = d.sockets /\ e.zmech = d.zmech
        /\ e.loaded = d.loaded /\ e.auth = d.auth /\ e.value = d.value /\ e.fits = d.fits
        /\ e.probe = d.probe /\ e.blt = d.blt /\ e.offsets = d.offsets /\ e.guided = d.guided
        /\ e.custom = d.custom /\ e.board = d.board
    BY <2>2 DEF Parts
  <2>8. DriverEntry(e, n)
    BY <1>1, <2>5, <2>6, <2>7, DriverStays
  <2>9. MotorEntry(e, n)
    BY <2>2, <2>5, <2>6, <2>7, RankIs DEF MotorEntry
  <2>10. ValueEntry(e, n)
    BY <1>1, <2>5, <2>6, <2>7, ValueStays
  <2>11. ProbeEntry(e, n)
    BY <1>1, <2>5, <2>6, <2>7, ProbeStays
  <2>12. LeadsOn("z_motors", e, n)
    BY <2>1, <2>5, <2>8, <2>9, <2>10, <2>11 DEF LeadsOn, EntryInv
  <2> QED
    BY <1>1, <2>1, <2>3, <2>4, <2>12, PartFollows, WritersAre DEF e
<1>4. o \in StepZMotors(d)
  BY OutcomesAre
<1>5. CASE o \in Menu(d)
  BY <1>2, <1>5, OutcomeIs
<1>6. CASE o \in {Answered(IF m = 1 THEN "single" ELSE "several", [d EXCEPT !.z = m]) : m \in ZCounts}
  <2>1. PICK m \in ZCounts : o = Answered(IF m = 1 THEN "single" ELSE "several", [d EXCEPT !.z = m])
    BY <1>6
  <2>2. o.data = [d EXCEPT !.z = m] /\ o.ans = IF m = 1 THEN "single" ELSE "several"
    BY <2>1 DEF Answered
  <2> QED
    BY <1>3, <2>2
<1> QED
  BY <1>4, <1>5, <1>6 DEF StepZMotors

\* The number of Z motors is a number.
LEMMA MotorsAre ==
  ASSUME NEW d \in UserData
  PROVE  d.z \in Nat
<1>1. d.z \in ZCounts \cup {0}
  BY DEF UserData
<1>2. \A n \in ZCounts : n \in 1..4
  BY BoardsAssumption
<1>3. \A n \in 1..4 : n \in Nat
  OBVIOUS
<1> DEFINE count == d.z
<1>4. count \in ZCounts \/ count = 0
  BY <1>1
<1> HIDE DEF count
<1>5. count \in Nat
  BY <1>2, <1>3, <1>4
<1> QED
  BY <1>5 DEF count

\* The sockets: with several motors they are all assigned before the driver is asked for.
LEMMA SocketsFollow ==
  ASSUME NEW d, EntryInv(d, "z_socket_assignment"), NEW o \in Outcomes("z_socket_assignment", d)
  PROVE  Follows("z_socket_assignment", d, o)
<1> DEFINE s == "z_socket_assignment"
           n == "driver_type"
<1>1. /\ d \in UserData /\ s \in Steps /\ n \in Steps
      /\ DriverEntry(d, s) /\ MotorEntry(d, s) /\ ValueEntry(d, s) /\ ProbeEntry(d, s)
  BY DEF EntryInv, Steps, Hardware
<1>2. Route(s, o.ans, o.data) = n /\ Rank(s) = 4 /\ Rank(n) = 5
  BY RoutesAre, RankIs
<1>3. ASSUME NEW e \in UserData, \A p \in Parts \ {"sockets"} : e[p] = d[p],
             IF d.z > 1 THEN e.sockets \in {"reused", "custom"} ELSE e.sockets = Nothing
      PROVE  LeadsOn(s, e, n)
  <2>1. /\ e.mode = d.mode /\ e.type = d.type /\ e.z = d.z /\ e.zmech = d.zmech
        /\ e.loaded = d.loaded /\ e.auth = d.auth /\ e.value = d.value /\ e.fits = d.fits
        /\ e.probe = d.probe /\ e.blt = d.blt /\ e.offsets = d.offsets /\ e.guided = d.guided
        /\ e.custom = d.custom /\ e.board = d.board
    BY <1>3 DEF Parts
  <2>2. DriverEntry(e, n)
    BY <1>1, <1>2, <2>1, DriverStays
  <2>3. MotorEntry(e, n)
    BY <1>1, <1>2, <1>3, <2>1, RankIs DEF MotorEntry
  <2>4. ValueEntry(e, n)
    BY <1>1, <1>2, <2>1, ValueStays
  <2>5. ProbeEntry(e, n)
    BY <1>1, <1>2, <2>1, ProbeStays
  <2> QED
    BY <1>1, <1>2, <2>2, <2>3, <2>4, <2>5 DEF LeadsOn, EntryInv
<1>4. CASE o.data = d /\ (o.kind = "answered" => d.z <= 1)
  <2>1. ASSUME o.kind = "answered" PROVE LeadsOn(s, d, n)
    <3>1. d.sockets = Nothing /\ ~ (d.z > 1)
      <4>1. d.z \in Nat
        BY <1>1, MotorsAre
      <4> QED
        BY <1>1, <1>2, <1>4, <2>1, <4>1, RankIs DEF MotorEntry
    <3> QED
      BY <1>1, <1>3, <3>1
  <2> QED
    BY <1>1, <1>2, <1>4, <2>1, SameFollows
<1>5. ASSUME NEW v \in {"partial", "reused", "custom"}, o.data = [d EXCEPT !.sockets = v],
             o.kind = "answered" => v # "partial" /\ d.z > 1
      PROVE  Follows(s, d, o)
  <2>1. o.data \in UserData
    BY <1>1, <1>5 DEF UserData
  <2>2. (\A p \in Parts \ {"sockets"} : o.data[p] = d[p]) /\ o.data.sockets = v
    BY <1>1, <1>5, PartIs, PartNames
  <2>3. o.kind = "answered" => LeadsOn(s, o.data, n)
    BY <1>3, <1>5, <2>1, <2>2
  <2> QED
    BY <1>1, <1>2, <1>5, <2>1, <2>3, PartFollows, WritersAre
<1>6. o \in StepZSockets(d)
  BY OutcomesAre
<1> HIDE DEF s, n
<1>7. CASE d.z <= 1
  <2>1. o = Answered("__skip__", d)
    BY <1>6, <1>7 DEF StepZSockets
  <2>2. o.data = d
    BY <2>1 DEF Answered
  <2> QED
    BY <1>4, <1>7, <2>2 DEF s
<1>8. CASE ~ (d.z <= 1)
  <2>1. d.z > 1
    <3>1. d.z \in Nat
      BY <1>1, MotorsAre
    <3> QED
      BY <1>8, <3>1
  <2>2. \/ o \in Text(d)
        \/ o \in {Answered("done", [d EXCEPT !.sockets = v]) : v \in {"reused", "custom"}}
        \/ o = WentBack([d EXCEPT !.sockets = "partial"])
    BY <1>6, <1>8 DEF StepZSockets
  <2>3. CASE o \in Text(d)
    BY <1>4, <2>3, OutcomeIs DEF s
  <2>4. CASE o \in {Answered("done", [d EXCEPT !.sockets = v]) : v \in {"reused", "custom"}}
    <3>1. PICK v \in {"reused", "custom"} : o = Answered("done", [d EXCEPT !.sockets = v])
      BY <2>4
    <3>2. o.data = [d EXCEPT !.sockets = v]
      BY <3>1 DEF Answered
    <3> QED
      BY <1>5, <2>1, <3>2 DEF s
  <2>5. CASE o = WentBack([d EXCEPT !.sockets = "partial"])
    <3>1. o.data = [d EXCEPT !.sockets = "partial"] /\ o.kind # "answered"
      BY <2>5 DEF WentBack
    <3> QED
      BY <1>5, <3>1 DEF s
  <2> QED
    BY <2>2, <2>3, <2>4, <2>5
<1> QED
  BY <1>7, <1>8

\* The driver: only one with a mode is asked for the mode.
LEMMA DriversFollow ==
  ASSUME NEW d, EntryInv(d, "driver_type"), NEW o \in Outcomes("driver_type", d)
  PROVE  Follows("driver_type", d, o)
<1> DEFINE s == "driver_type"
<1>1. /\ d \in UserData /\ s \in Steps
      /\ DriverEntry(d, s) /\ MotorEntry(d, s) /\ ValueEntry(d, s) /\ ProbeEntry(d, s) /\ Rank(s) = 5
  BY RankIs DEF EntryInv, Steps, Hardware
<1>2. CASE o.data = d /\ o.kind # "answered"
  BY <1>1, <1>2, SameFollows
<1>3. ASSUME NEW t \in Drivers, o.data = [d EXCEPT !.type = t], o.ans = t
      PROVE  Follows(s, d, o)
  <2> DEFINE e == o.data
             n == IF t \in {"standard", "A4988"} THEN "printer_profile" ELSE "driver_mode"
  <2>1. e \in UserData
    BY <1>1, <1>3 DEF UserData
  <2>2. (\A p \in Parts \ {"type"} : e[p] = d[p]) /\ e.type = t
    BY <1>1, <1>3, PartIs, PartNames
  <2>3. Route(s, o.ans, e) = n
    BY <1>3, BranchesAre
  <2>4. /\ n \in Steps /\ Rank(n) \in 6..7
        /\ n = "driver_mode" => t = "TMC2209"
    BY RankIs, BoardsAssumption DEF Steps, Hardware, Motion
  <2> HIDE DEF e, n
  <2>5. /\ e.mode = d.mode /\ e.z = d.z /\ e.sockets = d.sockets /\ e.zmech = d.zmech
        /\ e.loaded = d.loaded /\ e.auth = d.auth /\ e.value = d.value /\ e.fits = d.fits
        /\ e.probe = d.probe /\ e.blt = d.blt /\ e.offsets = d.offsets /\ e.guided = d.guided
        /\ e.custom = d.custom /\ e.board = d.board
    BY <2>2 DEF Parts
  <2>6. DriverEntry(e, n)
    BY <1>1, <2>2, <2>4, <2>5, RankIs DEF DriverEntry, IsTmc
  <2>7. MotorEntry(e, n)
    BY <1>1, <2>4, <2>5, MotorStays
  <2>8. ValueEntry(e, n)
    BY <1>1, <2>4, <2>5, ValueStays
  <2>9. ProbeEntry(e, n)
    BY <1>1, <2>4, <2>5, ProbeStays
  <2>10. LeadsOn(s, e, n)
    BY <1>1, <2>1, <2>4, <2>6, <2>7, <2>8, <2>9 DEF LeadsOn, EntryInv
  <2> QED
    BY <1>1, <1>3, <2>1, <2>3, <2>10, PartFollows, WritersAre DEF e
<1>4. o \in StepDriverType(d)
  BY OutcomesAre
<1> HIDE DEF s
<1>5. CASE o \in Menu(d) \cup {Retry(d)}
  BY <1>2, <1>5, OutcomeIs DEF s
<1>6. CASE o \in {Answered(t, [d EXCEPT !.type = t]) : t \in Drivers}
  <2>1. PICK t \in Drivers : o = Answered(t, [d EXCEPT !.type = t])
    BY <1>6
  <2>2. o.data = [d EXCEPT !.type = t] /\ o.ans = t
    BY <2>1 DEF Answered
  <2> QED
    BY <1>3, <2>2 DEF s
<1> QED
  BY <1>4, <1>5, <1>6 DEF StepDriverType

\* The mode of a driver that has one.
LEMMA ModesFollow ==
  ASSUME NEW d, EntryInv(d, "driver_mode"), NEW o \in Outcomes("driver_mode", d)
  PROVE  Follows("driver_mode", d, o)
<1> DEFINE s == "driver_mode"
           n == "printer_profile"
<1>1. /\ d \in UserData /\ s \in Steps /\ n \in Steps
      /\ DriverEntry(d, s) /\ MotorEntry(d, s) /\ ValueEntry(d, s) /\ ProbeEntry(d, s)
  BY DEF EntryInv, Steps, Hardware, Motion
<1>2. Route(s, o.ans, o.data) = n /\ Rank(s) = 6 /\ Rank(n) = 7
  BY RoutesAre, RankIs
<1>3. CASE o.data = d /\ o.kind # "answered"
  BY <1>1, <1>3, SameFollows
<1>4. ASSUME NEW m \in {"UART", "Standalone"}, o.data = [d EXCEPT !.mode = m]
      PROVE  Follows(s, d, o)
  <2> DEFINE e == o.data
  <2>1. e \in UserData
    BY <1>1, <1>4 DEF UserData
  <2>2. (\A p \in Parts \ {"mode"} : e[p] = d[p]) /\ e.mode = m
    BY <1>1, <1>4, PartIs, PartNames
  <2> HIDE DEF e
  <2>3. /\ e.type = d.type /\ e.z = d.z /\ e.sockets = d.sockets /\ e.zmech = d.zmech
        /\ e.loaded = d.loaded /\ e.auth = d.auth /\ e.value = d.value /\ e.fits = d.fits
        /\ e.probe = d.probe /\ e.blt = d.blt /\ e.offsets = d.offsets /\ e.guided = d.guided
        /\ e.custom = d.custom /\ e.board = d.board
    BY <2>2 DEF Parts
  <2>4. DriverEntry(e, n)
    BY <1>1, <1>2, <2>3, RankIs DEF DriverEntry, IsTmc
  <2>5. MotorEntry(e, n)
    BY <1>1, <1>2, <2>3, MotorStays
  <2>6. ValueEntry(e, n)
    BY <1>1, <1>2, <2>3, ValueStays
  <2>7. ProbeEntry(e, n)
    BY <1>1, <1>2, <2>3, ProbeStays
  <2>8. LeadsOn(s, e, n)
    BY <1>1, <1>2, <2>1, <2>4, <2>5, <2>6, <2>7 DEF LeadsOn, EntryInv
  <2> QED
    BY <1>1, <1>2, <1>4, <2>1, <2>8, PartFollows, WritersAre DEF e
<1>5. o \in StepDriverMode(d)
  BY OutcomesAre
<1> HIDE DEF s, n
<1>6. CASE o \in Menu(d)
  BY <1>3, <1>6, OutcomeIs DEF s
<1>7. CASE o \in {Answered(m, [d EXCEPT !.mode = m]) : m \in {"UART", "Standalone"}}
  <2>1. PICK m \in {"UART", "Standalone"} : o = Answered(m, [d EXCEPT !.mode = m])
    BY <1>7
  <2>2. o.data = [d EXCEPT !.mode = m]
    BY <2>1 DEF Answered
  <2> QED
    BY <1>4, <2>2 DEF s
<1> QED
  BY <1>5, <1>6, <1>7 DEF StepDriverMode

\* Before the probe, what a step does to the values decides whether it leads on.
LEMMA MotionLeadsOn ==
  ASSUME NEW d, NEW s \in Steps, EntryInv(d, s), NEW e \in UserData,
         \A p \in Parts \ {"profile", "loaded", "auth", "value", "fits"} : e[p] = d[p],
         NEW n \in Steps \cup {Nothing}, Rank(s) > 6, Rank(s) < Rank(n), Rank(n) <= 17, ValueEntry(e, n)
  PROVE  LeadsOn(s, e, n)
<1>1. Rank(s) \in 1..39 /\ Rank(n) \in 1..40 /\ n # "driver_mode"
  BY PhaseIs, RankIs
<1>2. DriverEntry(d, s) /\ MotorEntry(d, s) /\ ProbeEntry(d, s)
  BY DEF EntryInv
<1>3. /\ e.mode = d.mode /\ e.type = d.type /\ e.z = d.z /\ e.sockets = d.sockets /\ e.zmech = d.zmech
      /\ e.probe = d.probe /\ e.blt = d.blt /\ e.offsets = d.offsets /\ e.guided = d.guided
      /\ e.custom = d.custom /\ e.board = d.board
  BY DEF Parts
<1>4. d.probe = "none"
  BY <1>1, <1>2, RankIs DEF ProbeEntry
<1>5. DriverEntry(e, n)
  BY <1>1, <1>2, <1>3, DriverStays
<1>6. MotorEntry(e, n)
  BY <1>1, <1>2, <1>3, MotorStays
<1>7. ProbeEntry(e, n)
  BY <1>1, <1>2, <1>3, <1>4, ProbeStays
<1> QED
  BY <1>1, <1>5, <1>6, <1>7 DEF LeadsOn, EntryInv

\* The profile: one that is loaded is reviewed next.
LEMMA ProfilesFollow ==
  ASSUME NEW d, EntryInv(d, "printer_profile"), NEW o \in Outcomes("printer_profile", d)
  PROVE  Follows("printer_profile", d, o)
<1> DEFINE s == "printer_profile"
           load(p, f) == LoadProfile(d, p, f)
           loaded == {Answered(p, load(p, f)) : p \in Profiles, f \in BOOLEAN}
<1>1. d \in UserData /\ s \in Steps /\ ValueEntry(d, s) /\ Rank(s) = 7
  BY RankIs DEF EntryInv, Steps, Motion
<1>2. ~ d.auth
  BY <1>1, RankIs DEF ValueEntry
<1>3. /\ "kinematics" \in Steps /\ "profile_review" \in Steps
      /\ Rank("kinematics") = 9 /\ Rank("profile_review") = 8
  BY RankIs DEF Steps, Motion
<1>4. CASE o.data = d /\ o.kind # "answered"
  BY <1>1, <1>4, SameFollows
<1>5. ASSUME NEW p \in Profiles, o.data = [d EXCEPT !.profile = p], o.kind # "answered"
      PROVE  Follows(s, d, o)
  <2>1. o.data \in UserData
    BY <1>1, <1>5 DEF UserData
  <2> QED
    BY <1>1, <1>5, <2>1, PartFollows, WritersAre
<1>6. ASSUME NEW e \in UserData, o.data = e, ~ e.auth, NEW n \in {"kinematics", "profile_review"},
             \A p \in Parts \ {"profile", "loaded", "value", "fits"} : e[p] = d[p],
             \A v \in ValueSteps : e.value[v] = d.value[v] \/ e.value[v] = "profile",
             IF n = "profile_review" THEN e.loaded = TRUE ELSE e.loaded = FALSE
      PROVE  Follows(s, d, o)
  <2>1. ValueEntry(e, n)
    <3>1. \A v \in ValueSteps : Rank(v) \in Int /\ Rank(v) >= 9
      BY RankIs DEF ValueSteps, Volumes, Limits, Thermistors
    <3>2. Rank("printer_profile") = 7 /\ Rank("profile_review") = 8
      BY RankIs
    <3>3. CASE n = "profile_review"
      BY <1>3, <1>6, <3>1, <3>2, <3>3 DEF ValueEntry
    <3>4. CASE n = "kinematics"
      <4>1. \A v \in ValueSteps : ~ (Rank(n) > Rank(v))
        BY <1>3, <3>1, <3>4, RankIs DEF ValueSteps, Volumes, Limits, Thermistors
      <4> QED
        BY <1>3, <1>6, <3>2, <3>4, <4>1 DEF ValueEntry
    <3> QED
      BY <1>6, <3>3, <3>4
  <2>2. LeadsOn(s, e, n)
    BY <1>1, <1>3, <1>6, <2>1, MotionLeadsOn
  <2>3. Route(s, o.ans, e) = n
    <3>1. Route(s, o.ans, e) = IF e.loaded THEN "profile_review" ELSE "kinematics"
      BY BranchesAre
    <3> QED
      BY <1>6, <3>1
  <2>4. Wrote(s, d, e)
    BY <1>6 DEF Wrote, Writers, Parts
  <2> QED
    BY <1>6, <2>2, <2>3, <2>4 DEF Follows
<1>7. CASE o = Answered("custom", ScratchBuild(d))
  <2> DEFINE w == [d EXCEPT !.profile = "custom"]
             e == [w EXCEPT !.loaded = FALSE]
  <2>1. o.data = e
    BY <1>7 DEF Answered, ScratchBuild
  <2>2. w \in UserData /\ \A p \in Parts \ {"profile"} : w[p] = d[p]
    BY <1>1, PartIs, PartNames DEF UserData
  <2> HIDE DEF w
  <2>3. e \in UserData
    BY <2>2 DEF UserData
  <2>4. (\A p \in Parts \ {"loaded"} : e[p] = w[p]) /\ e.loaded = FALSE
    BY <2>2, PartIs, PartNames
  <2> HIDE DEF e
  <2>5. e.auth = d.auth /\ e.value = d.value
    BY <2>2, <2>4 DEF Parts
  <2> QED
    BY <1>2, <1>6, <2>1, <2>2, <2>3, <2>4, <2>5
<1>8. CASE o \in loaded
  <2> HIDE DEF load
  <2>1. PICK p \in Profiles, f \in BOOLEAN : o = Answered(p, load(p, f))
    BY <1>8
  <2> DEFINE e == load(p, f)
  <2>2. o.data = e
    BY <2>1 DEF Answered
  <2>3. e \in UserData
    BY <1>1 DEF load, LoadProfile, UserData, Provenances
  <2>4. /\ \A q \in Parts \ {"profile", "loaded", "value", "fits"} : e[q] = d[q]
        /\ e.loaded = TRUE /\ \A v \in ValueSteps : e.value[v] = "profile"
    BY <1>1 DEF load, LoadProfile, UserData, Parts
  <2> HIDE DEF e
  <2>5. e.auth = d.auth
    BY <2>4 DEF Parts
  <2> QED
    BY <1>2, <1>6, <2>2, <2>3, <2>4, <2>5
<1>9. o \in StepPrinterProfile(d)
  BY OutcomesAre
<1>10. StepPrinterProfile(d) =
         Menu(d) \cup {Retry(d), Answered("custom", ScratchBuild(d))}
         \cup {Retry([d EXCEPT !.profile = p]) : p \in Profiles} \cup loaded
  BY DEF StepPrinterProfile
<1> HIDE DEF s, loaded
<1>11. CASE o \in Menu(d) \cup {Retry(d)}
  BY <1>4, <1>11, OutcomeIs DEF s
<1>12. CASE o \in {Retry([d EXCEPT !.profile = p]) : p \in Profiles}
  <2>1. PICK p \in Profiles : o = Retry([d EXCEPT !.profile = p])
    BY <1>12
  <2>2. o.data = [d EXCEPT !.profile = p] /\ o.kind # "answered"
    BY <2>1 DEF Retry
  <2> QED
    BY <1>5, <2>2 DEF s
<1> QED
  BY <1>7, <1>8, <1>9, <1>10, <1>11, <1>12 DEF s

\* A value given by the operator, alone or with the range of the probe settled.
Given(d, s) == [d EXCEPT !.value[s] = "user"]
GivenRange(d, s, f) == [d EXCEPT !.value[s] = "user", !.fits = f]
RangeGiven(d, s, f) == [d EXCEPT !.fits = f, !.value[s] = "user"]
\* It is that value which changes, and nothing else.
LEMMA UserValue ==
  ASSUME NEW d \in UserData, NEW s \in ValueSteps, NEW f \in BOOLEAN, NEW e,
         e = Given(d, s) \/ e = GivenRange(d, s, f) \/ e = RangeGiven(d, s, f)
  PROVE  /\ e \in UserData /\ \A p \in Parts \ {"value", "fits"} : e[p] = d[p]
         /\ e.value[s] = "user" /\ \A v \in ValueSteps \ {s} : e.value[v] = d.value[v]
         /\ e.fits = d.fits \/ e.fits = f
<1> DEFINE given == [d.value EXCEPT ![s] = "user"]
           w == [d EXCEPT !.value = given]
<1>1. /\ given \in [ValueSteps -> Provenances] /\ given[s] = "user"
      /\ \A v \in ValueSteps \ {s} : given[v] = d.value[v]
  BY DEF UserData, Provenances
<1>2. e = w \/ e = [w EXCEPT !.fits = f]
  BY DEF UserData, Given, GivenRange, RangeGiven
<1> HIDE DEF given
<1>3. w \in UserData /\ (\A p \in Parts \ {"value"} : w[p] = d[p]) /\ w.value = given
  BY <1>1, PartIs, PartNames DEF UserData
<1> HIDE DEF w
<1>4. CASE e = w
  BY <1>1, <1>3, <1>4 DEF Parts
<1>5. CASE e = [w EXCEPT !.fits = f]
  <2>1. e \in UserData
    BY <1>3, <1>5 DEF UserData
  <2>2. (\A p \in Parts \ {"fits"} : e[p] = w[p]) /\ e.fits = f
    BY <1>3, <1>5, PartIs, PartNames
  <2>3. e.value = given
    BY <1>3, <2>2 DEF Parts
  <2> QED
    BY <1>1, <1>3, <2>1, <2>2, <2>3
<1> QED
  BY <1>2, <1>4, <1>5

\* A step may write its own value, and the flag of the range.
LEMMA ValueWritten ==
  ASSUME NEW d \in UserData, NEW e \in UserData, NEW s, NEW f \in Parts,
         f \in DOMAIN Writers => s \in Writers[f],
         \A p \in Parts \ {"value", "fits", f} : e[p] = d[p],
         \A v \in ValueSteps : \/ e.value[v] = d.value[v]
                               \/ e.value[v] = "user" /\ s \in {v, "profile_review", "probe_homing"}
  PROVE  Wrote(s, d, e)
<1>1. DOMAIN Writers \subseteq Parts \ {"value", "fits"}
  BY DEF Writers, Parts
<1>2. \A piece \in DOMAIN Writers : piece # f => e[piece] = d[piece]
  BY <1>1
<1> QED
  BY <1>2 DEF Wrote

\* The review of a profile confirms it, with at most one value edited.
LEMMA ReviewsFollow ==
  ASSUME NEW d, EntryInv(d, "profile_review"), NEW o \in Outcomes("profile_review", d)
  PROVE  Follows("profile_review", d, o)
<1> DEFINE s == "profile_review"
           n == "homing_directions"
           edit(v, f) == GivenRange(d, v, f)
           edits == {edit(v, f) : v \in {"kinematics", "z_limits"}, f \in BOOLEAN}
<1>1. d \in UserData /\ s \in Steps /\ n \in Steps /\ ValueEntry(d, s) /\ Rank(s) = 8 /\ Rank(n) = 16
  BY RankIs DEF EntryInv, Steps, Motion
<1>2. d.loaded
  BY <1>1 DEF ValueEntry
<1>3. Route(s, o.ans, o.data) = n
  BY RoutesAre
<1>4. ASSUME NEW w \in UserData, \A p \in Parts \ {"value", "fits"} : w[p] = d[p],
             \A v \in ValueSteps : w.value[v] = d.value[v] \/ w.value[v] = "user",
             o = Answered("confirm", [w EXCEPT !.auth = TRUE])
      PROVE  Follows(s, d, o)
  <2> DEFINE e == [w EXCEPT !.auth = TRUE]
  <2>1. o.data = e
    BY <1>4 DEF Answered
  <2>2. e \in UserData
    BY <1>4 DEF UserData
  <2>3. (\A p \in Parts \ {"auth"} : e[p] = w[p]) /\ e.auth = TRUE
    BY <1>4, PartIs, PartNames
  <2> HIDE DEF e
  <2>4. e.loaded = d.loaded /\ e.value = w.value /\ \A p \in Parts \ {"value", "fits", "auth"} : e[p] = d[p]
    BY <1>4, <2>3 DEF Parts
  <2>5. ValueEntry(e, n)
    BY <1>1, <1>2, <2>3, <2>4, RankIs DEF ValueEntry
  <2>6. LeadsOn(s, e, n)
    BY <1>1, <2>2, <2>4, <2>5, MotionLeadsOn
  <2>7. Wrote(s, d, e)
    <3>1. "auth" \in Parts /\ ("auth" \in DOMAIN Writers => s \in Writers["auth"])
      BY DEF Parts, Writers
    <3>2. \A v \in ValueSteps : \/ e.value[v] = d.value[v]
                                \/ e.value[v] = "user" /\ s \in {v, "profile_review", "probe_homing"}
      BY <1>4, <2>4
    <3> QED
      BY <1>1, <2>2, <2>4, <3>1, <3>2, ValueWritten
  <2> QED
    BY <1>3, <2>1, <2>2, <2>6, <2>7 DEF Follows
<1>5. CASE o = Left(d)
  BY <1>1, <1>5, OutcomeIs, SameFollows
<1>6. CASE o = WentBack([d EXCEPT !.loaded = FALSE])
  <2>1. o.data = [d EXCEPT !.loaded = FALSE] /\ o.kind # "answered"
    BY <1>6 DEF WentBack
  <2>2. d \in UserData
    BY <1>1
  <2>3. [d EXCEPT !.loaded = FALSE] \in UserData
    BY <2>2 DEF UserData
  <2> QED
    BY <2>1, <2>3 DEF Follows
<1>7. CASE o = Answered("confirm", [d EXCEPT !.auth = TRUE])
  BY <1>1, <1>4, <1>7
<1>8. ASSUME NEW v \in {"kinematics", "z_limits"}, NEW f \in BOOLEAN,
             o = Answered("confirm", [edit(v, f) EXCEPT !.auth = TRUE])
      PROVE  Follows(s, d, o)
  <2> DEFINE w == edit(v, f)
  <2>1. v \in ValueSteps
    BY DEF ValueSteps, Limits
  <2>2. /\ w \in UserData /\ \A p \in Parts \ {"value", "fits"} : w[p] = d[p]
        /\ w.value[v] = "user" /\ \A other \in ValueSteps \ {v} : w.value[other] = d.value[other]
    <3>1. w = GivenRange(d, v, f) /\ d \in UserData
      BY <1>1
    <3> HIDE DEF w
    <3> QED
      BY <2>1, <3>1, UserValue
  <2>3. \A other \in ValueSteps : w.value[other] = d.value[other] \/ w.value[other] = "user"
    BY <2>2
  <2>4. o = Answered("confirm", [w EXCEPT !.auth = TRUE])
    BY <1>8
  <2> HIDE DEF w
  <2> QED
    BY <1>4, <2>2, <2>3, <2>4
<1> HIDE DEF edit
<1>9. o \in StepProfileReview(d)
  BY OutcomesAre
<1>10. EditedProfiles(d) = edits
  BY DEF EditedProfiles, edit, GivenRange
<1>11. StepProfileReview(d) =
         {Left(d), WentBack([d EXCEPT !.loaded = FALSE]), Answered("confirm", [d EXCEPT !.auth = TRUE])}
         \cup {Answered("confirm", [e EXCEPT !.auth = TRUE]) : e \in edits}
  BY <1>10 DEF StepProfileReview
<1>12. \A w \in edits : \E v \in {"kinematics", "z_limits"}, f \in BOOLEAN : w = edit(v, f)
  BY DEF edits
<1> HIDE DEF s, n, edits
<1> QED
  <2>1. CASE o \in {Answered("confirm", [e EXCEPT !.auth = TRUE]) : e \in edits}
    <3>1. PICK w \in edits : o = Answered("confirm", [w EXCEPT !.auth = TRUE])
      BY <2>1
    <3>2. PICK v \in {"kinematics", "z_limits"}, f \in BOOLEAN : w = edit(v, f)
      BY <1>12, <3>1
    <3>3. o = Answered("confirm", [edit(v, f) EXCEPT !.auth = TRUE])
      BY <3>1, <3>2
    <3> QED
      BY <1>8, <3>3 DEF s
  <2> QED
    BY <1>5, <1>6, <1>7, <1>9, <1>11, <2>1 DEF s

\* A value is asked for when those before it are settled, and leads to the next one.
LEMMA ValueRoutes ==
  ASSUME NEW s \in ValueSteps, NEW a, NEW d
  PROVE  /\ Route(s, a, d) \in Steps /\ s \in Steps /\ Rank(s) \in 9..15 \cup 36..37
         /\ Rank(Route(s, a, d)) = Rank(s) + 1
         /\ \A v \in ValueSteps : Rank(v) \in Int /\ (Rank(v) = Rank(s) => v = s)
         /\ s \in Thermistors <=> Rank(s) > 35
<1>1. Route(s, a, d) \in Steps /\ s \in Steps
  BY RoutesAre DEF ValueSteps, Volumes, Limits, Thermistors, Steps, Motion, Sensors, Software
<1>2. Rank(s) \in 9..15 \cup 36..37 /\ (s \in Thermistors <=> Rank(s) > 35)
  BY RankIs DEF ValueSteps, Volumes, Limits, Thermistors
<1>3. Rank(Route(s, a, d)) = Rank(s) + 1
  BY RoutesAre, RankIs DEF ValueSteps, Volumes, Limits, Thermistors
<1>4. \A v \in ValueSteps : Rank(v) \in Int /\ (Rank(v) = Rank(s) => v = s)
  BY RankIs DEF ValueSteps, Volumes, Limits, Thermistors
<1> QED
  BY <1>1, <1>2, <1>3, <1>4

\* A value leads on when it was given or comes from a confirmed profile.
LEMMA ValueLeadsOn ==
  ASSUME NEW s \in ValueSteps, NEW d, EntryInv(d, s), NEW a, NEW e \in UserData,
         \A p \in Parts \ {"value", "fits"} : e[p] = d[p],
         s \in Thermistors => e.fits = d.fits,
         e.value[s] = "user" \/ d.auth,
         \A v \in ValueSteps \ {s} : e.value[v] = d.value[v]
  PROVE  LeadsOn(s, e, Route(s, a, e))
<1> DEFINE n == Route(s, a, e)
<1>1. /\ n \in Steps /\ s \in Steps /\ Rank(s) \in 9..15 \cup 36..37 /\ Rank(n) = Rank(s) + 1
      /\ \A v \in ValueSteps : Rank(v) \in Int /\ (Rank(v) = Rank(s) => v = s)
      /\ s \in Thermistors <=> Rank(s) > 35
  BY ValueRoutes
<1> HIDE DEF n
<1>2. DriverEntry(d, s) /\ MotorEntry(d, s) /\ ValueEntry(d, s) /\ ProbeEntry(d, s)
  BY DEF EntryInv
<1>3. /\ e.mode = d.mode /\ e.type = d.type /\ e.z = d.z /\ e.sockets = d.sockets /\ e.zmech = d.zmech
      /\ e.loaded = d.loaded /\ e.auth = d.auth
      /\ e.probe = d.probe /\ e.blt = d.blt /\ e.offsets = d.offsets /\ e.guided = d.guided
      /\ e.custom = d.custom /\ e.board = d.board
  BY DEF Parts
<1>4. ValueEntry(e, n)
  <2>1. /\ Rank("printer_profile") = 7 /\ Rank("profile_review") = 8
    BY RankIs
  <2>2. n # "profile_review"
    BY <1>1, <2>1
  <2>3. \A v \in ValueSteps : Rank(n) > Rank(v) => e.value[v] = "user" \/ e.auth
    <3> TAKE v \in ValueSteps
    <3> HAVE Rank(n) > Rank(v)
    <3>1. CASE v = s
      BY <1>3, <3>1
    <3>2. CASE v # s
      <4>1. Rank(s) > Rank(v)
        BY <1>1, <3>2
      <4> QED
        BY <1>2, <1>3, <3>2, <4>1 DEF ValueEntry
    <3> QED
      BY <3>1, <3>2
  <2>4. e.loaded => e.auth
    BY <1>1, <1>2, <1>3, <2>1 DEF ValueEntry
  <2>5. e.auth => e.loaded
    BY <1>2, <1>3 DEF ValueEntry
  <2> QED
    BY <1>1, <2>1, <2>2, <2>3, <2>4, <2>5 DEF ValueEntry
<1>5. CASE Rank(s) <= 15
  BY <1>1, <1>4, <1>5, MotionLeadsOn DEF n
<1>6. CASE Rank(s) > 35
  <2>1. n # "driver_mode"
    BY <1>1, <1>6, RankIs
  <2>2. DriverEntry(e, n)
    BY <1>1, <1>2, <1>3, <2>1, DriverStays
  <2>3. MotorEntry(e, n)
    BY <1>1, <1>2, <1>3, <1>6, MotorStays
  <2>4. ProbeEntry(e, n)
    BY <1>1, <1>2, <1>3, <1>6, ProbeStays
  <2> QED
    BY <1>1, <1>4, <2>2, <2>3, <2>4 DEF LeadsOn, EntryInv, n
<1> QED
  BY <1>1, <1>5, <1>6

\* A value that was written, or kept, leads on.
LEMMA WrittenValueFollows ==
  ASSUME NEW s \in ValueSteps, NEW d, EntryInv(d, s), NEW f \in BOOLEAN, NEW o,
         s \in Thermistors => f = d.fits,
         \/ o.data = Given(d, s) \/ o.data = GivenRange(d, s, f)
         \/ o.data = d /\ (o.kind = "answered" => d.auth)
  PROVE  Follows(s, d, o)
<1>1. d \in UserData
  BY DEF EntryInv
<1>2. CASE o.data = d /\ (o.kind = "answered" => d.auth)
  <2>1. ASSUME o.kind = "answered" PROVE LeadsOn(s, d, Route(s, o.ans, d))
    BY <1>1, <1>2, <2>1, ValueLeadsOn
  <2> QED
    BY <1>1, <1>2, <2>1, SameFollows
<1>3. CASE o.data = Given(d, s) \/ o.data = GivenRange(d, s, f)
  <2> DEFINE e == o.data
  <2>1. /\ e \in UserData /\ \A p \in Parts \ {"value", "fits"} : e[p] = d[p]
        /\ e.value[s] = "user" /\ \A v \in ValueSteps \ {s} : e.value[v] = d.value[v]
        /\ e.fits = d.fits \/ e.fits = f
    BY <1>1, <1>3, UserValue
  <2>2. o.data = e
    OBVIOUS
  <2> HIDE DEF e
  <2>3. LeadsOn(s, e, Route(s, o.ans, e))
    BY <2>1, ValueLeadsOn
  <2>4. "fits" \in Parts /\ "fits" \notin DOMAIN Writers
    BY DEF Parts, Writers
  <2>5. \A v \in ValueSteps : \/ e.value[v] = d.value[v]
                              \/ e.value[v] = "user" /\ s \in {v, "profile_review", "probe_homing"}
    BY <2>1
  <2>6. Wrote(s, d, e)
    BY <1>1, <2>1, <2>4, <2>5, ValueWritten
  <2> QED
    BY <2>1, <2>2, <2>3, <2>6 DEF Follows
<1> QED
  BY <1>2, <1>3

\* The kinematics, the volumes and the thermistors.
LEMMA ValuesFollow ==
  ASSUME NEW s \in ValueSteps \ Limits, NEW d, EntryInv(d, s), NEW o \in Outcomes(s, d)
  PROVE  Follows(s, d, o)
<1>1. d \in UserData /\ d.fits \in BOOLEAN
  BY DEF EntryInv, UserData
<1>2. o \in StepValue(s, d)
  BY OutcomesAre
<1>3. CASE o.data = d /\ o.kind # "answered"
  BY <1>1, <1>3, SameFollows
<1>4. CASE o = Answered("kept", d) /\ d.auth
  <2>1. o.data = d
    BY <1>4, OutcomeIs
  <2> QED
    BY <1>1, <1>4, <2>1, WrittenValueFollows
<1>5. CASE o = Answered("given", Given(d, s))
  <2>1. o.data = Given(d, s)
    BY <1>5, OutcomeIs
  <2> QED
    BY <1>1, <2>1, WrittenValueFollows
<1>6. Given(d, s) = [d EXCEPT !.value[s] = "user"]
  BY DEF Given
<1>7. \/ o = Answered("kept", d) /\ d.auth
      \/ o = Answered("given", Given(d, s))
      \/ o \in Menu(d) \cup Text(d) \cup {Retry(d)}
  BY <1>2, <1>6 DEF StepValue
<1>8. CASE o \in Menu(d) \cup Text(d) \cup {Retry(d)}
  BY <1>3, <1>8, OutcomeIs
<1> QED
  BY <1>4, <1>5, <1>7, <1>8

\* The limits of an axis.
LEMMA LimitsFollow ==
  ASSUME NEW s \in Limits, NEW d, EntryInv(d, s), NEW o \in Outcomes(s, d)
  PROVE  Follows(s, d, o)
<1>1. d \in UserData /\ d.fits \in BOOLEAN /\ s \in ValueSteps /\ s \notin Thermistors
  BY DEF EntryInv, UserData, ValueSteps, Limits, Thermistors
<1>2. o \in StepLimits(s, d)
  BY OutcomesAre
<1> DEFINE ranges == IF s = "z_limits" THEN BOOLEAN ELSE {d.fits}
           done(f) == GivenRange(d, s, f)
<1>3. Given(d, s) = [d EXCEPT !.value[s] = "user"]
  BY DEF Given
<1>4. StepLimits(s, d) = Text(d) \cup {WentBack(Given(d, s))} \cup {Answered("done", done(f)) : f \in ranges}
  BY DEF StepLimits, Given, GivenRange
<1>5. ranges \subseteq BOOLEAN
  BY <1>1
<1>6. ASSUME NEW f \in BOOLEAN, o.data = GivenRange(d, s, f) PROVE Follows(s, d, o)
  BY <1>1, <1>6, WrittenValueFollows
<1> HIDE DEF done, ranges
<1>7. CASE o \in Text(d)
  <2>1. o.data = d /\ o.kind # "answered"
    BY <1>7, OutcomeIs
  <2> QED
    BY <1>1, <2>1, SameFollows
<1>8. CASE o = WentBack(Given(d, s))
  <2>1. o.data = Given(d, s)
    BY <1>8, OutcomeIs
  <2> QED
    BY <1>1, <2>1, WrittenValueFollows
<1>9. CASE o \in {Answered("done", done(f)) : f \in ranges}
  <2>1. PICK f \in ranges : o = Answered("done", done(f))
    BY <1>9
  <2>2. o.data = GivenRange(d, s, f)
    BY <2>1, OutcomeIs DEF done
  <2> QED
    BY <1>5, <1>6, <2>2
<1> QED
  BY <1>2, <1>4, <1>7, <1>8, <1>9

\* A step with one part of its own, which no later question depends on.
LEMMA OwnPartFollows ==
  ASSUME NEW d, NEW s \in Steps, EntryInv(d, s), NEW f \in Parts \ (Kept \cup {"value"}), NEW v, NEW o,
         o.data = d \/ o.data = [d EXCEPT ![f] = v], [d EXCEPT ![f] = v] \in UserData,
         f \in DOMAIN Writers => s \in Writers[f],
         NEW n \in Steps \cup {Nothing}, Route(s, o.ans, o.data) = n, Rank(s) < Rank(n), n # "driver_mode",
         Rank(n) <= 4 \/ (Rank(s) > 15 /\ Rank(n) <= 17) \/ (Rank(s) > 17 /\ Rank(n) <= 19) \/ Rank(s) > 37
  PROVE  Follows(s, d, o)
<1>1. d \in UserData
  BY DEF EntryInv
<1>2. CASE o.data = d
  <2>1. LeadsOn(s, d, n)
    BY <1>1, KeptLeadsOn
  <2> QED
    BY <1>1, <1>2, <2>1, SameFollows
<1>3. CASE o.data = [d EXCEPT ![f] = v]
  <2> DEFINE e == o.data
  <2>1. \A p \in Parts \ {f} : e[p] = d[p]
    BY <1>1, <1>3, PartIs
  <2>2. \A p \in Kept : e[p] = d[p]
    BY <2>1 DEF Kept, Parts
  <2>3. e \in UserData
    BY <1>3
  <2> HIDE DEF e
  <2>4. LeadsOn(s, e, n)
    BY <2>2, <2>3, KeptLeadsOn
  <2> QED
    <3>1. MayWrite(s, f)
      BY DEF MayWrite
    <3> QED
      BY <1>1, <1>3, <2>3, <2>4, <3>1, PartFollows DEF e
<1> QED
  BY <1>2, <1>3

\* The homing directions.
LEMMA HomingsFollow ==
  ASSUME NEW d, EntryInv(d, "homing_directions"), NEW o \in Outcomes("homing_directions", d)
  PROVE  Follows("homing_directions", d, o)
<1> DEFINE s == "homing_directions"
           n == "z_mechanics"
           e == [d EXCEPT !.homing = "reviewed"]
<1>1. d \in UserData /\ s \in Steps /\ n \in Steps /\ n # "driver_mode" /\ Rank(s) = 16 /\ Rank(n) = 17
  BY RankIs DEF EntryInv, Steps, Motion
<1>2. Route(s, o.ans, o.data) = n
  BY RoutesAre
<1>3. e \in UserData
  BY <1>1 DEF UserData
<1>4. "homing" \in Parts \ (Kept \cup {"value"}) /\ s \in Writers["homing"]
  BY DEF Parts, Kept, Writers
<1>5. o \in Menu(d) \cup {Answered("done", e)}
  BY OutcomesAre DEF StepHomingDirections
<1>6. o.data = d \/ o.data = e
  BY <1>5, OutcomeIs
<1> HIDE DEF s, n
<1> QED
  BY <1>1, <1>2, <1>3, <1>4, <1>6, OwnPartFollows DEF s

\* The currents of the drivers.
LEMMA CurrentsFollow ==
  ASSUME NEW d, EntryInv(d, "tmc_currents"), NEW o \in Outcomes("tmc_currents", d)
  PROVE  Follows("tmc_currents", d, o)
<1> DEFINE s == "tmc_currents"
           n == "probe"
           e == [d EXCEPT !.currents = "reviewed"]
<1>1. d \in UserData /\ s \in Steps /\ n \in Steps /\ n # "driver_mode" /\ Rank(s) = 18 /\ Rank(n) = 19
  BY RankIs DEF EntryInv, Steps, Motion, Sensors, ProbeSteps
<1>2. Route(s, o.ans, o.data) = n
  BY RoutesAre
<1>3. e \in UserData
  BY <1>1 DEF UserData
<1>4. "currents" \in Parts \ (Kept \cup {"value"}) /\ s \in Writers["currents"]
  BY DEF Parts, Kept, Writers
<1>5. o \in Text(d) \cup {Retry(d), Answered("done", e), Answered("done", d)}
  BY OutcomesAre DEF StepTmcCurrents
<1>6. o.data = d \/ o.data = e
  <2> HIDE DEF e
  <2>1. CASE o \in Text(d)
    BY <2>1, OutcomeIs
  <2>2. CASE o \in {Retry(d), Answered("done", d), Answered("done", e)}
    BY <2>2, OutcomeIs
  <2> QED
    BY <1>5, <2>1, <2>2
<1> HIDE DEF s, n
<1> QED
  BY <1>1, <1>2, <1>3, <1>4, <1>6, OwnPartFollows DEF s

\* The display.
LEMMA DisplaysFollow ==
  ASSUME NEW d, EntryInv(d, "display"), NEW o \in Outcomes("display", d)
  PROVE  Follows("display", d, o)
<1> DEFINE s == "display"
           n == "web_ui"
           e == [d EXCEPT !.display = "chosen"]
<1>1. d \in UserData /\ s \in Steps /\ n \in Steps /\ n # "driver_mode" /\ Rank(s) = 38 /\ Rank(n) = 39
  BY RankIs DEF EntryInv, Steps, Software
<1>2. Route(s, o.ans, o.data) = n
  BY RoutesAre
<1>3. e \in UserData
  BY <1>1 DEF UserData
<1>4. "display" \in Parts \ (Kept \cup {"value"}) /\ s \in Writers["display"]
  BY DEF Parts, Kept, Writers
<1>5. o \in Menu(d) \cup {Answered("display", e)}
  BY OutcomesAre DEF StepDisplay
<1>6. o.data = d \/ o.data = e
  BY <1>5, OutcomeIs
<1> HIDE DEF n
<1> QED
  BY <1>1, <1>2, <1>3, <1>4, <1>6, OwnPartFollows

\* The web interface is the last question.
LEMMA WebUisFollow ==
  ASSUME NEW d, EntryInv(d, "web_ui"), NEW o \in Outcomes("web_ui", d)
  PROVE  Follows("web_ui", d, o)
<1> DEFINE s == "web_ui"
           e == [d EXCEPT !.web = "chosen"]
<1>1. d \in UserData /\ s \in Steps /\ Nothing # "driver_mode" /\ Rank(s) = 39 /\ Rank(Nothing) = 40
  BY RankIs DEF EntryInv, Steps, Software, Nothing
<1>2. Route(s, o.ans, o.data) = Nothing
  BY RoutesAre
<1>3. e \in UserData
  BY <1>1 DEF UserData
<1>4. "web" \in Parts \ (Kept \cup {"value"}) /\ s \in Writers["web"]
  BY DEF Parts, Kept, Writers
<1>5. o \in Menu(d) \cup {Answered("web", e)}
  BY OutcomesAre DEF StepWebUi
<1>6. o.data = d \/ o.data = e
  BY <1>5, OutcomeIs
<1> QED
  BY <1>1, <1>2, <1>3, <1>4, <1>6, OwnPartFollows

\* The mechanics of the Z axis are confirmed where there are several motors.
LEMMA MechanicsFollow ==
  ASSUME NEW d, EntryInv(d, "z_mechanics"), NEW o \in Outcomes("z_mechanics", d)
  PROVE  Follows("z_mechanics", d, o)
<1> DEFINE s == "z_mechanics"
           n == "tmc_currents"
<1>1. /\ d \in UserData /\ s \in Steps /\ n \in Steps /\ n # "driver_mode" /\ Rank(s) = 17 /\ Rank(n) = 18
      /\ DriverEntry(d, s) /\ MotorEntry(d, s) /\ ValueEntry(d, s) /\ ProbeEntry(d, s)
  BY RankIs DEF EntryInv, Steps, Motion
<1>2. Route(s, o.ans, o.data) = n
  BY RoutesAre
<1>3. CASE o.data = d /\ o.kind # "answered"
  BY <1>1, <1>3, SameFollows
<1>4. ASSUME NEW v \in {Nothing, "confirmed"}, o.data = [d EXCEPT !.zmech = v],
             v = IF d.z > 1 THEN "confirmed" ELSE Nothing
      PROVE  Follows(s, d, o)
  <2> DEFINE e == o.data
  <2>1. e \in UserData
    BY <1>1, <1>4 DEF UserData
  <2>2. (\A p \in Parts \ {"zmech"} : e[p] = d[p]) /\ e.zmech = v
    BY <1>1, <1>4, PartIs, PartNames
  <2> HIDE DEF e
  <2>3. /\ e.mode = d.mode /\ e.type = d.type /\ e.z = d.z /\ e.sockets = d.sockets
        /\ e.loaded = d.loaded /\ e.auth = d.auth /\ e.value = d.value /\ e.fits = d.fits
        /\ e.probe = d.probe /\ e.blt = d.blt /\ e.offsets = d.offsets /\ e.guided = d.guided
        /\ e.custom = d.custom /\ e.board = d.board
    BY <2>2 DEF Parts
  <2>4. DriverEntry(e, n)
    BY <1>1, <2>3, DriverStays
  <2>5. MotorEntry(e, n)
    BY <1>1, <1>4, <2>2, <2>3, RankIs DEF MotorEntry
  <2>6. ValueEntry(e, n)
    BY <1>1, <2>3, ValueStays
  <2>7. ProbeEntry(e, n)
    BY <1>1, <2>3, ProbeStays
  <2>8. LeadsOn(s, e, n)
    BY <1>1, <2>1, <2>4, <2>5, <2>6, <2>7 DEF LeadsOn, EntryInv
  <2> QED
    BY <1>1, <1>2, <1>4, <2>1, <2>8, PartFollows, WritersAre DEF e
<1>5. o \in StepZMechanics(d)
  BY OutcomesAre
<1>6. d.z \in Nat
  BY <1>1, MotorsAre
<1> HIDE DEF s, n
<1>7. CASE d.z <= 1
  <2>1. o = Answered("__skip__", [d EXCEPT !.zmech = Nothing])
    BY <1>5, <1>7 DEF StepZMechanics
  <2>2. o.data = [d EXCEPT !.zmech = Nothing]
    BY <2>1 DEF Answered
  <2>3. Nothing = IF d.z > 1 THEN "confirmed" ELSE Nothing
    BY <1>6, <1>7
  <2> QED
    BY <1>4, <2>2, <2>3 DEF s
<1>8. CASE ~ (d.z <= 1)
  <2>1. o \in Menu(d) \cup {Retry(d)} \/ o = Answered("done", [d EXCEPT !.zmech = "confirmed"])
    BY <1>5, <1>8 DEF StepZMechanics
  <2>2. CASE o \in Menu(d) \cup {Retry(d)}
    BY <1>3, <2>2, OutcomeIs DEF s
  <2>3. CASE o = Answered("done", [d EXCEPT !.zmech = "confirmed"])
    <3>1. o.data = [d EXCEPT !.zmech = "confirmed"]
      BY <2>3 DEF Answered
    <3>2. "confirmed" = IF d.z > 1 THEN "confirmed" ELSE Nothing
      BY <1>6, <1>8
    <3> QED
      BY <1>4, <3>1, <3>2 DEF s
  <2> QED
    BY <2>1, <2>2, <2>3
<1> QED
  BY <1>7, <1>8

\* In the questions about the probe, what a step does to the probe decides
\* whether it leads on.
LEMMA SensorLeadsOn ==
  ASSUME NEW d, NEW s \in Steps, EntryInv(d, s), NEW e \in UserData,
         \A p \in Parts \ {"probe", "blt", "offsets", "guided", "custom", "fits", "value"} : e[p] = d[p],
         \A v \in ValueSteps : e.value[v] = d.value[v] \/ e.value[v] = "user",
         NEW n \in Steps \cup {Nothing}, Rank(s) > 18, Rank(s) < Rank(n), Rank(n) <= 36, ProbeEntry(e, n)
  PROVE  LeadsOn(s, e, n)
<1>1. Rank(s) \in 1..39 /\ Rank(n) \in 1..40 /\ n # "driver_mode"
  BY PhaseIs, RankIs
<1>2. DriverEntry(d, s) /\ MotorEntry(d, s) /\ ValueEntry(d, s)
  BY DEF EntryInv
<1>3. /\ e.mode = d.mode /\ e.type = d.type /\ e.z = d.z /\ e.sockets = d.sockets /\ e.zmech = d.zmech
      /\ e.loaded = d.loaded /\ e.auth = d.auth
  BY DEF Parts
<1>4. DriverEntry(e, n)
  BY <1>1, <1>2, <1>3, DriverStays
<1>5. MotorEntry(e, n)
  BY <1>1, <1>2, <1>3, MotorStays
<1>6. ValueEntry(e, n)
  <2>1. /\ Rank("printer_profile") = 7 /\ Rank("profile_review") = 8
        /\ \A v \in ValueSteps : Rank(v) \in 9..15 \cup 36..37
    BY RankIs DEF ValueSteps, Volumes, Limits, Thermistors
  <2>2. n # "profile_review" /\ s # "profile_review"
    BY <1>1, <2>1
  <2>3. \A v \in ValueSteps : Rank(n) > Rank(v) => Rank(s) > Rank(v)
    BY <1>1, <2>1
  <2>4. \A v \in ValueSteps : Rank(n) > Rank(v) => e.value[v] = "user" \/ e.auth
    BY <1>2, <1>3, <2>3 DEF ValueEntry
  <2> QED
    BY <1>1, <1>2, <1>3, <2>1, <2>2, <2>4 DEF ValueEntry
<1> QED
  BY <1>1, <1>4, <1>5, <1>6 DEF LeadsOn, EntryInv

\* The pieces of a guided custom probe.
Pieces == {"custom_probe_pin", "custom_probe_offset_preview"} \cup SignalOptions \cup GuidedValues
\* They are asked for in turn.
LEMMA PieceRoutes ==
  ASSUME NEW s \in Pieces, NEW a, NEW d
  PROVE  /\ Route(s, a, d) \in Steps /\ s \in Steps /\ Rank(s) \in 20..30
         /\ Rank(Route(s, a, d)) = Rank(s) + 1
         /\ \A g \in Pieces : Rank(g) \in 20..30 /\ (Rank(g) = Rank(s) => g = s)
<1>1. Route(s, a, d) \in Steps /\ s \in Steps
  BY RoutesAre DEF Pieces, SignalOptions, GuidedValues, Steps, Sensors, ProbeSteps
<1>2. Rank(s) \in 20..30
  BY RankIs DEF Pieces, SignalOptions, GuidedValues
<1>3. Rank(Route(s, a, d)) = Rank(s) + 1
  BY RoutesAre, RankIs DEF Pieces, SignalOptions, GuidedValues
<1>4. \A g \in Pieces : Rank(g) \in 20..30 /\ (Rank(g) = Rank(s) => g = s)
  BY RankIs DEF Pieces, SignalOptions, GuidedValues
<1> QED
  BY <1>1, <1>2, <1>3, <1>4

\* A piece that was put in its place leads on.
LEMMA PieceLeadsOn ==
  ASSUME NEW s \in Pieces, NEW d, EntryInv(d, s), NEW a, NEW e \in UserData,
         \A p \in Parts \ {"guided", "offsets", "fits"} : e[p] = d[p],
         e.guided = d.guided \/ e.guided = d.guided \cup {s},
         s # "custom_probe_offset_preview" => s \in e.guided,
         e.offsets = IF s = "custom_probe_offset_preview" THEN "given" ELSE d.offsets
  PROVE  LeadsOn(s, e, Route(s, a, e))
<1> DEFINE n == Route(s, a, e)
<1>1. /\ n \in Steps /\ s \in Steps /\ Rank(s) \in 20..30 /\ Rank(n) = Rank(s) + 1
      /\ \A g \in Pieces : Rank(g) \in 20..30 /\ (Rank(g) = Rank(s) => g = s)
  BY PieceRoutes
<1> HIDE DEF n
<1>2. e.probe = d.probe /\ e.custom = d.custom /\ e.board = d.board /\ e.value = d.value
  BY DEF Parts
<1>3. /\ Rank("probe") = 19 /\ Rank("custom_probe_review") = 32 /\ Rank("custom_probe") = 31
      /\ Rank("custom_probe_offset_preview") = 23 /\ Rank("bltouch_pins") = 33
      /\ Rank("probe_offsets") = 34 /\ Rank("probe_homing") = 35
  BY RankIs
<1>4. ProbeEntry(d, s)
  BY DEF EntryInv
<1>5. d.probe = "custom" /\ d.custom = Nothing
  BY <1>1, <1>3, <1>4 DEF ProbeEntry
<1>6. \A g \in {"custom_probe_pin"} \cup GuidedValues \cup SignalOptions : Rank(n) > Rank(g) => g \in e.guided
  <2> TAKE g \in {"custom_probe_pin"} \cup GuidedValues \cup SignalOptions
  <2> HAVE Rank(n) > Rank(g)
  <2>1. g \in Pieces /\ g # "custom_probe_offset_preview"
    BY DEF Pieces, GuidedValues, SignalOptions
  <2>2. CASE g = s
    BY <2>1, <2>2
  <2>3. CASE g # s
    <3>1. Rank(s) > Rank(g)
      BY <1>1, <2>1, <2>3
    <3>2. g \in d.guided
      BY <1>4, <1>5, <3>1 DEF ProbeEntry
    <3> QED
      BY <3>2
  <2> QED
    BY <2>2, <2>3
<1>7. Rank(n) > 23 => e.offsets = "given"
  <2>1. CASE s = "custom_probe_offset_preview"
    BY <2>1
  <2>2. CASE s # "custom_probe_offset_preview"
    <3>1. Rank(s) # 23
      BY <1>1, <1>3, <2>2 DEF Pieces
    <3>2. Rank(n) > 23 => Rank(s) > 23
      BY <1>1, <3>1
    <3> QED
      BY <1>3, <1>4, <1>5, <2>2, <3>2 DEF ProbeEntry
  <2> QED
    BY <2>1, <2>2
<1>8. ProbeEntry(e, n)
  BY <1>1, <1>2, <1>3, <1>5, <1>6, <1>7 DEF ProbeEntry
<1> QED
  BY <1>1, <1>2, <1>8, SensorLeadsOn DEF n

\* A piece of the custom probe, when it was answered.
LEMMA PieceFollows ==
  ASSUME NEW s \in Pieces, NEW d, EntryInv(d, s), NEW o, NEW e \in UserData, o.data = e,
         \A p \in Parts \ {"guided", "offsets", "fits"} : e[p] = d[p],
         e.guided = d.guided \/ e.guided = d.guided \cup {s},
         s # "custom_probe_offset_preview" => s \in e.guided,
         e.offsets = IF s = "custom_probe_offset_preview" THEN "given" ELSE d.offsets
  PROVE  Follows(s, d, o)
<1>1. d \in UserData /\ ProbeEntry(d, s)
  BY DEF EntryInv
<1>2. LeadsOn(s, e, Route(s, o.ans, e))
  BY PieceLeadsOn
<1>3. s # "custom_probe_pin" => d.guided # {}
  <2>1. /\ Rank(s) \in 20..30 /\ Rank("custom_probe_pin") \in 20..30
        /\ Rank("custom_probe_pin") = Rank(s) => s = "custom_probe_pin"
    BY PieceRoutes DEF Pieces
  <2>2. Rank("custom_probe_pin") = 20 /\ Rank("custom_probe_review") = 32 /\ Rank("probe") = 19
    BY RankIs
  <2>3. Rank(s) > 19 /\ Rank(s) <= 32 /\ (s # "custom_probe_pin" => Rank(s) > 20)
    BY <2>1, <2>2
  <2> QED
    BY <1>1, <2>2, <2>3 DEF ProbeEntry
<1>4. Wrote(s, d, e)
  <2>1. DOMAIN Writers \subseteq Parts \ {"fits", "value"}
    BY DEF Writers, Parts
  <2>2. e.value = d.value
    BY DEF Parts
  <2>3. e.guided # d.guided => s \in Writers.guided \/ d.guided # InitialDefaults.guided
    BY <1>3 DEF Writers, InitialDefaults
  <2>4. e.offsets # d.offsets => s \in Writers.offsets
    BY DEF Writers
  <2>5. \A piece \in DOMAIN Writers : piece # "guided" /\ piece # "offsets" => e[piece] = d[piece]
    BY <2>1
  <2> QED
    BY <2>2, <2>3, <2>4, <2>5 DEF Wrote
<1> QED
  BY <1>2, <1>4 DEF Follows

\* The pin of the custom probe.
LEMMA PinsFollow ==
  ASSUME NEW d, EntryInv(d, "custom_probe_pin"), NEW o \in Outcomes("custom_probe_pin", d)
  PROVE  Follows("custom_probe_pin", d, o)
<1> DEFINE s == "custom_probe_pin"
           e == [d EXCEPT !.guided = d.guided \cup {s}]
<1>1. d \in UserData /\ s \in Pieces /\ s # "custom_probe_offset_preview"
  BY DEF EntryInv, Pieces
<1>2. e \in UserData
  BY <1>1 DEF UserData
<1>3. (\A p \in Parts \ {"guided"} : e[p] = d[p]) /\ e.guided = d.guided \cup {s}
  BY <1>1, PartIs, PartNames
<1>4. e.offsets = d.offsets
  BY <1>3 DEF Parts
<1>5. o \in Menu(d) \cup {Retry(d)} \/ o = Answered("done", e)
  BY OutcomesAre DEF StepProbePin
<1> HIDE DEF s, e
<1>6. CASE o \in Menu(d) \cup {Retry(d)}
  BY <1>1, <1>6, OutcomeIs, SameFollows DEF s
<1>7. CASE o = Answered("done", e)
  <2>1. o.data = e
    BY <1>7, OutcomeIs
  <2> QED
    BY <1>1, <1>2, <1>3, <1>4, <2>1, PieceFollows DEF s
<1> QED
  BY <1>5, <1>6, <1>7

\* A piece that was written, alone or with the range of the probe.
Piece(d, s) == [d EXCEPT !.guided = @ \cup {s}]
PieceRange(d, s, f) == [d EXCEPT !.guided = @ \cup {s}, !.fits = f]
\* It joins the others.
LEMMA GuidedIs ==
  ASSUME NEW d \in UserData, NEW s \in SignalOptions \cup GuidedValues, NEW f \in BOOLEAN, NEW e,
         e = Piece(d, s) \/ e = PieceRange(d, s, f)
  PROVE  /\ e \in UserData /\ \A p \in Parts \ {"guided", "fits"} : e[p] = d[p]
         /\ e.guided = d.guided \cup {s} /\ e.offsets = d.offsets
<1> DEFINE more == d.guided \cup {s}
           w == [d EXCEPT !.guided = more]
<1>1. more \in SUBSET (GuidedValues \cup SignalOptions \cup {"custom_probe_pin"})
  BY DEF UserData
<1>2. e = w \/ e = [w EXCEPT !.fits = f]
  BY DEF UserData, Piece, PieceRange
<1> HIDE DEF more
<1>3. w \in UserData /\ (\A p \in Parts \ {"guided"} : w[p] = d[p]) /\ w.guided = more
  BY <1>1, PartIs, PartNames DEF UserData
<1> HIDE DEF w
<1>4. CASE e = w
  BY <1>1, <1>3, <1>4 DEF Parts, more
<1>5. CASE e = [w EXCEPT !.fits = f]
  <2>1. e \in UserData
    BY <1>3, <1>5 DEF UserData
  <2>2. \A p \in Parts \ {"fits"} : e[p] = w[p]
    BY <1>3, <1>5, PartIs, PartNames
  <2> QED
    BY <1>3, <2>1, <2>2 DEF Parts, more
<1> QED
  BY <1>2, <1>4, <1>5

\* The signal options.
LEMMA SignalsFollow ==
  ASSUME NEW s \in SignalOptions, NEW d, EntryInv(d, s), NEW o \in Outcomes(s, d)
  PROVE  Follows(s, d, o)
<1> DEFINE e == Piece(d, s)
<1>1. d \in UserData /\ s \in Pieces /\ s # "custom_probe_offset_preview"
  BY DEF EntryInv, Pieces, SignalOptions
<1>2. e \in UserData /\ (\A p \in Parts \ {"guided", "fits"} : e[p] = d[p])
      /\ e.guided = d.guided \cup {s} /\ e.offsets = d.offsets
  <2>1. e = Piece(d, s) /\ d.fits \in BOOLEAN
    BY <1>1 DEF UserData
  <2> HIDE DEF e
  <2> QED
    BY <1>1, <2>1, GuidedIs
<1>3. o = Left(d) \/ o = Answered("done", e)
  BY OutcomesAre DEF StepSignalOption, Piece
<1> HIDE DEF e
<1>4. CASE o = Left(d)
  BY <1>1, <1>4, OutcomeIs, SameFollows
<1>5. CASE o = Answered("done", e)
  <2>1. o.data = e
    BY <1>5, OutcomeIs
  <2> QED
    BY <1>1, <1>2, <2>1, PieceFollows
<1> QED
  BY <1>3, <1>4, <1>5

\* The numbers of the custom probe.
LEMMA NumbersFollow ==
  ASSUME NEW s \in GuidedValues, NEW d, EntryInv(d, s), NEW o \in Outcomes(s, d)
  PROVE  Follows(s, d, o)
<1> DEFINE ranges == IF s = "custom_probe_z_offset" THEN {d.fits, FALSE} ELSE {d.fits}
           done(f) == PieceRange(d, s, f)
<1>1. d \in UserData /\ s \in Pieces /\ s # "custom_probe_offset_preview" /\ d.fits \in BOOLEAN
  BY DEF EntryInv, Pieces, GuidedValues, UserData
<1>2. ASSUME NEW f \in BOOLEAN
      PROVE  /\ done(f) \in UserData /\ \A p \in Parts \ {"guided", "fits"} : done(f)[p] = d[p]
             /\ done(f).guided = d.guided \cup {s} /\ done(f).offsets = d.offsets
  <2> DEFINE e == done(f)
  <2>1. e = PieceRange(d, s, f)
    OBVIOUS
  <2> HIDE DEF e
  <2>2. /\ e \in UserData /\ \A p \in Parts \ {"guided", "fits"} : e[p] = d[p]
        /\ e.guided = d.guided \cup {s} /\ e.offsets = d.offsets
    BY <1>1, <2>1, GuidedIs
  <2> QED
    BY <2>2 DEF e
<1>3. ranges \subseteq BOOLEAN
  BY <1>1
<1>4. o \in Text(d) \cup {Answered("done", done(f)) : f \in ranges}
  <2>1. StepGuidedValue(s, d) = Text(d) \cup {Answered("done", done(f)) : f \in ranges}
    BY DEF StepGuidedValue, PieceRange
  <2> QED
    BY <2>1, OutcomesAre
<1> HIDE DEF done, ranges
<1>5. CASE o \in Text(d)
  BY <1>1, <1>5, OutcomeIs, SameFollows
<1>6. CASE o \in {Answered("done", done(f)) : f \in ranges}
  <2>1. PICK f \in ranges : o = Answered("done", done(f))
    BY <1>6
  <2> DEFINE e == done(f)
  <2>2. o.data = e
    BY <2>1, OutcomeIs
  <2>3. /\ e \in UserData /\ \A p \in Parts \ {"guided", "fits"} : e[p] = d[p]
        /\ e.guided = d.guided \cup {s} /\ e.offsets = d.offsets
    BY <1>2, <1>3
  <2> HIDE DEF e
  <2> QED
    BY <1>1, <2>2, <2>3, PieceFollows
<1> QED
  BY <1>4, <1>5, <1>6

\* The offsets of the custom probe.
LEMMA PreviewsFollow ==
  ASSUME NEW d, EntryInv(d, "custom_probe_offset_preview"),
         NEW o \in Outcomes("custom_probe_offset_preview", d)
  PROVE  Follows("custom_probe_offset_preview", d, o)
<1> DEFINE s == "custom_probe_offset_preview"
           e == [d EXCEPT !.offsets = "given"]
<1>1. d \in UserData /\ s \in Pieces
  BY DEF EntryInv, Pieces
<1>2. e \in UserData
  BY <1>1 DEF UserData
<1>3. (\A p \in Parts \ {"offsets"} : e[p] = d[p]) /\ e.offsets = "given"
  BY <1>1, PartIs, PartNames
<1>4. e.guided = d.guided
  BY <1>3 DEF Parts
<1>5. o \in Menu(d) \/ o = Answered("done", e)
  BY OutcomesAre DEF StepOffsets
<1> HIDE DEF s, e
<1>6. CASE o \in Menu(d)
  BY <1>1, <1>6, OutcomeIs, SameFollows DEF s
<1>7. CASE o = Answered("done", e)
  <2>1. o.data = e
    BY <1>7, OutcomeIs
  <2> QED
    BY <1>1, <1>2, <1>3, <1>4, <2>1, PieceFollows DEF s
<1> QED
  BY <1>5, <1>6, <1>7

\* The ranks that the probe's questions are compared with.
LEMMA ProbeRanks ==
  /\ Rank("probe") = 19 /\ Rank("custom_probe_review") = 32 /\ Rank("custom_probe") = 31
  /\ Rank("custom_probe_offset_preview") = 23 /\ Rank("bltouch_pins") = 33
  /\ Rank("probe_offsets") = 34 /\ Rank("probe_homing") = 35 /\ Rank("hotend_therm") = 36
  /\ \A g \in {"custom_probe_pin"} \cup GuidedValues \cup SignalOptions : Rank(g) \in 20..30
BY RankIs DEF GuidedValues, SignalOptions

\* The kind of the probe.
LEMMA ProbesFollow ==
  ASSUME NEW d, EntryInv(d, "probe"), NEW o \in Outcomes("probe", d)
  PROVE  Follows("probe", d, o)
<1> DEFINE s == "probe"
<1>1. d \in UserData /\ s \in Steps /\ Rank(s) = 19 /\ ProbeEntry(d, s)
  BY RankIs DEF EntryInv, Steps, Sensors, ProbeSteps
<1>2. d.custom = Nothing
  BY <1>1, ProbeRanks DEF ProbeEntry
<1>3. CASE o.data = d /\ o.kind # "answered"
  BY <1>1, <1>3, SameFollows
<1>4. ASSUME NEW p \in Probes, o.data = [d EXCEPT !.probe = p], o.ans = p
      PROVE  Follows(s, d, o)
  <2> DEFINE e == o.data
             n == AfterProbe(p, e)
  <2>1. e \in UserData
    BY <1>1, <1>4 DEF UserData
  <2>2. (\A q \in Parts \ {"probe"} : e[q] = d[q]) /\ e.probe = p
    BY <1>1, <1>4, PartIs, PartNames
  <2>3. Route(s, o.ans, e) = n
    BY <1>4, BranchesAre
  <2> HIDE DEF e
  <2>4. e.custom = Nothing /\ e.value = d.value
    BY <1>2, <2>2 DEF Parts
  <2>5. p \in {"none", "bltouch", "inductive", "custom"}
    BY BoardsAssumption
  <2>6. /\ n \in {"hotend_therm", "custom_probe_pin", "bltouch_pins", "probe_offsets"}
        /\ n = "hotend_therm" => p = "none"
        /\ n = "custom_probe_pin" => p = "custom"
        /\ n = "bltouch_pins" => p # "custom"
        /\ n = "probe_offsets" => p # "custom" /\ (p = "bltouch" => ~ NeedsBltouchPins(e))
    BY <2>5 DEF AfterProbe
  <2> HIDE DEF n
  <2>7. /\ n \in Steps /\ Rank(n) \in 20..36 /\ (p = "custom" => Rank(n) = 20)
        /\ (p # "custom" => Rank(n) > 32) /\ (Rank(n) = 36 => p = "none")
        /\ (Rank(n) > 33 /\ p = "bltouch" => ~ NeedsBltouchPins(e))
        /\ Rank(n) > 34 => p = "none"
    BY <2>5, <2>6, RankIs DEF Steps, Sensors, ProbeSteps, Thermistors
  <2>8. Nothing # "built"
    BY DEF Nothing
  <2>9. ProbeEntry(e, n)
    BY <2>2, <2>4, <2>7, <2>8, ProbeRanks DEF ProbeEntry
  <2>10. LeadsOn(s, e, n)
    BY <1>1, <2>1, <2>2, <2>4, <2>7, <2>9, SensorLeadsOn
  <2> QED
    BY <1>1, <1>4, <2>1, <2>3, <2>10, PartFollows, WritersAre DEF e
<1>5. o \in StepProbe(d)
  BY OutcomesAre
<1> HIDE DEF s
<1>6. CASE o \in Menu(d)
  BY <1>3, <1>6, OutcomeIs DEF s
<1>7. CASE o \in {Answered(p, [d EXCEPT !.probe = p]) : p \in Probes}
  <2>1. PICK p \in Probes : o = Answered(p, [d EXCEPT !.probe = p])
    BY <1>7
  <2>2. o.data = [d EXCEPT !.probe = p] /\ o.ans = p
    BY <2>1 DEF Answered
  <2> QED
    BY <1>4, <2>2 DEF s
<1> QED
  BY <1>5, <1>6, <1>7 DEF StepProbe

\* The custom probe is assembled from all of its pieces.
LEMMA AssembliesFollow ==
  ASSUME NEW d, EntryInv(d, "custom_probe"), NEW o \in Outcomes("custom_probe", d)
  PROVE  Follows("custom_probe", d, o)
<1> DEFINE s == "custom_probe"
           n == "custom_probe_review"
           e == [d EXCEPT !.custom = "built"]
<1>1. d \in UserData /\ s \in Steps /\ n \in Steps /\ ProbeEntry(d, s) /\ Rank(s) = 31 /\ Rank(n) = 32
  BY RankIs DEF EntryInv, Steps, Sensors, ProbeSteps
<1>2. \A u : Route(s, o.ans, u) = n
  BY RoutesAre
<1>3. e \in UserData
  BY <1>1 DEF UserData
<1>4. (\A p \in Parts \ {"custom"} : e[p] = d[p]) /\ e.custom = "built"
  BY <1>1, PartIs, PartNames
<1>5. o = Answered("done", e) \/ o = Retry(d)
  BY OutcomesAre DEF StepCustomProbe
<1> HIDE DEF e
<1>6. e.probe = d.probe /\ e.guided = d.guided /\ e.offsets = d.offsets /\ e.value = d.value
  BY <1>4 DEF Parts
<1>7. ProbeEntry(e, n)
  BY <1>1, <1>4, <1>6, ProbeRanks DEF ProbeEntry
<1>8. LeadsOn(s, e, n)
  BY <1>1, <1>3, <1>4, <1>6, <1>7, SensorLeadsOn
<1>9. CASE o = Retry(d)
  BY <1>1, <1>9, OutcomeIs, SameFollows
<1>10. CASE o = Answered("done", e)
  <2>1. o.data = e
    BY <1>10, OutcomeIs
  <2>2. o.data = [d EXCEPT !.custom = "built"]
    BY <2>1 DEF e
  <2>3. o.data \in UserData /\ LeadsOn(s, o.data, Route(s, o.ans, o.data))
    BY <1>2, <1>3, <1>8, <2>1
  <2> QED
    BY <1>1, <2>2, <2>3, PartFollows, WritersAre
<1> QED
  BY <1>5, <1>9, <1>10

\* The review of the assembled probe.
LEMMA ProbeReviewsFollow ==
  ASSUME NEW d, EntryInv(d, "custom_probe_review"), NEW o \in Outcomes("custom_probe_review", d)
  PROVE  Follows("custom_probe_review", d, o)
<1> DEFINE s == "custom_probe_review"
           n == "probe_homing"
<1>1. d \in UserData /\ s \in Steps /\ n \in Steps /\ ProbeEntry(d, s) /\ Rank(s) = 32 /\ Rank(n) = 35
  BY RankIs DEF EntryInv, Steps, Sensors, ProbeSteps
<1>2. Route(s, o.ans, d) = n
  BY RoutesAre
<1>3. o.data = d
  BY OutcomesAre, OutcomeIs DEF StepCustomProbeReview
<1>4. ProbeEntry(d, n)
  <2>1. d.probe = "custom" /\ d.custom = "built" /\ d.offsets = "given"
    BY <1>1, ProbeRanks DEF ProbeEntry
  <2>2. \A g \in {"custom_probe_pin"} \cup GuidedValues \cup SignalOptions : g \in d.guided
    BY <1>1, <2>1, ProbeRanks DEF ProbeEntry
  <2> QED
    BY <1>1, <2>1, <2>2, ProbeRanks DEF ProbeEntry
<1>5. LeadsOn(s, d, n)
  BY <1>1, <1>4, SensorLeadsOn
<1> QED
  BY <1>1, <1>2, <1>3, <1>5, SameFollows

\* The pins of a BLTouch.
LEMMA BltouchesFollow ==
  ASSUME NEW d, EntryInv(d, "bltouch_pins"), NEW o \in Outcomes("bltouch_pins", d)
  PROVE  Follows("bltouch_pins", d, o)
<1> DEFINE s == "bltouch_pins"
           n == "probe_offsets"
           e == [d EXCEPT !.blt = "both"]
           half == [d EXCEPT !.blt = "sensor"]
<1>1. d \in UserData /\ s \in Steps /\ n \in Steps /\ ProbeEntry(d, s) /\ Rank(s) = 33 /\ Rank(n) = 34
  BY RankIs DEF EntryInv, Steps, Sensors, ProbeSteps
<1>2. \A u : Route(s, o.ans, u) = n
  BY RoutesAre
<1>3. e \in UserData /\ half \in UserData
  BY <1>1 DEF UserData
<1>4. (\A p \in Parts \ {"blt"} : e[p] = d[p]) /\ e.blt = "both"
  BY <1>1, PartIs, PartNames
<1>5. o \in Text(d) \/ o = WentBack(half) \/ o = Answered("done", e)
  BY OutcomesAre DEF StepBltouchPins
<1> HIDE DEF e, half
<1>6. /\ e.probe = d.probe /\ e.custom = d.custom /\ e.guided = d.guided /\ e.offsets = d.offsets
      /\ e.value = d.value
  BY <1>4 DEF Parts
<1>7. ProbeEntry(e, n)
  BY <1>1, <1>4, <1>6, ProbeRanks DEF ProbeEntry
<1>8. LeadsOn(s, e, n)
  BY <1>1, <1>3, <1>4, <1>6, <1>7, SensorLeadsOn
<1>9. CASE o \in Text(d)
  BY <1>1, <1>9, OutcomeIs, SameFollows
<1>10. CASE o = WentBack(half)
  BY <1>3, <1>10, OutcomeIs DEF Follows
<1>11. CASE o = Answered("done", e)
  <2>1. o.data = e
    BY <1>11, OutcomeIs
  <2>2. o.data = [d EXCEPT !.blt = "both"]
    BY <2>1 DEF e
  <2>3. o.data \in UserData /\ LeadsOn(s, o.data, Route(s, o.ans, o.data))
    BY <1>2, <1>3, <1>8, <2>1
  <2> QED
    BY <1>1, <2>2, <2>3, PartFollows, WritersAre
<1> QED
  BY <1>5, <1>9, <1>10, <1>11

\* The offsets of the probe.
LEMMA OffsetsFollow ==
  ASSUME NEW d, EntryInv(d, "probe_offsets"), NEW o \in Outcomes("probe_offsets", d)
  PROVE  Follows("probe_offsets", d, o)
<1> DEFINE s == "probe_offsets"
           n == "probe_homing"
           e == [d EXCEPT !.offsets = "given"]
<1>1. d \in UserData /\ s \in Steps /\ n \in Steps /\ ProbeEntry(d, s) /\ Rank(s) = 34 /\ Rank(n) = 35
  BY RankIs DEF EntryInv, Steps, Sensors, ProbeSteps
<1>2. \A u : Route(s, o.ans, u) = n
  BY RoutesAre
<1>3. e \in UserData
  BY <1>1 DEF UserData
<1>4. (\A p \in Parts \ {"offsets"} : e[p] = d[p]) /\ e.offsets = "given"
  BY <1>1, PartIs, PartNames
<1>5. o \in Menu(d) \/ o = Answered("done", e)
  BY OutcomesAre DEF StepOffsets
<1> HIDE DEF e
<1>6. /\ e.probe = d.probe /\ e.custom = d.custom /\ e.guided = d.guided /\ e.blt = d.blt
      /\ e.board = d.board /\ e.value = d.value
  BY <1>4 DEF Parts
<1>7. ProbeEntry(e, n)
  BY <1>1, <1>4, <1>6, ProbeRanks DEF ProbeEntry, NeedsBltouchPins
<1>8. LeadsOn(s, e, n)
  BY <1>1, <1>3, <1>4, <1>6, <1>7, SensorLeadsOn
<1>9. CASE o \in Menu(d)
  BY <1>1, <1>9, OutcomeIs, SameFollows
<1>10. CASE o = Answered("done", e)
  <2>1. o.data = e
    BY <1>10, OutcomeIs
  <2>2. o.data = [d EXCEPT !.offsets = "given"]
    BY <2>1 DEF e
  <2>3. o.data \in UserData /\ LeadsOn(s, o.data, Route(s, o.ans, o.data))
    BY <1>2, <1>3, <1>8, <2>1
  <2> QED
    BY <1>1, <2>2, <2>3, PartFollows, WritersAre
<1> QED
  BY <1>5, <1>9, <1>10

\* The range in which the probe triggers.
LEMMA ProbeHomingsFollow ==
  ASSUME NEW d, EntryInv(d, "probe_homing"), NEW o \in Outcomes("probe_homing", d)
  PROVE  Follows("probe_homing", d, o)
<1> DEFINE s == "probe_homing"
           n == "hotend_therm"
           e == RangeGiven(d, "z_limits", TRUE)
<1>1. d \in UserData /\ s \in Steps /\ n \in Steps /\ ProbeEntry(d, s) /\ Rank(s) = 35 /\ Rank(n) = 36
  BY RankIs DEF EntryInv, Steps, Sensors, ProbeSteps, Thermistors
<1>2. Route(s, o.ans, o.data) = n
  BY RoutesAre
<1>3. \/ o = Answered("done", d) /\ (d.probe = "none" \/ d.fits)
      \/ o \in {WentBack(d), Left(d)}
      \/ o = Answered("done", e)
  <2>1. o \in StepProbeHoming(d)
    BY OutcomesAre
  <2>2. e = [d EXCEPT !.fits = TRUE, !.value["z_limits"] = "user"]
    BY DEF RangeGiven
  <2> HIDE DEF e
  <2>3. CASE d.probe = "none" \/ d.fits
    BY <2>1, <2>3 DEF StepProbeHoming
  <2>4. CASE ~ (d.probe = "none" \/ d.fits)
    BY <2>1, <2>2, <2>4 DEF StepProbeHoming
  <2> QED
    BY <2>3, <2>4
<1>4. e.fits = TRUE
  BY <1>1 DEF RangeGiven, UserData
<1>5. "z_limits" \in ValueSteps
  BY DEF ValueSteps, Limits
<1>6. /\ e \in UserData /\ \A p \in Parts \ {"value", "fits"} : e[p] = d[p]
      /\ e.value["z_limits"] = "user" /\ \A v \in ValueSteps \ {"z_limits"} : e.value[v] = d.value[v]
  <2>1. PICK f \in BOOLEAN : e = RangeGiven(d, "z_limits", f)
    OBVIOUS
  <2> HIDE DEF e
  <2> QED
    BY <1>1, <1>5, <2>1, UserValue
<1> HIDE DEF e
<1>7. CASE o = Answered("done", d) /\ (d.probe = "none" \/ d.fits)
  <2>1. ProbeEntry(d, n)
    BY <1>1, <1>7, ProbeRanks DEF ProbeEntry
  <2>2. LeadsOn(s, d, n)
    BY <1>1, <2>1, SensorLeadsOn
  <2>3. o.data = d
    BY <1>7 DEF Answered
  <2> QED
    BY <1>1, <1>2, <2>2, <2>3, SameFollows
<1>8. CASE o \in {WentBack(d), Left(d)}
  BY <1>1, <1>8, OutcomeIs, SameFollows
<1>9. CASE o = Answered("done", e)
  <2>1. o.data = e
    BY <1>9, OutcomeIs
  <2>2. /\ e.probe = d.probe /\ e.custom = d.custom /\ e.guided = d.guided /\ e.blt = d.blt
        /\ e.board = d.board /\ e.offsets = d.offsets
    BY <1>6 DEF Parts
  <2>3. ProbeEntry(e, n)
    BY <1>1, <1>4, <2>2, ProbeRanks DEF ProbeEntry, NeedsBltouchPins
  <2>4. \A v \in ValueSteps : e.value[v] = d.value[v] \/ (e.value[v] = "user" /\ s \in {v, "profile_review", "probe_homing"})
    BY <1>6
  <2>5. LeadsOn(s, e, n)
    BY <1>1, <1>6, <2>3, <2>4, SensorLeadsOn
  <2>6. "fits" \in Parts /\ "fits" \notin DOMAIN Writers
    BY DEF Parts, Writers
  <2>7. Wrote(s, d, e)
    BY <1>1, <1>6, <2>4, <2>6, ValueWritten
  <2> QED
    BY <1>2, <1>6, <2>1, <2>5, <2>7 DEF Follows
<1> QED
  BY <1>3, <1>7, <1>8, <1>9

\* Every step of the catalogue leaves the user data well formed, and what it
\* answered leads to a later question which finds the data as it expects them.
LEMMA StepsFollow ==
  ASSUME NEW s \in Steps, NEW d, EntryInv(d, s), NEW o \in Outcomes(s, d)
  PROVE  Follows(s, d, o)
<1>1. CASE s \in Hardware
  BY <1>1, BoardFollows, FansFollow, MotorsFollow, SocketsFollow, DriversFollow, ModesFollow DEF Hardware
<1>2. CASE s \in Motion \ ValueSteps
  <2>1. s \in {"printer_profile", "profile_review", "homing_directions", "z_mechanics", "tmc_currents"}
    BY <1>2 DEF Motion, ValueSteps, Volumes, Limits
  <2> QED
    BY <2>1, ProfilesFollow, ReviewsFollow, HomingsFollow, MechanicsFollow, CurrentsFollow
<1>3. CASE s \in ValueSteps
  BY <1>3, ValuesFollow, LimitsFollow
<1>4. CASE s \in Pieces
  <2>1. \/ s \in {"custom_probe_pin", "custom_probe_offset_preview"}
        \/ s \in SignalOptions \/ s \in GuidedValues
    BY <1>4 DEF Pieces
  <2> QED
    BY <2>1, PinsFollow, PreviewsFollow, SignalsFollow, NumbersFollow
<1>5. CASE s \in ProbeSteps \ Pieces
  <2>1. s \in {"probe", "custom_probe", "custom_probe_review", "bltouch_pins", "probe_offsets", "probe_homing"}
    BY <1>5 DEF ProbeSteps, Pieces
  <2> QED
    BY <2>1, ProbesFollow, AssembliesFollow, ProbeReviewsFollow, BltouchesFollow, OffsetsFollow, ProbeHomingsFollow
<1>6. CASE s \in Software
  BY <1>6, DisplaysFollow, WebUisFollow DEF Software
<1> QED
  BY <1>1, <1>2, <1>3, <1>4, <1>5, <1>6 DEF Steps, Sensors, ValueSteps

\* Ranks are numbers.
LEMMA RankIsInt == \A s \in Steps : Rank(s) \in Int
<1> TAKE s \in Steps
<1>1. Rank(s) \in 1..39
  BY PhaseIs
<1> QED
  BY <1>1

\* An ascending history asks no question twice.
LEMMA AscendingIsInjective ==
  ASSUME NEW h \in Seq(Steps), Ascends(h)
  PROVE  IsInjective(h) /\ DOMAIN h = 1..Len(h) /\ ToSet(h) = {h[i] : i \in 1..Len(h)}
<1>1. DOMAIN h = 1..Len(h) /\ Len(h) \in Nat
  OBVIOUS
<1>2. \A i \in 1..Len(h) : h[i] \in Steps /\ Rank(h[i]) \in Int
  <2>1. \A s \in Steps : Rank(s) \in Int
    BY RankIsInt
  <2>2. \A i \in 1..Len(h) : h[i] \in Steps
    OBVIOUS
  <2> QED
    BY <2>1, <2>2
<1>3. ASSUME NEW i \in 1..Len(h), NEW j \in 1..Len(h), h[i] = h[j] PROVE i = j
  BY <1>1, <1>2, <1>3 DEF Ascends
<1> QED
  BY <1>1, <1>3 DEF IsInjective, ToSet

\* A step that comes later joins the history at its end.
LEMMA HistoryGrows ==
  ASSUME NEW h \in Seq(Steps), Ascends(h), NEW c \in Steps, \A i \in 1..Len(h) : Rank(h[i]) < Rank(c)
  PROVE  /\ Append(h, c) \in Seq(Steps) /\ Ascends(Append(h, c)) /\ Len(Append(h, c)) = Len(h) + 1
         /\ ToSet(Append(h, c)) = ToSet(h) \cup {c} /\ Append(h, c)[Len(h) + 1] = c
         /\ \A i \in 1..Len(h) : Append(h, c)[i] = h[i] /\ Before(Append(h, c), i) = Before(h, i)
         /\ Before(Append(h, c), Len(h) + 1) = ToSet(h)
<1> DEFINE g == Append(h, c)
<1>1. /\ g \in Seq(Steps) /\ Len(g) = Len(h) + 1 /\ Len(h) \in Nat
      /\ (\A i \in 1..Len(h) : g[i] = h[i]) /\ g[Len(h) + 1] = c
  OBVIOUS
<1> HIDE DEF g
<1>2. Ascends(g)
  <2> SUFFICES ASSUME NEW i \in 1..Len(g), NEW j \in 1..Len(g), i < j PROVE Rank(g[i]) < Rank(g[j])
    BY DEF Ascends
  <2>1. i \in 1..Len(h)
    BY <1>1
  <2>2. CASE j \in 1..Len(h)
    BY <1>1, <2>1, <2>2 DEF Ascends
  <2>3. CASE j = Len(h) + 1
    BY <1>1, <2>1, <2>3
  <2> QED
    BY <1>1, <2>2, <2>3
<1>3. ToSet(h) = {h[i] : i \in 1..Len(h)} /\ ToSet(g) = {g[i] : i \in 1..Len(g)}
  BY <1>1, <1>2, AscendingIsInjective
<1>4. ToSet(g) = ToSet(h) \cup {c}
  <2>1. 1..Len(g) = 1..Len(h) \cup {Len(h) + 1}
    BY <1>1
  <2> QED
    BY <1>1, <1>3, <2>1
<1>5. ASSUME NEW i \in 1..Len(h) PROVE Before(g, i) = Before(h, i)
  <2>1. 1..(i - 1) \subseteq 1..Len(h)
    BY <1>1
  <2> QED
    BY <1>1, <2>1 DEF Before
<1>6. Before(g, Len(h) + 1) = ToSet(h)
  <2>1. 1..(Len(h) + 1 - 1) = 1..Len(h)
    BY <1>1
  <2> QED
    BY <1>1, <1>3, <2>1 DEF Before
<1> QED
  BY <1>1, <1>2, <1>4, <1>5, <1>6 DEF g

\* The history up to one of its steps.
LEMMA HistoryShrinks ==
  ASSUME NEW h \in Seq(Steps), Ascends(h), NEW k \in 1..Len(h)
  PROVE  /\ SubSeq(h, 1, k - 1) \in Seq(Steps) /\ Ascends(SubSeq(h, 1, k - 1))
         /\ Len(SubSeq(h, 1, k - 1)) = k - 1
         /\ ToSet(SubSeq(h, 1, k - 1)) = Before(h, k)
         /\ \A i \in 1..(k - 1) : /\ SubSeq(h, 1, k - 1)[i] = h[i]
                                  /\ Before(SubSeq(h, 1, k - 1), i) = Before(h, i)
<1> DEFINE g == SubSeq(h, 1, k - 1)
<1>1. /\ g \in Seq(Steps) /\ Len(g) = k - 1 /\ Len(h) \in Nat
      /\ (\A i \in 1..(k - 1) : g[i] = h[i])
  OBVIOUS
<1> HIDE DEF g
<1>2. \A i \in 1..(k - 1) : i \in 1..Len(h)
  BY <1>1
<1>3. Ascends(g)
  <2>1. ASSUME NEW i \in 1..Len(g), NEW j \in 1..Len(g), i < j
        PROVE  Rank(g[i]) < Rank(g[j])
    <3>1. i \in 1..(k - 1) /\ j \in 1..(k - 1)
      BY <1>1
    <3>2. g[i] = h[i] /\ g[j] = h[j] /\ i \in 1..Len(h) /\ j \in 1..Len(h)
      BY <1>1, <1>2, <3>1
    <3> QED
      BY <2>1, <3>2 DEF Ascends
  <2> QED
    BY <2>1 DEF Ascends
<1>4. ToSet(g) = {g[i] : i \in 1..Len(g)}
  BY <1>1, <1>3, AscendingIsInjective
<1>5. ToSet(g) = Before(h, k)
  BY <1>1, <1>4 DEF Before
<1>6. ASSUME NEW i \in 1..(k - 1) PROVE Before(g, i) = Before(h, i)
  <2>1. 1..(i - 1) \subseteq 1..(k - 1)
    BY <1>1
  <2> QED
    BY <1>1, <2>1 DEF Before
<1> QED
  BY <1>1, <1>3, <1>5, <1>6 DEF g

\* Going back to the last step leaves the steps before it.
LEMMA BeforeTheLast ==
  ASSUME history \in Seq(Steps), Ascends(history), history # <<>>
  PROVE  /\ Len(history) \in 1..Len(history) /\ Last(history) = history[Len(history)]
         /\ HistoryBefore(Last(history)) = SubSeq(history, 1, Len(history) - 1)
<1> DEFINE k == Len(history)
           same == {i \in 1..Len(history) : history[i] = Last(history)}
<1>1. k \in 1..Len(history) /\ k \in Nat /\ Last(history) = history[k]
  BY DEF Last
<1>2. IsInjective(history) /\ DOMAIN history = 1..Len(history)
  BY AscendingIsInjective
<1>3. same = {k}
  BY <1>1, <1>2 DEF IsInjective
<1>4. Last(history) \in ToSet(history)
  BY <1>1, <1>2 DEF ToSet
<1>5. HistoryBefore(Last(history)) = SubSeq(history, 1, (IF same # {} THEN Min(same) ELSE 0) - 1)
  BY <1>4 DEF HistoryBefore, SelectInSeq
<1>6. Min(same) = k
  BY <1>1, <1>3 DEF Min
<1> HIDE DEF same
<1> QED
  BY <1>1, <1>3, <1>5, <1>6

\* What the answer of a step wrote was written on the path with that step.
LEMMA WrittenOn ==
  ASSUME NEW d, NEW e, NEW s, NEW steps, WrittenBy(d, steps), Wrote(s, d, e)
  PROVE  WrittenBy(e, steps \cup {s})
<1>1. ASSUME NEW piece \in DOMAIN Writers, e[piece] # InitialDefaults[piece]
      PROVE  Writers[piece] \cap (steps \cup {s}) # {}
  <2>1. CASE e[piece] = d[piece]
    BY <1>1, <2>1 DEF WrittenBy
  <2>2. CASE e[piece] # d[piece]
    BY <1>1, <2>2 DEF WrittenBy, Wrote
  <2> QED
    BY <2>1, <2>2
<1>2. ASSUME NEW v \in ValueSteps
      PROVE  /\ e.value[v] = "profile" => "printer_profile" \in steps \cup {s}
             /\ e.value[v] = "user" => (steps \cup {s}) \cap {v, "profile_review", "probe_homing"} # {}
  <2>1. CASE e.value[v] = d.value[v]
    BY <2>1 DEF WrittenBy
  <2>2. CASE e.value[v] # d.value[v]
    BY <2>2 DEF Wrote
  <2> QED
    BY <2>1, <2>2
<1> QED
  BY <1>1, <1>2 DEF WrittenBy

\* Back at the first question changes nothing.
LEMMA BoardKeeps ==
  ASSUME NEW d, NEW o \in Outcomes("board", d), o.kind = "back"
  PROVE  o.data = d
<1> DEFINE with(b, fetched) == [d EXCEPT !.board = b, !.raw = fetched]
           found == {Answered(b, with(b, fetched)) : b \in Boards \ BrokenBoards, fetched \in BOOLEAN}
           broken == {Left([d EXCEPT !.board = b]) : b \in BrokenBoards}
<1>1. StepBoard(d) = Menu(d) \cup {Retry(d)} \cup broken \cup found
  BY DEF StepBoard
<1> HIDE DEF with
<1>2. \A u \in found : u.kind = "answered"
  BY DEF Answered
<1>3. \A u \in broken : u.kind = "left"
  BY DEF Left
<1> HIDE DEF found, broken
<1>4. o \in Menu(d) \cup {Retry(d)} \cup broken \cup found
  BY <1>1, OutcomesAre
<1>5. o \in Menu(d) \cup {Retry(d)}
  BY <1>2, <1>3, <1>4
<1> QED
  BY <1>5, OutcomeIs

\* The phases are asked in their order.
LEMMA PhasesAscend ==
  ASSUME NEW s \in Steps, NEW n \in Steps, Rank(s) < Rank(n)
  PROVE  PhaseNumber(s) <= PhaseNumber(n) /\ PhaseNumber(s) \in 1..4 /\ PhaseNumber(n) \in 1..4
<1>1. /\ Rank(s) \in 1..39 /\ PhaseNumber(s) = IF Rank(s) <= 6 THEN 1 ELSE IF Rank(s) <= 18 THEN 2
                             ELSE IF Rank(s) <= 37 THEN 3 ELSE 4
  BY PhaseIs
<1>2. /\ Rank(n) \in 1..39 /\ PhaseNumber(n) = IF Rank(n) <= 6 THEN 1 ELSE IF Rank(n) <= 18 THEN 2
                             ELSE IF Rank(n) <= 37 THEN 3 ELSE 4
  BY PhaseIs
<1> QED
  BY <1>1, <1>2

\* An answer makes the path longer by one step.
LEMMA PathGrows ==
  ASSUME NEW h \in Seq(Steps), Ascends(h), NEW c, NEW copies, NEW done, GoodPath(c, h, copies, done),
         NEW d, EntryInv(d, c), WrittenBy(d, ToSet(h)),
         NEW n \in Steps, Rank(c) < Rank(n),
         NEW all, DOMAIN all = DOMAIN copies \cup {c}, all[c] = d,
         \A s \in DOMAIN copies \ {c} : all[s] = copies[s],
         NEW passed, \A p \in passed : p \in 1..4 /\ p < PhaseNumber(c)
  PROVE  GoodPath(n, Append(h, c), all, passed)
<1> DEFINE g == Append(h, c)
<1>1. /\ c \in Steps /\ ToSet(h) \subseteq DOMAIN copies
      /\ DOMAIN copies \subseteq ToSet(h) \cup (IF h = <<>> THEN {c} ELSE {})
      /\ IF h = <<>> THEN c = "board" ELSE h[1] = "board"
      /\ \A i \in 1..Len(h) : Rank(h[i]) < Rank(c)
      /\ \A k \in 1..Len(h) : EntryInv(copies[h[k]], h[k]) /\ WrittenBy(copies[h[k]], Before(h, k))
      /\ \A p \in done : p < PhaseNumber(c)
  BY DEF GoodPath
<1>2. /\ g \in Seq(Steps) /\ Ascends(g) /\ Len(g) = Len(h) + 1
      /\ ToSet(g) = ToSet(h) \cup {c} /\ g[Len(h) + 1] = c
      /\ \A i \in 1..Len(h) : g[i] = h[i] /\ Before(g, i) = Before(h, i)
      /\ Before(g, Len(h) + 1) = ToSet(h)
  BY <1>1, HistoryGrows
<1>3. Len(h) \in Nat /\ (\A i \in 1..Len(h) : h[i] \in Steps)
  OBVIOUS
<1> HIDE DEF g
<1>4. ToSet(h) = {h[i] : i \in 1..Len(h)}
  BY AscendingIsInjective
<1>5. g # <<>> /\ g[1] = "board"
  <2>1. CASE h = <<>>
    <3>1. Len(h) = 0
      BY <2>1
    <3> QED
      BY <1>1, <1>2, <2>1, <3>1
  <2>2. CASE h # <<>>
    <3>1. Len(h) > 0
      BY <2>2
    <3> QED
      BY <1>1, <1>2, <1>3, <2>2, <3>1
  <2> QED
    BY <2>1, <2>2
<1>6. \A i \in 1..Len(g) : i \in 1..Len(h) \/ i = Len(h) + 1
  BY <1>2, <1>3
<1>7. ASSUME NEW i \in 1..Len(g) PROVE Rank(g[i]) < Rank(n)
  <2>1. Rank(c) \in Int /\ Rank(n) \in Int
    BY <1>1, RankIsInt
  <2>2. CASE i \in 1..Len(h)
    <3>1. Rank(h[i]) \in Int
      BY <1>3, <2>2, RankIsInt
    <3> QED
      BY <1>1, <1>2, <2>1, <2>2, <3>1
  <2>3. CASE i = Len(h) + 1
    BY <1>2, <2>3
  <2> QED
    BY <1>6, <2>2, <2>3
<1>8. ASSUME NEW k \in 1..Len(g)
      PROVE  EntryInv(all[g[k]], g[k]) /\ WrittenBy(all[g[k]], Before(g, k))
  <2>1. CASE k \in 1..Len(h)
    <3>1. Rank(h[k]) < Rank(c) /\ Rank(c) \in Int
      BY <1>1, <2>1, RankIsInt
    <3>2. h[k] # c
      BY <3>1
    <3>3. h[k] \in DOMAIN copies
      BY <1>1, <1>4, <2>1
    <3>4. all[h[k]] = copies[h[k]]
      BY <3>2, <3>3
    <3> QED
      BY <1>1, <1>2, <2>1, <3>4
  <2>2. CASE k = Len(h) + 1
    BY <1>2, <2>2
  <2> QED
    BY <1>6, <2>1, <2>2
<1>9. ASSUME NEW p \in passed PROVE p < PhaseNumber(n)
  <2>1. PhaseNumber(c) <= PhaseNumber(n) /\ PhaseNumber(c) \in 1..4 /\ PhaseNumber(n) \in 1..4
    BY <1>1, PhasesAscend
  <2>2. p \in 1..4 /\ p < PhaseNumber(c)
    OBVIOUS
  <2> QED
    BY <2>1, <2>2
<1>10. ToSet(g) \subseteq DOMAIN all /\ DOMAIN all \subseteq ToSet(g)
  BY <1>1, <1>2
<1> QED
  BY <1>5, <1>7, <1>8, <1>9, <1>10 DEF GoodPath, g

\* With the copies of the steps before its k-th, the history up to that step is a path.
Restores(h, c, copies, k) ==
    \A rest, passed :
       /\ DOMAIN rest = Before(h, k) /\ \A s \in DOMAIN rest : s # c => rest[s] = copies[s]
       /\ \A p \in passed : p < PhaseNumber(h[k])
       => GoodPath(h[k], SubSeq(h, 1, k - 1), rest, passed)
\* Going back along a path.
LEMMA PathShrinks ==
  ASSUME NEW h \in Seq(Steps), Ascends(h), NEW c, NEW copies, NEW done, GoodPath(c, h, copies, done),
         NEW k \in 1..Len(h)
  PROVE  /\ Restores(h, c, copies, k)
         /\ h[k] # c /\ h[k] \in DOMAIN copies
         /\ EntryInv(copies[h[k]], h[k]) /\ WrittenBy(copies[h[k]], ToSet(SubSeq(h, 1, k - 1)))
<1> DEFINE g == SubSeq(h, 1, k - 1)
<1>1. /\ c \in Steps /\ ToSet(h) \subseteq DOMAIN copies
      /\ IF h = <<>> THEN c = "board" ELSE h[1] = "board"
      /\ \A i \in 1..Len(h) : Rank(h[i]) < Rank(c)
      /\ \A i \in 1..Len(h) : EntryInv(copies[h[i]], h[i]) /\ WrittenBy(copies[h[i]], Before(h, i))
  BY DEF GoodPath
<1>2. /\ g \in Seq(Steps) /\ Ascends(g) /\ Len(g) = k - 1 /\ ToSet(g) = Before(h, k)
      /\ \A i \in 1..(k - 1) : g[i] = h[i] /\ Before(g, i) = Before(h, i)
  BY HistoryShrinks
<1>3. Len(h) \in Nat /\ (\A i \in 1..Len(h) : h[i] \in Steps) /\ h # <<>>
  OBVIOUS
<1> HIDE DEF g
<1>4. /\ ToSet(h) = {h[i] : i \in 1..Len(h)} /\ ToSet(g) = {g[i] : i \in 1..Len(g)}
  BY <1>2, AscendingIsInjective
<1>5. \A i \in 1..(k - 1) : i \in 1..Len(h) /\ i < k
  BY <1>3
<1>6. \A i \in 1..Len(h) : h[i] # c /\ h[i] \in DOMAIN copies
  <2> TAKE i \in 1..Len(h)
  <2>1. Rank(h[i]) < Rank(c) /\ Rank(c) \in Int
    BY <1>1, RankIsInt
  <2> QED
    BY <1>1, <1>4, <2>1
<1>7. IF g = <<>> THEN h[k] = "board" ELSE g[1] = "board"
  <2>1. CASE k = 1
    <3>1. g = <<>>
      BY <1>2, <2>1
    <3> QED
      BY <1>1, <1>3, <2>1, <3>1
  <2>2. CASE k > 1
    <3>1. g # <<>> /\ 1 \in 1..(k - 1)
      BY <1>2, <2>2
    <3> QED
      BY <1>1, <1>2, <1>3, <3>1
  <2> QED
    BY <2>1, <2>2
<1>8. \A i \in 1..Len(g) : Rank(g[i]) < Rank(h[k])
  BY <1>2, <1>5 DEF Ascends
<1>9. ASSUME NEW rest, DOMAIN rest = Before(h, k), \A s \in DOMAIN rest : s # c => rest[s] = copies[s],
             NEW i \in 1..Len(g)
      PROVE  EntryInv(rest[g[i]], g[i]) /\ WrittenBy(rest[g[i]], Before(g, i))
  <2>1. i \in 1..(k - 1) /\ i \in 1..Len(h)
    BY <1>2, <1>5
  <2>2. g[i] = h[i] /\ h[i] \in DOMAIN rest /\ h[i] # c
    BY <1>2, <1>4, <1>6, <1>9, <2>1
  <2>3. rest[h[i]] = copies[h[i]]
    BY <1>9, <2>2
  <2> QED
    BY <1>1, <1>2, <2>1, <2>2, <2>3
<1>10. ASSUME NEW rest, DOMAIN rest = Before(h, k), \A s \in DOMAIN rest : s # c => rest[s] = copies[s],
              NEW passed, \A p \in passed : p < PhaseNumber(h[k])
       PROVE  GoodPath(h[k], g, rest, passed)
  <2>1. /\ \A i \in 1..Len(g) : /\ EntryInv(rest[g[i]], g[i]) /\ WrittenBy(rest[g[i]], Before(g, i))
    BY <1>9, <1>10
  <2> QED
    BY <1>2, <1>3, <1>7, <1>8, <1>10, <2>1 DEF GoodPath
<1> QED
  BY <1>1, <1>2, <1>6, <1>10 DEF g, Restores

\* The same path, with the copies of its steps.
LEMMA PathStays ==
  ASSUME NEW h \in Seq(Steps), NEW c, NEW copies, NEW done, GoodPath(c, h, copies, done), Ascends(h),
         NEW kept, ToSet(h) \subseteq DOMAIN kept,
         DOMAIN kept \subseteq ToSet(h) \cup (IF h = <<>> THEN {c} ELSE {}),
         \A s \in DOMAIN kept : s # c => kept[s] = copies[s],
         NEW passed, \A p \in passed : p < PhaseNumber(c)
  PROVE  GoodPath(c, h, kept, passed)
<1>1. \A k \in 1..Len(h) : kept[h[k]] = copies[h[k]]
  <2> TAKE k \in 1..Len(h)
  <2>1. ToSet(h) = {h[i] : i \in 1..Len(h)}
    BY AscendingIsInjective
  <2>2. Rank(h[k]) < Rank(c) /\ Rank(c) \in Int
    BY RankIsInt DEF GoodPath
  <2>3. h[k] # c /\ h[k] \in DOMAIN kept
    BY <2>1, <2>2
  <2> QED
    BY <2>3
<1> QED
  BY <1>1 DEF GoodPath

\* The first question is entered with the defaults.
LEMMA DefaultsAreEntered ==
  /\ EntryInv(InitialDefaults, "board") /\ WrittenBy(InitialDefaults, {})
  /\ GoodPath("board", <<>>, <<>>, {}) /\ Ascends(<<>>)
<1> DEFINE d == InitialDefaults
<1>1. d \in UserData
  BY DEF InitialDefaults, UserData, Provenances
<1>2. /\ d.mode = "Standalone" /\ d.z = 0 /\ d.sockets = Nothing /\ d.zmech = Nothing
      /\ d.loaded = FALSE /\ d.auth = FALSE /\ d.probe = "none" /\ d.custom = Nothing
      /\ \A v \in ValueSteps : d.value[v] = "default"
  BY DEF InitialDefaults
<1> HIDE DEF d
<1>3. DriverEntry(d, "board") /\ MotorEntry(d, "board")
  BY <1>2, RankIs DEF DriverEntry, MotorEntry
<1>4. ValueEntry(d, "board")
  <2>1. \A v \in ValueSteps : Rank(v) \in 9..15 \cup 36..37
    BY RankIs DEF ValueSteps, Volumes, Limits, Thermistors
  <2> QED
    BY <1>2, <2>1, RankIs DEF ValueEntry
<1>5. ProbeEntry(d, "board")
  <2>1. Rank("board") = 1
    BY RankIs
  <2> QED
    BY <1>2, <2>1, ProbeRanks DEF ProbeEntry
<1>6. EntryInv(d, "board")
  BY <1>1, <1>3, <1>4, <1>5 DEF EntryInv
<1>7. WrittenBy(d, {})
  BY <1>2 DEF WrittenBy, d
<1>8. GoodPath("board", <<>>, <<>>, {})
  BY DEF GoodPath, Steps, Hardware, ToSet
<1>9. Ascends(<<>>)
  BY DEF Ascends
<1> QED
  BY <1>6, <1>7, <1>8, <1>9 DEF d

\* The wizard starts on the path.
LEMMA EngineStarts ==
  ASSUME StartStep = "board", Init
  PROVE  EngineInv
<1>1. /\ current = "board" /\ userData = InitialDefaults /\ history = <<>> /\ snapshots = <<>>
      /\ completed = {} /\ status = "running" /\ answer = Nothing /\ backFrom = Nothing
  BY DEF Init
<1>2. TypeOK
  <2>1. InitialDefaults \in UserData /\ "board" \in Steps
    BY DefaultsAreEntered DEF EntryInv, GoodPath
  <2>2. <<>> \in Seq(Steps) /\ IsInjective(<<>>)
    BY DEF IsInjective
  <2> QED
    BY <1>1, <2>1, <2>2 DEF TypeOK
<1>3. ToSet(<<>>) = {}
  BY DEF ToSet
<1> QED
  BY <1>1, <1>2, <1>3, DefaultsAreEntered DEF EngineInv

\* While a question is asked: where the wizard stands, and the copies with the
\* one of the current step.
LEMMA WhileRunning ==
  ASSUME EngineInv, status = "running"
  PROVE  /\ history \in Seq(Steps) /\ Ascends(history) /\ current \in Steps
         /\ GoodPath(current, history, snapshots, completed)
         /\ EntryInv(userData, current) /\ WrittenBy(userData, ToSet(history))
         /\ current \notin ToSet(history) /\ ToSet(history) \subseteq DOMAIN snapshots
         /\ \A i \in 1..Len(history) : Rank(history[i]) < Rank(current)
         /\ DOMAIN Entered = DOMAIN snapshots \cup {current} /\ Entered[current] = userData
         /\ \A s \in DOMAIN snapshots \ {current} : Entered[s] = snapshots[s]
         /\ DOMAIN Entered \subseteq Steps /\ \A s \in DOMAIN Entered : Entered[s] \in UserData
         /\ \A p \in PhasesCompleted : p \in 1..4 /\ p < PhaseNumber(current)
<1>1. /\ history \in Seq(Steps) /\ Ascends(history)
      /\ GoodPath(current, history, snapshots, completed)
      /\ EntryInv(userData, current) /\ WrittenBy(userData, ToSet(history))
      /\ userData \in UserData /\ DOMAIN snapshots \subseteq Steps
      /\ \A s \in DOMAIN snapshots : snapshots[s] \in UserData
  BY DEF EngineInv, TypeOK
<1>2. /\ current \in Steps /\ ToSet(history) \subseteq DOMAIN snapshots
      /\ \A i \in 1..Len(history) : Rank(history[i]) < Rank(current)
      /\ \A p \in completed : p < PhaseNumber(current)
  BY <1>1 DEF GoodPath
<1>3. /\ DOMAIN Entered = DOMAIN snapshots \cup {current} /\ Entered[current] = userData
      /\ \A s \in DOMAIN snapshots \ {current} : Entered[s] = snapshots[s]
  BY DEF Entered
<1>4. current \notin ToSet(history)
  <2>1. ToSet(history) = {history[i] : i \in 1..Len(history)}
    BY <1>1, AscendingIsInjective
  <2>2. Rank(current) \in Int
    BY <1>2, RankIsInt
  <2>3. \A i \in 1..Len(history) : history[i] # current
    BY <1>2, <2>2
  <2> QED
    BY <2>1, <2>3
<1>5. \A s \in DOMAIN Entered : s \in Steps /\ Entered[s] \in UserData
  BY <1>1, <1>2, <1>3
<1>6. \A p \in PhasesCompleted : p \in 1..4 /\ p < PhaseNumber(current)
  <2>1. Len(PhaseOrder) = 4
    BY DEF PhaseOrder
  <2>2. completed \subseteq 1..4
    BY <2>1 DEF EngineInv, TypeOK
  <2>3. CASE history = <<>>
    BY <1>2, <2>2, <2>3 DEF PhasesCompleted
  <2>4. CASE history # <<>>
    <3>1. Last(history) \in Steps
      BY <1>1, <2>4 DEF Last
    <3>2. PhaseNumber(Last(history)) \in 1..4
      BY <3>1, PhaseIs
    <3> QED
      BY <1>2, <2>2, <3>2 DEF PhasesCompleted
  <2> QED
    BY <2>3, <2>4
<1> QED
  BY <1>1, <1>2, <1>3, <1>4, <1>5, <1>6

\* The step returned to finds the user data it was entered with.
LEMMA EngineRollsBack ==
  ASSUME EngineInv, status = "running", status' = status, history # <<>>, NEW d,
         RollbackTo(Last(history), d), current' = Last(history), backFrom' \in Steps \cup {Nothing}
  PROVE  EngineInv'
<1> DEFINE k == Len(history)
           s == history[k]
           g == SubSeq(history, 1, k - 1)
<1>1. /\ history \in Seq(Steps) /\ Ascends(history) /\ current \in Steps
      /\ GoodPath(current, history, snapshots, completed)
      /\ ToSet(history) \subseteq DOMAIN snapshots
      /\ DOMAIN Entered = DOMAIN snapshots \cup {current}
      /\ \A other \in DOMAIN snapshots \ {current} : Entered[other] = snapshots[other]
      /\ DOMAIN Entered \subseteq Steps /\ \A other \in DOMAIN Entered : Entered[other] \in UserData
      /\ \A p \in PhasesCompleted : p \in 1..4 /\ p < PhaseNumber(current)
  BY WhileRunning
<1>2. k \in 1..Len(history) /\ Last(history) = s /\ HistoryBefore(Last(history)) = g
  BY <1>1, BeforeTheLast
<1>3. /\ userData' = IF s \in DOMAIN Entered THEN Entered[s] ELSE d
      /\ history' = g /\ current' = s /\ status' = "running"
      /\ snapshots' = [other \in DOMAIN Entered \cap ToSet(g) |-> Entered[other]]
      /\ completed' = {p \in PhasesCompleted : p < PhaseNumber(s)}
  BY <1>2 DEF RollbackTo
<1>4. /\ g \in Seq(Steps) /\ Ascends(g) /\ ToSet(g) = Before(history, k)
  BY <1>1, <1>2, HistoryShrinks
<1> HIDE DEF k, s, g
<1>5. ToSet(g) \subseteq DOMAIN Entered
  <2>1. ToSet(history) = {history[i] : i \in 1..Len(history)}
    BY <1>1, AscendingIsInjective
  <2>2. \A j \in 1..(k - 1) : j \in 1..Len(history)
    BY <1>2
  <2> QED
    BY <1>1, <1>4, <2>1, <2>2 DEF Before
<1>6. DOMAIN snapshots' = Before(history, k) /\ \A other \in DOMAIN snapshots' : snapshots'[other] = Entered[other]
  BY <1>3, <1>4, <1>5
<1>7. \A other \in DOMAIN snapshots' : other # current => snapshots'[other] = snapshots[other]
  BY <1>1, <1>4, <1>5, <1>6
<1>8. \A p \in completed' : p < PhaseNumber(s)
  BY <1>3
<1>9. /\ GoodPath(s, g, snapshots', completed') /\ s # current /\ s \in DOMAIN snapshots
      /\ EntryInv(snapshots[s], s) /\ WrittenBy(snapshots[s], ToSet(g))
  <2> DEFINE rest == snapshots'
             passed == completed'
  <2>1. /\ history \in Seq(Steps) /\ Ascends(history) /\ k \in 1..Len(history)
        /\ GoodPath(current, history, snapshots, completed)
        /\ DOMAIN rest = Before(history, k) /\ \A other \in DOMAIN rest : other # current => rest[other] = snapshots[other]
        /\ \A p \in passed : p < PhaseNumber(history[k])
    BY <1>1, <1>2, <1>6, <1>7, <1>8 DEF s
  <2> HIDE DEF rest, passed
  <2>2. Restores(history, current, snapshots, k)
    BY <2>1, PathShrinks
  <2>3. GoodPath(history[k], SubSeq(history, 1, k - 1), rest, passed)
    BY <2>1, <2>2 DEF Restores
  <2>4. /\ history[k] # current /\ history[k] \in DOMAIN snapshots
        /\ EntryInv(snapshots[history[k]], history[k])
        /\ WrittenBy(snapshots[history[k]], ToSet(SubSeq(history, 1, k - 1)))
    BY <2>1, PathShrinks
  <2> QED
    BY <2>3, <2>4 DEF s, g, rest, passed
<1>10. userData' = snapshots[s]
  BY <1>1, <1>3, <1>9
<1>11. TypeOK'
  <2>1. Len(PhaseOrder) = 4
    BY DEF PhaseOrder
  <2>2. completed' \subseteq 1..4
    BY <1>1, <1>3
  <2>3. s \in Steps /\ userData' \in UserData
    BY <1>9, <1>10 DEF GoodPath, EntryInv
  <2>4. IsInjective(g)
    BY <1>4, AscendingIsInjective
  <2>5. DOMAIN snapshots' \subseteq Steps /\ \A other \in DOMAIN snapshots' : snapshots'[other] \in UserData
    BY <1>1, <1>4, <1>5, <1>6
  <2> QED
    BY <1>3, <1>4, <2>1, <2>2, <2>3, <2>4, <2>5 DEF TypeOK
<1> QED
  BY <1>3, <1>4, <1>9, <1>10, <1>11 DEF EngineInv

\* An answer leads to a later question, with the data it expects.
LEMMA EngineAnswers ==
  ASSUME EngineInv, Answer
  PROVE  EngineInv'
<1> DEFINE g == Append(history, current)
<1>1. status = "running"
  BY DEF Answer
<1>2. /\ history \in Seq(Steps) /\ Ascends(history) /\ current \in Steps
      /\ GoodPath(current, history, snapshots, completed)
      /\ EntryInv(userData, current) /\ WrittenBy(userData, ToSet(history))
      /\ current \notin ToSet(history) /\ \A i \in 1..Len(history) : Rank(history[i]) < Rank(current)
      /\ DOMAIN Entered = DOMAIN snapshots \cup {current} /\ Entered[current] = userData
      /\ \A s \in DOMAIN snapshots \ {current} : Entered[s] = snapshots[s]
      /\ DOMAIN Entered \subseteq Steps /\ \A s \in DOMAIN Entered : Entered[s] \in UserData
      /\ \A p \in PhasesCompleted : p \in 1..4 /\ p < PhaseNumber(current)
  BY <1>1, WhileRunning
<1>3. PICK o \in Outcomes(current, userData) :
        /\ o.kind = "answered" /\ userData' = o.data /\ current' = Route(current, o.ans, o.data)
        /\ status' = IF current' = Nothing THEN "finished" ELSE "running"
  BY DEF Answer
<1>4. /\ history' = g /\ snapshots' = Entered /\ completed' = PhasesCompleted
      /\ backFrom' \in {backFrom, Nothing}
  BY <1>2 DEF Answer, HistoryAfter
<1>5. Follows(current, userData, o)
  BY <1>2, StepsFollow
<1>6. /\ userData' \in UserData /\ Wrote(current, userData, userData')
      /\ current' \in Steps \cup {Nothing} /\ Rank(current') > Rank(current)
      /\ EntryInv(userData', current')
  BY <1>3, <1>5 DEF Follows, LeadsOn
<1>7. /\ g \in Seq(Steps) /\ Ascends(g) /\ ToSet(g) = ToSet(history) \cup {current}
  BY <1>2, HistoryGrows
<1>8. WrittenBy(userData', ToSet(g))
  BY <1>2, <1>6, <1>7, WrittenOn
<1>9. ASSUME current' # Nothing
      PROVE  GoodPath(current', history', snapshots', completed')
  <2>1. current' \in Steps /\ Rank(current) \in Int /\ Rank(current') \in Int
    BY <1>2, <1>6, <1>9, RankIsInt
  <2>2. Rank(current) < Rank(current')
    BY <1>6, <2>1
  <2> DEFINE n == current'
             all == Entered
             passed == PhasesCompleted
  <2>3. /\ history \in Seq(Steps) /\ Ascends(history) /\ GoodPath(current, history, snapshots, completed)
        /\ EntryInv(userData, current) /\ WrittenBy(userData, ToSet(history))
        /\ n \in Steps /\ Rank(current) < Rank(n)
        /\ DOMAIN all = DOMAIN snapshots \cup {current} /\ all[current] = userData
        /\ \A s \in DOMAIN snapshots \ {current} : all[s] = snapshots[s]
        /\ \A p \in passed : p \in 1..4 /\ p < PhaseNumber(current)
    BY <1>2, <2>1, <2>2
  <2> HIDE DEF n, all, passed
  <2>4. GoodPath(n, Append(history, current), all, passed)
    BY <2>3, PathGrows
  <2> QED
    BY <1>4, <2>4 DEF n, all, passed
<1> HIDE DEF g
<1>10. TypeOK'
  <2>1. Len(PhaseOrder) = 4
    BY DEF PhaseOrder
  <2>2. completed' \subseteq 1..4
    BY <1>2, <1>4
  <2>3. IsInjective(g)
    BY <1>7, AscendingIsInjective
  <2>4. backFrom' \in Steps \cup {Nothing}
    BY <1>4 DEF EngineInv, TypeOK
  <2> QED
    BY <1>2, <1>3, <1>4, <1>6, <1>7, <2>1, <2>2, <2>3, <2>4 DEF TypeOK
<1> QED
  BY <1>3, <1>4, <1>6, <1>7, <1>8, <1>9, <1>10 DEF EngineInv

\* Where the wizard stays at the question, with the data it was entered with.
LEMMA EngineStays ==
  ASSUME EngineInv, status = "running", status' = status, current' = current, history' = history,
         backFrom' = backFrom, userData' = userData,
         DOMAIN snapshots' \subseteq ToSet(history) \cup (IF history = <<>> THEN {current} ELSE {}),
         ToSet(history) \subseteq DOMAIN snapshots', DOMAIN snapshots' \subseteq DOMAIN Entered,
         \A s \in DOMAIN snapshots' : snapshots'[s] = Entered[s],
         completed' \subseteq PhasesCompleted
  PROVE  EngineInv'
<1>1. /\ history \in Seq(Steps) /\ Ascends(history) /\ current \in Steps
      /\ GoodPath(current, history, snapshots, completed)
      /\ EntryInv(userData, current) /\ WrittenBy(userData, ToSet(history))
      /\ DOMAIN Entered = DOMAIN snapshots \cup {current}
      /\ \A s \in DOMAIN snapshots \ {current} : Entered[s] = snapshots[s]
      /\ DOMAIN Entered \subseteq Steps /\ \A s \in DOMAIN Entered : Entered[s] \in UserData
      /\ \A p \in PhasesCompleted : p \in 1..4 /\ p < PhaseNumber(current)
  BY WhileRunning
<1> DEFINE kept == snapshots'
           passed == completed'
<1>2. /\ ToSet(history) \subseteq DOMAIN kept
      /\ DOMAIN kept \subseteq ToSet(history) \cup (IF history = <<>> THEN {current} ELSE {})
      /\ \A s \in DOMAIN kept : s # current => kept[s] = snapshots[s]
      /\ \A p \in passed : p < PhaseNumber(current)
  BY <1>1
<1> HIDE DEF kept, passed
<1>3. GoodPath(current, history, kept, passed)
  BY <1>1, <1>2, PathStays
<1>4. TypeOK'
  <2>1. Len(PhaseOrder) = 4
    BY DEF PhaseOrder
  <2>2. completed' \subseteq 1..4
    BY <1>1
  <2>3. DOMAIN snapshots' \subseteq Steps /\ \A s \in DOMAIN snapshots' : snapshots'[s] \in UserData
    BY <1>1
  <2> QED
    BY <2>1, <2>2, <2>3 DEF EngineInv, TypeOK
<1> QED
  BY <1>1, <1>3, <1>4 DEF EngineInv, kept, passed

\* Back.
LEMMA EngineGoesBack ==
  ASSUME EngineInv, Back
  PROVE  EngineInv'
<1>1. status = "running" /\ status' = status
  BY DEF Back
<1>2. current \in Steps /\ backFrom \in Steps \cup {Nothing}
  BY <1>1, WhileRunning DEF EngineInv, TypeOK
<1>3. PICK o \in Outcomes(current, userData) :
        /\ o.kind = "back"
        /\ IF history # <<>>
           THEN RollbackTo(Last(history), o.data) /\ current' = Last(history) /\ backFrom' = current
           ELSE /\ userData' = o.data /\ snapshots' = Entered /\ completed' = PhasesCompleted
                /\ UNCHANGED <<history, current, backFrom>>
  BY DEF Back
<1>4. CASE history # <<>>
  BY <1>1, <1>2, <1>3, <1>4, EngineRollsBack
<1>5. CASE history = <<>>
  <2>1. /\ userData' = o.data /\ snapshots' = Entered /\ completed' = PhasesCompleted
        /\ history' = history /\ current' = current /\ backFrom' = backFrom
    BY <1>3, <1>5
  <2>2. /\ GoodPath(current, history, snapshots, completed)
        /\ DOMAIN Entered = DOMAIN snapshots \cup {current}
    BY <1>1, WhileRunning
  <2>3. /\ current = "board" /\ DOMAIN snapshots \subseteq ToSet(history) \cup {current}
        /\ ToSet(history) \subseteq DOMAIN snapshots
    BY <1>5, <2>2 DEF GoodPath
  <2>4. userData' = userData
    BY <1>3, <2>1, <2>3, BoardKeeps
  <2>5. /\ DOMAIN snapshots' \subseteq ToSet(history) \cup (IF history = <<>> THEN {current} ELSE {})
        /\ ToSet(history) \subseteq DOMAIN snapshots' /\ DOMAIN snapshots' \subseteq DOMAIN Entered
        /\ \A s \in DOMAIN snapshots' : snapshots'[s] = Entered[s]
        /\ completed' \subseteq PhasesCompleted
    BY <1>5, <2>1, <2>2, <2>3
  <2> QED
    BY <1>1, <2>1, <2>4, <2>5, EngineStays
<1> QED
  BY <1>4, <1>5

\* "Run again".
LEMMA EngineRunsAgain ==
  ASSUME EngineInv, RunAgain
  PROVE  EngineInv'
<1>1. /\ status = "running" /\ status' = status /\ current' = current /\ backFrom' = backFrom
  BY DEF RunAgain
<1>2. PICK o : RollbackTo(current, o.data)
  BY DEF RunAgain
<1>3. /\ current \notin ToSet(history) /\ ToSet(history) \subseteq DOMAIN snapshots
      /\ DOMAIN Entered = DOMAIN snapshots \cup {current} /\ Entered[current] = userData
  BY <1>1, WhileRunning
<1>4. HistoryBefore(current) = history
  BY <1>3 DEF HistoryBefore
<1>5. /\ userData' = userData /\ history' = history
      /\ snapshots' = [s \in DOMAIN Entered \cap ToSet(history) |-> Entered[s]]
      /\ completed' = {p \in PhasesCompleted : p < PhaseNumber(current)}
  BY <1>2, <1>3, <1>4 DEF RollbackTo
<1>6. /\ DOMAIN snapshots' = ToSet(history) /\ ToSet(history) \subseteq DOMAIN Entered
      /\ \A s \in DOMAIN snapshots' : snapshots'[s] = Entered[s]
      /\ completed' \subseteq PhasesCompleted
  BY <1>3, <1>5
<1> QED
  BY <1>1, <1>5, <1>6, EngineStays

\* Leaving the wizard.
LEMMA EngineLeaves ==
  ASSUME EngineInv, Leave
  PROVE  EngineInv'
<1>1. /\ status = "running" /\ status' = "left" /\ snapshots' = Entered /\ completed' = PhasesCompleted
      /\ current' = current /\ history' = history /\ backFrom' = backFrom
  BY DEF Leave
<1>2. PICK o \in Outcomes(current, userData) : userData' = o.data
  BY DEF Leave
<1>3. /\ current \in Steps /\ EntryInv(userData, current)
      /\ DOMAIN Entered \subseteq Steps /\ \A s \in DOMAIN Entered : Entered[s] \in UserData
      /\ \A p \in PhasesCompleted : p \in 1..4 /\ p < PhaseNumber(current)
  BY <1>1, WhileRunning
<1>4. userData' \in UserData
  BY <1>2, <1>3, StepsFollow DEF Follows
<1>5. TypeOK'
  <2>1. Len(PhaseOrder) = 4
    BY DEF PhaseOrder
  <2>2. completed' \subseteq 1..4
    BY <1>1, <1>3
  <2> QED
    BY <1>1, <1>3, <1>4, <2>1, <2>2 DEF EngineInv, TypeOK
<1> QED
  BY <1>1, <1>5 DEF EngineInv

\* The pins of a BLTouch, asked for once more.
LEMMA EngineResolves ==
  ASSUME EngineInv, ResolveBltouchPins
  PROVE  EngineInv'
<1>1. /\ status' \in {"resolved", "left"}
      /\ UNCHANGED <<current, history, snapshots, completed, answer, backFrom>>
      /\ userData' = userData \/ userData' = [userData EXCEPT !.blt = "both"]
  BY DEF ResolveBltouchPins
<1>2. userData' \in UserData
  <2>1. userData \in UserData
    BY DEF EngineInv, TypeOK
  <2>2. [userData EXCEPT !.blt = "both"] \in UserData
    BY <2>1 DEF UserData
  <2> QED
    BY <1>1, <2>1, <2>2
<1>3. TypeOK'
  BY <1>1, <1>2 DEF EngineInv, TypeOK
<1> QED
  BY <1>1, <1>3 DEF EngineInv

\* A wizard on its path is coherent.
LEMMA EngineIsCoherent ==
  ASSUME EngineInv
  PROVE  WizardIsCoherent
<1>1. TypeOK
  BY DEF EngineInv
<1>2. AnswersAreOnThePath
  <2> SUFFICES ASSUME status \in {"running", "finished"}
               PROVE  /\ \A piece \in DOMAIN Writers :
                            userData[piece] # InitialDefaults[piece] => Writers[piece] \cap Walked # {}
                      /\ \A s \in ValueSteps :
                            /\ userData.value[s] = "profile" => "printer_profile" \in Walked
                            /\ userData.value[s] = "user" => Walked \cap {s, "profile_review", "probe_homing"} # {}
    BY DEF AnswersAreOnThePath
  <2>1. WrittenBy(userData, ToSet(history))
    BY DEF EngineInv
  <2>2. ToSet(history) \subseteq Walked
    BY DEF Walked
  <2> QED
    BY <2>1, <2>2 DEF WrittenBy
<1>3. ResultIsCoherent
  <2> SUFFICES ASSUME status = "finished"
               PROVE  /\ (userData.mode # "Standalone" => IsTmc(userData))
                      /\ (userData.z > 1 => userData.sockets \in {"reused", "custom"} /\ userData.zmech = "confirmed")
                      /\ (userData.z <= 1 => userData.sockets = Nothing /\ userData.zmech = Nothing)
                      /\ \A s \in ValueSteps : userData.value[s] = "user" \/ (userData.auth /\ userData.loaded)
                      /\ (userData.probe = "custom") = (userData.custom = "built")
                      /\ (userData.probe = "custom" => GuidedValues \cup SignalOptions \subseteq userData.guided)
                      /\ (userData.probe # "none" => userData.offsets = "given" /\ userData.fits)
                      /\ (userData.probe = "bltouch" /\ NeedsBltouchPins(userData) => userData.blt = "both")
    BY DEF ResultIsCoherent
  <2>1. EntryInv(userData, Nothing) /\ Rank(Nothing) = 40
    BY RankIs DEF EngineInv
  <2>2. /\ userData \in UserData /\ DriverEntry(userData, Nothing) /\ MotorEntry(userData, Nothing)
        /\ ValueEntry(userData, Nothing) /\ ProbeEntry(userData, Nothing)
    BY <2>1 DEF EntryInv
  <2>3. userData.mode # "Standalone" => IsTmc(userData)
    BY <2>1, <2>2, RankIs DEF DriverEntry
  <2>4. /\ (userData.z > 1 => userData.sockets \in {"reused", "custom"} /\ userData.zmech = "confirmed")
        /\ (userData.z <= 1 => userData.sockets = Nothing /\ userData.zmech = Nothing)
    <3>1. userData.z \in Nat
      BY <2>2, MotorsAre
    <3> QED
      BY <2>1, <2>2, <3>1, RankIs DEF MotorEntry
  <2>5. \A s \in ValueSteps : userData.value[s] = "user" \/ (userData.auth /\ userData.loaded)
    <3>1. \A s \in ValueSteps : Rank(s) \in 9..15 \cup 36..37
      BY RankIs DEF ValueSteps, Volumes, Limits, Thermistors
    <3> QED
      BY <2>1, <2>2, <3>1 DEF ValueEntry
  <2>6. /\ (userData.probe = "custom") = (userData.custom = "built")
        /\ (userData.probe = "custom" => GuidedValues \cup SignalOptions \subseteq userData.guided)
        /\ (userData.probe # "none" => userData.offsets = "given" /\ userData.fits)
        /\ (userData.probe = "bltouch" /\ NeedsBltouchPins(userData) => userData.blt = "both")
    <3>1. userData.probe = "custom" <=> userData.custom = "built"
      BY <2>1, <2>2, ProbeRanks DEF ProbeEntry
    <3>2. userData.probe = "custom" => GuidedValues \cup SignalOptions \subseteq userData.guided
      <4>1. \A g \in GuidedValues \cup SignalOptions : Rank(Nothing) > Rank(g)
        <5>1. \A g \in GuidedValues \cup SignalOptions : Rank(g) \in 20..30
          BY ProbeRanks
        <5> QED
          BY <2>1, <5>1
      <4> QED
        BY <2>2, <4>1 DEF ProbeEntry
    <3>3. userData.probe # "none" => userData.offsets = "given" /\ userData.fits
      BY <2>1, <2>2, ProbeRanks DEF ProbeEntry
    <3>4. userData.probe = "bltouch" /\ NeedsBltouchPins(userData) => userData.blt = "both"
      BY <2>1, <2>2, ProbeRanks DEF ProbeEntry
    <3> QED
      BY <3>1, <3>2, <3>3, <3>4
  <2> QED
    BY <2>3, <2>4, <2>5, <2>6
<1>4. CopiesFollowThePath /\ CompletedPhasesAreBehind
  BY DEF EngineInv, GoodPath, CopiesFollowThePath, CompletedPhasesAreBehind
<1> QED
  BY <1>1, <1>2, <1>3, <1>4 DEF WizardIsCoherent

\* The path is an invariant of the runner.
THEOREM EngineStaysOnItsPath ==
  ASSUME StartStep = "board"
  PROVE  Spec => []EngineInv
<1>1. Init => EngineInv
  BY EngineStarts
<1>2. EngineInv /\ [Next]_vars => EngineInv'
  <2> SUFFICES ASSUME EngineInv, [Next]_vars PROVE EngineInv'
    OBVIOUS
  <2>1. CASE Answer
    BY <2>1, EngineAnswers
  <2>2. CASE Back
    BY <2>2, EngineGoesBack
  <2>3. CASE RunAgain
    BY <2>3, EngineRunsAgain
  <2>4. CASE Leave
    BY <2>4, EngineLeaves
  <2>5. CASE ResolveBltouchPins
    BY <2>5, EngineResolves
  <2>6. CASE UNCHANGED vars
    BY <2>6 DEF vars, EngineInv, TypeOK
  <2> QED
    BY <2>1, <2>2, <2>3, <2>4, <2>5, <2>6 DEF Next
<1> QED
  BY <1>1, <1>2, PTL DEF Spec

\* Whatever is answered, gone back from or run again, the wizard is coherent
\* (WizardRunner.run and rollback_to over the steps of the catalogue).
THEOREM WizardIsCoherentAlways ==
  ASSUME StartStep = "board"
  PROVE  Spec => []WizardIsCoherent
BY EngineStaysOnItsPath, EngineIsCoherent, PTL

=============================================================================
