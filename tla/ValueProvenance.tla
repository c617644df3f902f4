---- MODULE ValueProvenance ----
\* Where a generated value comes from (src/core/profile_values.py).  The wizard
\* leaves in the user data values, the provenance it knows of them, and receipts
\* of what the operator confirmed; the generator resolves them against the
\* selected board's example configuration and the loaded printer profile.
\*
\* One axis stands for all: the Z motors' current, mechanics and travel.  Numbers
\* are small naturals; travel starts at 0.  The steps run in any order, which
\* includes the wizard's, its way back, and data resumed after an update.
EXTENDS Integers, FiniteSets

CONSTANTS Boards,      \* example configurations, as fetched (a re-fetch may give another)
          Profiles,    \* printer profiles
          NoProfile,   \* Custom / Scratch Build
          BoardModel,  \* the driver its TMC sections are written for
          BoardSays,   \* what each board's sections state, by key
          ProfileSays, \* what each profile's sections state, by key
          Drivers,     \* driver types offered
          Currents, Distances, Travels, Endstops, \* what the operator may type
          MotorCounts

Absent == -1 \* no such entry

TmcKeys == {"run_current_z1", "hold_current_z1"}
Secondary == {"rotation_distance_z1", "gear_ratio_z1"}
Primary == {"rotation_distance_z", "gear_ratio_z"}
Direction == "homing_positive_dir_z"
SafeDefault == [rotation_distance_z |-> 8, rotation_distance_z1 |-> 8, gear_ratio_z |-> 1,
                gear_ratio_z1 |-> 1, z_size |-> 8, z_position_max |-> 8, z_position_endstop |-> 0]
Keys == DOMAIN SafeDefault \cup TmcKeys \cup {Direction}
Provenances == {"PROFILE", "USER_OVERRIDE", "SAFE_DEFAULT", "KLIPPER_DEFAULT", "INFERRED", "UNRESOLVED"}

ProvenanceAssumption ==
    /\ NoProfile \notin Profiles
    /\ Drivers \subseteq {"tmc2209", "tmc5160", "Standalone"}
    /\ BoardModel \in [Boards -> {"tmc2209", "tmc5160"}]
    /\ BoardSays \in [Boards -> [Keys -> Nat \cup {Absent}]]
    /\ ProfileSays \in [Profiles -> [Keys -> Nat \cup {Absent}]]
    /\ MotorCounts \subseteq 1..2
    /\ Currents \cup Distances \cup Travels \cup Endstops \subseteq Nat

VARIABLES user,   \* the user data
          typed,  \* history: under which circumstances each current was typed
          viewed, \* history: the primary mechanics shown at the last Z review
          edited  \* history: keys the operator has set since the profile was loaded
vars == <<user, typed, viewed, edited>>

Partner(k) == IF k = "rotation_distance_z1" THEN "rotation_distance_z" ELSE "gear_ratio_z"

\* float(max) of a driver: tmc5160 takes 10 A, every other model 2 A.
MaxCurrent(driver) == IF driver = "tmc5160" THEN 10 ELSE 2
TmcSettingValid(driver, a) == 0 < a /\ a <= MaxCurrent(driver)

\* The selected board supplies the driver circuit, and only under the section
\* named for the selected model; mechanics come from the profile, if there is one.
HasSection(u) == u.driver = BoardModel[u.board] /\ u.driver # "Standalone"
BoardValue(u, k) == IF HasSection(u) THEN BoardSays[u.board][k] ELSE Absent
ProfileSource(u) == IF u.profile = NoProfile THEN BoardSays[u.board] ELSE ProfileSays[u.profile]
SourceValue(u, k) == IF k \in TmcKeys THEN BoardValue(u, k) ELSE ProfileSource(u)[k]

\* Keys of absent motors, of driverless boards, and of sections that are only
\* commented examples are not resolved at all.
Resolvable(u, k) ==
    /\ k \in TmcKeys \cup Secondary => u.motors > 1
    /\ k \in TmcKeys => u.driver # "Standalone"
    /\ k = "run_current_z1" => HasSection(u)

----
\* Receipts (tmc_current_context, tmc_current_confirmation_matches)

\* Mutant: the context leaves out the number of motors and the profile.
NarrowContext(u) ==
    [board |-> u.board, driver |-> u.driver, circuit |-> [k \in TmcKeys |-> BoardValue(u, k)]]
Overrides(u) == [k \in {s \in Secondary : u.owner[s] = "USER_OVERRIDE"} |-> u.value[k]]
TmcCurrentContext(u) ==
    [board |-> u.board, driver |-> u.driver, profile |-> u.profile, motors |-> u.motors,
     circuit |-> [k \in TmcKeys |-> BoardValue(u, k)],
     source |-> [k \in Secondary |-> ProfileSource(u)[k]], overrides |-> Overrides(u)]
NoReceipt == [value |-> Absent]
ConfirmationMatches(u, k) ==
    u.receipts[k] = [value |-> u.value[k], context |-> TmcCurrentContext(u)]

----
\* resolve_generation_values

\* Mutant: a key marked as a default is one, whatever the sources state.
DefaultsAtTheirWord(u, k) ==
    IF u.owner[k] = "SAFE_DEFAULT" /\ k \in DOMAIN SafeDefault THEN "SAFE_DEFAULT"
    ELSE IF u.owner[k] = "USER_OVERRIDE" THEN "USER_OVERRIDE"
    ELSE IF u.owner[k] # "INFERRED" /\ SourceValue(u, k) # Absent THEN "PROFILE"
    ELSE IF k \in DOMAIN SafeDefault THEN "SAFE_DEFAULT" ELSE "UNRESOLVED"
\* The provenance of a key before the receipts and the limits are looked at.
Claim(u, k) ==
    LET stated == SourceValue(u, k) # Absent
    IN  IF k = "hold_current_z1" /\ ~stated /\ u.owner[k] # "USER_OVERRIDE" THEN "KLIPPER_DEFAULT"
        ELSE IF u.owner[k] = "USER_OVERRIDE"
             THEN IF u.value[k] # Absent THEN "USER_OVERRIDE" ELSE "UNRESOLVED"
        ELSE IF u.owner[k] = "INFERRED" THEN "UNRESOLVED" \* automatic is a policy: recomputed below
        ELSE IF stated THEN "PROFILE"
        ELSE IF u.owner[k] = "PROFILE" THEN "UNRESOLVED"
        ELSE IF k \in DOMAIN SafeDefault THEN "SAFE_DEFAULT" ELSE "UNRESOLVED"

Claimed(u, k) ==
    LET from == Claim(u, k)
    IN  IF from = "USER_OVERRIDE" THEN u.value[k]
        ELSE IF from = "PROFILE" THEN SourceValue(u, k)
        ELSE IF from = "SAFE_DEFAULT" THEN SafeDefault[k] ELSE Absent

\* The range is a matter of the model, whoever gave the value.
CurrentRefused(u, k) ==
    /\ k \in TmcKeys
    /\ \/ Claim(u, k) = "USER_OVERRIDE" /\ ~ConfirmationMatches(u, k)
       \/ Claimed(u, k) # Absent /\ ~TmcSettingValid(u.driver, Claimed(u, k))

\* An unstated maximum follows the size of the bed.
PositionMax(u) ==
    IF Claim(u, "z_position_max") = "SAFE_DEFAULT" THEN Claimed(u, "z_size")
    ELSE Claimed(u, "z_position_max")

\* Only an endstop in the outer quarters of the travel says which way to home.
InferHomingPositiveDir(endstop, max) ==
    IF endstop = Absent \/ max = Absent \/ max <= 0 \/ endstop > max THEN Absent
    ELSE IF 4 * endstop <= max THEN 0
    ELSE IF 4 * endstop >= 3 * max THEN 1 ELSE Absent
Inferred(u) == InferHomingPositiveDir(Claimed(u, "z_position_endstop"), PositionMax(u))

Provenance(u, k) ==
    IF CurrentRefused(u, k) THEN "UNRESOLVED"
    ELSE IF k = Direction /\ Claim(u, k) = "UNRESOLVED" /\ Inferred(u) # Absent THEN "INFERRED"
    ELSE Claim(u, k)
\* Mutant: an automatic direction is the one inferred when it was chosen.
CachedDirection(u, k) ==
    IF ~Resolvable(u, k) THEN Absent
    ELSE IF k = "z_position_max" THEN PositionMax(u)
    ELSE IF k = Direction /\ Claim(u, k) = "UNRESOLVED"
         THEN IF u.owner[k] = "INFERRED" THEN u.value[k] ELSE Inferred(u)
    ELSE Claimed(u, k)
Resolved(u, k) ==
    IF ~Resolvable(u, k) THEN Absent
    ELSE IF k = "z_position_max" THEN PositionMax(u)
    ELSE IF k = Direction /\ Claim(u, k) = "UNRESOLVED" THEN Inferred(u)
    ELSE Claimed(u, k)

----
\* Z mechanics (_validate_z_mechanics, z_mechanics_context, z_mechanics_confirmation_matches)

IndependentlyDefined(u) == ProfileSource(u)["rotation_distance_z1"] # Absent
\* Mutant: only the gears are compared.
GearsValid(u) ==
    ( /\ Resolvable(u, "gear_ratio_z1") /\ Provenance(u, "gear_ratio_z1") = "SAFE_DEFAULT"
      /\ ~IndependentlyDefined(u) )
    => Resolved(u, "gear_ratio_z") = SafeDefault["gear_ratio_z1"]
\* A default cannot speak for a second motor that is geared unlike the first; a
\* motor described on its own has its own contract, where no ratio means 1:1.
ZMechanicsValid(u) ==
    \A k \in Secondary :
        ( /\ Resolvable(u, k) /\ Provenance(u, k) = "SAFE_DEFAULT"
          /\ ~(k = "gear_ratio_z1" /\ IndependentlyDefined(u)) )
        => Resolved(u, Partner(k)) = SafeDefault[k]
\* Mutant: the receipt does not record what the second motor was compared with.
ContextWithoutPrimary(u) == [board |-> u.board, motors |-> u.motors]
ZMechanicsContext(u) ==
    [board |-> u.board, profile |-> u.profile, motors |-> u.motors,
     primary |-> [k \in Primary |-> Resolved(u, k)],
     source |-> [k \in Primary \cup Secondary |-> ProfileSource(u)[k]]]
NoReview == [owned |-> {}]
\* The values are compared apart from the context they were confirmed in.
ZConfirmationMatches(u) ==
    /\ u.review # NoReview
    /\ u.review.context = ZMechanicsContext(u)
    /\ u.review.values = [k \in Secondary |-> Resolved(u, k)]

----
\* The generator's gates, in the order of generate_config.
Accepted(u) ==
    /\ u.review = NoReview \/ ZConfirmationMatches(u)
    /\ ZMechanicsValid(u)
    /\ \A k \in Keys : Resolvable(u, k) => Provenance(u, k) # "UNRESOLVED"
    /\ Resolved(u, "z_size") <= Resolved(u, "z_position_max")
    /\ Resolved(u, "z_position_endstop") \in 0..Resolved(u, "z_position_max")

----
TypeOK ==
    /\ user.board \in Boards /\ user.profile \in Profiles \cup {NoProfile}
    /\ user.driver \in Drivers /\ user.motors \in MotorCounts
    /\ user.value \in [Keys -> Nat \cup {Absent}]
    /\ user.owner \in [Keys -> Provenances \cup {"none"}]
    /\ DOMAIN user.receipts = TmcKeys /\ edited \subseteq Keys

\* run_wizard: defaults, each marked as such.
Init ==
    /\ \E b \in Boards, n \in MotorCounts, d \in Drivers :
           user = [board |-> b, driver |-> d, profile |-> NoProfile, motors |-> n,
                   value |-> [k \in Keys |-> IF k \in {"z_size", "z_position_max", "z_position_endstop"}
                                             THEN SafeDefault[k] ELSE Absent],
                   owner |-> [k \in Keys |-> IF k \in {"z_size", "z_position_max", "z_position_endstop"}
                                             THEN "SAFE_DEFAULT" ELSE "none"],
                   receipts |-> [k \in TmcKeys |-> NoReceipt], review |-> NoReview]
    /\ typed = [k \in TmcKeys |-> {}]
    /\ viewed = [k \in Primary |-> Absent]
    /\ edited = {}

Became(u) == user' = u
Kept == UNCHANGED <<typed, viewed, edited>>

SelectBoard(b) == b # user.board /\ Became([user EXCEPT !.board = b]) /\ Kept
SelectDriver(d) == d # user.driver /\ Became([user EXCEPT !.driver = d]) /\ Kept
SelectMotors(n) == n # user.motors /\ Became([user EXCEPT !.motors = n]) /\ Kept
ScratchBuild ==
    user.profile # NoProfile /\ Became([user EXCEPT !.profile = NoProfile]) /\ Kept

\* Mutant: the marks of a profile replace the others instead of joining them.
ReplaceMarks(u, p) ==
    [u EXCEPT !.owner = [k \in {j \in Keys : ProfileSays[p][j] # Absent} |-> "PROFILE"]]
\* mark_profile_values claims every key a profile can state, whether or not it
\* does, except the homing direction.
MarkProfileValues(u, p) ==
    [u EXCEPT !.owner = [k \in Keys |->
        IF k = Direction THEN u.owner[k]
        ELSE IF ProfileSays[p][k] # Absent THEN "PROFILE" ELSE "SAFE_DEFAULT"]]

\* The profile's defaults overwrite the user data; size and maximum are one option.
\* A direction is asked for later, and going back to the profile takes it back.
LoadProfile(p) ==
    /\ p # user.profile /\ user.owner[Direction] = "none"
    /\ LET says(k) == IF ProfileSays[p][k] # Absent THEN ProfileSays[p][k]
                      ELSE IF k \in {"z_size", "z_position_max", "z_position_endstop"}
                           THEN SafeDefault[k] ELSE user.value[k]
       IN  Became(MarkProfileValues([user EXCEPT !.profile = p, !.value = [k \in Keys |-> says(k)]], p))
    /\ edited' = {}
    /\ UNCHANGED <<typed, viewed>>

MarkUserOverride(u, ks) == [u EXCEPT !.owner = [k \in Keys |-> IF k \in ks THEN "USER_OVERRIDE" ELSE @[k]]]

\* Without a profile the bed is asked for; a maximum that was the old size follows.
StepVolume(v) ==
    /\ user.profile = NoProfile
    /\ LET follows == user.value["z_position_max"] = user.value["z_size"]
       IN  Became(MarkUserOverride([user EXCEPT !.value["z_size"] = v,
                  !.value["z_position_max"] = IF follows THEN v ELSE @], {"z_size"}))
    /\ edited' = edited \cup {"z_size"}
    /\ UNCHANGED <<typed, viewed>>

StepLimits(max, endstop) ==
    /\ user.profile = NoProfile
    /\ Became(MarkUserOverride([user EXCEPT !.value["z_position_max"] = max,
              !.value["z_position_endstop"] = endstop], {"z_position_max", "z_position_endstop"}))
    /\ edited' = edited \cup {"z_position_max", "z_position_endstop"}
    /\ UNCHANGED <<typed, viewed>>

\* Automatic is offered only while it can be inferred from what is set now.
ApplyHomingDirection(u, mode) ==
    IF mode = "auto"
    THEN [u EXCEPT !.owner[Direction] = "INFERRED", !.value[Direction] =
             InferHomingPositiveDir(u.value["z_position_endstop"], u.value["z_position_max"])]
    ELSE MarkUserOverride([u EXCEPT !.value[Direction] = IF mode = "max" THEN 1 ELSE 0], {Direction})
StepHomingDirection(mode) ==
    /\ mode = "auto" => InferHomingPositiveDir(user.value["z_position_endstop"],
                                               user.value["z_position_max"]) # Absent
    /\ Became(ApplyHomingDirection(user, mode))
    /\ edited' = edited \cup {Direction}
    /\ UNCHANGED <<typed, viewed>>

\* _step_tmc_currents: everything unresolved is asked for, shown and accepted at
\* once; an optional setting may be left out.
Missing(u) == {k \in TmcKeys : Resolvable(u, k) /\ Provenance(u, k) = "UNRESOLVED"}
Answers(u) == {a \in [Missing(u) -> Currents \cup {Absent}] :
                  \A k \in Missing(u) : IF a[k] = Absent THEN k # "run_current_z1"
                                        ELSE TmcSettingValid(u.driver, a[k])}
Answered(u, a) ==
    LET given == {k \in DOMAIN a : a[k] # Absent}
        v == [u EXCEPT !.value = [k \in Keys |-> IF k \in DOMAIN a THEN a[k] ELSE @[k]],
                       !.owner = [k \in Keys |-> IF k \in given THEN "USER_OVERRIDE"
                                                 ELSE IF k \in DOMAIN a THEN "none" ELSE @[k]]]
    IN  [v EXCEPT !.receipts = [k \in TmcKeys |->
            IF k \in given THEN [value |-> a[k], context |-> TmcCurrentContext(v)]
            ELSE IF k \in DOMAIN a THEN NoReceipt ELSE @[k]]]
Circumstances(u) == [board |-> u.board, driver |-> u.driver, profile |-> u.profile,
                     motors |-> u.motors, mechanics |-> [k \in Secondary |-> Resolved(u, k)]]
StepTmcCurrents ==
    /\ Missing(user) # {}
    /\ \E a \in Answers(user) :
           LET u == Answered(user, a)
           IN  /\ Missing(u) = {}
               /\ Became(u)
               /\ typed' = [k \in TmcKeys |-> IF k \in DOMAIN a /\ a[k] # Absent
                                              THEN {Circumstances(u)} ELSE typed[k]]
               /\ edited' = edited \cup DOMAIN a
    /\ UNCHANGED viewed

\* A stale review takes back the values it had confirmed, if they are still its own.
ClearCopied(u) ==
    LET mine == {k \in Secondary : <<k, u.value[k]>> \in u.review.owned /\ u.owner[k] = "USER_OVERRIDE"}
    IN  [u EXCEPT !.review = NoReview,
                  !.value = [k \in Keys |-> IF k \in mine THEN Absent ELSE @[k]],
                  !.owner = [k \in Keys |-> IF k \in mine THEN "none" ELSE @[k]]]
CanKeep(u) == Provenance(u, "rotation_distance_z1") \in {"PROFILE", "USER_OVERRIDE"}
\* What the operator may choose for the second motor: [Secondary -> number], or keep.
Choices(u) == [Secondary -> Distances] \cup {[k \in Secondary |-> Resolved(u, Partner(k))]}
Chosen(u, choice, owned) ==
    [MarkUserOverride([u EXCEPT !.value = [k \in Keys |-> IF k \in Secondary THEN choice[k] ELSE @[k]]],
                      Secondary)
        EXCEPT !.review = [owned |-> owned \cup {<<k, choice[k]>> : k \in Secondary}]]
\* The staged data are resolved with every gate before they are shown and committed.
Confirmed(u, owned) ==
    LET v == [u EXCEPT !.review = NoReview]
    IN  [v EXCEPT !.review = [owned |-> owned, context |-> ZMechanicsContext(v),
                              values |-> [k \in Secondary |-> Resolved(v, k)]]]
ReviewZ ==
    /\ user.motors > 1
    /\ LET fresh == ZConfirmationMatches(user)
           base == IF fresh THEN [user EXCEPT !.review = NoReview] ELSE ClearCopied(user)
           kept == IF fresh THEN user.review.owned ELSE {}
       IN  /\ \A k \in Primary : Resolved(base, k) # Absent
           /\ \E v \in (IF CanKeep(base) THEN {[base EXCEPT !.review = [owned |-> kept]]} ELSE {})
                          \cup {Chosen(base, c, kept) : c \in Choices(base)} :
               /\ ZMechanicsValid(v)
               /\ \A k \in Keys \ (TmcKeys \cup {Direction}) : Provenance(v, k) # "UNRESOLVED"
               /\ Became(Confirmed(v, {o \in v.review.owned : v.value[o[1]] = o[2]}))
               /\ viewed' = [k \in Primary |-> Resolved(v, k)]
               /\ edited' = edited \cup {k \in Secondary : v.owner[k] = "USER_OVERRIDE"}
    /\ UNCHANGED typed

\* With one motor there is nothing to review: what a review left is taken back.
SkipZ ==
    /\ user.motors = 1 /\ user.review # NoReview
    /\ Became(ClearCopied(user))
    /\ Kept

Next ==
    \/ \E b \in Boards : SelectBoard(b)
    \/ \E d \in Drivers : SelectDriver(d)
    \/ \E n \in MotorCounts : SelectMotors(n)
    \/ \E p \in Profiles : LoadProfile(p)
    \/ ScratchBuild
    \/ \E v \in Travels : StepVolume(v)
    \/ \E max \in Travels, e \in Endstops : StepLimits(max, e)
    \/ Endstops # {} /\ \E mode \in {"auto", "min", "max"} : StepHomingDirection(mode)
    \/ StepTmcCurrents
    \/ Distances # {} /\ ReviewZ
    \/ SkipZ

Spec == Init /\ [][Next]_vars

----
\* Mechanics that were still open when a current was typed may have been settled
\* since.
SameCircumstances(c, d) ==
    /\ <<c.board, c.driver, c.profile, c.motors>> = <<d.board, d.driver, d.profile, d.motors>>
    /\ \A k \in Secondary : c.mechanics[k] \in {Absent, d.mechanics[k]}

\* A generated current is either the one the selected board states for the
\* selected driver, or one typed for exactly this board, driver, profile, number
\* of motors and mechanics: a profile, or a circuit chosen since, never lends one.
CurrentBelongsToCircuit ==
    Accepted(user) => \A k \in TmcKeys : Resolved(user, k) # Absent =>
        \/ Resolved(user, k) = BoardValue(user, k)
        \/ \E c \in typed[k] : SameCircumstances(c, Circumstances(user))

\* What the loaded profile, or without one the board, states is generated unless
\* the operator has set it since: no default, and nothing typed for an earlier
\* profile, hides it.
SourceIsNotHidden ==
    Accepted(user) => \A k \in Keys \ (TmcKeys \cup edited) :
        (Resolvable(user, k) /\ ProfileSource(user)[k] # Absent)
        => Resolved(user, k) = ProfileSource(user)[k]

\* A reviewed second Z motor is generated only beside the primary mechanics the
\* operator had on the screen when confirming it.
ReviewedBesideThisPrimary ==
    (user.review # NoReview /\ Accepted(user)) => viewed = [k \in Primary |-> Resolved(user, k)]

\* A generic default never makes two coupled Z motors travel different distances
\* per step: it is generated only where the primary has the same value, or as the
\* ratio of a motor whose own section leaves it out.
DefaultMovesWithPrimary ==
    (user.motors > 1 /\ Accepted(user)) => \A k \in Secondary :
        Provenance(user, k) = "SAFE_DEFAULT" =>
            \/ Resolved(user, k) = Resolved(user, Partner(k))
            \/ k = "gear_ratio_z1" /\ IndependentlyDefined(user)

\* An automatic homing direction leads to the end of the generated travel the
\* generated endstop stands at, whatever was edited since automatic was chosen.
AutomaticHomesToEndstop ==
    (user.owner[Direction] = "INFERRED" /\ Accepted(user)) =>
        LET endstop == Resolved(user, "z_position_endstop")
            max == Resolved(user, "z_position_max")
        IN  IF Resolved(user, Direction) = 0 THEN endstop < max - endstop ELSE max - endstop < endstop
====
