---- MODULE WizardSteps ----
\* The steps of the configuration wizard (src/core/wizard/steps/*.py and the
\* catalogue in src/core/wizard/__init__.py).  A step is a function of the
\* user data: Outcomes(step, d) is the set of everything one run of its prompt
\* can do, each outcome carrying the user data as the prompt leaves them, also
\* when it goes back, asks to be run again, or leaves the wizard half-way.
\*
\* Of the answers the model keeps what routes the wizard and what the later
\* steps read: a number that was typed is the provenance it now has.
EXTENDS Naturals, FiniteSets

CONSTANTS Boards,        \* the boards of the catalogue that matter here
          FanBoards,     \* those whose configuration names fan outputs
          BltouchBoards, \* those whose configuration names both BLTouch pins
          CurrentBoards, \* those whose configuration gives the TMC currents
          OpenBoards,    \* neither integrated nor socketed drivers: a driverless answer is confirmed
          BrokenBoards,  \* boards whose contract authority cannot be resolved
          ZCounts,       \* numbers of Z motors offered
          Drivers,       \* driver types offered
          Profiles,      \* printer profiles offered (Custom is always offered)
          Probes         \* probe kinds offered

ASSUME BoardsAssumption ==
    /\ FanBoards \cup BltouchBoards \cup CurrentBoards \cup OpenBoards
         \cup BrokenBoards \subseteq Boards
    /\ ZCounts \subseteq 1..4
    /\ Drivers \subseteq {"standard", "A4988", "TMC2209"}
    /\ Probes \subseteq {"none", "bltouch", "inductive", "custom"}

Nothing == "nothing"
Quit == "__quit__"

\* The steps whose answer is a value with a provenance.
Volumes == {"x_volume", "y_volume", "z_volume"}
Limits == {"x_limits", "y_limits", "z_limits"}
Thermistors == {"hotend_therm", "bed_therm"}
ValueSteps == {"kinematics"} \cup Volumes \cup Limits \cup Thermistors

\* The numbers the guided custom probe asks for one by one, and its two signal options.
GuidedValues == {"custom_probe_z_offset", "custom_probe_speed", "custom_probe_samples",
                 "custom_probe_samples_result", "custom_probe_samples_tolerance",
                 "custom_probe_samples_tolerance_retries", "custom_probe_sample_retract_dist"}
SignalOptions == {"custom_probe_pullup", "custom_probe_inverted"}

Provenances == {"default", "profile", "user"}

UserData == [board: Boards \cup {Nothing}, raw: BOOLEAN, fans: {Nothing, "assigned"},
             z: ZCounts \cup {0}, sockets: {Nothing, "partial", "reused", "custom"},
             type: Drivers \cup {Nothing}, mode: {"UART", "Standalone"},
             profile: Profiles \cup {"custom", Nothing}, loaded: BOOLEAN, auth: BOOLEAN,
             value: [ValueSteps -> Provenances], fits: BOOLEAN, homing: {Nothing, "reviewed"},
             zmech: {Nothing, "confirmed"}, currents: {Nothing, "reviewed"},
             probe: Probes \cup {"none"}, blt: {Nothing, "sensor", "both"},
             offsets: {Nothing, "given"}, guided: SUBSET (GuidedValues \cup SignalOptions \cup {"custom_probe_pin"}),
             custom: {Nothing, "built"}, display: {Nothing, "chosen"}, web: {Nothing, "chosen"}]

InitialDefaults ==
    [board |-> Nothing, raw |-> FALSE, fans |-> Nothing, z |-> 0, sockets |-> Nothing,
     type |-> Nothing, mode |-> "Standalone", profile |-> Nothing, loaded |-> FALSE,
     auth |-> FALSE, value |-> [s \in ValueSteps |-> "default"], fits |-> TRUE,
     homing |-> Nothing, zmech |-> Nothing, currents |-> Nothing, probe |-> "none",
     blt |-> Nothing, offsets |-> Nothing, guided |-> {}, custom |-> Nothing,
     display |-> Nothing, web |-> Nothing]

----
\* What one run of a prompt did: it answered, asked for the step before it, for
\* another run of itself, or left the wizard (WizardExit or an error).
Answered(a, d) == [kind |-> "answered", ans |-> a, data |-> d]
WentBack(d) == [kind |-> "back", ans |-> Nothing, data |-> d]
Retry(d) == [kind |-> "retry", ans |-> Nothing, data |-> d]
Left(d) == [kind |-> "left", ans |-> Nothing, data |-> d]
QuitChosen(d) == [kind |-> "left", ans |-> Quit, data |-> d]

\* A numbered menu with a Back and a Quit entry, and a closed prompt.
Menu(d) == {WentBack(d), QuitChosen(d), Left(d)}
\* A text prompt that takes "<" for Back; Ctrl+C leaves.
Text(d) == {WentBack(d), Left(d)}

----
\* Hardware (steps/hardware.py)

\* The board is stored before its contract authority is resolved; a failure of
\* the resolution propagates.  An abandoned search runs the step again.
StepBoard(d) ==
    Menu(d) \cup {Retry(d)}
    \cup {Left([d EXCEPT !.board = b]) : b \in BrokenBoards}
    \cup {Answered(b, [d EXCEPT !.board = b, !.raw = fetched]) :
              b \in Boards \ BrokenBoards, fetched \in BOOLEAN}

HasFanOptions(d) == d.raw /\ d.board \in FanBoards

\* Back and Quit are both returned to the runner, which knows only Back.
StepFanAssignment(d) ==
    IF ~HasFanOptions(d) THEN {Answered("success", d)}
    ELSE {WentBack(d), Answered(Quit, d), Left(d), Retry(d),
          Answered("success", [d EXCEPT !.fans = "assigned"])}

StepZMotors(d) ==
    Menu(d) \cup {Answered(IF n = 1 THEN "single" ELSE "several", [d EXCEPT !.z = n]) : n \in ZCounts}

\* A Back in a later question abandons a pin map that is already half changed.
StepZSockets(d) ==
    IF d.z <= 1 THEN {Answered("__skip__", d)}
    ELSE Text(d) \cup {Answered("done", [d EXCEPT !.sockets = s]) : s \in {"reused", "custom"}}
         \cup {WentBack([d EXCEPT !.sockets = "partial"])}

IsTmc(d) == d.type = "TMC2209"
StepDriverType(d) ==
    Menu(d) \cup {Answered(t, [d EXCEPT !.type = t]) : t \in Drivers}
    \cup (IF d.board \in OpenBoards /\ "standard" \in Drivers THEN {Retry(d)} ELSE {})

StepDriverMode(d) ==
    Menu(d) \cup {Answered(m, [d EXCEPT !.mode = m]) : m \in {"UART", "Standalone"}}

\* Works on a copy and commits it only when everything missing was confirmed.
NeedsUartPin(d) == IsTmc(d) /\ d.mode = "UART" /\ d.sockets = "custom"
MissingCurrents(d) == IsTmc(d) /\ d.mode # "Standalone" /\ d.board \notin CurrentBoards
StepTmcCurrents(d) ==
    IF NeedsUartPin(d) \/ MissingCurrents(d)
    THEN Text(d) \cup {Retry(d), Answered("done", [d EXCEPT !.currents = "reviewed"])}
    ELSE {Answered("done", d)}

----
\* Motion (steps/motion.py)

\* A profile fills the values, a scratch build keeps them.  An unsupported
\* kinematics is found after the name and the raw text were stored.
ScratchBuild(d) == [d EXCEPT !.profile = "custom", !.loaded = FALSE]
LoadProfile(d, p, f) ==
    [d EXCEPT !.profile = p, !.loaded = TRUE, !.fits = f,
              !.value = [s \in ValueSteps |-> "profile"]]
StepPrinterProfile(d) ==
    Menu(d) \cup {Retry(d), Answered("custom", ScratchBuild(d))}
    \cup {Retry([d EXCEPT !.profile = p]) : p \in Profiles}
    \cup {Answered(p, LoadProfile(d, p, f)) : p \in Profiles, f \in BOOLEAN}

\* The editor stages its changes: they reach the user data when they are saved
\* after a validation, and are dropped when the editor is left by Back.
EditedProfiles(d) ==
    {[d EXCEPT !.value[s] = "user", !.fits = f] : s \in {"kinematics", "z_limits"}, f \in BOOLEAN}
StepProfileReview(d) ==
    {Left(d), WentBack([d EXCEPT !.loaded = FALSE]), Answered("confirm", [d EXCEPT !.auth = TRUE])}
    \cup {Answered("confirm", [e EXCEPT !.auth = TRUE]) : e \in EditedProfiles(d)}

\* Kinematics, the volumes and the thermistors are not asked again once the
\* profile that holds them was confirmed.
StepValue(s, d) ==
    IF d.auth THEN {Answered("kept", d)}
    ELSE {Answered("given", [d EXCEPT !.value[s] = "user"])}
         \cup (IF s \in Volumes THEN Text(d) ELSE Menu(d))
         \cup (IF s \in Thermistors THEN {Retry(d)} ELSE {})

\* Minimum, maximum, endstop: each is stored as it is typed, and Back in the
\* first of them abandons the ones already stored in this run.
StepLimits(s, d) ==
    Text(d) \cup {WentBack([d EXCEPT !.value[s] = "user"])}
    \cup {Answered("done", [d EXCEPT !.value[s] = "user", !.fits = f]) :
              f \in IF s = "z_limits" THEN BOOLEAN ELSE {d.fits}}

\* Mutant: an abandoned review of the axes is committed as far as it went.
HomingPartly(d) ==
    Menu([d EXCEPT !.homing = "partial"]) \cup {Answered("done", [d EXCEPT !.homing = "reviewed"])}

\* Commits only after the three axes were reviewed.
StepHomingDirections(d) ==
    Menu(d) \cup {Answered("done", [d EXCEPT !.homing = "reviewed"])}

StepZMechanics(d) ==
    IF d.z <= 1 THEN {Answered("__skip__", [d EXCEPT !.zmech = Nothing])}
    ELSE Menu(d) \cup {Retry(d), Answered("done", [d EXCEPT !.zmech = "confirmed"])}

----
\* Sensors (steps/sensors.py, steps/probe_homing.py)

StepProbe(d) == Menu(d) \cup {Answered(p, [d EXCEPT !.probe = p]) : p \in Probes}

StepProbePin(d) ==
    Menu(d) \cup {Retry(d), Answered("done", [d EXCEPT !.guided = @ \cup {"custom_probe_pin"}])}

\* A yes/no question has no Back.
StepSignalOption(s, d) == {Left(d), Answered("done", [d EXCEPT !.guided = @ \cup {s}])}

StepGuidedValue(s, d) ==
    Text(d) \cup {Answered("done", [d EXCEPT !.guided = @ \cup {s}, !.fits = f]) :
                     f \in IF s = "custom_probe_z_offset" THEN {d.fits, FALSE} ELSE {d.fits}}

\* The offsets of a probe, asked with the live preview.
StepOffsets(d) == Menu(d) \cup {Answered("done", [d EXCEPT !.offsets = "given"])}

\* Assembles the probe section from the answers; asks nothing.
StepCustomProbe(d) ==
    IF "custom_probe_pin" \in d.guided /\ d.offsets = "given"
    THEN {Answered("done", [d EXCEPT !.custom = "built"])}
    ELSE {Retry(d)}
StepCustomProbeReview(d) == {IF d.custom = "built" THEN Answered("done", d) ELSE Retry(d)}

NeedsBltouchPins(d) == d.board \notin BltouchBoards
StepBltouchPins(d) ==
    Text(d) \cup {WentBack([d EXCEPT !.blt = "sensor"]), Answered("done", [d EXCEPT !.blt = "both"])}

\* A probe that homes Z must trigger inside the Z range; nothing is asked when it does.
StepProbeHoming(d) ==
    IF d.probe = "none" \/ d.fits THEN {Answered("done", d)}
    ELSE {WentBack(d), Left(d),
          Answered("done", [d EXCEPT !.fits = TRUE, !.value["z_limits"] = "user"])}

----
\* Software (steps/software.py)
StepDisplay(d) == Menu(d) \cup {Answered("display", [d EXCEPT !.display = "chosen"])}
StepWebUi(d) == Menu(d) \cup {Answered("web", [d EXCEPT !.web = "chosen"])}

----
\* The catalogue: every step with its prompt ...
HardwareOutcomes(s, d) ==
    CASE s = "board" -> StepBoard(d)
      [] s = "fan_assignment" -> StepFanAssignment(d)
      [] s = "z_motors" -> StepZMotors(d)
      [] s = "z_socket_assignment" -> StepZSockets(d)
      [] s = "driver_type" -> StepDriverType(d)
      [] s = "driver_mode" -> StepDriverMode(d)
      [] s = "tmc_currents" -> StepTmcCurrents(d)
MotionOutcomes(s, d) ==
    CASE s = "printer_profile" -> StepPrinterProfile(d)
      [] s = "profile_review" -> StepProfileReview(d)
      [] s \in Limits -> StepLimits(s, d)
      [] s = "homing_directions" -> StepHomingDirections(d)
      [] s = "z_mechanics" -> StepZMechanics(d)
      [] s \in ValueSteps \ Limits -> StepValue(s, d)
ProbeOutcomes(s, d) ==
    CASE s = "probe" -> StepProbe(d)
      [] s = "custom_probe_pin" -> StepProbePin(d)
      [] s \in SignalOptions -> StepSignalOption(s, d)
      [] s \in GuidedValues -> StepGuidedValue(s, d)
      [] s \in {"custom_probe_offset_preview", "probe_offsets"} -> StepOffsets(d)
      [] s = "custom_probe" -> StepCustomProbe(d)
      [] s = "custom_probe_review" -> StepCustomProbeReview(d)
      [] s = "bltouch_pins" -> StepBltouchPins(d)
      [] s = "probe_homing" -> StepProbeHoming(d)

Hardware == {"board", "fan_assignment", "z_motors", "z_socket_assignment", "driver_type", "driver_mode"}
Motion == {"printer_profile", "profile_review", "kinematics", "homing_directions", "z_mechanics",
           "tmc_currents"} \cup Volumes \cup Limits
ProbeSteps == {"probe", "custom_probe_pin", "custom_probe_offset_preview", "custom_probe",
               "custom_probe_review", "bltouch_pins", "probe_offsets", "probe_homing"}
                 \cup SignalOptions \cup GuidedValues
Sensors == ProbeSteps \cup Thermistors
Software == {"display", "web_ui"}
Steps == Hardware \cup Motion \cup Sensors \cup Software

Outcomes(s, d) ==
    CASE s \in Hardware \cup {"tmc_currents"} -> HardwareOutcomes(s, d)
      [] s \in (Motion \ {"tmc_currents"}) \cup Thermistors -> MotionOutcomes(s, d)
      [] s \in ProbeSteps -> ProbeOutcomes(s, d)
      [] s = "display" -> StepDisplay(d)
      [] s = "web_ui" -> StepWebUi(d)

\* ... and the step that follows its answer.
DefaultNext ==
    [kinematics |-> "x_volume", x_volume |-> "y_volume", y_volume |-> "z_volume",
     z_volume |-> "x_limits", x_limits |-> "y_limits", y_limits |-> "z_limits",
     z_limits |-> "homing_directions", homing_directions |-> "z_mechanics",
     z_mechanics |-> "tmc_currents", tmc_currents |-> "probe",
     fan_assignment |-> "z_motors", z_socket_assignment |-> "driver_type",
     driver_mode |-> "printer_profile", profile_review |-> "homing_directions",
     custom_probe_pin |-> "custom_probe_pullup", custom_probe_pullup |-> "custom_probe_inverted",
     custom_probe_inverted |-> "custom_probe_offset_preview",
     custom_probe_offset_preview |-> "custom_probe_z_offset",
     custom_probe_z_offset |-> "custom_probe_speed", custom_probe_speed |-> "custom_probe_samples",
     custom_probe_samples |-> "custom_probe_samples_result",
     custom_probe_samples_result |-> "custom_probe_samples_tolerance",
     custom_probe_samples_tolerance |-> "custom_probe_samples_tolerance_retries",
     custom_probe_samples_tolerance_retries |-> "custom_probe_sample_retract_dist",
     custom_probe_sample_retract_dist |-> "custom_probe", custom_probe |-> "custom_probe_review",
     custom_probe_review |-> "probe_homing", bltouch_pins |-> "probe_offsets",
     probe_offsets |-> "probe_homing", probe_homing |-> "hotend_therm",
     hotend_therm |-> "bed_therm", bed_therm |-> "display", display |-> "web_ui",
     web_ui |-> Nothing]

AfterProbe(ans, d) ==
    CASE ans = "none" -> "hotend_therm"
      [] ans = "custom" -> "custom_probe_pin"
      [] ans = "bltouch" /\ NeedsBltouchPins(d) -> "bltouch_pins"
      [] ans = "inductive" \/ (ans = "bltouch" /\ ~NeedsBltouchPins(d)) -> "probe_offsets"

NextStep(s, ans, d) ==
    CASE s = "board" -> IF HasFanOptions(d) THEN "fan_assignment" ELSE "z_motors"
      [] s = "z_motors" -> IF ans = "single" THEN "driver_type" ELSE "z_socket_assignment"
      [] s = "driver_type" -> IF ans \in {"standard", "A4988"} THEN "printer_profile" ELSE "driver_mode"
      [] s = "printer_profile" -> IF d.loaded THEN "profile_review" ELSE "kinematics"
      [] s = "probe" -> AfterProbe(ans, d)
      [] s \in DOMAIN DefaultNext -> DefaultNext[s]

====
