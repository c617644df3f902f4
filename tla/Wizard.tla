---- MODULE Wizard ----
\* The runner of the configuration wizard (src/core/wizard/runner.py) over the
\* steps of WizardSteps.  Before a step runs, the runner keeps a deep copy of
\* the user data; Back and "run again" restore the copy of the step they return
\* to and drop that step and all later ones from the history.
EXTENDS WizardSteps, SequencesExt

CONSTANT StartStep   \* the step the wizard is entered at

VARIABLES current,    \* the step about to be run, or Nothing at the end
          userData,   \* what the answers have put together so far
          history,    \* the answered steps that lead to current, oldest first
          snapshots,  \* the user data each of them was entered with
          completed,  \* the phases announced as complete
          status,     \* "running", "finished", "left"; "resolved" after the BLTouch pins
          answer,     \* the last answer that was given
          backFrom    \* the question the operator last went back from, until another one is asked

vars == <<current, userData, history, snapshots, completed, status, answer, backFrom>>

PhaseOrder == <<"Hardware", "Motion", "Sensors", "Software">>
PhaseNumber(s) ==
    CASE s \in Hardware -> 1 [] s \in Motion -> 2 [] s \in Sensors -> 3 [] s \in Software -> 4

ASSUME StartAssumption == StartStep \in Steps

TypeOK ==
    /\ current \in Steps \cup {Nothing}
    /\ userData \in UserData
    /\ history \in Seq(Steps) /\ IsInjective(history)
    /\ DOMAIN snapshots \subseteq Steps /\ (\A s \in DOMAIN snapshots : snapshots[s] \in UserData)
    /\ completed \subseteq 1..Len(PhaseOrder)
    /\ status \in {"running", "finished", "left", "resolved"}
    /\ backFrom \in Steps \cup {Nothing}

Init ==
    /\ current = StartStep /\ userData = InitialDefaults
    /\ history = <<>> /\ snapshots = <<>> /\ completed = {}
    /\ status = "running" /\ answer = Nothing /\ backFrom = Nothing

----
\* A step that can do only one thing asks nothing.
Silent(s, d) == Cardinality(Outcomes(s, d)) = 1

Entered == [s \in DOMAIN snapshots \cup {current} |->
                IF s = current THEN userData ELSE snapshots[s]]

\* Entering a later phase for the first time completes the phase of the last step.
PhasesCompleted ==
    IF history # <<>> /\ PhaseNumber(Last(history)) < PhaseNumber(current)
    THEN completed \cup {PhaseNumber(Last(history))} ELSE completed

\* The history up to a step, without it.
HistoryBefore(s) == IF s \in ToSet(history) THEN SubSeq(history, 1, SelectInSeq(history, LAMBDA x : x = s) - 1) ELSE history

HistoryAfter(s) == IF s \in ToSet(history) THEN history ELSE Append(history, s)

\* Mutant: the copy is dropped without restoring the user data.
RollbackForgets(s, d) ==
    /\ userData' = d
    /\ history' = HistoryBefore(s)
    /\ snapshots' = [x \in DOMAIN Entered \cap ToSet(HistoryBefore(s)) |-> Entered[x]]
    /\ completed' = {p \in PhasesCompleted : p < PhaseNumber(s)}

\* Mutant: the copies of the steps that were left stay behind.
RollbackKeepsCopies(s, d) ==
    /\ userData' = IF s \in DOMAIN Entered THEN Entered[s] ELSE d
    /\ history' = HistoryBefore(s)
    /\ snapshots' = Entered
    /\ completed' = {p \in PhasesCompleted : p < PhaseNumber(s)}

\* Mutant: the phase of the step returned to stays complete.
RollbackKeepsPhase(s, d) ==
    /\ userData' = IF s \in DOMAIN Entered THEN Entered[s] ELSE d
    /\ history' = HistoryBefore(s)
    /\ snapshots' = [x \in DOMAIN Entered \cap ToSet(HistoryBefore(s)) |-> Entered[x]]
    /\ completed' = PhasesCompleted

\* rollback_to(s) after the prompt left the user data in the state d
RollbackTo(s, d) ==
    /\ userData' = IF s \in DOMAIN Entered THEN Entered[s] ELSE d
    /\ history' = HistoryBefore(s)
    /\ snapshots' = [x \in DOMAIN Entered \cap ToSet(HistoryBefore(s)) |-> Entered[x]]
    /\ completed' = {p \in PhasesCompleted : p < PhaseNumber(s)}

\* Mutant: the sockets of several Z motors are never asked for.
RouteMissesSockets(s, ans, d) == IF s = "z_motors" THEN "driver_type" ELSE NextStep(s, ans, d)

\* Mutant: the review of the custom probe goes back to its assembly.
RouteLoops(s, ans, d) == IF s = "custom_probe_review" THEN "custom_probe" ELSE NextStep(s, ans, d)

Route(s, ans, d) == NextStep(s, ans, d)

----
\* The prompt answered: the step joins the history and its route is followed.
Answer ==
    /\ status = "running"
    /\ \E o \in Outcomes(current, userData) :
          /\ o.kind = "answered"
          /\ userData' = o.data
          /\ current' = Route(current, o.ans, o.data)
          /\ status' = IF current' = Nothing THEN "finished" ELSE "running"
          /\ answer' = o.ans
    /\ history' = HistoryAfter(current)
    /\ snapshots' = Entered
    /\ completed' = PhasesCompleted
    /\ backFrom' = IF Silent(current, userData) THEN backFrom ELSE Nothing

\* Back returns to the last answered step; with none, the step just runs again
\* with whatever the abandoned prompt stored.
Back ==
    /\ status = "running"
    /\ \E o \in Outcomes(current, userData) :
          /\ o.kind = "back"
          /\ IF history # <<>>
             THEN /\ RollbackTo(Last(history), o.data)
                  /\ current' = Last(history)
                  /\ backFrom' = current
             ELSE /\ userData' = o.data
                  /\ snapshots' = Entered
                  /\ completed' = PhasesCompleted
                  /\ UNCHANGED <<history, current, backFrom>>
    /\ answer' = Nothing
    /\ UNCHANGED status

RunAgain ==
    /\ status = "running"
    /\ \E o \in Outcomes(current, userData) :
          o.kind = "retry" /\ RollbackTo(current, o.data)
    /\ answer' = Nothing
    /\ UNCHANGED <<current, status, backFrom>>

\* WizardExit, Ctrl+C or an error of the step: the wizard is over without a result.
Leave ==
    /\ status = "running"
    /\ \E o \in Outcomes(current, userData) :
          o.kind = "left" /\ userData' = o.data /\ answer' = o.ans
    /\ status' = "left"
    /\ snapshots' = Entered
    /\ completed' = PhasesCompleted
    /\ UNCHANGED <<current, history, backFrom>>

\* After the wizard: a BLTouch without both pins is asked for them once more.
ResolveBltouchPins ==
    /\ status = "finished"
    /\ \/ /\ userData.probe # "bltouch" \/ ~NeedsBltouchPins(userData) \/ userData.blt = "both"
          /\ status' = "resolved" /\ UNCHANGED userData
       \/ /\ userData.probe = "bltouch" /\ NeedsBltouchPins(userData) /\ userData.blt # "both"
          /\ \/ status' = "resolved" /\ userData' = [userData EXCEPT !.blt = "both"]
             \/ status' = "left" /\ UNCHANGED userData
    /\ UNCHANGED <<current, history, snapshots, completed, answer, backFrom>>

Next == Answer \/ Back \/ RunAgain \/ Leave \/ ResolveBltouchPins
Spec == Init /\ [][Next]_vars

\* The operator keeps answering: nothing else is asked of the runner.
FairSpec == Spec /\ WF_vars(Answer) /\ WF_vars(ResolveBltouchPins)

----
Walked == ToSet(history) \cup {current}

\* Which steps can have put a part of the user data there.
Writers ==
    [board |-> {"board"}, fans |-> {"fan_assignment"}, z |-> {"z_motors"},
     sockets |-> {"z_socket_assignment"}, type |-> {"driver_type"}, mode |-> {"driver_mode"},
     profile |-> {"printer_profile"}, loaded |-> {"printer_profile"}, auth |-> {"profile_review"},
     homing |-> {"homing_directions"}, zmech |-> {"z_mechanics"}, currents |-> {"tmc_currents"},
     probe |-> {"probe"}, offsets |-> {"custom_probe_offset_preview", "probe_offsets"},
     guided |-> {"custom_probe_pin"}, custom |-> {"custom_probe"}, display |-> {"display"},
     web |-> {"web_ui"}]

\* No answer of an abandoned branch survives: whatever differs from the defaults
\* was put there by a step on the path from the first step to the current one,
\* and every value a profile filled in comes from a profile on that path
\* (WizardRunner.rollback_to after Back, over steps that mutate the data in place).
AnswersAreOnThePath ==
    status \in {"running", "finished"} =>
      /\ \A part \in DOMAIN Writers :
            userData[part] # InitialDefaults[part] => Writers[part] \cap Walked # {}
      /\ \A s \in ValueSteps :
            /\ userData.value[s] = "profile" => "printer_profile" \in Walked
            /\ userData.value[s] = "user" => Walked \cap {s, "profile_review", "probe_homing"} # {}

\* What the wizard hands to the generator fits together, whatever route of
\* answers, Backs and repeats led there: a communication mode only for a TMC
\* driver, sockets and confirmed mechanics for every additional Z motor, every
\* dimension answered or from a confirmed profile, the whole of the chosen probe
\* and nothing of another one, and a Z range in which the probe triggers.
ResultIsCoherent ==
    status = "finished" =>
      /\ (userData.mode # "Standalone" => IsTmc(userData))
      /\ (userData.z > 1 => userData.sockets \in {"reused", "custom"} /\ userData.zmech = "confirmed")
      /\ (userData.z <= 1 => userData.sockets = Nothing /\ userData.zmech = Nothing)
      /\ \A s \in ValueSteps : userData.value[s] = "user" \/ (userData.auth /\ userData.loaded)
      /\ (userData.probe = "custom") = (userData.custom = "built")
      /\ (userData.probe = "custom" => GuidedValues \cup SignalOptions \subseteq userData.guided)
      /\ (userData.probe # "none" => userData.offsets = "given" /\ userData.fits)
      /\ (userData.probe = "bltouch" /\ NeedsBltouchPins(userData) => userData.blt = "both")

\* The copies the runner keeps are exactly those of the path: one for every
\* answered step, none for a branch that was left (the clean-up in rollback_to);
\* at the first step, Back keeps the copy of the step that runs again.
CopiesFollowThePath ==
    status = "running" =>
      /\ ToSet(history) \subseteq DOMAIN snapshots
      /\ DOMAIN snapshots \subseteq ToSet(history) \cup (IF history = <<>> THEN {current} ELSE {})

\* Only phases behind the current step count as complete, also after going
\* back across a phase boundary and taking another route.
CompletedPhasesAreBehind ==
    status = "running" => \A p \in completed : p < PhaseNumber(current)

\* Whatever was repeated and gone back from, the answers, the copies and the
\* completed phases are those of the path that led to the question, and the
\* result lacks nothing that the choices in it ask for (wizard/runner.py).
WizardIsCoherent ==
    /\ TypeOK /\ AnswersAreOnThePath /\ ResultIsCoherent
    /\ CopiesFollowThePath /\ CompletedPhasesAreBehind

\* "Selecting '__quit__' (the Quit menu item) must raise WizardExit" (tests/unit/test_regressions.py:73)
QuitLeaves == answer = Quit => status = "left"

\* Back leads to an earlier question: the one it was chosen at is not asked
\* again before another one was ("Bug-001: Wizard back-navigation loop in
\* single-Z", tests/unit/test_regressions.py:227).
BackLeadsToAnEarlierQuestion ==
    backFrom # Nothing /\ status = "running" => current # backFrom

\* An operator who from some point on only answers gets to the end of the
\* wizard: no route of the catalogue loops, and no step refuses every answer.
AnsweringFinishes ==
    <>[][Answer \/ ResolveBltouchPins \/ Leave]_vars => <>(status \in {"resolved", "left"})

====
