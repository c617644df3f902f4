---------------------------- MODULE PowerControl ----------------------------
(***************************************************************************)
(* The printer's relay: core/power_config.py decides whether there is a    *)
(* controller, MoonrakerPowerController switches and confirms, and         *)
(* ManualRelayControl of core/power_controller.py reports to the operator. *)
(* Moonraker and its other clients switch the relay meanwhile.             *)
(***************************************************************************)
EXTENDS Naturals

CONSTANTS
    None,           \* no value
    MaxEvents       \* bound on what other clients and Moonraker do

VARIABLES
    file,           \* the power configuration on disk
    control,        \* "unread", "none", "ready" or "refused"
    relay,          \* "on", "off", "init" or "error"
    api,            \* Moonraker answers
    pc, action,     \* position of the request, and what it asks for
    late,           \* the deadline of the current wait has passed
    result,         \* the last ManualPowerResult
    switched,       \* this program has switched the relay
    events

vars == <<file, control, relay, api, pc, action, late, result, switched, events>>

\* What a configuration file may hold: well-formed values, wrong ones, none.
Fields == {"well", "wrong", None}
Config == [schema : {"current", "legacy", "other"}, complete : BOOLEAN,
           typed : BOOLEAN, enabled : BOOLEAN, device : Fields, pin : Fields]

-----------------------------------------------------------------------------
(* power_config_from_mapping, validated and load_power_config.             *)

\* Mutant: the device of a legacy file is taken as it is.
ValidNow(c) ==
    IF c.schema = "legacy" THEN c.typed
    ELSE /\ c.schema = "current" /\ c.complete /\ c.typed
         /\ c.enabled => c.device = "well" /\ c.pin = "well"
         /\ ~c.enabled => c.device = None /\ c.pin = None

Valid(c) ==
    IF c.schema = "legacy" THEN c.typed /\ (c.enabled => c.device = "well")
    ELSE /\ c.schema = "current" /\ c.complete /\ c.typed
         /\ c.enabled => c.device = "well" /\ c.pin = "well"
         /\ ~c.enabled => c.device = None /\ c.pin = None

Init ==
    /\ file \in [kind : {"missing", "unreadable"}, data : {None}]
                \cup [kind : {"mapping"}, data : Config]
    /\ control = "unread" /\ relay \in {"on", "off", "init", "error"}
    /\ api = TRUE /\ pc = "idle" /\ action = None /\ late = FALSE
    /\ result = None /\ switched = FALSE /\ events = 0

\* configured_manual_relay_control: a missing file disables the relay, an
\* invalid one is an error.
Configure ==
    /\ control = "unread"
    /\ control' = CASE file.kind = "missing" -> "none"
                    [] file.kind = "unreadable" -> "refused"
                    [] OTHER -> IF ~Valid(file.data) THEN "refused"
                                ELSE IF file.data.enabled THEN "ready" ELSE "none"
    /\ UNCHANGED <<file, relay, api, pc, action, late, result, switched, events>>

-----------------------------------------------------------------------------
(* Moonraker and its other clients.                                        *)

Event ==
    /\ control = "ready" /\ events < MaxEvents
    /\ events' = events + 1
    /\ UNCHANGED <<file, control, pc, action, late, result, switched>>

Switches == Event /\ relay' \in {"on", "off", "init", "error"} \ {relay}
            /\ UNCHANGED api
Restarts == Event /\ api' = ~api /\ UNCHANGED relay

Late ==
    /\ pc \in {"settle", "confirm"} /\ ~late
    /\ late' = TRUE
    /\ UNCHANGED <<file, control, relay, api, pc, action, result, switched, events>>

-----------------------------------------------------------------------------
(* The operator's requests.                                                *)

\* ManualPowerResult; _state maps everything but on and off to UNKNOWN.
Report(state, confirmed) ==
    /\ result' = [state |-> IF state \in {"on", "off"} THEN state ELSE "unknown",
                  action |-> action, confirmed |-> confirmed]
    /\ pc' = "idle" /\ action' = None

Failed == Report("unknown", FALSE)

Refresh ==
    /\ control = "ready" /\ pc = "idle"
    /\ Report(IF api THEN relay ELSE "unknown", FALSE)
    /\ UNCHANGED <<file, control, relay, api, late, switched, events>>

Request(a) ==
    /\ control = "ready" /\ pc = "idle"
    /\ action' = a /\ pc' = "settle" /\ late' = FALSE
    /\ UNCHANGED <<file, control, relay, api, result, switched, events>>

\* wait_until_ready: one read per round; init is waited for, error is not.
Settle ==
    /\ pc = "settle"
    /\ \/ /\ ~api \/ relay = "error" \/ (relay = "init" /\ late)
          /\ Failed
       \/ /\ api /\ relay \in {"on", "off"}
          /\ pc' = "send" /\ UNCHANGED <<action, result>>
    /\ UNCHANGED <<file, control, relay, api, late, switched, events>>

\* The command: refused, obeyed at once, later, or obeyed with a lost answer.
Send ==
    /\ pc = "send"
    /\ \/ /\ Failed /\ UNCHANGED <<relay, late, switched>>
       \/ /\ api /\ relay' = action /\ switched' = TRUE
          /\ Failed /\ UNCHANGED late
       \/ /\ api /\ relay' \in {action, relay} /\ switched' = TRUE
          /\ pc' = "confirm" /\ late' = FALSE /\ UNCHANGED <<action, result>>
    /\ UNCHANGED <<file, control, api, events>>

\* Mutant: the confirmation waits for as long as the relay is in init.
ConfirmWaits ==
    /\ pc = "confirm"
    /\ \/ /\ ~api \/ relay = "error" \/ (relay \notin {action, "init"} /\ late)
          /\ Failed
       \/ /\ api /\ relay = action
          /\ pc' = "fresh" /\ UNCHANGED <<action, result>>
    /\ UNCHANGED <<file, control, relay, api, late, switched, events>>

Confirm ==
    /\ pc = "confirm"
    /\ \/ /\ ~api \/ relay = "error" \/ (relay # action /\ late)
          /\ Failed
       \/ /\ api /\ relay = action
          /\ pc' = "fresh" /\ UNCHANGED <<action, result>>
    /\ UNCHANGED <<file, control, relay, api, late, switched, events>>

\* Mutant: the completion of the command is the answer.
FreshTrusted ==
    /\ pc = "fresh"
    /\ Report(action, TRUE)
    /\ UNCHANGED <<file, control, relay, api, late, switched, events>>

\* A second read, for the answer.
Fresh ==
    /\ pc = "fresh"
    /\ IF api THEN Report(relay, relay = action) ELSE Failed
    /\ UNCHANGED <<file, control, relay, api, late, switched, events>>

Step == Settle \/ Send \/ Confirm \/ Fresh

Next ==
    \/ Configure \/ Switches \/ Restarts \/ Late
    \/ Refresh \/ Request("on") \/ Request("off") \/ Step

Spec == Init /\ [][Next]_vars /\ WF_vars(Step) /\ WF_vars(Late)

-----------------------------------------------------------------------------

\* The relay is switched only under a configuration that names a valid device
\* and enables it: not a disabled, missing, incomplete or damaged one.
SwitchedOnlyAsConfigured ==
    switched => /\ file.kind = "mapping" /\ file.data.enabled
                /\ file.data.device = "well"

\* What the operator is shown is what the relay is in at that moment, however
\* another client interferes between the command, its confirmation and the
\* answer; and a result is confirmed only in the state that was asked for.
ReportIsCurrent ==
    [][result' # result /\ result'.state # "unknown"
         => /\ api /\ relay = result'.state
            /\ result'.confirmed => result'.state = action]_vars

\* Both of them: what the relay is switched for, and what is said of it.
RelayIsReported == []SwitchedOnlyAsConfigured /\ ReportIsCurrent

\* Every request of the operator is answered, also when the relay stays in
\* init, Moonraker goes away or another client keeps switching.
RequestAnswers == pc # "idle" ~> pc = "idle"
=============================================================================
