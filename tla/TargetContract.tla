---------------------------- MODULE TargetContract ----------------------------
(***************************************************************************)
(* What a board contract may request of Kconfig: the checks at loading     *)
(* (boards/models.py), the checks before the build, the seed .config and   *)
(* the comparison with what olddefconfig makes of it (boards/kconfig.py).  *)
(* Kconfig resolves each choice to one member, whatever is requested.      *)
(***************************************************************************)
CONSTANTS
    arch, model,            \* the declared architecture and processor
    otherModel,             \* another processor of the architecture
    low,                    \* CONFIG_LOW_LEVEL_OPTIONS
    usb, uart1, uart3,      \* interfaces that _TRANSPORT_PREFIXES knows
    bridge,                 \* an interface that no prefix of it matches
    start7, start8,         \* flash starts
    None

Machines == {arch, model, otherModel}
Interfaces == {usb, uart1, uart3, bridge}
Starts == {start7, start8}

\* The kinds of symbols have no symbol in common.
SymbolAssumption ==
    /\ Machines \cap Interfaces = {} /\ (Machines \cup Interfaces) \cap Starts = {}
    /\ low \notin Machines \cup Interfaces \cup Starts

\* _TRANSPORT_PREFIXES
Prefixed(kind) == IF kind = "USB" THEN {usb} ELSE {uart1, uart3}

VARIABLES
    target,     \* the loaded document: kind, transport, bootloader, lowLevel,
                \* and the symbols that requested_kconfig sets to true
    config,     \* .config after olddefconfig, or None
    pc
vars == <<target, config, pc>>

\* A document as its author may write it.
Init ==
    /\ target \in [kind : {"USB", "UART"},
                   transport : {{i, j} : i, j \in Interfaces},
                   bootloader : {{}} \cup {{s} : s \in Starts},
                   lowLevel : BOOLEAN,
                   requested : SUBSET (Machines \cup Interfaces \cup Starts \cup {low})]
    /\ config = None /\ pc = "load"

\* HardwareVariant.from_mapping: requested_kconfig encodes what the variant and
\* the target declare; whatever else it requests is not looked at.
Encoded(t) ==
    /\ {arch, model} \cup t.transport \cup t.bootloader \subseteq t.requested
    /\ (low \in t.requested) = t.lowLevel

Load ==
    /\ pc = "load"
    /\ pc' = IF Encoded(target) THEN "validate" ELSE "rejected"
    /\ UNCHANGED <<target, config>>

\* Mutant: the selectors are not compared with the kind of the transport.
WithoutKind(t) ==
    /\ t.requested \cap Machines = {arch, model}
    /\ (low \in t.requested) = t.lowLevel
    /\ t.requested \cap Starts = t.bootloader

\* validate_target_contract: one processor, interfaces of the declared kind and
\* no other that a prefix matches, and exactly the declared flash start.
Coherent(t) ==
    /\ t.requested \cap Machines = {arch, model}
    /\ (low \in t.requested) = t.lowLevel
    /\ t.transport \subseteq Prefixed(t.kind)
    /\ t.requested \cap (Prefixed("USB") \cup Prefixed("UART")) = t.transport
    /\ t.requested \cap Starts = t.bootloader

Validate ==
    /\ pc = "validate"
    /\ pc' = IF Coherent(target) THEN "configure" ELSE "rejected"
    /\ UNCHANGED <<target, config>>

\* make olddefconfig on the seed: some member of each choice, and low-level
\* options as it finds fit.
Olddefconfig ==
    /\ pc = "configure"
    /\ config' \in [machine : {model, otherModel}, interface : Interfaces,
                    start : Starts, low : BOOLEAN]
    /\ pc' = "compare"
    /\ UNCHANGED target

\* serialize_requested_config and parse_kconfig: what of the seed survives.
On(c) == {arch, c.machine, c.interface, c.start} \cup IF c.low THEN {low} ELSE {}

\* verify_requested_selections and the CONFIG_MCU assertion of every target.
Confirmed(t, c) ==
    /\ t.requested \subseteq On(c)
    /\ low \notin t.requested => low \notin On(c)
    /\ c.machine = model

Compare ==
    /\ pc = "compare"
    /\ pc' = IF Confirmed(target, config) THEN "accepted" ELSE "rejected"
    /\ UNCHANGED <<target, config>>

Next == Load \/ Validate \/ Olddefconfig \/ Compare

Spec == Init /\ [][Next]_vars

-----------------------------------------------------------------------------

\* The firmware that is compiled is for the declared processor, speaks over the
\* one declared interface, of the declared kind, and begins at the declared
\* flash start.  No check suffices alone: a second interface of the same kind
\* and one that no prefix matches pass the validation, and Kconfig drops one.
BuiltAsDeclared ==
    pc = "accepted" =>
        /\ config.machine = model
        /\ target.transport = {config.interface}
        /\ config.interface \in Prefixed(target.kind)
        /\ target.bootloader \subseteq {config.start}
        /\ config.low = target.lowLevel
        /\ target.requested \cap Interfaces = {config.interface}
=============================================================================
