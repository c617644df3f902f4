----------------------------- MODULE MCFirmware -----------------------------
(***************************************************************************)
(* The parts of FirmwareParts on small instances.  A behaviour is about    *)
(* one part; the others stay where they begin.                             *)
(***************************************************************************)
EXTENDS FirmwareParts, TLC

CONSTANTS Sd, Avr, Unknown, Stm, Atmega, Low, High, Known, Clone,
          mach, canbus, entry, clock,
          skr, creality, turbo, legacyName, lpc1768, lpc1769, f103, v8, v9, v3,
          Good, Undrawn, Crossed, Refused, Partial, Alien,
          Parts   \* which of the parts below a configuration explores

VARIABLE part

-----------------------------------------------------------------------------
\* Two boards with a profile of their own or a shared one, a third without.
Item(boards, m, strategy, auto, mcu, offset, bridges) ==
    [boards |-> boards, method |-> m, strategy |-> strategy, auto |-> auto,
     mcu |-> mcu, offset |-> offset, bridges |-> bridges]

MCProfileItems ==
    { Item({Sd}, "MANUAL", "SD_CARD", FALSE, Stm, High, {Known}),
      Item({Sd}, "MANUAL", "SD_CARD", FALSE, Stm, Low, {Known}),
      Item({Sd, Avr}, "MANUAL", "PREPARE_ONLY", FALSE, Atmega, Low, {}),
      Item({Avr}, "USB", "AVRDUDE", TRUE, Atmega, Low, {Known}),
      Item({Avr, Sd}, "USB", "AVRDUDE", TRUE, Atmega, High, {Known, Clone}),
      Item({Avr}, "USB", "AVRDUDE", FALSE, Atmega, Low, {Known}),
      Item({Avr}, "USB", "SD_CARD", FALSE, Stm, Low, {Known}),
      Item({Avr}, "USB", "AVRDUDE", TRUE, Stm, Low, {}),
      Item({}, "MANUAL", "PREPARE_ONLY", FALSE, Stm, Low, {}) }

\* A target that requests one symbol on, one off, and asserts a third.
MCRequested == (mach :> TRUE) @@ (canbus :> FALSE)
MCAsserted == (mach :> TRUE) @@ (entry :> TRUE)

\* Two boards: one with two processors, one whose bootloader wants a new file
\* name every time; a later edition of each, and a contract whose alias is
\* taken.
Variant(variant, mcu, support, naming) ==
    [variant |-> variant, mcu |-> mcu, status |-> support, naming |-> naming,
     mustDiffer |-> naming = "build-id",
     strategy |-> IF mcu = lpc1769 THEN "DFU_UTIL" ELSE "SD_CARD"]
Doc(id, aliases, targets) == [id |-> id, aliases |-> aliases, targets |-> targets]
TwoProcessors == {Variant(v8, lpc1768, "RUNTIME_SUPPORTED", "fixed"),
                  Variant(v9, lpc1769, "RUNTIME_SUPPORTED", "fixed")}
MCDocument ==
    {Doc(skr, {turbo}, TwoProcessors),
     Doc(skr, {turbo}, {Variant(v8, lpc1768, "PROVISIONAL", "fixed")}),
     Doc(creality, {}, {Variant(v3, f103, "RUNTIME_SUPPORTED", "build-id")}),
     Doc(creality, {turbo}, {Variant(v3, f103, "DEPLOYMENT_VERIFIED", "build-id")})}

ASSUME FirmwareAssumption ==
    /\ Compilation!TargetAssumption
    /\ Chain!DocumentAssumption /\ Chain!NamingAssumption
    /\ Target!SymbolAssumption /\ Menu!FrontEndAssumption
    /\ Image!AddressAssumption

-----------------------------------------------------------------------------
MCInit ==
    /\ part \in Parts
    /\ part # "delivery" =>
           /\ profiles = {Item({Sd}, "MANUAL", "SD_CARD", FALSE, Stm, Low, {Known})}
           /\ target = [board |-> Sd, mcu |-> Stm, bridge |-> NoBridge]
           /\ artifact = [mcu |-> Stm, offset |-> Low, deployable |-> TRUE]
    /\ Init
    /\ part # "build" => declared = {}
    /\ Compilation!Init
    /\ part # "evidence" => directory = {Doc(skr, {turbo}, TwoProcessors),
           Doc(creality, {}, {Variant(v3, f103, "RUNTIME_SUPPORTED", "build-id")})}
    /\ Chain!Init
    /\ Cardinality(directory) = 2
    /\ Image!Init
    /\ part # "images" => format = "uf2"
    /\ part # "targets" =>
           contract = [kind |-> "USB", transport |-> {usb}, bootloader |-> {},
                       lowLevel |-> FALSE, requested |-> {arch, model, usb}]
    /\ Target!Init
    /\ part # "menu" =>
           /\ world = [checkpoint |-> TRUE, local |-> TRUE, https |-> TRUE]
           /\ printer = Good /\ built = TRUE
    /\ Menu!Init

MCNext ==
    \/ /\ part = "delivery" /\ Next
       /\ UNCHANGED <<part, theBuild, theChain, theImage, theTarget, theMenu>>
    \/ /\ part = "build" /\ Compilation!Next
       /\ UNCHANGED <<part, vars, theChain, theImage, theTarget, theMenu>>
    \/ /\ part = "evidence" /\ Chain!Next
       /\ UNCHANGED <<part, vars, theBuild, theImage, theTarget, theMenu>>
    \/ /\ part = "images" /\ Image!Append_
       /\ UNCHANGED <<part, vars, theBuild, theChain, theTarget, theMenu>>
    \/ /\ part = "targets" /\ Target!Next
       /\ UNCHANGED <<part, vars, theBuild, theChain, theImage, theMenu>>
    \/ /\ part = "menu" /\ Menu!Next
       /\ UNCHANGED <<part, vars, theBuild, theChain, theImage, theTarget>>

MCSpec ==
    MCInit /\ [][MCNext]_<<part, vars, theBuild, theChain, theImage, theTarget, theMenu>>

=============================================================================
