---- MODULE ManagedConfig ----
\* The life of a deployed configuration: KACE plans it anew, Klipper's SAVE_CONFIG
\* writes calibrations into it, and its owner edits it.  One option stands for each
\* of its kinds: the control mode of a heater and the PID values that go with it,
\* the offset of a probe, which may come and go, a velocity (tuning that is kept),
\* a pin (always generated), an extra option that the owner added to a generated
\* section, and an option in a section of the owner's own.
EXTENDS Naturals

CONSTANTS Choices,    \* what a generated configuration says: [control, probe, value]
          InitialFiles,
          UserValues, Saved, \* values that the owner, and a calibration, may give
          MaxEdits, MaxSaves,
          None, Refused

Option == {"control", "pid", "offset", "velocity", "pin", "extra", "own"}
\* What Klipper's calibrations save.
Savable == {"control", "pid", "offset"}

Nothing == [o \in Option |-> None]
IsText(t) == t = [o \in Option |-> t[o]]

\* No configuration has been generated yet: what there is, is the owner's text,
\* with Klipper's autosave behind it, and a saved control mode is PID.
SettingsAssumption ==
    /\ None \notin UserValues \cup Saved \cup {"pid", "watermark"}
    /\ \A g \in Choices : /\ g.control \in {"pid", "watermark"} /\ g.probe \in BOOLEAN
                         /\ g.value # None
    /\ \A f \in InitialFiles :
        /\ f = [layout |-> f.layout, base |-> f.base, block |-> Nothing,
                hardware |-> Nothing, saved |-> f.saved]
        /\ f.layout \in {"absent", "include"} /\ IsText(f.base) /\ IsText(f.saved)
        /\ \A o \in Option \ Savable : f.saved[o] = None
        /\ f.saved["control"] \in {None, "pid"}

\* printer.cfg has the owner's text (base), KACE's block and the autosave text of
\* Klipper; in the "include" layout the block includes KACE's hardware file, and in
\* the "root" layout everything generated is in the block itself.
VARIABLES files,   \* [layout, base, block, hardware, saved]
          last,    \* the choice deployed last, None when the files have changed since
          wanted,  \* what the owner or a calibration gave last (history)
          blocked, \* has Klipper refused to save?
          edits, saves
cvars == <<files, last, wanted, blocked, edits, saves>>

Over(high, low) == [o \in Option |-> IF high[o] # None THEN high[o] ELSE low[o]]
Root(f) == Over(f.base, f.block)
Active(f) == Over(Root(f), f.hardware)
\* Klipper reads the block, the files it includes and the owner's text in this
\* order, and takes from the autosave text only what is nowhere else.
Effective(f) == Over(IF f.layout = "include" THEN Active(f) ELSE Root(f), f.saved)

\* Options in the sections that a choice generates.
Owned(g) == {"control", "pid", "velocity", "pin", "extra"} \cup (IF g.probe THEN {"offset"} ELSE {})
GeneratedBy(g) ==
    [o \in Option |->
        CASE o = "control" -> g.control
          [] o = "pid" /\ g.control = "pid" -> g.value
          [] o \in {"velocity", "pin"} \/ (o = "offset" /\ g.probe) -> g.value
          [] OTHER -> None]

Preserved == {"pid", "offset", "velocity"}
\* Mutant: PID values are carried into every control mode.
CarryEverything(new, g, old) ==
    [o \in Option |-> IF o \in Owned(g) /\ old[o] # None /\ (o \in Preserved \/ new[o] = None)
                      THEN old[o] ELSE new[o]]
\* Mutant: what the owner added is forgotten.
CarryTuning(new, g, old) ==
    [o \in Option |-> IF /\ o \in Owned(g) \cap Preserved /\ old[o] # None
                         /\ o = "pid" => g.control = "pid"
                      THEN old[o] ELSE new[o]]
\* The owner's tuning replaces what is generated, and options of the owner are
\* added, unless they are there already.
Carry(new, g, old) ==
    [o \in Option |-> IF /\ o \in Owned(g) /\ old[o] # None
                         /\ o \in Preserved \/ new[o] = None
                         /\ o = "pid" => g.control = "pid"
                      THEN old[o] ELSE new[o]]
\* Mutant: the hardware file has the last word.
CarriedHardwareLast(f, g) == Carry(Carry(GeneratedBy(g), g, Root(f)), g, f.hardware)
\* First the hardware file, where earlier tuning is, then printer.cfg.
Carried(f, g) == Carry(Carry(GeneratedBy(g), g, f.hardware), g, Root(f))

\* Mutant: only what has been saved already.
CalibratedOnceSaved(f, g) == {o \in Option : f.saved[o] # None}
\* What Klipper may save is kept in printer.cfg, outside the included file.
Calibrated(f, g) == {o \in Option : f.saved[o] # None} \cup {"control", "offset"}
                    \cup (IF g.control = "pid" THEN {"pid"} ELSE {})
\* Mutant: a default is written back.
RetainDefaults(f, o, v) == v # None
\* A default is not written beside a saved value, but an active value is.
Retained(f, o, v) == /\ v # None
                     /\ f.saved[o] = None \/ (Active(f)[o] # None /\ v = Active(f)[o])
Conflict(f, g) == g.control # "pid" /\ (f.saved["control"] # None \/ f.saved["pid"] # None)
Stripped(f, g) == [o \in Option |-> IF o \in Owned(g) THEN None ELSE f.base[o]]

IncludePlan(f, g) ==
    LET new == Carried(f, g)
        inRoot == Calibrated(f, g)
    IN  [layout |-> "include", base |-> Stripped(f, g), saved |-> f.saved,
         block |-> [o \in Option |-> IF o \in inRoot /\ o \in Owned(g) /\ Retained(f, o, new[o])
                                     THEN new[o] ELSE None],
         hardware |-> [o \in Option |-> IF o \in inRoot THEN None ELSE new[o]]]

\* Mutant: what the owner wrote inside the block is dropped with it.
RootPlanWhole(f, g) ==
    LET new == Carried(f, g)
    IN  [layout |-> "root", base |-> Stripped(f, g), saved |-> f.saved, hardware |-> f.hardware,
         block |-> [o \in Option |-> IF f.saved[o] # None /\ Active(f)[o] = None THEN None ELSE new[o]]]
\* Sections in the block that are no longer generated stay, behind it.
RootPlan(f, g) ==
    LET new == Carried(f, g)
    IN  [layout |-> "root", saved |-> f.saved, hardware |-> f.hardware,
         base |-> [o \in Option |-> IF o \in Owned(g) THEN None ELSE Root(f)[o]],
         block |-> [o \in Option |-> IF f.saved[o] # None /\ Active(f)[o] = None THEN None ELSE new[o]]]

\* Without a printer.cfg, or with KACE's own, everything is written into it.
Planned(f, g) == IF f.layout \in {"absent", "root"} THEN RootPlan(f, g)
                 ELSE IF Conflict(f, g) THEN Refused ELSE IncludePlan(f, g)

\* Mutant: only printer.cfg is compared.
WarnedOfRoot(f, f2) == {o \in Option : Root(f)[o] \notin {None, Effective(f2)[o]}}
\* The review shows what the active text loses.
Warned(f, f2) == {o \in Option : \/ Root(f)[o] \notin {None, Effective(f2)[o]}
                                 \/ f.hardware[o] \notin {None, Effective(f2)[o]}}

-----------------------------------------------------------------------------
Init == /\ files \in InitialFiles
        /\ last = None /\ wanted = Effective(files) /\ blocked = FALSE /\ edits = 0 /\ saves = 0

\* Values that a deployment may give up: those of a control mode or a section that
\* is not chosen any more, and with a warning a pin, a control mode, and an added
\* option of which the hardware file has an older value.
GivenUp(g, f2) ==
    (IF g.control = "pid" THEN {} ELSE {"pid"}) \cup (IF g.probe THEN {} ELSE {"offset"})
    \cup ({"control", "pin"} \cap Warned(files, f2))
    \cup ({"extra"} \cap (IF files.hardware["extra"] = None THEN {} ELSE Warned(files, f2)))
Deploy(g) ==
    LET f2 == Planned(files, g)
    IN  /\ f2 # Refused /\ files' = f2 /\ last' = g
        /\ wanted' = [o \in Option |-> IF o \in GivenUp(g, f2) THEN None ELSE wanted[o]]
        /\ UNCHANGED <<blocked, edits, saves>>

\* The owner writes an option, or removes it, in their own text or in the block.
Edit(o, v) ==
    /\ edits < MaxEdits /\ edits' = edits + 1
    /\ \/ files' = [files EXCEPT !.base[o] = v]
       \/ /\ v # None /\ (files.block[o] # None \/ (o \in {"extra", "own"} /\ files.layout = "root"))
          /\ files' = [files EXCEPT !.block[o] = v]
       \/ v = None /\ files' = [files EXCEPT !.base[o] = None, !.block[o] = None]
    /\ files' # files /\ files.layout # "absent"
    /\ wanted' = [wanted EXCEPT ![o] = IF v = None THEN None ELSE Effective(files')[o]]
    /\ last' = None
    /\ UNCHANGED <<blocked, saves>>

\* SAVE_CONFIG of a calibration (external): it forgets saved values that the active
\* text overrides, comments the saved options out of printer.cfg, and refuses when
\* an included file has one of them.
SaveConfig(group, v) ==
    /\ saves < MaxSaves /\ saves' = saves + 1
    /\ \A o \in group : Effective(files)[o] # None \/ o = "pid"
    /\ LET text == IF files.layout = "include" THEN Active(files) ELSE Root(files)
           value(o) == IF o = "control" THEN "pid" ELSE v
           saved == [o \in Option |-> IF o \in group THEN value(o)
                                      ELSE IF text[o] = None THEN files.saved[o] ELSE None]
           kept(part) == [o \in Option |-> IF saved[o] # None THEN None ELSE part[o]]
       IN  IF files.layout = "include" /\ \E o \in Option : saved[o] # None /\ files.hardware[o] # None
           THEN blocked' = TRUE /\ UNCHANGED <<files, wanted, last>>
           ELSE /\ files' = [files EXCEPT !.saved = saved, !.base = kept(files.base), !.block = kept(files.block)]
                /\ wanted' = [o \in Option |-> IF o \in group THEN value(o) ELSE wanted[o]]
                /\ last' = None /\ UNCHANGED blocked
    /\ UNCHANGED edits

Next == \/ \E g \in Choices : Deploy(g)
        \/ \E o \in Option \ {"pin"}, v \in UserValues \cup {None} : o # "control" /\ Edit(o, v)
        \/ \E v \in {"pid", "watermark", None} : Edit("control", v)
        \/ \E group \in {{"control", "pid"}, {"offset"}}, v \in Saved : SaveConfig(group, v)

Spec == Init /\ [][Next]_cvars

-----------------------------------------------------------------------------
\* A calibration, preserved tuning, and what is in sections of the owner's own, is
\* in force until its owner or another calibration replaces it, whatever has been
\* deployed since with that control mode and probe.
UserValuesSurvive == \A o \in Option : wanted[o] # None => Effective(files)[o] = wanted[o]

\* Every value in force that a deployment changes is named in its review.
LossIsWarned ==
    [][\A o \in Option :
           (last' # None /\ files' # files /\ Effective(files)[o] \notin {None, Effective(files')[o]})
               => o \in Warned(files, files')]_cvars

\* Klipper can always save a calibration of what has been deployed.
SavingIsPossible == ~ blocked

\* To deploy the same configuration again changes nothing.
DeploymentSettles == last # None => Planned(files, last) = files

\* The selected control mode is the one in force, in the include layout.
ModeIsInForce ==
    (last # None /\ files.layout = "include") => Effective(files)["control"] = last.control

\* "Apply root values last so explicit user overrides keep their precedence"
\* (core/managed_config.py:470): an option that the owner gave in printer.cfg is in
\* force after the deployment.
OverrideIsKept ==
    [][\A o \in Option \ {"control", "pin"} :
           (last' # None /\ o \in Owned(last') /\ (o = "pid" => last'.control = "pid") /\ files.base[o] # None)
               => Effective(files')[o] = files.base[o]]_cvars
====
