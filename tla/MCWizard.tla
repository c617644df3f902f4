------------------------------ MODULE MCWizard ------------------------------
(***************************************************************************)
(* The wizard and what becomes of its answers: the order of the questions, *)
(* the sources of each value, the profile editor, the assignment of the    *)
(* spare sockets to Z motors and the geometry derived for the probe.  A    *)
(* behaviour is about one of them; the others stay where they begin.       *)
(***************************************************************************)
EXTENDS Wizard, WizardParts

CONSTANTS uart, spi, bare, slow, geared, small, directed, custom,
          e1, e2, e3,
          Parts   \* which of the parts below a configuration explores

VARIABLE part

-----------------------------------------------------------------------------
Key == {"rotation_distance_z", "rotation_distance_z1", "gear_ratio_z", "gear_ratio_z1",
        "z_size", "z_position_max", "z_position_endstop", "run_current_z1",
        "hold_current_z1", "homing_positive_dir_z"}
Says(f) == [k \in Key |-> IF k \in DOMAIN f THEN f[k] ELSE -1]

\* uart leaves the run current open, spi states one, bare states an impossible
\* one.  slow describes its first motor only; geared describes both, and a
\* reduction.  small and directed are the printers of the editor, the second
\* with a homing directive.
ModelOf == [b \in {uart, spi, bare} |-> IF b = spi THEN "tmc5160" ELSE "tmc2209"]
Stated ==
    [b \in {uart, spi, bare} |->
        IF b = uart THEN Says([hold_current_z1 |-> 1, rotation_distance_z |-> 8,
                               z_size |-> 8, z_position_max |-> 8])
        ELSE IF b = spi THEN Says([run_current_z1 |-> 3, rotation_distance_z |-> 4])
        ELSE Says([run_current_z1 |-> 3, z_size |-> 4, z_position_max |-> 4])]
Described ==
    [p \in {slow, geared, small, directed} |->
        IF p = slow
        THEN Says([rotation_distance_z |-> 8, z_size |-> 4, z_position_max |-> 4,
                   run_current_z1 |-> 2])
        ELSE IF p = geared
        THEN Says([rotation_distance_z |-> 4, rotation_distance_z1 |-> 8, gear_ratio_z |-> 2,
                   z_size |-> 8, z_position_max |-> 8, homing_positive_dir_z |-> 0])
        ELSE IF p = small
        THEN Says([z_size |-> 4, z_position_max |-> 4, rotation_distance_z |-> 4])
        ELSE Says([z_size |-> 8, z_position_max |-> 8, z_position_endstop |-> 8,
                   homing_positive_dir_z |-> 1])]

\* What each of the parts explores of the values: the driver circuits without
\* mechanics, the two motors with one current, the travel of one motor without a
\* driver, and the editor's two printers.
OneMotor(u) == u.driver = "Standalone" /\ u.motors = 1
Explored(u, keys) ==
    CASE part = "circuits" ->
             /\ keys \subseteq Values!TmcKeys /\ u.review = Values!NoReview
             /\ u.profile \in {slow, geared, custom}
      [] part = "motors" ->
             /\ keys \subseteq Values!TmcKeys \cup Values!Secondary
             /\ u.profile \in {slow, geared, custom} /\ u.board # bare
             /\ u.driver # "tmc5160" /\ \A k \in Values!TmcKeys : u.value[k] # 3
      [] part = "limits" ->
             OneMotor(u) /\ u.board # spi /\ u.profile \in {slow, geared, custom}
      [] OTHER -> OneMotor(u) /\ u.board = uart /\ u.profile \notin {slow, geared}

\* Hundredths of a millimetre.  A bed as large as its travel and one beyond it,
\* travel below zero, one axis of seven points and one of three, a bed of twelve
\* millimetres, and a probe that reaches six millimetres, or nothing, of the bed.
Horizontal(size, min, max, endstop, low, high, offset) ==
    [size |-> size, min |-> min, max |-> max, endstop |-> endstop,
     low |-> low, high |-> high, offset |-> offset]
Vertical(size, min, max, endstop, height) ==
    [size |-> size, min |-> min, max |-> max, endstop |-> endstop, height |-> height]
SourceMesh(counts, pps, algorithm, lift) ==
    [counts |-> counts, pps |-> pps, algorithm |-> algorithm, lift |-> lift]
HorizontalAxes ==
    {Horizontal(23500, None, None, None, None, None, 0),
     Horizontal(23500, -600, 23500, -600, 0, 23500, -4400),
     Horizontal(35000, None, 35000, None, None, None, 2535),
     Horizontal(9000, None, None, None, 0, 9000, 0),
     Horizontal(23500, -5000, 20000, None, None, None, 0),
     Horizontal(1200, None, None, None, None, None, 5),
     Horizontal(23500, None, None, None, None, None, 22905),
     Horizontal(23500, -500, 24000, 24000, 1000, 22000, 1500),
     Horizontal(23500, None, None, None, None, None, 30000),
     Horizontal(23500, 500, 22000, 600, None, 21000, -25)}
VerticalAxes ==
    {Vertical(25000, None, None, None, None),
     Vertical(20000, -500, 20500, None, 20000),
     Vertical(250, None, None, None, None),
     Vertical(25000, None, 20000, None, None),
     Vertical(5000, 1500, None, 1500, None)}
SourceMeshes ==
    {SourceMesh(None, None, None, None),
     SourceMesh(<<7, 7>>, None, "lagrange", None),
     SourceMesh(<<7, 3>>, None, "bicubic", None),
     SourceMesh(None, <<0, 0>>, None, 1000),
     SourceMesh(<<3, 3>>, None, "bicubic", -100),
     SourceMesh(None, None, "lagrange", None)}

ASSUME WizardAssumption ==
    /\ Values!ProvenanceAssumption
    /\ Sockets!SocketAssumption
    /\ Space!GeometryAssumption

-----------------------------------------------------------------------------
MCInit ==
    /\ part \in Parts
    /\ Init
    /\ Values!Init /\ Explored(user, edited)
    /\ IF part = "editor" THEN Values!EInit
       ELSE screen = "wizard" /\ shown = None /\ draft = None /\ before = None
    /\ Sockets!Init
    /\ IF part = "motion" THEN Space!Init
       ELSE /\ x = None /\ y = None /\ z = None /\ kind = None /\ mesh = None
            /\ ties = {} /\ made = None /\ summary = None

MCNext ==
    \/ part = "wizard" /\ Next /\ UNCHANGED <<part, theValues, theScreen, theSockets, theSpace>>
    \/ /\ part \in {"circuits", "motors", "limits"} /\ Values!Next /\ Explored(user', edited')
       /\ UNCHANGED <<part, vars, theScreen, theSockets, theSpace>>
    \/ /\ part = "editor" /\ Values!ENext /\ Explored(user', edited')
       /\ "z_position_endstop" \in draft'.touched => draft'.user.value["z_position_endstop"] = 8
       /\ UNCHANGED <<part, vars, theSockets, theSpace>>
    \/ part = "sockets" /\ Sockets!Next /\ UNCHANGED <<part, vars, theValues, theScreen, theSpace>>
    \/ part = "motion" /\ Space!Next /\ UNCHANGED <<part, vars, theValues, theScreen, theSockets>>

MCSpec == MCInit /\ [][MCNext]_<<part, vars, theValues, theScreen, theSockets, theSpace>>

-----------------------------------------------------------------------------
\* A larger bed, once saved, is not refused because the travel was smaller
\* (core/wizard/steps/motion.py).
SavedBedFits == part = "editor" => Values!SavedBedFits
=============================================================================
