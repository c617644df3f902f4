---- MODULE MotionSpace ----
\* The printer's travel, its bed and what its probe reaches, and what the generator
\* derives from them: the safe homing position, the bed mesh, the levelling points
\* and the positions of the starter macros; then what the summary shows of it.
\* Lengths are in hundredths of a millimetre.
EXTENDS Integers, FiniteSetsExt

CONSTANTS Axes,    \* answers about a horizontal axis, [size, min, max, endstop, low,
                   \* high, offset]: size and offset numbers, the others also None
          Rails,   \* answers about the Z axis: [size, min, max, endstop, height]
          Meshes,  \* the source's [bed_mesh]: [counts, pps, algorithm, lift], or None
          Kinds,   \* of probe: "none", "bltouch", "inductive"
          None, Refused

VARIABLES x, y, z, kind, mesh, \* the answers
          ties,                \* which of two borders the last bit of a float rounds up
          made,                \* None, Refused, or what was generated
          shown                \* None, Refused, or the mesh of the summary
mvars == <<x, y, z, kind, mesh, ties, made, shown>>

\* What can be generated.
Stretch == [low : Int, high : Int]
MeshSection == [x : Stretch, y : Stretch, counts : Nat \X Nat, pps : Nat \X Nat,
                algorithm : {"lagrange", "bicubic"}, lift : Int]
Configuration == [mesh : MeshSection \cup {None}, home : (Int \X Int) \cup {None},
                  levelling : (Stretch \X Stretch) \cup {None},
                  macros : (SUBSET Int) \X (SUBSET Int) \X (SUBSET Int)]

GeometryAssumption ==
    /\ \A a \in Axes : /\ a.size \in Int /\ a.offset \in Int
                       /\ {a.min, a.max, a.endstop, a.low, a.high} \subseteq Int \cup {None}
    /\ \A r \in Rails : /\ r.size \in Int
                        /\ {r.min, r.max, r.endstop, r.height} \subseteq Int \cup {None}
    /\ \A m \in Meshes : /\ {m.counts, m.pps} \subseteq (Nat \X Nat) \cup {None}
                         /\ m.algorithm \in {"lagrange", "bicubic", None}
                         /\ m.lift \in Int \cup {None}
    /\ Refused \notin Configuration \cup {None}

Given(v, default) == IF v = None THEN default ELSE v
Within(v, r) == r.low <= v /\ v <= r.high
Length(r) == r.high - r.low
Shifted(r, d) == [low |-> r.low + d, high |-> r.high + d]
Inset(r, margin) == [low |-> r.low + margin, high |-> r.high - margin]
Overlap(r, s) == [low |-> Max({r.low, s.low}), high |-> Min({r.high, s.high})]
Least(pair) == Min({pair[1], pair[2]})
Most(pair) == Max({pair[1], pair[2]})

\* The travel, the bed on it, and what the tip of the probe reaches of the bed.
Travel(a) == [low |-> Given(a.min, 0), high |-> Given(a.max, a.size)]
Bed(a) == [low |-> Given(a.low, Max({Travel(a).low, 0})),
           high |-> Given(a.high, a.size)]
\* Mutant: the tip is taken to be where the nozzle is.
NozzleReachable(a) == Overlap(Bed(a), Travel(a))
Probeable(a) == Overlap(Bed(a), Shifted(Travel(a), a.offset))

\* The summary reads the answers without the generator's checks: a bed behind the
\* end of the travel is moved back where it fits.
Aligned(a) ==
    LET back == Shifted(Bed(a), Travel(a).high - Bed(a).high)
    IN  IF a.low = None /\ a.high = None /\ back.low < Bed(a).low /\ back.low >= Travel(a).low
        THEN back ELSE Bed(a)

\* Mutant: the bed is not compared with the travel.
LegalBeyond(a) == /\ Length(Travel(a)) > 0 /\ Length(Bed(a)) > 0
                  /\ Within(Given(a.endstop, 0), Travel(a))
Legal(a) == /\ Length(Travel(a)) > 0 /\ Within(Given(a.endstop, 0), Travel(a))
            /\ Length(Bed(a)) > 0
            /\ Bed(a).low >= Travel(a).low /\ Bed(a).high <= Travel(a).high

\* A probe homes Z and may trigger below zero, where nobody stated a minimum.
Rail == [low |-> Given(z.min, IF kind = "none" THEN 0 ELSE -200),
         high |-> Given(z.max, z.size)]
Height == Given(z.height, z.size)
LegalRail == /\ Length(Rail) > 0 /\ Rail.low < Height /\ Height <= Rail.high
             /\ Within(IF kind = "none" THEN Given(z.endstop, 0) ELSE 0, Rail)

\* The nozzle where the tip is over the middle of what it reaches.
SafeZHome(a) == (Probeable(a).low + Probeable(a).high) \div 2 - a.offset
Reached(a) == Length(Probeable(a)) > 0 /\ Within(SafeZHome(a), Travel(a))

\* Mutant: a narrow bed gets the wide margin, too.
MarginAlways(r) == Inset(r, 1000)
WithMargin(r) ==
    LET some == IF Length(Inset(r, 1000)) < 1000 THEN Inset(r, 200) ELSE Inset(r, 1000)
    IN  IF Length(some) < 200 THEN r ELSE some

\* One decimal.
Tenths(border, v) ==
    LET down == (v \div 10) * 10
    IN  IF v % 10 > 5 \/ (v % 10 = 5 /\ border \in ties) THEN down + 10 ELSE down
Formatted(r) == [low |-> Tenths("low", r.low), high |-> Tenths("high", r.high)]

AxisProbeCount(length) ==
    IF length < 10000 THEN 3 ELSE IF length < 18000 THEN 4 ELSE IF length <= 30000 THEN 5 ELSE 7
Lengths == <<AxisProbeCount(Length(Bed(x))), AxisProbeCount(Length(Bed(y)))>>
Points == Given(mesh.pps, <<2, 2>>)
\* Mutant: the short axis keeps its three points.
ShortAxisKept == Given(mesh.counts, Lengths)
\* Seven points on one axis ask for bicubic, and that for four on the other.
Counts == IF mesh.counts = None /\ mesh.algorithm = None /\ Most(Points) > 0 /\ Most(Lengths) > 6
          THEN <<Max({4, Lengths[1]}), Max({4, Lengths[2]})>>
          ELSE Given(mesh.counts, Lengths)
Algorithm == Given(mesh.algorithm, IF Least(Counts) >= 4 THEN "bicubic" ELSE "lagrange")

\* Can Klipper interpolate it, and are its points a millimetre apart?
Interpolates == \/ Most(Points) = 0
                \/ Algorithm = "lagrange" /\ Most(Counts) <= 6
                \/ Algorithm = "bicubic" /\ (Least(Counts) >= 4 \/ Most(Counts) <= 6)
Spaced(r, count) == Length(r) \div (count - 1) >= 100
\* The height between two points, of which Klipper asks that it is not below the
\* trigger nor off the rail.
Lift == Given(mesh.lift, IF kind = "inductive" THEN 300 ELSE 500)
Clear(low) == 0 <= Lift /\ Within(Lift, [low |-> low, high |-> Rail.high])

\* Mutant: what is left after rounding is not compared.
UsableUnrounded(mx, my, low) ==
    Interpolates /\ Spaced(mx, Counts[1]) /\ Spaced(my, Counts[2]) /\ Clear(low)
Usable(mx, my, low) ==
    /\ Interpolates /\ Spaced(mx, Counts[1]) /\ Spaced(my, Counts[2]) /\ Clear(low)
    /\ Length(mx) > 0 /\ Overlap(mx, Probeable(x)) = mx
    /\ Length(my) > 0 /\ Overlap(my, Probeable(y)) = my

\* The ends of the levelling points on an axis, as positions of the nozzle.  On a
\* narrow bed the two margins have changed sides.
Levelling(a) ==
    LET r == Inset(Probeable(a), 1000)
    IN  Formatted(Shifted([low |-> Min({r.low, r.high}), high |-> Max({r.low, r.high})], -a.offset))

\* Positions of the starter macros: in the middle, and parked near the corner.
Center(a) == (Bed(a).low + Bed(a).high) \div 2
Park(a) == Bed(a).low + Min({1000, Length(Bed(a)) \div 10})
\* Mutant: the height is not raised to the rail.
SafeZLow(most, share) == Min({most, Height \div share})
SafeZ(most, share) == Min({Height, Max({Rail.low, Min({most, Height \div share})})})

-----------------------------------------------------------------------------
Init == /\ x \in Axes /\ y \in Axes /\ z \in Rails /\ kind \in Kinds /\ mesh \in Meshes
        /\ ties \in SUBSET {"low", "high"}
        /\ made = None /\ shown = None

MeshOf(mx, my) == [x |-> mx, y |-> my, counts |-> Counts, pps |-> Points,
                   algorithm |-> Algorithm, lift |-> Lift]
Generated(mx, my) ==
    [mesh |-> IF kind = "none" THEN None ELSE MeshOf(mx, my),
     home |-> IF kind = "none" THEN None ELSE <<SafeZHome(x), SafeZHome(y)>>,
     levelling |-> IF kind = "none" THEN None ELSE <<Levelling(x), Levelling(y)>>,
     macros |-> <<{Center(x), Park(x)}, {Center(y), Park(y)}, {SafeZ(5000, 5), SafeZ(2000, 10)}>>]

\* generate_config, as far as the geometry goes.
Generate ==
    /\ made = None
    /\ LET mx == Formatted(WithMargin(Probeable(x)))
           my == Formatted(WithMargin(Probeable(y)))
       IN  made' = IF /\ Legal(x) /\ Legal(y) /\ LegalRail
                      /\ kind # "none" => Reached(x) /\ Reached(y) /\ Usable(mx, my, Rail.low)
                   THEN Generated(mx, my) ELSE Refused
    /\ UNCHANGED <<x, y, z, kind, mesh, ties, shown>>

\* print_summary derives the mesh a second time, from the answers as they are.
Summarise ==
    /\ made \notin {None, Refused} /\ kind # "none" /\ shown = None
    /\ LET tip(a) == Overlap(Aligned(a), Shifted(Travel(a), a.offset))
           mx == Formatted(WithMargin(tip(x)))
           my == Formatted(WithMargin(tip(y)))
       IN  shown' = IF Usable(mx, my, Given(z.min, 0)) THEN MeshOf(mx, my) ELSE Refused
    /\ UNCHANGED <<x, y, z, kind, mesh, ties, made>>

Next == Generate \/ Summarise
Spec == Init /\ [][Next]_mvars

-----------------------------------------------------------------------------
Published == made \notin {None, Refused}
Probed == Published /\ kind # "none"
\* The nozzle can go where the tip is over r, and r is on the bed.
Reachable(a, r) == /\ Within(r.low, Bed(a)) /\ Within(r.high, Bed(a))
                   /\ Within(r.low - a.offset, Travel(a)) /\ Within(r.high - a.offset, Travel(a))
Point(v) == [low |-> v, high |-> v]

\* Whatever the offset, the margins and the rounding do, no generated position
\* leaves the bed or the travel: neither the corners of the mesh, nor the homing
\* position, nor the levelling points where the probe reaches a centimetre, nor
\* those of the macros (generate_config).
PositionsAreReachable ==
    /\ Probed => /\ Reachable(x, made.mesh.x) /\ Reachable(y, made.mesh.y)
                 /\ Reachable(x, Point(made.home[1] + x.offset))
                 /\ Reachable(y, Point(made.home[2] + y.offset))
                 /\ Length(Probeable(x)) >= 1010 => Reachable(x, Shifted(made.levelling[1], x.offset))
                 /\ Length(Probeable(y)) >= 1010 => Reachable(y, Shifted(made.levelling[2], y.offset))
    /\ Published => /\ \A v \in made.macros[1] : Within(v, Travel(x)) /\ Within(v, Bed(x))
                    /\ \A v \in made.macros[2] : Within(v, Travel(y)) /\ Within(v, Bed(y))
                    /\ \A v \in made.macros[3] : Within(v, Rail)

\* The mesh is not shrunk to please the interpolation: it covers what the probe
\* reaches up to a centimetre (generate_bed_mesh_config).
MeshIsWide ==
    Probed => \A pair \in {<<x, made.mesh.x>>, <<y, made.mesh.y>>} :
        /\ pair[2].low - Probeable(pair[1]).low <= 1005
        /\ Probeable(pair[1]).high - pair[2].high <= 1005

\* What KACE chooses itself is never refused: with an untouched mesh, legal travel
\* and eleven millimetres within the probe's reach there is a configuration.
ChoicesAreAccepted ==
    made = Refused =>
        \/ ~ Legal(x) \/ ~ Legal(y) \/ ~ LegalRail
        \/ Length(Probeable(x)) < 1100 \/ Length(Probeable(y)) < 1100
        \/ mesh.counts # None \/ mesh.algorithm # None \/ mesh.lift # None \/ Rail.high < 500

\* The summary, which derives the mesh anew from answers that were never
\* normalised, shows the mesh that was generated (print_summary).
SummaryIsGenerated == shown # None => shown = made.mesh
====
