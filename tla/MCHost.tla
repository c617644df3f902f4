------------------------------- MODULE MCHost -------------------------------
(***************************************************************************)
(* The parts of the host on small instances.  A behaviour is about one of  *)
(* them; the others stay where they begin.                                 *)
(***************************************************************************)
EXTENDS HostParts

CONSTANTS p1, p2, h1, h2, k1, k2, g1, g2, u1, u2, s1, s2

VARIABLE part

Parts == {"cache", "build", "power", "ssh", "install", "settings"}

\* Two hosts, one of them known to the system.
MCSystem == {<<h2, k1>>}

\* No printer.cfg, one that its owner wrote, and one with an autosave text.
Says(text) == [o \in {"control", "pid", "offset", "velocity", "pin", "extra", "own"} |->
                  IF o \in DOMAIN text THEN text[o] ELSE None]
Nothing == [o \in {} |-> None]
Text(layout, base, saved) ==
    [layout |-> layout, base |-> Says(base), block |-> Says(Nothing),
     hardware |-> Says(Nothing), saved |-> Says(saved)]
MCInitialFiles ==
    {Text("absent", Nothing, Nothing),
     Text("include", [control |-> "pid", pid |-> u1, velocity |-> u1, pin |-> u1,
                      extra |-> u1, own |-> u1], Nothing),
     Text("include", [velocity |-> u1, offset |-> u1], [control |-> "pid", pid |-> s1])}
MCChoices == [control : {"pid", "watermark"}, probe : BOOLEAN, value : {g1, g2}]

ASSUME HostAssumption ==
    /\ Ssh!SystemAssumption /\ Install!InstallAssumption
    /\ Cache!CacheAssumption /\ Build!BuildAssumption
    /\ Settings!SettingsAssumption

all == <<part, theCache, theBuild, thePower, theSsh, theInstall, theSettings>>

InCache(A) ==
    part = "cache" /\ A /\ UNCHANGED <<part, theBuild, thePower, theSsh, theInstall, theSettings>>
InBuild(A) ==
    part = "build" /\ A /\ UNCHANGED <<part, theCache, thePower, theSsh, theInstall, theSettings>>
InPower(A) ==
    part = "power" /\ A /\ UNCHANGED <<part, theCache, theBuild, theSsh, theInstall, theSettings>>
InSsh(A) ==
    part = "ssh" /\ A /\ UNCHANGED <<part, theCache, theBuild, thePower, theInstall, theSettings>>
InInstall(A) ==
    part = "install" /\ A /\ UNCHANGED <<part, theCache, theBuild, thePower, theSsh, theSettings>>
InSettings(A) ==
    part = "settings" /\ A /\ UNCHANGED <<part, theCache, theBuild, thePower, theSsh, theInstall>>

MCInit ==
    /\ part \in Parts
    /\ part # "cache" => cache = None
    /\ Cache!Init
    /\ part # "build" => source = "pinned" /\ mock = FALSE
    /\ Build!Init
    /\ mock => source = "pinned"
    /\ part # "power" => /\ powerFile = [kind |-> "missing", data |-> None]
                         /\ relay = "on"
    /\ Power!Init
    /\ part # "ssh" => /\ exists = FALSE /\ server = [h \in Host |-> k1]
                       /\ host = [p \in Process |-> h1]
    /\ Ssh!Init
    \* The keys of h1 are interchangeable, and so are the processes.
    /\ server[h1] = k1 /\ (host[p2] = h1 => host[p1] = h1)
    /\ part # "install" => before = [i \in 1 .. 4 |-> Old] /\ wrapper = Old
    /\ Install!Init
    /\ part # "settings" => settings = Text("absent", Nothing, Nothing)
    /\ Settings!Init

\* One edit or one foreign compilation, and none beside the placeholder compiler,
\* which makes nothing that can be flashed.
BuildAlone == Build!Next /\ edits' + makes' <= (IF mock THEN 0 ELSE 1)

MCNext ==
    \/ InCache(Cache!Next)
    \/ InBuild(BuildAlone)
    \/ InPower(Power!Next)
    \/ InSsh(Ssh!Next)
    \/ InInstall(Install!Next)
    \/ InSettings(Settings!Next)

\* What a process does by itself, and what the clocks do: the fairness of the
\* part that a behaviour is about.
Works(p) ==
    \/ InCache(Cache!Step(p))
    \/ InBuild(Build!Run(p))
    \/ InSsh(Ssh!Run(p))
Answers == InPower(Power!Step) \/ InSsh(Ssh!Timer(p1))
Passes == InPower(Power!Late) \/ InSsh(Ssh!Timer(p2))

MCSpec ==
    /\ MCInit /\ [][MCNext]_all
    /\ WF_all(Works(p1)) /\ WF_all(Works(p2))
    /\ WF_all(Answers) /\ WF_all(Passes)

-----------------------------------------------------------------------------
\* Every build gets its sources or fails and returns, every request to the relay
\* is answered, and a silent server never holds a deployment forever.
EveryRequestReturns ==
    /\ part = "cache" => Cache!BuildEnds
    /\ part = "build" => Build!BuildReturns
    /\ part = "power" => Power!RequestAnswers
    /\ part = "ssh" => Ssh!SessionEnds
=============================================================================
