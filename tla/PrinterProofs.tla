----------------------------- MODULE PrinterProofs -----------------------------
(***************************************************************************)
(* Theorems about the presence monitor and its refinement of BoardWatch,   *)
(* about the SD-card executor, and about the verification of the MCU: for  *)
(* any devices in any ports, any nodes and recipes, and any number of      *)
(* events, exchanged cards and moves of the board.                         *)
(***************************************************************************)
EXTENDS PrinterParts, TLAPS

-----------------------------------------------------------------------------
(* Sequences of events.                                                    *)

\* What a sequence holds.
Elements(s) == {s[i] : i \in DOMAIN s}

\* An appended event is added to what waits.
LEMMA AppendAdds ==
    ASSUME NEW S, NEW s \in Seq(S), NEW e \in S
    PROVE  /\ Append(s, e) \in Seq(S) /\ Len(Append(s, e)) = Len(s) + 1
           /\ Elements(Append(s, e)) = Elements(s) \cup {e}
<1>1. Append(s, e) \in Seq(S) /\ Len(Append(s, e)) = Len(s) + 1
  OBVIOUS
<1>2. \A i \in 1..Len(s) : Append(s, e)[i] = s[i]
  OBVIOUS
<1>3. Append(s, e)[Len(s) + 1] = e
  OBVIOUS
<1>4. DOMAIN s = 1..Len(s) /\ DOMAIN Append(s, e) = 1..(Len(s) + 1) /\ Len(s) \in Nat
  BY <1>1
<1>5. Elements(s) \cup {e} \subseteq Elements(Append(s, e))
  BY <1>2, <1>3, <1>4 DEF Elements
<1>6. ASSUME NEW i \in 1..(Len(s) + 1)
      PROVE  Append(s, e)[i] \in Elements(s) \cup {e}
  <2>1. CASE i = Len(s) + 1
    BY <2>1, <1>3
  <2>2. CASE i \in 1..Len(s)
    BY <2>2, <1>2, <1>4 DEF Elements
  <2> QED
    BY <2>1, <2>2, <1>4
<1> QED
  BY <1>1, <1>4, <1>5, <1>6 DEF Elements

\* A delivered event is taken from what waits.
LEMMA TailTakes ==
    ASSUME NEW S, NEW s \in Seq(S), s # <<>>
    PROVE  /\ Head(s) \in S /\ Tail(s) \in Seq(S) /\ Len(Tail(s)) = Len(s) - 1
           /\ Len(s) \in Nat
           /\ Elements(s) = Elements(Tail(s)) \cup {Head(s)}
<1>1. /\ Head(s) \in S /\ Tail(s) \in Seq(S) /\ Len(Tail(s)) = Len(s) - 1
      /\ Head(s) = s[1] /\ Len(s) \in Nat \ {0}
  OBVIOUS
<1>2. \A i \in 1..(Len(s) - 1) : Tail(s)[i] = s[i + 1]
  OBVIOUS
<1>3. DOMAIN s = 1..Len(s) /\ DOMAIN Tail(s) = 1..(Len(s) - 1)
  BY <1>1
<1>4. Head(s) \in Elements(s)
  BY <1>1, <1>3 DEF Elements
<1>5. ASSUME NEW i \in 1..(Len(s) - 1)
      PROVE  Tail(s)[i] \in Elements(s)
  <2>1. i + 1 \in 1..Len(s)
    BY <1>1
  <2> QED
    BY <2>1, <1>2, <1>3 DEF Elements
<1>6. ASSUME NEW i \in 1..Len(s)
      PROVE  s[i] \in Elements(Tail(s)) \cup {Head(s)}
  <2>1. CASE i = 1
    BY <2>1, <1>1
  <2>2. CASE i # 1
    <3>1. i - 1 \in 1..(Len(s) - 1) /\ (i - 1) + 1 = i
      BY <2>2, <1>1
    <3>2. Tail(s)[i - 1] = s[i]
      BY <3>1, <1>2
    <3> QED
      BY <3>1, <3>2, <1>3 DEF Elements
  <2> QED
    BY <2>1, <2>2
<1>7. Elements(Tail(s)) \subseteq Elements(s)
  BY <1>3, <1>5 DEF Elements
<1>8. Elements(s) \subseteq Elements(Tail(s)) \cup {Head(s)}
  BY <1>3, <1>6 DEF Elements
<1> QED
  BY <1>1, <1>4, <1>7, <1>8

-----------------------------------------------------------------------------
(* Places and evidence.                                                    *)

\* Where both identities name a port, the port alone decides.
LEMMA PortDecides ==
    ASSUME NEW a, NEW b, Monitor!PhysicalPort(a) # {}, Monitor!PhysicalPort(b) # {}
    PROVE  Monitor!OccupiesSameSlot(a, b) <=> Monitor!PhysicalPort(a) = Monitor!PhysicalPort(b)
<1>1. Monitor!Places(a)["port"] = Monitor!PhysicalPort(a) /\ Monitor!Places(b)["port"] = Monitor!PhysicalPort(b)
  BY DEF Monitor!Places
<1>2. /\ \E x : Monitor!PhysicalPort(a) = {x}
      /\ \E x : Monitor!PhysicalPort(b) = {x}
  BY DEF Monitor!PhysicalPort
<1>3. Monitor!PhysicalPort(a) = Monitor!PhysicalPort(b) <=> Monitor!PhysicalPort(a) \cap Monitor!PhysicalPort(b) # {}
  <2>1. PICK x : Monitor!PhysicalPort(a) = {x}
    BY <1>2
  <2>2. PICK y : Monitor!PhysicalPort(b) = {y}
    BY <1>2
  <2>3. CASE x = y
    BY <2>1, <2>2, <2>3
  <2>4. CASE x # y
    <3>1. {x} \cap {y} = {} /\ {x} # {y}
      BY <2>4
    <3> QED
      BY <3>1, <2>1, <2>2
  <2> QED
    BY <2>3, <2>4
<1>4. Monitor!Precision[1] = "port" /\ DOMAIN Monitor!Precision = 1..5
  BY DEF Monitor!Precision
<1>5. ASSUME Monitor!PhysicalPort(a) \cap Monitor!PhysicalPort(b) # {}
      PROVE  Monitor!OccupiesSameSlot(a, b)
  BY <1>1, <1>4, <1>5 DEF Monitor!OccupiesSameSlot
<1>6. ASSUME Monitor!OccupiesSameSlot(a, b)
      PROVE  Monitor!PhysicalPort(a) \cap Monitor!PhysicalPort(b) # {}
  <2>1. PICK i \in DOMAIN Monitor!Precision :
            /\ Monitor!Places(a)[Monitor!Precision[i]] \cap Monitor!Places(b)[Monitor!Precision[i]] # {}
            /\ \A j \in 1..(i - 1) :
                   Monitor!Places(a)[Monitor!Precision[j]] = {} \/ Monitor!Places(b)[Monitor!Precision[j]] = {}
    BY <1>6 DEF Monitor!OccupiesSameSlot
  <2>2. i = 1
    <3> SUFFICES ASSUME i # 1
                 PROVE  FALSE
      OBVIOUS
    <3>1. 1 \in 1..(i - 1)
      BY <1>4
    <3> QED
      BY <3>1, <2>1, <1>1, <1>4
  <2> QED
    BY <2>1, <2>2, <1>1, <1>4
<1> QED
  BY <1>3, <1>5, <1>6

\* An event names the same port, node and application as the device itself.
LEMMA EventKeepsPlace ==
    ASSUME Monitor!DeviceAssumption, NEW d \in Device
    PROVE  /\ Monitor!PhysicalPort(Monitor!FromProperties(d.id)) = Monitor!PhysicalPort(d.id)
           /\ Monitor!FromProperties(d.id).node = d.id.node
           /\ Monitor!FromProperties(d.id).vidPid = d.id.vidPid
           /\ Monitor!FromProperties(d.id).serial = d.id.serial
           /\ d.id \in Monitor!Seen /\ Monitor!FromProperties(d.id) \in Monitor!Seen
<1>1. DOMAIN d.id = {"node", "idPath", "devPath", "byPath", "serial", "vidPid"}
  BY DEF Monitor!DeviceAssumption
<1> DEFINE id == d.id
           from == [id EXCEPT !["byPath"] = {}]
<1>2. /\ from["idPath"] = id["idPath"] /\ from["devPath"] = id["devPath"]
      /\ from["node"] = id["node"] /\ from["vidPid"] = id["vidPid"]
      /\ from["serial"] = id["serial"]
  BY <1>1
<1>3. Monitor!FromProperties(d.id) = from
  BY DEF Monitor!FromProperties
<1>4. /\ from.idPath = id.idPath /\ from.devPath = id.devPath /\ from.node = id.node
      /\ from.vidPid = id.vidPid /\ from.serial = id.serial
  BY <1>2
<1>5. Monitor!PhysicalPort(from) = Monitor!PhysicalPort(id)
  BY <1>4 DEF Monitor!PhysicalPort
<1> QED
  BY <1>3, <1>4, <1>5 DEF Monitor!Seen

\* The place of the board, of an attached device and of what an event reports.
LEMMA SlotIsPort ==
    ASSUME Monitor!DeviceAssumption, NEW d \in Device
    PROVE  /\ Monitor!InSlot(d) <=> Monitor!PhysicalPort(d.id) = Monitor!PhysicalPort(Board.id)
           /\ Monitor!OccupiesSameSlot(Board.id, Monitor!FromProperties(d.id)) <=> Monitor!InSlot(d)
  BY PortDecides, EventKeepsPlace DEF Monitor!InSlot, Monitor!DeviceAssumption

\* Of two devices apart one at most is in the place of the board.
LEMMA ApartExcludes ==
    ASSUME Monitor!DeviceAssumption, NEW d \in Device, NEW e \in Device, Monitor!Apart(d, e)
    PROVE  Monitor!Apart(e, d) /\ ~(Monitor!InSlot(d) /\ Monitor!InSlot(e))
  BY PortDecides, SlotIsPort DEF Monitor!Apart, Monitor!DeviceAssumption

\* The board itself, read or reported, is proven where its application is one
\* that is expected.
LEMMA BoardMatches ==
    ASSUME Monitor!DeviceAssumption, Board.id.vidPid \in Expected,
           NEW id \in {Board.id, Monitor!FromProperties(Board.id)}
    PROVE  Monitor!Judge(id) = "MATCH"
<1>1. /\ Monitor!PhysicalPort(id) = Monitor!PhysicalPort(Board.id) /\ Monitor!PhysicalPort(id) # {}
      /\ id.vidPid = Board.id.vidPid /\ id.serial = Board.id.serial
  BY EventKeepsPlace DEF Monitor!DeviceAssumption
<1>2. "port" \in Monitor!CommonTopology(Board.id, id)
  BY <1>1 DEF Monitor!CommonTopology, Monitor!TopologyKinds, Monitor!Places
<1>3. Monitor!TopologyScore(Monitor!CommonTopology(Board.id, id)) = 60
  BY <1>2 DEF Monitor!TopologyScore
<1>4. ~Monitor!SerialConflict(Board.id, id)
  BY <1>1 DEF Monitor!SerialConflict
<1>5. Monitor!Score(Board.id, id, Expected) \in {90, 100}
  BY <1>1, <1>3, <1>4 DEF Monitor!Score
<1>6. Monitor!Score(Board.id, id, Expected) >= Monitor!Threshold
  BY <1>5 DEF Monitor!Threshold
<1> QED
  BY <1>1, <1>2, <1>4, <1>6 DEF Monitor!Judge, Monitor!Assess

-----------------------------------------------------------------------------
(* The inductive invariant.                                                *)

USE DEF Monitor!world, Monitor!thread, Monitor!shared, Monitor!waiter, Monitor!Local,
    Monitor!At, Monitor!Read, Monitor!Finish, Monitor!End, Monitor!Close

\* What evidence proves, and what an operator may vouch for.
Proven == {id \in Monitor!Seen : Monitor!Judge(id) = "MATCH"}
Confirmable == {id \in Monitor!Seen : Monitor!Judge(id) = "AMBIGUOUS"}

Pending == Elements(events)
\* A removal from the place of the board that has not been delivered yet.
RemovalPending == \E d \in Device : Monitor!InSlot(d) /\ <<"remove", d.id>> \in Pending
\* The waiting thread deals with an ambiguous candidate.
Asking == {"readAssessment", "readIdentity", "clear", "prompt", "confirm", "confirmed"}

MonitorTypeInv ==
    /\ Monitor!TypeOK
    /\ events \in Seq({"add", "remove"} \X {d.id : d \in Device})
    /\ emptied \in BOOLEAN /\ manual \in BOOLEAN
    /\ callback # "idle" => seen \in Monitor!Seen
    /\ callback \in {"identity", "assessment", "set"} =>
           Monitor!Judge(seen) \in {"MATCH", "AMBIGUOUS", "MISMATCH"}
    /\ waitPc = "done" <=> outcome # None

\* Attached devices are in ports of their own.
PlaceInv == \A d, e \in plugged : d # e => Monitor!Apart(d, e)

\* Nothing is delivered before the source is started.
ArmInv ==
    /\ waitPc \in {"baseline", "start"} =>
           source = "off" /\ latch = {} /\ events = <<>> /\ ~back
    /\ waitPc \in {"start", "recheck"} => Board \in plugged \/ emptied
    /\ waitPc = "latch" => emptied

\* An absence that is latched, or about to be, is one that was.
AbsenceInv ==
    /\ (latch # {} \/ callback # "idle" \/ waitPc \in Asking) => "absent" \in latch
    /\ "absent" \in latch \/ RemovalPending => emptied
    /\ back => Board \in plugged /\ "absent" \in latch

\* An empty place is latched, or its removal waits to be delivered.
RemovalInv ==
    waitPc \notin {"baseline", "start", "recheck", "latch"} /\ source = "on"
        /\ Monitor!SlotEmpty(plugged)
    => "absent" \in latch \/ RemovalPending

\* The return of the board is latched, in the callback, or waits.
ReturnInv ==
    back /\ source = "on" /\ Board.id.vidPid \in Expected =>
        \/ "present" \in latch
        \/ callback # "idle" /\ seen \in {Board.id, Monitor!FromProperties(Board.id)}
        \/ <<"add", Board.id>> \in Pending

\* What can be returned has been proven, or the operator has seen it.
CandidateInv ==
    /\ ambiguousIdentity \in Confirmable \cup {None}
    /\ "ambiguous" \in latch \/ waitPc \in {"readAssessment", "readIdentity"} =>
           ambiguousIdentity # None
    /\ callback \in {"assessment", "set"} /\ Monitor!Judge(seen) = "AMBIGUOUS" =>
           ambiguousIdentity # None
    /\ waitPc \in {"clear", "prompt", "confirm", "confirmed"} => candidate \in Confirmable

AnswerInv ==
    /\ reconnected \in Proven \cup Confirmable \cup {None}
    /\ reconnected \in Confirmable => manual \/ waitPc = "confirmed"
    /\ callback \in {"assessment", "set"} /\ Monitor!Judge(seen) = "MATCH" => reconnected # None
    /\ "present" \in latch \/ waitPc = "confirmed" => reconnected # None

MonitorInv ==
    /\ MonitorTypeInv /\ PlaceInv /\ ArmInv /\ AbsenceInv /\ RemovalInv /\ ReturnInv
    /\ CandidateInv /\ AnswerInv

-----------------------------------------------------------------------------
(* Steps that several actions share.                                       *)

Endings == {"present", "mismatch", "ambiguous", "cancelled", "timeout", "unavailable"}

\* A wait that ends is well typed: it returns an identity exactly when the
\* presence was latched.
LEMMA EndTyped ==
    ASSUME Monitor!DeviceAssumption, MonitorTypeInv, AnswerInv, NEW how \in Endings,
        Monitor!End(how),
           how = "present" => "present" \in latch,
           UNCHANGED <<Monitor!world, events, Monitor!thread, Monitor!shared>>,
               source' \in {source, "off"}
    PROVE  MonitorTypeInv'
<1>1. how # None
  BY DEF Monitor!DeviceAssumption, Endings
<1>2. reconnected = None => "present" \notin latch
  BY DEF AnswerInv
<1>3. waitReturned' # None <=> outcome' = "present"
  BY <1>1, <1>2
<1>4. Monitor!TypeOK'
  <2>1. (waitReturned' # None) = (outcome' = "present")
    BY <1>3
  <2>2. waitPc' = "done" /\ outcome' \in Endings
    OBVIOUS
  <2> QED
    BY <2>1, <2>2 DEF MonitorTypeInv, Monitor!TypeOK, Endings
<1> QED
  BY <1>1, <1>4 DEF MonitorTypeInv

\* What the bench reports waits to be delivered while udev is subscribed.
LEMMA ReportAdds ==
    ASSUME Monitor!DeviceAssumption, MonitorTypeInv, NEW action \in {"add", "remove"},
           NEW d \in Device, Monitor!Moves, Monitor!Report(action, d)
    PROVE  /\ events' \in Seq({"add", "remove"} \X {e.id : e \in Device})
           /\ Len(events') <= MaxReports
           /\ source # "on" => events' = events
           /\ source = "on" => Pending' = Pending \cup {<<action, d.id>>}
           /\ Pending \subseteq Pending' /\ Pending' \subseteq Pending \cup {<<action, d.id>>}
<1> DEFINE S == {"add", "remove"} \X {e.id : e \in Device}
<1>1. events \in Seq(S) /\ Len(events) <= MaxReports /\ Len(events) < MaxReports
      /\ Len(events) \in Nat /\ MaxReports \in Nat
  BY DEF MonitorTypeInv, Monitor!TypeOK, Monitor!Moves, Monitor!DeviceAssumption
<1>2. CASE source = "on"
  <2>1. events' = Append(events, <<action, d.id>>) /\ <<action, d.id>> \in S
    BY <1>2 DEF Monitor!Report
  <2>2. /\ events' \in Seq(S) /\ Len(events') = Len(events) + 1
        /\ Elements(events') = Elements(events) \cup {<<action, d.id>>}
    <3> HIDE DEF S
    <3> QED
      BY <1>1, <2>1, AppendAdds
  <2>3. Len(events') <= MaxReports
    BY <1>1, <2>2
  <2> QED
    BY <1>2, <2>2, <2>3 DEF Pending
<1>3. CASE source # "on"
  BY <1>1, <1>3 DEF Monitor!Report, Pending
<1> QED
  BY <1>2, <1>3

\* A delivered event is one that a device caused; the others go on waiting.
LEMMA DeliverTakes ==
    ASSUME Monitor!DeviceAssumption, MonitorTypeInv, NEW action, Monitor!Deliver(action)
    PROVE  /\ events' \in Seq({"add", "remove"} \X {e.id : e \in Device})
           /\ Len(events') <= MaxReports
           /\ \E d \in Device : Head(events) = <<action, d.id>>
           /\ Pending = Pending' \cup {Head(events)}
<1> DEFINE S == {"add", "remove"} \X {e.id : e \in Device}
<1>1. events \in Seq(S) /\ Len(events) <= MaxReports /\ events # <<>> /\ events' = Tail(events)
      /\ MaxReports \in Nat /\ Head(events)[1] = action
  BY DEF MonitorTypeInv, Monitor!TypeOK, Monitor!Deliver, Monitor!DeviceAssumption
<1>2. /\ Head(events) \in S /\ Tail(events) \in Seq(S) /\ Len(Tail(events)) = Len(events) - 1
      /\ Len(events) \in Nat /\ Elements(events) = Elements(Tail(events)) \cup {Head(events)}
  <2> HIDE DEF S
  <2> QED
    BY <1>1, TailTakes
<1>3. Len(Tail(events)) <= MaxReports
  BY <1>1, <1>2
<1>4. \E d \in Device : Head(events) = <<action, d.id>>
  BY <1>1, <1>2
<1> QED
  BY <1>1, <1>2, <1>3, <1>4 DEF Pending

-----------------------------------------------------------------------------
(* The invariant holds initially and every step keeps it.                  *)

\* A device leaves; the place it was in is then empty.
LEMMA UnplugKeeps ==
    ASSUME Monitor!DeviceAssumption, MonitorInv, NEW d \in Device, Monitor!Unplug(d)
    PROVE  MonitorInv'
<1> USE DEF MonitorInv
<1> USE DEF Monitor!Unplug
<1>a. /\ Pending \subseteq Pending' /\ Pending' \subseteq Pending \cup {<<"remove", d.id>>}
      /\ source = "on" => <<"remove", d.id>> \in Pending'
      /\ source # "on" => events' = events
      /\ events' \in Seq({"add", "remove"} \X {e.id : e \in Device})
      /\ Len(events') <= MaxReports
  BY ReportAdds
<1>b. plugged \subseteq Device /\ d \in plugged /\ plugged' = plugged \ {d} /\ outcome = None
  BY DEF MonitorTypeInv, Monitor!TypeOK, Monitor!Moves
<1>c. Monitor!InSlot(d) => Monitor!SlotEmpty(plugged')
  BY <1>b, ApartExcludes DEF PlaceInv, Monitor!SlotEmpty
<1>d. ~Monitor!InSlot(d) /\ Monitor!SlotEmpty(plugged') => Monitor!SlotEmpty(plugged)
  BY <1>b DEF Monitor!SlotEmpty
<1>e. Monitor!InSlot(Board)
  BY SlotIsPort DEF Monitor!DeviceAssumption
<1>f. emptied' = (emptied \/ (waitPc # "baseline" /\ Monitor!SlotEmpty(plugged'))) /\ waitPc # "done"
  BY <1>b DEF MonitorTypeInv
<1>1. MonitorTypeInv'
  <2>1. Monitor!TypeOK'
    BY <1>a, <1>b DEF MonitorTypeInv, Monitor!TypeOK
  <2>2. emptied' \in BOOLEAN
    BY <1>f DEF MonitorTypeInv
  <2> QED
    BY <2>1, <2>2, <1>a DEF MonitorTypeInv
<1>2. PlaceInv'
  BY DEF Monitor!Unplug, Monitor!Moves, Monitor!Report, PlaceInv
<1>3. ArmInv'
  <2>1. waitPc \in {"start", "recheck"} => Board \in plugged' \/ emptied'
    BY <1>b, <1>c, <1>e, <1>f DEF ArmInv
  <2>2. waitPc = "latch" => emptied'
    BY <1>f DEF ArmInv
  <2>3. waitPc \in {"baseline", "start"} => events' = events /\ ~back'
    BY <1>a DEF ArmInv
  <2> QED
    BY <2>1, <2>2, <2>3 DEF ArmInv
<1>4. AbsenceInv'
  <2>1. RemovalPending' => emptied'
    <3> SUFFICES ASSUME RemovalPending'
                 PROVE  emptied'
      OBVIOUS
    <3>1. CASE RemovalPending
      BY <3>1, <1>f DEF AbsenceInv
    <3>2. CASE ~RemovalPending
      <4>1. PICK e \in Device : Monitor!InSlot(e) /\ <<"remove", e.id>> \in Pending'
        BY DEF RemovalPending
      <4>2. <<"remove", e.id>> = <<"remove", d.id>>
        BY <4>1, <3>2, <1>a DEF RemovalPending
      <4>3. Monitor!InSlot(d) /\ source = "on"
        BY <4>1, <4>2, <3>2, <1>a DEF Monitor!InSlot, RemovalPending, Pending
      <4>4. waitPc # "baseline"
        BY <4>3 DEF ArmInv
      <4> QED
        BY <4>3, <4>4, <1>c, <1>f
    <3> QED
      BY <3>1, <3>2
  <2>2. "absent" \in latch => emptied'
    BY <1>f DEF AbsenceInv
  <2>3. back' => Board \in plugged' /\ "absent" \in latch
    BY <1>b DEF AbsenceInv
  <2> QED
    BY <2>1, <2>2, <2>3 DEF AbsenceInv, Asking
<1>5. RemovalInv'
  <2> SUFFICES ASSUME waitPc \notin {"baseline", "start", "recheck", "latch"},
      source = "on",
                      Monitor!SlotEmpty(plugged')
               PROVE  "absent" \in latch \/ RemovalPending'
    BY DEF RemovalInv
  <2>1. CASE Monitor!InSlot(d)
    BY <2>1, <1>a DEF RemovalPending
  <2>2. CASE ~Monitor!InSlot(d)
    BY <2>2, <1>a, <1>d DEF RemovalInv, RemovalPending
  <2> QED
    BY <2>1, <2>2
<1>6. ReturnInv'
  BY <1>a DEF ReturnInv
<1>7. CandidateInv'
  BY DEF Monitor!Unplug, Monitor!Moves, Monitor!Report, CandidateInv, MonitorTypeInv,
     Monitor!TypeOK, AbsenceInv, Asking
<1>8. AnswerInv'
  BY DEF Monitor!Unplug, Monitor!Moves, Monitor!Report, AnswerInv, CandidateInv,
     Confirmable, Proven, MonitorTypeInv, Monitor!TypeOK
<1> QED
  BY <1>1, <1>2, <1>3, <1>4, <1>5, <1>6, <1>7, <1>8

\* A device arrives where a port and a node are free.
LEMMA PlugKeeps ==
    ASSUME Monitor!DeviceAssumption, MonitorInv, NEW d \in Device, Monitor!Plug(d)
    PROVE  MonitorInv'
<1> USE DEF MonitorInv
<1> USE DEF Monitor!Plug
<1>a. /\ Pending \subseteq Pending' /\ Pending' \subseteq Pending \cup {<<"add", d.id>>}
      /\ source = "on" => <<"add", d.id>> \in Pending'
      /\ source # "on" => events' = events
      /\ events' \in Seq({"add", "remove"} \X {e.id : e \in Device})
      /\ Len(events') <= MaxReports
  BY ReportAdds
<1>b. RemovalPending' <=> RemovalPending
  BY <1>a DEF RemovalPending
<1>c. plugged \subseteq Device /\ plugged' = plugged \cup {d}
  BY DEF MonitorTypeInv, Monitor!TypeOK
<1>1. MonitorTypeInv'
  BY <1>a, <1>c DEF MonitorTypeInv, Monitor!TypeOK
<1>2. PlaceInv'
  <2>1. \A e \in plugged : Monitor!Apart(e, d) /\ Monitor!Apart(d, e)
    BY <1>c, ApartExcludes
  <2> QED
    BY <2>1, <1>c DEF PlaceInv
<1>3. ArmInv'
  BY <1>a, <1>c DEF ArmInv
<1>4. AbsenceInv'
  BY <1>b, <1>c DEF AbsenceInv, Asking
<1>5. RemovalInv'
  <2>1. Monitor!SlotEmpty(plugged') => Monitor!SlotEmpty(plugged)
    BY <1>c DEF Monitor!SlotEmpty
  <2> QED
    BY <2>1, <1>b DEF RemovalInv
<1>6. ReturnInv'
  <2> SUFFICES ASSUME back', source = "on", Board.id.vidPid \in Expected
               PROVE  \/ "present" \in latch
                      \/ callback # "idle" /\ seen \in {Board.id, Monitor!FromProperties(Board.id)}
                      \/ <<"add", Board.id>> \in Pending'
    BY DEF ReturnInv
  <2>1. CASE back
    BY <2>1, <1>a DEF ReturnInv
  <2>2. CASE ~back
    BY <2>2, <1>a
  <2> QED
    BY <2>1, <2>2
<1>7. CandidateInv'
  BY DEF Monitor!Plug, Monitor!Moves, Monitor!Report, CandidateInv, MonitorTypeInv,
     Monitor!TypeOK, AbsenceInv, Asking
<1>8. AnswerInv'
  BY DEF Monitor!Plug, Monitor!Moves, Monitor!Report, AnswerInv, CandidateInv, Confirmable,
     Proven, MonitorTypeInv, Monitor!TypeOK
<1> QED
  BY <1>1, <1>2, <1>3, <1>4, <1>5, <1>6, <1>7, <1>8

\* The udev process ends.
LEMMA SourceDiesKeeps ==
    ASSUME Monitor!DeviceAssumption, MonitorInv, Monitor!SourceDies
    PROVE  MonitorInv'
<1> USE DEF MonitorInv
<1>1. MonitorTypeInv'
  BY DEF Monitor!SourceDies, MonitorTypeInv, Monitor!TypeOK, AnswerInv
<1>2. PlaceInv'
  BY DEF Monitor!SourceDies, PlaceInv
<1>3. ArmInv'
  BY DEF Monitor!SourceDies, ArmInv, AbsenceInv, MonitorTypeInv, Monitor!TypeOK,
     RemovalPending
<1>4. AbsenceInv'
  BY DEF Monitor!SourceDies, AbsenceInv, RemovalPending, Pending, Asking, ArmInv,
     MonitorTypeInv, Monitor!TypeOK
<1>5. RemovalInv'
  BY DEF Monitor!SourceDies, RemovalInv, RemovalPending, Pending, ArmInv, AbsenceInv
<1>6. ReturnInv'
  BY DEF Monitor!SourceDies, ReturnInv, Pending, ArmInv, AbsenceInv
<1>7. CandidateInv'
  BY DEF Monitor!SourceDies, CandidateInv, MonitorTypeInv, Monitor!TypeOK, AbsenceInv,
     Asking
<1>8. AnswerInv'
  BY DEF Monitor!SourceDies, AnswerInv, CandidateInv, Confirmable, Proven, MonitorTypeInv,
     Monitor!TypeOK
<1> QED
  BY <1>1, <1>2, <1>3, <1>4, <1>5, <1>6, <1>7, <1>8

\* A removal is delivered, and latched where it is of the place of the board.
LEMMA OnRemoveKeeps ==
    ASSUME Monitor!DeviceAssumption, MonitorInv, Monitor!OnRemove
    PROVE  MonitorInv'
<1> USE DEF MonitorInv
<1> USE DEF Monitor!OnRemove
<1>a. Monitor!Deliver("remove") /\ callback = "idle" /\ source # "off"
  BY DEF Monitor!Deliver
<1>b. PICK d \in Device : Head(events) = <<"remove", d.id>>
  BY <1>a, DeliverTakes
<1>c. Head(events)[2] = d.id
  BY <1>b
<1>d. /\ Pending = Pending' \cup {<<"remove", d.id>>}
      /\ events' \in Seq({"add", "remove"} \X {e.id : e \in Device})
      /\ Len(events') <= MaxReports
  BY <1>a, <1>b, DeliverTakes
<1>e. waitPc \notin {"baseline", "start"}
  BY <1>a DEF ArmInv
<1>f. latch' = IF Monitor!InSlot(d) THEN latch \cup {"absent"} ELSE latch
  BY <1>c, SlotIsPort
<1>g. UNCHANGED <<Monitor!world, source, Monitor!thread, ambiguousIdentity,
    ambiguousAssessment,
                  reconnected, lastAssessment, Monitor!waiter>>
  OBVIOUS
<1> HIDE DEF Monitor!OnRemove
<1>1. MonitorTypeInv'
  BY <1>d, <1>f, <1>g DEF MonitorTypeInv, Monitor!TypeOK
<1>2. PlaceInv'
  BY <1>g DEF PlaceInv
<1>3. ArmInv'
  BY <1>e, <1>g DEF ArmInv
<1>4. AbsenceInv'
  <2>1. RemovalPending' => RemovalPending
    BY <1>d DEF RemovalPending
  <2>2. Monitor!InSlot(d) => RemovalPending
    BY <1>d DEF RemovalPending
  <2> QED
    BY <2>1, <2>2, <1>f, <1>g DEF AbsenceInv, Asking
<1>5. RemovalInv'
  <2>1. CASE Monitor!InSlot(d)
    BY <2>1, <1>f DEF RemovalInv
  <2>2. CASE ~Monitor!InSlot(d)
    <3>1. ASSUME NEW e \in Device, Monitor!InSlot(e), <<"remove", e.id>> \in Pending
          PROVE  <<"remove", e.id>> \in Pending'
      <4>1. e.id # d.id
        BY <2>2, <3>1 DEF Monitor!InSlot
      <4>2. <<"remove", e.id>> # <<"remove", d.id>>
        BY <4>1
      <4> QED
        BY <4>2, <3>1, <1>d
    <3>2. RemovalPending => RemovalPending'
      BY <3>1 DEF RemovalPending
    <3> QED
      BY <3>2, <2>2, <1>f, <1>g DEF RemovalInv
  <2> QED
    BY <2>1, <2>2
<1>6. ReturnInv'
  <2>1. <<"add", Board.id>> \in Pending => <<"add", Board.id>> \in Pending'
    BY <1>d
  <2> QED
    BY <2>1, <1>f, <1>g DEF ReturnInv
<1>7. CandidateInv'
  BY <1>f, <1>g DEF CandidateInv
<1>8. AnswerInv'
  BY <1>f, <1>g DEF AnswerInv
<1> QED
  BY <1>1, <1>2, <1>3, <1>4, <1>5, <1>6, <1>7, <1>8

\* An addition is delivered, and assessed once the absence was latched.
LEMMA OnAddKeeps ==
    ASSUME Monitor!DeviceAssumption, MonitorInv, Monitor!OnAdd
    PROVE  MonitorInv'
<1> USE DEF MonitorInv
<1> USE DEF Monitor!OnAdd
<1>a. Monitor!Deliver("add") /\ callback = "idle" /\ source # "off"
  BY DEF Monitor!Deliver
<1>b. PICK d \in Device : Head(events) = <<"add", d.id>>
  BY <1>a, DeliverTakes
<1>c. Head(events)[2] = d.id
  BY <1>b
<1>d. /\ Pending = Pending' \cup {<<"add", d.id>>}
      /\ events' \in Seq({"add", "remove"} \X {e.id : e \in Device})
      /\ Len(events') <= MaxReports
  BY <1>a, <1>b, DeliverTakes
<1>e. waitPc \notin {"baseline", "start"}
  BY <1>a DEF ArmInv
<1>f. IF "absent" \in latch
      THEN callback' = "refresh" /\ seen' = Monitor!FromProperties(d.id)
      ELSE UNCHANGED Monitor!thread
  BY <1>c
<1>g. UNCHANGED <<Monitor!world, source, Monitor!shared, Monitor!waiter>>
  OBVIOUS
<1>h. Monitor!FromProperties(d.id) \in Monitor!Seen
  BY EventKeepsPlace
<1>i. RemovalPending' <=> RemovalPending
  BY <1>d DEF RemovalPending
<1> HIDE DEF Monitor!OnAdd
<1>1. MonitorTypeInv'
  BY <1>a, <1>d, <1>f, <1>g, <1>h DEF MonitorTypeInv, Monitor!TypeOK
<1>2. PlaceInv'
  BY <1>g DEF PlaceInv
<1>3. ArmInv'
  BY <1>e, <1>g DEF ArmInv
<1>4. AbsenceInv'
  BY <1>a, <1>f, <1>g, <1>i DEF AbsenceInv, Asking
<1>5. RemovalInv'
  BY <1>g, <1>i DEF RemovalInv
<1>6. ReturnInv'
  <2>1. CASE <<"add", Board.id>> \in Pending'
    BY <2>1, <1>g DEF ReturnInv
  <2>2. CASE <<"add", Board.id>> \in Pending /\ <<"add", Board.id>> \notin Pending'
    <3>1. Board.id = d.id
      BY <2>2, <1>d
    <3> QED
      BY <3>1, <1>f, <1>g DEF ReturnInv, AbsenceInv
  <2>3. CASE <<"add", Board.id>> \notin Pending
    BY <2>3, <1>a, <1>g DEF ReturnInv
  <2> QED
    BY <2>1, <2>2, <2>3
<1>7. CandidateInv'
  BY <1>a, <1>f, <1>g DEF CandidateInv
<1>8. AnswerInv'
  BY <1>a, <1>f, <1>g DEF AnswerInv
<1> QED
  BY <1>1, <1>2, <1>3, <1>4, <1>5, <1>6, <1>7, <1>8

\* The node is read again.
LEMMA RefreshKeeps ==
    ASSUME Monitor!DeviceAssumption, MonitorInv, Monitor!Refresh
    PROVE  MonitorInv'
<1> USE DEF MonitorInv
<1>a. PICK id \in {seen} \cup {d.id : d \in Monitor!AtNode(seen.node)} :
          IF Monitor!Judge(id) \in {"MATCH", "AMBIGUOUS", "MISMATCH"}
          THEN callback' = "identity" /\ seen' = id
          ELSE callback' = "idle" /\ seen' = None
  BY DEF Monitor!Refresh
<1>b. id \in Monitor!Seen /\ callback = "refresh"
  BY EventKeepsPlace DEF Monitor!Refresh, Monitor!AtNode, MonitorTypeInv, Monitor!TypeOK
<1>c. UNCHANGED <<Monitor!world, events, source, Monitor!shared, Monitor!waiter>>
  BY DEF Monitor!Refresh
<1>1. MonitorTypeInv'
  BY <1>a, <1>b, <1>c DEF MonitorTypeInv, Monitor!TypeOK
<1>2. PlaceInv'
  BY DEF Monitor!Refresh, Monitor!AtNode, PlaceInv
<1>3. ArmInv'
  BY DEF Monitor!Refresh, Monitor!AtNode, ArmInv, AbsenceInv, MonitorTypeInv,
     Monitor!TypeOK, RemovalPending
<1>4. AbsenceInv'
  BY DEF Monitor!Refresh, Monitor!AtNode, AbsenceInv, RemovalPending, Pending, Asking,
     ArmInv, MonitorTypeInv, Monitor!TypeOK
<1>5. RemovalInv'
  BY DEF Monitor!Refresh, Monitor!AtNode, RemovalInv, RemovalPending, Pending, ArmInv,
     AbsenceInv
<1>6. ReturnInv'
  <2> SUFFICES ASSUME back, Board.id.vidPid \in Expected,
                      seen \in {Board.id, Monitor!FromProperties(Board.id)}
               PROVE  callback' # "idle" /\ seen' \in {Board.id,
                   Monitor!FromProperties(Board.id)}
    BY <1>c DEF ReturnInv, Pending
  <2>1. Board \in plugged /\ Board \in Device /\ seen.node = Board.id.node
    BY EventKeepsPlace DEF AbsenceInv, Monitor!DeviceAssumption
  <2>2. Monitor!AtNode(seen.node) = {Board}
    BY <2>1 DEF Monitor!AtNode, PlaceInv, Monitor!Apart
  <2>3. id \in {Board.id, Monitor!FromProperties(Board.id)}
    BY <1>a, <2>2
  <2>4. Monitor!Judge(id) = "MATCH"
    BY <2>3, BoardMatches
  <2> QED
    BY <1>a, <2>3, <2>4
<1>7. CandidateInv'
  BY DEF Monitor!Refresh, Monitor!AtNode, CandidateInv, MonitorTypeInv, Monitor!TypeOK,
     AbsenceInv, Asking
<1>8. AnswerInv'
  BY DEF Monitor!Refresh, Monitor!AtNode, AnswerInv, CandidateInv, Confirmable, Proven,
     MonitorTypeInv, Monitor!TypeOK
<1> QED
  BY <1>1, <1>2, <1>3, <1>4, <1>5, <1>6, <1>7, <1>8

\* The identity is stored where its verdict says.
LEMMA StoreIdentityKeeps ==
    ASSUME Monitor!DeviceAssumption, MonitorInv, Monitor!StoreIdentity
    PROVE  MonitorInv'
<1> USE DEF MonitorInv
<1>1. MonitorTypeInv'
  BY DEF Monitor!StoreIdentity, MonitorTypeInv, Monitor!TypeOK, AnswerInv
<1>2. PlaceInv'
  BY DEF Monitor!StoreIdentity, PlaceInv
<1>3. ArmInv'
  BY DEF Monitor!StoreIdentity, ArmInv, AbsenceInv, MonitorTypeInv, Monitor!TypeOK,
     RemovalPending
<1>4. AbsenceInv'
  BY DEF Monitor!StoreIdentity, AbsenceInv, RemovalPending, Pending, Asking, ArmInv,
     MonitorTypeInv, Monitor!TypeOK
<1>5. RemovalInv'
  BY DEF Monitor!StoreIdentity, RemovalInv, RemovalPending, Pending, ArmInv, AbsenceInv
<1>6. ReturnInv'
  BY DEF Monitor!StoreIdentity, ReturnInv, Pending, ArmInv, AbsenceInv
<1>7. CandidateInv'
  <2>1. Monitor!Judge(seen) = "AMBIGUOUS" => seen \in Confirmable /\ seen # None
    BY DEF Monitor!StoreIdentity, MonitorTypeInv, Confirmable, Monitor!DeviceAssumption
  <2> QED
    BY <2>1 DEF Monitor!StoreIdentity, CandidateInv
<1>8. AnswerInv'
  <2>1. Monitor!Judge(seen) = "MATCH" => seen \in Proven /\ seen \notin Confirmable /\ seen # None
    BY DEF Monitor!StoreIdentity, MonitorTypeInv, Proven, Confirmable,
       Monitor!DeviceAssumption
  <2> QED
    BY <2>1 DEF Monitor!StoreIdentity, AnswerInv
<1> QED
  BY <1>1, <1>2, <1>3, <1>4, <1>5, <1>6, <1>7, <1>8

\* Then its assessment.
LEMMA StoreAssessmentKeeps ==
    ASSUME Monitor!DeviceAssumption, MonitorInv, Monitor!StoreAssessment
    PROVE  MonitorInv'
<1> USE DEF MonitorInv
<1>1. MonitorTypeInv'
  BY DEF Monitor!StoreAssessment, MonitorTypeInv, Monitor!TypeOK, AnswerInv
<1>2. PlaceInv'
  BY DEF Monitor!StoreAssessment, PlaceInv
<1>3. ArmInv'
  BY DEF Monitor!StoreAssessment, ArmInv, AbsenceInv, MonitorTypeInv, Monitor!TypeOK,
     RemovalPending
<1>4. AbsenceInv'
  BY DEF Monitor!StoreAssessment, AbsenceInv, RemovalPending, Pending, Asking, ArmInv,
     MonitorTypeInv, Monitor!TypeOK
<1>5. RemovalInv'
  BY DEF Monitor!StoreAssessment, RemovalInv, RemovalPending, Pending, ArmInv, AbsenceInv
<1>6. ReturnInv'
  BY DEF Monitor!StoreAssessment, ReturnInv, Pending, ArmInv, AbsenceInv
<1>7. CandidateInv'
  BY DEF Monitor!StoreAssessment, CandidateInv, MonitorTypeInv, Monitor!TypeOK, AbsenceInv,
     Asking
<1>8. AnswerInv'
  BY DEF Monitor!StoreAssessment, AnswerInv, CandidateInv, Confirmable, Proven,
     MonitorTypeInv, Monitor!TypeOK
<1> QED
  BY <1>1, <1>2, <1>3, <1>4, <1>5, <1>6, <1>7, <1>8

\* Then the latch is set.
LEMMA SetLatchKeeps ==
    ASSUME Monitor!DeviceAssumption, MonitorInv, Monitor!SetLatch
    PROVE  MonitorInv'
<1> USE DEF MonitorInv
<1>1. MonitorTypeInv'
  <2>1. latch' \subseteq {"absent", "present", "ambiguous", "mismatch"}
    <3>1. latch \subseteq {"absent", "present", "ambiguous", "mismatch"}
      BY DEF MonitorTypeInv, Monitor!TypeOK
    <3>2. Monitor!Judge(seen) \in {"MATCH", "AMBIGUOUS", "MISMATCH"}
      BY DEF Monitor!SetLatch, MonitorTypeInv
    <3>3. Monitor!LatchOf[Monitor!Judge(seen)] \in {"present", "ambiguous", "mismatch"}
      BY <3>2 DEF Monitor!LatchOf
    <3> QED
      BY <3>1, <3>3 DEF Monitor!SetLatch
  <2> QED
    BY <2>1 DEF Monitor!SetLatch, MonitorTypeInv, Monitor!TypeOK
<1>2. PlaceInv'
  BY DEF Monitor!SetLatch, Monitor!LatchOf, PlaceInv
<1>3. ArmInv'
  BY DEF Monitor!SetLatch, Monitor!LatchOf, ArmInv, AbsenceInv, MonitorTypeInv,
     Monitor!TypeOK, RemovalPending
<1>4. AbsenceInv'
  BY DEF Monitor!SetLatch, Monitor!LatchOf, AbsenceInv, RemovalPending, Pending, Asking,
     ArmInv, MonitorTypeInv, Monitor!TypeOK
<1>5. RemovalInv'
  BY DEF Monitor!SetLatch, Monitor!LatchOf, RemovalInv, RemovalPending, Pending, ArmInv,
     AbsenceInv
<1>6. ReturnInv'
  <2>1. Board.id.vidPid \in Expected /\ seen \in {Board.id,
      Monitor!FromProperties(Board.id)}
        => "present" \in latch'
    BY BoardMatches DEF Monitor!SetLatch, Monitor!LatchOf
  <2> QED
    BY <2>1 DEF Monitor!SetLatch, ReturnInv, Pending
<1>7. CandidateInv'
  BY DEF Monitor!SetLatch, Monitor!LatchOf, CandidateInv, MonitorTypeInv, Monitor!TypeOK,
     AbsenceInv, Asking
<1>8. AnswerInv'
  BY DEF Monitor!SetLatch, Monitor!LatchOf, AnswerInv, CandidateInv, Confirmable, Proven,
     MonitorTypeInv, Monitor!TypeOK
<1> QED
  BY <1>1, <1>2, <1>3, <1>4, <1>5, <1>6, <1>7, <1>8

\* The baseline is read.
LEMMA ReadBaselineKeeps ==
    ASSUME Monitor!DeviceAssumption, MonitorInv, Monitor!ReadBaseline
    PROVE  MonitorInv'
<1> USE DEF MonitorInv
<1>1. MonitorTypeInv'
  <2>1. CASE Monitor!End("unavailable")
    BY <2>1, EndTyped DEF Monitor!ReadBaseline, Endings
  <2>2. CASE waitPc' = "start" /\ UNCHANGED Monitor!Local
    BY <2>2 DEF Monitor!ReadBaseline, MonitorTypeInv, Monitor!TypeOK
  <2> QED
    BY <2>1, <2>2 DEF Monitor!ReadBaseline
<1>2. PlaceInv'
  BY DEF Monitor!ReadBaseline, Monitor!AtConfiguredPath, PlaceInv
<1>3. ArmInv'
  <2>1. waitPc' = "start" => Board \in plugged
    BY DEF Monitor!ReadBaseline, Monitor!AtConfiguredPath, MonitorTypeInv, Monitor!TypeOK,
       Monitor!DeviceAssumption
  <2> QED
    BY <2>1 DEF Monitor!ReadBaseline, ArmInv
<1>4. AbsenceInv'
  BY DEF Monitor!ReadBaseline, Monitor!AtConfiguredPath, AbsenceInv, RemovalPending,
     Pending, Asking, ArmInv, MonitorTypeInv, Monitor!TypeOK
<1>5. RemovalInv'
  BY DEF Monitor!ReadBaseline, Monitor!AtConfiguredPath, RemovalInv, RemovalPending,
     Pending, ArmInv, AbsenceInv
<1>6. ReturnInv'
  BY DEF Monitor!ReadBaseline, Monitor!AtConfiguredPath, ReturnInv, Pending, ArmInv,
     AbsenceInv
<1>7. CandidateInv'
  BY DEF Monitor!ReadBaseline, Monitor!AtConfiguredPath, CandidateInv, MonitorTypeInv,
     Monitor!TypeOK, AbsenceInv, Asking
<1>8. AnswerInv'
  BY DEF Monitor!ReadBaseline, Monitor!AtConfiguredPath, AnswerInv, CandidateInv,
     Confirmable, Proven, MonitorTypeInv, Monitor!TypeOK
<1> QED
  BY <1>1, <1>2, <1>3, <1>4, <1>5, <1>6, <1>7, <1>8

\* The source is started.
LEMMA StartSourceKeeps ==
    ASSUME Monitor!DeviceAssumption, MonitorInv, Monitor!StartSource
    PROVE  MonitorInv'
<1> USE DEF MonitorInv
<1>1. MonitorTypeInv'
  <2>1. CASE Monitor!End("unavailable") /\ Monitor!Close
    BY <2>1, EndTyped DEF Monitor!StartSource, Endings
  <2>2. CASE source' = "on" /\ waitPc' = "recheck" /\ UNCHANGED Monitor!Local
    BY <2>2 DEF Monitor!StartSource, MonitorTypeInv, Monitor!TypeOK
  <2> QED
    BY <2>1, <2>2 DEF Monitor!StartSource
<1>2. PlaceInv'
  BY DEF Monitor!StartSource, PlaceInv
<1>3. ArmInv'
  BY DEF Monitor!StartSource, ArmInv, AbsenceInv, MonitorTypeInv, Monitor!TypeOK,
     RemovalPending
<1>4. AbsenceInv'
  BY DEF Monitor!StartSource, AbsenceInv, RemovalPending, Pending, Asking, ArmInv,
     MonitorTypeInv, Monitor!TypeOK
<1>5. RemovalInv'
  BY DEF Monitor!StartSource, RemovalInv, RemovalPending, Pending, ArmInv, AbsenceInv
<1>6. ReturnInv'
  BY DEF Monitor!StartSource, ReturnInv, Pending, ArmInv, AbsenceInv
<1>7. CandidateInv'
  BY DEF Monitor!StartSource, CandidateInv, MonitorTypeInv, Monitor!TypeOK, AbsenceInv,
     Asking
<1>8. AnswerInv'
  BY DEF Monitor!StartSource, AnswerInv, CandidateInv, Confirmable, Proven, MonitorTypeInv,
     Monitor!TypeOK
<1> QED
  BY <1>1, <1>2, <1>3, <1>4, <1>5, <1>6, <1>7, <1>8

\* The configured path is read again: only an absent board is latched.
LEMMA RecheckKeeps ==
    ASSUME Monitor!DeviceAssumption, MonitorInv, Monitor!Recheck
    PROVE  MonitorInv'
<1> USE DEF MonitorInv
<1>1. MonitorTypeInv'
  <2>1. CASE Monitor!End("unavailable") /\ Monitor!Close
    BY <2>1, EndTyped DEF Monitor!Recheck, Endings
  <2>2. CASE waitPc' \in {"latch", "absent", "round"} /\ UNCHANGED <<source, Monitor!Local>>
    BY <2>2 DEF Monitor!Recheck, MonitorTypeInv, Monitor!TypeOK
  <2> QED
    BY <2>1, <2>2 DEF Monitor!Recheck
<1>2. PlaceInv'
  BY DEF Monitor!Recheck, Monitor!AtConfiguredPath, PlaceInv
<1>3. ArmInv'
  BY DEF Monitor!Recheck, Monitor!AtConfiguredPath, ArmInv, AbsenceInv, MonitorTypeInv,
     Monitor!TypeOK, RemovalPending
<1>4. AbsenceInv'
  BY DEF Monitor!Recheck, Monitor!AtConfiguredPath, AbsenceInv, RemovalPending, Pending,
     Asking, ArmInv, MonitorTypeInv, Monitor!TypeOK
<1>5. RemovalInv'
  <2>1. CASE waitPc' = "latch" \/ source' # "on"
    BY <2>1 DEF RemovalInv
  <2>2. CASE waitPc' # "latch" /\ source' = "on"
    <3>1. Monitor!AtConfiguredPath # {}
      BY <2>2 DEF Monitor!Recheck
    <3>2. Board \in plugged /\ Monitor!InSlot(Board)
      BY <3>1, SlotIsPort DEF Monitor!AtConfiguredPath, MonitorTypeInv, Monitor!TypeOK,
         Monitor!DeviceAssumption
    <3>3. ~Monitor!SlotEmpty(plugged')
      BY <3>2 DEF Monitor!SlotEmpty, Monitor!Recheck
    <3> QED
      BY <3>3 DEF RemovalInv
  <2> QED
    BY <2>1, <2>2
<1>6. ReturnInv'
  BY DEF Monitor!Recheck, Monitor!AtConfiguredPath, ReturnInv, Pending, ArmInv, AbsenceInv
<1>7. CandidateInv'
  BY DEF Monitor!Recheck, Monitor!AtConfiguredPath, CandidateInv, MonitorTypeInv,
     Monitor!TypeOK, AbsenceInv, Asking
<1>8. AnswerInv'
  BY DEF Monitor!Recheck, Monitor!AtConfiguredPath, AnswerInv, CandidateInv, Confirmable,
     Proven, MonitorTypeInv, Monitor!TypeOK
<1> QED
  BY <1>1, <1>2, <1>3, <1>4, <1>5, <1>6, <1>7, <1>8

\* The absence that the second reading saw.
LEMMA LatchAbsenceKeeps ==
    ASSUME Monitor!DeviceAssumption, MonitorInv, Monitor!LatchAbsence
    PROVE  MonitorInv'
<1> USE DEF MonitorInv
<1>1. MonitorTypeInv'
  BY DEF Monitor!LatchAbsence, MonitorTypeInv, Monitor!TypeOK, AnswerInv
<1>2. PlaceInv'
  BY DEF Monitor!LatchAbsence, PlaceInv
<1>3. ArmInv'
  BY DEF Monitor!LatchAbsence, ArmInv, AbsenceInv, MonitorTypeInv, Monitor!TypeOK,
     RemovalPending
<1>4. AbsenceInv'
  BY DEF Monitor!LatchAbsence, AbsenceInv, RemovalPending, Pending, Asking, ArmInv,
     MonitorTypeInv, Monitor!TypeOK
<1>5. RemovalInv'
  BY DEF Monitor!LatchAbsence, RemovalInv, RemovalPending, Pending, ArmInv, AbsenceInv
<1>6. ReturnInv'
  BY DEF Monitor!LatchAbsence, ReturnInv, Pending, ArmInv, AbsenceInv
<1>7. CandidateInv'
  BY DEF Monitor!LatchAbsence, CandidateInv, MonitorTypeInv, Monitor!TypeOK, AbsenceInv,
     Asking
<1>8. AnswerInv'
  BY DEF Monitor!LatchAbsence, AnswerInv, CandidateInv, Confirmable, Proven,
     MonitorTypeInv, Monitor!TypeOK
<1> QED
  BY <1>1, <1>2, <1>3, <1>4, <1>5, <1>6, <1>7, <1>8

\* The wait for the removal.
LEMMA AwaitAbsentKeeps ==
    ASSUME Monitor!DeviceAssumption, MonitorInv, Monitor!AwaitAbsent
    PROVE  MonitorInv'
<1> USE DEF MonitorInv
<1>1. MonitorTypeInv'
  <2>1. ASSUME NEW how \in Endings, Monitor!Finish(how), how = "present" => "present" \in latch
        PROVE  MonitorTypeInv'
    BY <2>1, EndTyped
  <2>2. ASSUME UNCHANGED <<Monitor!world, events, source, Monitor!thread, Monitor!shared,
      Monitor!Local>>,
               waitPc # "done", waitPc' \in {"round"}
        PROVE  MonitorTypeInv'
    BY <2>2 DEF MonitorTypeInv, Monitor!TypeOK
  <2> QED
    BY <2>1, <2>2 DEF Monitor!AwaitAbsent, Endings
<1>2. PlaceInv'
  BY DEF Monitor!AwaitAbsent, PlaceInv
<1>3. ArmInv'
  BY DEF Monitor!AwaitAbsent, ArmInv, AbsenceInv, MonitorTypeInv, Monitor!TypeOK,
     RemovalPending
<1>4. AbsenceInv'
  BY DEF Monitor!AwaitAbsent, AbsenceInv, RemovalPending, Pending, Asking, ArmInv,
     MonitorTypeInv, Monitor!TypeOK
<1>5. RemovalInv'
  BY DEF Monitor!AwaitAbsent, RemovalInv, RemovalPending, Pending, ArmInv, AbsenceInv
<1>6. ReturnInv'
  BY DEF Monitor!AwaitAbsent, ReturnInv, Pending, ArmInv, AbsenceInv
<1>7. CandidateInv'
  BY DEF Monitor!AwaitAbsent, CandidateInv, MonitorTypeInv, Monitor!TypeOK, AbsenceInv,
     Asking
<1>8. AnswerInv'
  BY DEF Monitor!AwaitAbsent, AnswerInv, CandidateInv, Confirmable, Proven, MonitorTypeInv,
     Monitor!TypeOK
<1> QED
  BY <1>1, <1>2, <1>3, <1>4, <1>5, <1>6, <1>7, <1>8

\* The wait for the return: a mismatch first.
LEMMA CheckMismatchKeeps ==
    ASSUME Monitor!DeviceAssumption, MonitorInv, Monitor!CheckMismatch
    PROVE  MonitorInv'
<1> USE DEF MonitorInv
<1>1. MonitorTypeInv'
  <2>1. ASSUME NEW how \in Endings, Monitor!Finish(how), how = "present" => "present" \in latch
        PROVE  MonitorTypeInv'
    BY <2>1, EndTyped
  <2>2. ASSUME UNCHANGED <<Monitor!world, events, source, Monitor!thread, Monitor!shared,
      Monitor!Local>>,
               waitPc # "done", waitPc' \in {"present"}
        PROVE  MonitorTypeInv'
    BY <2>2 DEF MonitorTypeInv, Monitor!TypeOK
  <2> QED
    BY <2>1, <2>2 DEF Monitor!CheckMismatch, Endings
<1>2. PlaceInv'
  BY DEF Monitor!CheckMismatch, PlaceInv
<1>3. ArmInv'
  BY DEF Monitor!CheckMismatch, ArmInv, AbsenceInv, MonitorTypeInv, Monitor!TypeOK,
     RemovalPending
<1>4. AbsenceInv'
  BY DEF Monitor!CheckMismatch, AbsenceInv, RemovalPending, Pending, Asking, ArmInv,
     MonitorTypeInv, Monitor!TypeOK
<1>5. RemovalInv'
  BY DEF Monitor!CheckMismatch, RemovalInv, RemovalPending, Pending, ArmInv, AbsenceInv
<1>6. ReturnInv'
  BY DEF Monitor!CheckMismatch, ReturnInv, Pending, ArmInv, AbsenceInv
<1>7. CandidateInv'
  BY DEF Monitor!CheckMismatch, CandidateInv, MonitorTypeInv, Monitor!TypeOK, AbsenceInv,
     Asking
<1>8. AnswerInv'
  BY DEF Monitor!CheckMismatch, AnswerInv, CandidateInv, Confirmable, Proven,
     MonitorTypeInv, Monitor!TypeOK
<1> QED
  BY <1>1, <1>2, <1>3, <1>4, <1>5, <1>6, <1>7, <1>8

\* Then the presence, then an ambiguous candidate.
LEMMA CheckPresentKeeps ==
    ASSUME Monitor!DeviceAssumption, MonitorInv, Monitor!CheckPresent
    PROVE  MonitorInv'
<1> USE DEF MonitorInv
<1>1. MonitorTypeInv'
  <2>1. ASSUME NEW how \in Endings, Monitor!Finish(how), how = "present" => "present" \in latch
        PROVE  MonitorTypeInv'
    BY <2>1, EndTyped
  <2>2. ASSUME UNCHANGED <<Monitor!world, events, source, Monitor!thread, Monitor!shared,
      Monitor!Local>>,
               waitPc # "done", waitPc' \in {"readAssessment", "pause"}
        PROVE  MonitorTypeInv'
    BY <2>2 DEF MonitorTypeInv, Monitor!TypeOK
  <2> QED
    BY <2>1, <2>2 DEF Monitor!CheckPresent, Endings
<1>2. PlaceInv'
  BY DEF Monitor!CheckPresent, PlaceInv
<1>3. ArmInv'
  BY DEF Monitor!CheckPresent, ArmInv, AbsenceInv, MonitorTypeInv, Monitor!TypeOK,
     RemovalPending
<1>4. AbsenceInv'
  BY DEF Monitor!CheckPresent, AbsenceInv, RemovalPending, Pending, Asking, ArmInv,
     MonitorTypeInv, Monitor!TypeOK
<1>5. RemovalInv'
  BY DEF Monitor!CheckPresent, RemovalInv, RemovalPending, Pending, ArmInv, AbsenceInv
<1>6. ReturnInv'
  BY DEF Monitor!CheckPresent, ReturnInv, Pending, ArmInv, AbsenceInv
<1>7. CandidateInv'
  BY DEF Monitor!CheckPresent, CandidateInv, MonitorTypeInv, Monitor!TypeOK, AbsenceInv,
     Asking
<1>8. AnswerInv'
  BY DEF Monitor!CheckPresent, AnswerInv, CandidateInv, Confirmable, Proven,
     MonitorTypeInv, Monitor!TypeOK
<1> QED
  BY <1>1, <1>2, <1>3, <1>4, <1>5, <1>6, <1>7, <1>8

\* The candidate that was assessed is read.
LEMMA ReadAssessmentKeeps ==
    ASSUME Monitor!DeviceAssumption, MonitorInv, Monitor!ReadAssessment
    PROVE  MonitorInv'
<1> USE DEF MonitorInv
<1>1. MonitorTypeInv'
  BY DEF Monitor!ReadAssessment, MonitorTypeInv, Monitor!TypeOK, AnswerInv
<1>2. PlaceInv'
  BY DEF Monitor!ReadAssessment, PlaceInv
<1>3. ArmInv'
  BY DEF Monitor!ReadAssessment, ArmInv, AbsenceInv, MonitorTypeInv, Monitor!TypeOK,
     RemovalPending
<1>4. AbsenceInv'
  BY DEF Monitor!ReadAssessment, AbsenceInv, RemovalPending, Pending, Asking, ArmInv,
     MonitorTypeInv, Monitor!TypeOK
<1>5. RemovalInv'
  BY DEF Monitor!ReadAssessment, RemovalInv, RemovalPending, Pending, ArmInv, AbsenceInv
<1>6. ReturnInv'
  BY DEF Monitor!ReadAssessment, ReturnInv, Pending, ArmInv, AbsenceInv
<1>7. CandidateInv'
  BY DEF Monitor!ReadAssessment, CandidateInv, MonitorTypeInv, Monitor!TypeOK, AbsenceInv,
     Asking
<1>8. AnswerInv'
  BY DEF Monitor!ReadAssessment, AnswerInv, CandidateInv, Confirmable, Proven,
     MonitorTypeInv, Monitor!TypeOK
<1> QED
  BY <1>1, <1>2, <1>3, <1>4, <1>5, <1>6, <1>7, <1>8

\* An ambiguous latch says that there is a candidate.
LEMMA ReadIdentityKeeps ==
    ASSUME Monitor!DeviceAssumption, MonitorInv, Monitor!ReadIdentity
    PROVE  MonitorInv'
<1> USE DEF MonitorInv
<1>1. MonitorTypeInv'
  BY DEF Monitor!ReadIdentity, MonitorTypeInv, Monitor!TypeOK, AnswerInv
<1>2. PlaceInv'
  BY DEF Monitor!ReadIdentity, PlaceInv
<1>3. ArmInv'
  BY DEF Monitor!ReadIdentity, ArmInv, AbsenceInv, MonitorTypeInv, Monitor!TypeOK,
     RemovalPending
<1>4. AbsenceInv'
  BY DEF Monitor!ReadIdentity, AbsenceInv, RemovalPending, Pending, Asking, ArmInv,
     MonitorTypeInv, Monitor!TypeOK
<1>5. RemovalInv'
  BY DEF Monitor!ReadIdentity, RemovalInv, RemovalPending, Pending, ArmInv, AbsenceInv
<1>6. ReturnInv'
  BY DEF Monitor!ReadIdentity, ReturnInv, Pending, ArmInv, AbsenceInv
<1>7. CandidateInv'
  BY DEF Monitor!ReadIdentity, CandidateInv, MonitorTypeInv, Monitor!TypeOK, AbsenceInv,
     Asking
<1>8. AnswerInv'
  BY DEF Monitor!ReadIdentity, AnswerInv, CandidateInv, Confirmable, Proven,
     MonitorTypeInv, Monitor!TypeOK
<1> QED
  BY <1>1, <1>2, <1>3, <1>4, <1>5, <1>6, <1>7, <1>8

\* The latch is cleared.
LEMMA ClearAmbiguousKeeps ==
    ASSUME Monitor!DeviceAssumption, MonitorInv, Monitor!ClearAmbiguous
    PROVE  MonitorInv'
<1> USE DEF MonitorInv
<1>1. MonitorTypeInv'
  BY DEF Monitor!ClearAmbiguous, MonitorTypeInv, Monitor!TypeOK, AnswerInv
<1>2. PlaceInv'
  BY DEF Monitor!ClearAmbiguous, PlaceInv
<1>3. ArmInv'
  BY DEF Monitor!ClearAmbiguous, ArmInv, AbsenceInv, MonitorTypeInv, Monitor!TypeOK,
     RemovalPending
<1>4. AbsenceInv'
  BY DEF Monitor!ClearAmbiguous, AbsenceInv, RemovalPending, Pending, Asking, ArmInv,
     MonitorTypeInv, Monitor!TypeOK
<1>5. RemovalInv'
  BY DEF Monitor!ClearAmbiguous, RemovalInv, RemovalPending, Pending, ArmInv, AbsenceInv
<1>6. ReturnInv'
  BY DEF Monitor!ClearAmbiguous, ReturnInv, Pending, ArmInv, AbsenceInv
<1>7. CandidateInv'
  BY DEF Monitor!ClearAmbiguous, CandidateInv, MonitorTypeInv, Monitor!TypeOK, AbsenceInv,
     Asking
<1>8. AnswerInv'
  BY DEF Monitor!ClearAmbiguous, AnswerInv, CandidateInv, Confirmable, Proven,
     MonitorTypeInv, Monitor!TypeOK
<1> QED
  BY <1>1, <1>2, <1>3, <1>4, <1>5, <1>6, <1>7, <1>8

\* The operator is asked.
LEMMA PromptKeeps ==
    ASSUME Monitor!DeviceAssumption, MonitorInv, Monitor!Prompt
    PROVE  MonitorInv'
<1> USE DEF MonitorInv
<1>1. MonitorTypeInv'
  <2>1. ASSUME NEW how \in Endings, Monitor!Finish(how), how = "present" => "present" \in latch
        PROVE  MonitorTypeInv'
    BY <2>1, EndTyped
  <2>2. ASSUME UNCHANGED <<Monitor!world, events, source, Monitor!thread, Monitor!shared,
      Monitor!Local>>,
               waitPc # "done", waitPc' \in {"confirm"}
        PROVE  MonitorTypeInv'
    BY <2>2 DEF MonitorTypeInv, Monitor!TypeOK
  <2> QED
    BY <2>1, <2>2 DEF Monitor!Prompt, Endings
<1>2. PlaceInv'
  BY DEF Monitor!Prompt, PlaceInv
<1>3. ArmInv'
  BY DEF Monitor!Prompt, ArmInv, AbsenceInv, MonitorTypeInv, Monitor!TypeOK, RemovalPending
<1>4. AbsenceInv'
  BY DEF Monitor!Prompt, AbsenceInv, RemovalPending, Pending, Asking, ArmInv,
     MonitorTypeInv, Monitor!TypeOK
<1>5. RemovalInv'
  BY DEF Monitor!Prompt, RemovalInv, RemovalPending, Pending, ArmInv, AbsenceInv
<1>6. ReturnInv'
  BY DEF Monitor!Prompt, ReturnInv, Pending, ArmInv, AbsenceInv
<1>7. CandidateInv'
  BY DEF Monitor!Prompt, CandidateInv, MonitorTypeInv, Monitor!TypeOK, AbsenceInv, Asking
<1>8. AnswerInv'
  BY DEF Monitor!Prompt, AnswerInv, CandidateInv, Confirmable, Proven, MonitorTypeInv,
     Monitor!TypeOK
<1> QED
  BY <1>1, <1>2, <1>3, <1>4, <1>5, <1>6, <1>7, <1>8

\* The confirmed candidate is stored.
LEMMA ConfirmIdentityKeeps ==
    ASSUME Monitor!DeviceAssumption, MonitorInv, Monitor!ConfirmIdentity
    PROVE  MonitorInv'
<1> USE DEF MonitorInv
<1>1. MonitorTypeInv'
  BY DEF Monitor!ConfirmIdentity, MonitorTypeInv, Monitor!TypeOK, AnswerInv
<1>2. PlaceInv'
  BY DEF Monitor!ConfirmIdentity, PlaceInv
<1>3. ArmInv'
  BY DEF Monitor!ConfirmIdentity, ArmInv, AbsenceInv, MonitorTypeInv, Monitor!TypeOK,
     RemovalPending
<1>4. AbsenceInv'
  BY DEF Monitor!ConfirmIdentity, AbsenceInv, RemovalPending, Pending, Asking, ArmInv,
     MonitorTypeInv, Monitor!TypeOK
<1>5. RemovalInv'
  BY DEF Monitor!ConfirmIdentity, RemovalInv, RemovalPending, Pending, ArmInv, AbsenceInv
<1>6. ReturnInv'
  BY DEF Monitor!ConfirmIdentity, ReturnInv, Pending, ArmInv, AbsenceInv
<1>7. CandidateInv'
  BY DEF Monitor!ConfirmIdentity, CandidateInv, MonitorTypeInv, Monitor!TypeOK, AbsenceInv,
     Asking
<1>8. AnswerInv'
  <2>1. candidate \in Confirmable /\ candidate # None
    BY DEF Monitor!ConfirmIdentity, CandidateInv, Confirmable, Monitor!DeviceAssumption
  <2> QED
    BY <2>1 DEF Monitor!ConfirmIdentity, AnswerInv
<1> QED
  BY <1>1, <1>2, <1>3, <1>4, <1>5, <1>6, <1>7, <1>8

\* The confirmation is recorded and the presence latched.
LEMMA ConfirmAssessmentKeeps ==
    ASSUME Monitor!DeviceAssumption, MonitorInv, Monitor!ConfirmAssessment
    PROVE  MonitorInv'
<1> USE DEF MonitorInv
<1>1. MonitorTypeInv'
  BY DEF Monitor!ConfirmAssessment, MonitorTypeInv, Monitor!TypeOK, AnswerInv
<1>2. PlaceInv'
  BY DEF Monitor!ConfirmAssessment, PlaceInv
<1>3. ArmInv'
  BY DEF Monitor!ConfirmAssessment, ArmInv, AbsenceInv, MonitorTypeInv, Monitor!TypeOK,
     RemovalPending
<1>4. AbsenceInv'
  BY DEF Monitor!ConfirmAssessment, AbsenceInv, RemovalPending, Pending, Asking, ArmInv,
     MonitorTypeInv, Monitor!TypeOK
<1>5. RemovalInv'
  BY DEF Monitor!ConfirmAssessment, RemovalInv, RemovalPending, Pending, ArmInv, AbsenceInv
<1>6. ReturnInv'
  BY DEF Monitor!ConfirmAssessment, ReturnInv, Pending, ArmInv, AbsenceInv
<1>7. CandidateInv'
  BY DEF Monitor!ConfirmAssessment, CandidateInv, MonitorTypeInv, Monitor!TypeOK,
     AbsenceInv, Asking
<1>8. AnswerInv'
  BY DEF Monitor!ConfirmAssessment, AnswerInv, CandidateInv, Confirmable, Proven,
     MonitorTypeInv, Monitor!TypeOK
<1> QED
  BY <1>1, <1>2, <1>3, <1>4, <1>5, <1>6, <1>7, <1>8

\* Between two rounds.
LEMMA PauseKeeps ==
    ASSUME Monitor!DeviceAssumption, MonitorInv, Monitor!Pause
    PROVE  MonitorInv'
<1> USE DEF MonitorInv
<1>1. MonitorTypeInv'
  <2>1. ASSUME NEW how \in Endings, Monitor!Finish(how), how = "present" => "present" \in latch
        PROVE  MonitorTypeInv'
    BY <2>1, EndTyped
  <2>2. ASSUME UNCHANGED <<Monitor!world, events, source, Monitor!thread, Monitor!shared,
      Monitor!Local>>,
               waitPc # "done", waitPc' \in {"round"}
        PROVE  MonitorTypeInv'
    BY <2>2 DEF MonitorTypeInv, Monitor!TypeOK
  <2> QED
    BY <2>1, <2>2 DEF Monitor!Pause, Endings
<1>2. PlaceInv'
  BY DEF Monitor!Pause, PlaceInv
<1>3. ArmInv'
  BY DEF Monitor!Pause, ArmInv, AbsenceInv, MonitorTypeInv, Monitor!TypeOK, RemovalPending
<1>4. AbsenceInv'
  BY DEF Monitor!Pause, AbsenceInv, RemovalPending, Pending, Asking, ArmInv,
     MonitorTypeInv, Monitor!TypeOK
<1>5. RemovalInv'
  BY DEF Monitor!Pause, RemovalInv, RemovalPending, Pending, ArmInv, AbsenceInv
<1>6. ReturnInv'
  BY DEF Monitor!Pause, ReturnInv, Pending, ArmInv, AbsenceInv
<1>7. CandidateInv'
  BY DEF Monitor!Pause, CandidateInv, MonitorTypeInv, Monitor!TypeOK, AbsenceInv, Asking
<1>8. AnswerInv'
  BY DEF Monitor!Pause, AnswerInv, CandidateInv, Confirmable, Proven, MonitorTypeInv,
     Monitor!TypeOK
<1> QED
  BY <1>1, <1>2, <1>3, <1>4, <1>5, <1>6, <1>7, <1>8

\* The user cancels the wait.
LEMMA InterruptKeeps ==
    ASSUME Monitor!DeviceAssumption, MonitorInv, Monitor!Interrupt
    PROVE  MonitorInv'
<1> USE DEF MonitorInv
<1>1. MonitorTypeInv'
  BY EndTyped DEF Monitor!Interrupt, Endings
<1>2. PlaceInv'
  BY DEF Monitor!Interrupt, PlaceInv
<1>3. ArmInv'
  BY DEF Monitor!Interrupt, ArmInv, AbsenceInv, MonitorTypeInv, Monitor!TypeOK,
     RemovalPending
<1>4. AbsenceInv'
  BY DEF Monitor!Interrupt, AbsenceInv, RemovalPending, Pending, Asking, ArmInv,
     MonitorTypeInv, Monitor!TypeOK
<1>5. RemovalInv'
  BY DEF Monitor!Interrupt, RemovalInv, RemovalPending, Pending, ArmInv, AbsenceInv
<1>6. ReturnInv'
  BY DEF Monitor!Interrupt, ReturnInv, Pending, ArmInv, AbsenceInv
<1>7. CandidateInv'
  BY DEF Monitor!Interrupt, CandidateInv, MonitorTypeInv, Monitor!TypeOK, AbsenceInv, Asking
<1>8. AnswerInv'
  BY DEF Monitor!Interrupt, AnswerInv, CandidateInv, Confirmable, Proven, MonitorTypeInv,
     Monitor!TypeOK
<1> QED
  BY <1>1, <1>2, <1>3, <1>4, <1>5, <1>6, <1>7, <1>8

\* The deadline passes.
LEMMA ExpireKeeps ==
    ASSUME Monitor!DeviceAssumption, MonitorInv, Monitor!Expire
    PROVE  MonitorInv'
<1> USE DEF MonitorInv
<1>1. MonitorTypeInv'
  BY DEF Monitor!Expire, MonitorTypeInv, Monitor!TypeOK, AnswerInv
<1>2. PlaceInv'
  BY DEF Monitor!Expire, PlaceInv
<1>3. ArmInv'
  BY DEF Monitor!Expire, ArmInv, AbsenceInv, MonitorTypeInv, Monitor!TypeOK, RemovalPending
<1>4. AbsenceInv'
  BY DEF Monitor!Expire, AbsenceInv, RemovalPending, Pending, Asking, ArmInv,
     MonitorTypeInv, Monitor!TypeOK
<1>5. RemovalInv'
  BY DEF Monitor!Expire, RemovalInv, RemovalPending, Pending, ArmInv, AbsenceInv
<1>6. ReturnInv'
  BY DEF Monitor!Expire, ReturnInv, Pending, ArmInv, AbsenceInv
<1>7. CandidateInv'
  BY DEF Monitor!Expire, CandidateInv, MonitorTypeInv, Monitor!TypeOK, AbsenceInv, Asking
<1>8. AnswerInv'
  BY DEF Monitor!Expire, AnswerInv, CandidateInv, Confirmable, Proven, MonitorTypeInv,
     Monitor!TypeOK
<1> QED
  BY <1>1, <1>2, <1>3, <1>4, <1>5, <1>6, <1>7, <1>8

\* Nothing happens.
LEMMA StutterKeeps ==
    ASSUME Monitor!DeviceAssumption, MonitorInv, UNCHANGED Monitor!vars
    PROVE  MonitorInv'
<1> USE DEF MonitorInv
<1>1. MonitorTypeInv'
  BY DEF Monitor!vars, MonitorTypeInv, Monitor!TypeOK, AnswerInv
<1>2. PlaceInv'
  BY DEF Monitor!vars, PlaceInv
<1>3. ArmInv'
  BY DEF Monitor!vars, ArmInv, AbsenceInv, MonitorTypeInv, Monitor!TypeOK, RemovalPending
<1>4. AbsenceInv'
  BY DEF Monitor!vars, AbsenceInv, RemovalPending, Pending, Asking, ArmInv, MonitorTypeInv,
     Monitor!TypeOK
<1>5. RemovalInv'
  BY DEF Monitor!vars, RemovalInv, RemovalPending, Pending, ArmInv, AbsenceInv
<1>6. ReturnInv'
  BY DEF Monitor!vars, ReturnInv, Pending, ArmInv, AbsenceInv
<1>7. CandidateInv'
  BY DEF Monitor!vars, CandidateInv, MonitorTypeInv, Monitor!TypeOK, AbsenceInv, Asking
<1>8. AnswerInv'
  BY DEF Monitor!vars, AnswerInv, CandidateInv, Confirmable, Proven, MonitorTypeInv,
     Monitor!TypeOK
<1> QED
  BY <1>1, <1>2, <1>3, <1>4, <1>5, <1>6, <1>7, <1>8

\* The monitor is created before anything is armed.
LEMMA MonitorInit == ASSUME Monitor!DeviceAssumption, Monitor!Init PROVE MonitorInv
<1> USE DEF Monitor!Init
<1>1. PICK d \in Device : (d = Board \/ Monitor!Apart(Board, d)) /\ plugged = {Board, d}
  OBVIOUS
<1>2. Board \in Device /\ None \notin Endings /\ MaxReports \in Nat
  BY DEF Monitor!DeviceAssumption, Endings
<1>3. MonitorTypeInv
  <2>1. Monitor!TypeOK
    <3>1. plugged \subseteq Device
      BY <1>1, <1>2
    <3>2. Len(events) <= MaxReports
      BY <1>2
    <3>3. (waitReturned # None) = (outcome = "present")
      BY <1>2 DEF Endings
    <3> QED
      BY <3>1, <3>2, <3>3 DEF Monitor!TypeOK
  <2>2. events \in Seq({"add", "remove"} \X {e.id : e \in Device})
    OBVIOUS
  <2>3. emptied \in BOOLEAN /\ manual \in BOOLEAN
    OBVIOUS
  <2> QED
    BY <2>1, <2>2, <2>3 DEF MonitorTypeInv
<1>4. PlaceInv
  BY <1>1, <1>2, ApartExcludes DEF PlaceInv
<1>5. ArmInv
  BY <1>1 DEF ArmInv
<1>6. AbsenceInv
  BY DEF AbsenceInv, RemovalPending, Pending, Elements, Asking
<1>7. RemovalInv
  BY DEF RemovalInv
<1>8. ReturnInv
  BY DEF ReturnInv
<1>9. CandidateInv
  BY DEF CandidateInv
<1>10. AnswerInv
  BY DEF AnswerInv, Proven, Confirmable, Monitor!DeviceAssumption
<1> QED
  BY <1>3, <1>4, <1>5, <1>6, <1>7, <1>8, <1>9, <1>10 DEF MonitorInv

\* Every step keeps the invariant.
LEMMA MonitorNext == ASSUME Monitor!DeviceAssumption, MonitorInv, [Monitor!Next]_(Monitor!vars) PROVE MonitorInv'
<1>1. CASE Monitor!Callback
  <2>1. CASE Monitor!OnRemove
    BY <2>1, OnRemoveKeeps
  <2>2. CASE Monitor!OnAdd
    BY <2>2, OnAddKeeps
  <2>3. CASE Monitor!Refresh
    BY <2>3, RefreshKeeps
  <2>4. CASE Monitor!StoreIdentity
    BY <2>4, StoreIdentityKeeps
  <2>5. CASE Monitor!StoreAssessment
    BY <2>5, StoreAssessmentKeeps
  <2>6. CASE Monitor!SetLatch
    BY <2>6, SetLatchKeeps
  <2> QED
    BY <1>1, <2>1, <2>2, <2>3, <2>4, <2>5, <2>6 DEF Monitor!Callback
<1>2. CASE Monitor!Waiter
  <2>1. CASE Monitor!ReadBaseline
    BY <2>1, ReadBaselineKeeps
  <2>2. CASE Monitor!StartSource
    BY <2>2, StartSourceKeeps
  <2>3. CASE Monitor!Recheck
    BY <2>3, RecheckKeeps
  <2>4. CASE Monitor!LatchAbsence
    BY <2>4, LatchAbsenceKeeps
  <2>5. CASE Monitor!AwaitAbsent
    BY <2>5, AwaitAbsentKeeps
  <2>6. CASE Monitor!CheckMismatch
    BY <2>6, CheckMismatchKeeps
  <2>7. CASE Monitor!CheckPresent
    BY <2>7, CheckPresentKeeps
  <2>8. CASE Monitor!ReadAssessment
    BY <2>8, ReadAssessmentKeeps
  <2>9. CASE Monitor!ReadIdentity
    BY <2>9, ReadIdentityKeeps
  <2>10. CASE Monitor!ClearAmbiguous
    BY <2>10, ClearAmbiguousKeeps
  <2>11. CASE Monitor!Prompt
    BY <2>11, PromptKeeps
  <2>12. CASE Monitor!ConfirmIdentity
    BY <2>12, ConfirmIdentityKeeps
  <2>13. CASE Monitor!ConfirmAssessment
    BY <2>13, ConfirmAssessmentKeeps
  <2>14. CASE Monitor!Pause
    BY <2>14, PauseKeeps
  <2> QED
    BY <1>2, <2>1, <2>2, <2>3, <2>4, <2>5, <2>6, <2>7, <2>8, <2>9, <2>10, <2>11, <2>12,
       <2>13, <2>14 DEF Monitor!Waiter
<1>3. CASE Monitor!Bench
  <2>1. CASE Monitor!SourceDies
    BY <2>1, SourceDiesKeeps
  <2>2. ASSUME NEW d \in Device, Monitor!Unplug(d)
        PROVE  MonitorInv'
    BY <2>2, UnplugKeeps
  <2>3. ASSUME NEW d \in Device, Monitor!Plug(d)
        PROVE  MonitorInv'
    BY <2>3, PlugKeeps
  <2> QED
    BY <1>3, <2>1, <2>2, <2>3 DEF Monitor!Bench
<1>4. CASE Monitor!Interrupt
  BY <1>4, InterruptKeeps
<1>5. CASE Monitor!Expire
  BY <1>5, ExpireKeeps
<1>6. CASE UNCHANGED Monitor!vars
  BY <1>6, StutterKeeps
<1> QED
  BY <1>1, <1>2, <1>3, <1>4, <1>5, <1>6 DEF Monitor!Next

-----------------------------------------------------------------------------
(* The refinement of BoardWatch.                                           *)

\* What of a state BoardWatch sees.
answered == <<emptied, manual, outcome, waitReturned>>

\* An end of the wait accepts what is proven or confirmed, or refuses.
LEMMA EndAnswers ==
    ASSUME Monitor!DeviceAssumption, MonitorInv, NEW how \in Endings, Monitor!End(how),
           how = "present" => "present" \in latch,
           waitPc \notin {"done", "confirmed"}, UNCHANGED emptied
    PROVE  Monitor!Watch!Accept \/ Monitor!Watch!Refuse
<1>1. outcome = None /\ None \notin Endings /\ outcome' = how /\ UNCHANGED <<emptied,
    manual>>
  BY DEF MonitorInv, MonitorTypeInv, Monitor!DeviceAssumption, Endings
<1>2. CASE how = "present"
  <2>1. waitReturned' = reconnected /\ reconnected # None
    BY <1>2 DEF MonitorInv, AnswerInv
  <2>2. reconnected \in Proven \cup (IF manual THEN Confirmable ELSE {})
    BY <2>1 DEF MonitorInv, AnswerInv
  <2>3. emptied
    BY <1>2 DEF MonitorInv, AbsenceInv
  <2>4. Monitor!Watch!Accept
    BY <1>1, <1>2, <2>1, <2>2, <2>3 DEF Monitor!Watch!Accept, Proven, Confirmable, Endings
  <2> QED
    BY <2>4
<1>3. CASE how # "present"
  BY <1>1, <1>3 DEF Monitor!Watch!Refuse, Endings
<1> QED
  BY <1>2, <1>3

\* A step that BoardWatch allows, or does not see.
WatchStep ==
    [Monitor!Watch!Next]_<<emptied, manual,
                   IF outcome = "present" THEN waitReturned
                   ELSE IF outcome = None THEN None ELSE Refused>>

\* Every step of the threads and of the bench is one of BoardWatch's, or none.
LEMMA WatchNext ==
    ASSUME Monitor!DeviceAssumption, MonitorInv, MonitorInv', [Monitor!Next]_(Monitor!vars)
    PROVE  WatchStep
<1>1. ASSUME UNCHANGED answered
      PROVE  WatchStep
  BY <1>1 DEF answered, WatchStep
<1>2. ASSUME NEW how \in Endings, Monitor!End(how), how = "present" => "present" \in latch,
             waitPc \notin {"done", "confirmed"}, UNCHANGED emptied
      PROVE  WatchStep
  <2>1. Monitor!Watch!Accept \/ Monitor!Watch!Refuse
    BY <1>2, EndAnswers
  <2> QED
    BY <2>1 DEF Monitor!Watch!Next, WatchStep
<1>3. ASSUME UNCHANGED <<manual, outcome, waitReturned>>, outcome = None,
    emptied' \in {emptied, TRUE}
      PROVE  WatchStep
  <2>1. CASE emptied' = emptied
    BY <2>1, <1>3, <1>1 DEF answered
  <2>2. CASE emptied' # emptied
    <3>1. ~emptied /\ emptied' = TRUE
      BY <2>2, <1>3 DEF MonitorInv, MonitorTypeInv
    <3>2. Monitor!Watch!Vacate
      BY <3>1, <1>3 DEF Monitor!Watch!Vacate
    <3> QED
      BY <3>2 DEF Monitor!Watch!Next, WatchStep
  <2> QED
    BY <2>1, <2>2
<1>4. CASE Monitor!Callback
  <2>1. UNCHANGED answered
    BY <1>4 DEF Monitor!Callback, Monitor!OnRemove, Monitor!OnAdd, Monitor!Refresh,
       Monitor!StoreIdentity, Monitor!StoreAssessment,
              Monitor!SetLatch, answered
  <2> QED
    BY <2>1, <1>1
<1>5. CASE Monitor!Bench
  <2>1. CASE Monitor!SourceDies
    BY <2>1, <1>1 DEF Monitor!SourceDies, answered
  <2>2. ASSUME NEW d \in Device, Monitor!Unplug(d)
        PROVE  WatchStep
    <3>1. emptied' \in {emptied, TRUE}
      BY <2>2 DEF Monitor!Unplug, MonitorInv, MonitorTypeInv
    <3> QED
      BY <2>2, <3>1, <1>3 DEF Monitor!Unplug, Monitor!Moves
  <2>3. ASSUME NEW d \in Device, Monitor!Plug(d)
        PROVE  WatchStep
    BY <2>3, <1>1 DEF Monitor!Plug, answered
  <2> QED
    BY <1>5, <2>1, <2>2, <2>3 DEF Monitor!Bench
<1>6. CASE Monitor!Waiter
  <2>1. CASE Monitor!ReadBaseline
    BY <2>1, <1>1, <1>2 DEF Monitor!ReadBaseline, answered, Endings
  <2>2. CASE Monitor!StartSource
    BY <2>2, <1>1, <1>2 DEF Monitor!StartSource, answered, Endings
  <2>3. CASE Monitor!Recheck
    BY <2>3, <1>1, <1>2 DEF Monitor!Recheck, answered, Endings
  <2>4. CASE Monitor!LatchAbsence
    BY <2>4, <1>1 DEF Monitor!LatchAbsence, answered
  <2>5. CASE Monitor!AwaitAbsent
    BY <2>5, <1>1, <1>2 DEF Monitor!AwaitAbsent, answered, Endings
  <2>6. CASE Monitor!CheckMismatch
    BY <2>6, <1>1, <1>2 DEF Monitor!CheckMismatch, answered, Endings
  <2>7. CASE Monitor!CheckPresent
    BY <2>7, <1>1, <1>2 DEF Monitor!CheckPresent, answered, Endings
  <2>8. CASE Monitor!ReadAssessment
    BY <2>8, <1>1 DEF Monitor!ReadAssessment, answered
  <2>9. CASE Monitor!ReadIdentity
    BY <2>9, <1>1 DEF Monitor!ReadIdentity, answered
  <2>10. CASE Monitor!ClearAmbiguous
    BY <2>10, <1>1 DEF Monitor!ClearAmbiguous, answered
  <2>11. CASE Monitor!Prompt
    BY <2>11, <1>1, <1>2 DEF Monitor!Prompt, answered, Endings
  <2>12. CASE Monitor!ConfirmIdentity
    BY <2>12, <1>1 DEF Monitor!ConfirmIdentity, answered
  <2>13. CASE Monitor!ConfirmAssessment
    <3>1. emptied /\ outcome = None
      BY <2>13 DEF Monitor!ConfirmAssessment, MonitorInv, MonitorTypeInv, AbsenceInv, Asking
    <3>2. Monitor!Watch!Vouch
      BY <2>13, <3>1 DEF Monitor!ConfirmAssessment, Monitor!Watch!Vouch, MonitorInv,
         MonitorTypeInv, Monitor!DeviceAssumption
    <3> QED
      BY <3>2 DEF Monitor!Watch!Next, WatchStep
  <2>14. CASE Monitor!Pause
    BY <2>14, <1>1, <1>2 DEF Monitor!Pause, answered, Endings
  <2> QED
    BY <1>6, <2>1, <2>2, <2>3, <2>4, <2>5, <2>6, <2>7, <2>8, <2>9, <2>10, <2>11, <2>12,
       <2>13, <2>14 DEF Monitor!Waiter
<1>7. CASE Monitor!Interrupt
  BY <1>7, <1>2 DEF Monitor!Interrupt, Endings
<1>8. CASE Monitor!Expire
  BY <1>8, <1>1 DEF Monitor!Expire, answered
<1>9. CASE UNCHANGED Monitor!vars
  BY <1>9, <1>1 DEF Monitor!vars, answered
<1> QED
  BY <1>4, <1>5, <1>6, <1>7, <1>8, <1>9 DEF Monitor!Next

-----------------------------------------------------------------------------
(* The theorems.                                                           *)

\* The invariant holds for every set of devices.
THEOREM MonitorInvariance == Monitor!DeviceAssumption => (Monitor!Spec => []MonitorInv)
<1> SUFFICES ASSUME Monitor!DeviceAssumption
             PROVE  Monitor!Spec => []MonitorInv
  OBVIOUS
<1>1. Monitor!Init => MonitorInv
  BY MonitorInit
<1>2. MonitorInv /\ [Monitor!Next]_(Monitor!vars) => MonitorInv'
  BY MonitorNext
<1> QED
  BY <1>1, <1>2, PTL DEF Monitor!Spec

\* A removal and a return are noticed whether they come before, during or after
\* the subscription (arm, _on_event), and the two threads implement BoardWatch:
\* a wait returns a board that is proven or that the operator confirmed, and
\* only after its place was empty (wait_for_absent, wait_for_present).
THEOREM PresenceIsWatchedAlways == Monitor!DeviceAssumption => (Monitor!Spec => PresenceIsWatched)
<1> SUFFICES ASSUME Monitor!DeviceAssumption
             PROVE  Monitor!Spec => PresenceIsWatched
  OBVIOUS
<1>1. MonitorInv => Monitor!TypeOK /\ Monitor!RemovalIsLatched /\ Monitor!ReturnIsLatched
  <2> SUFFICES ASSUME MonitorInv
               PROVE  Monitor!TypeOK /\ Monitor!RemovalIsLatched /\ Monitor!ReturnIsLatched
    OBVIOUS
  <2>1. ASSUME Monitor!Settled
        PROVE  Pending = {} /\ ~RemovalPending
    BY <2>1 DEF Monitor!Settled, Pending, RemovalPending, Elements
  <2>2. Monitor!RemovalIsLatched
    BY <2>1 DEF MonitorInv, RemovalInv, Monitor!RemovalIsLatched, Monitor!Settled,
       Monitor!Armed
  <2>3. Monitor!ReturnIsLatched
    BY <2>1 DEF MonitorInv, ReturnInv, Monitor!ReturnIsLatched, Monitor!Settled
  <2> QED
    BY <2>2, <2>3 DEF MonitorInv, MonitorTypeInv
<1>2. Monitor!Init => Monitor!Watch!Init
  BY DEF Monitor!Init, Monitor!Watch!Init, Monitor!DeviceAssumption
<1>3. MonitorInv /\ MonitorInv' /\ [Monitor!Next]_(Monitor!vars)
        => [Monitor!Watch!Next]_<<emptied, manual,
               IF outcome = "present" THEN waitReturned
               ELSE IF outcome = None THEN None ELSE Refused>>
  BY WatchNext DEF WatchStep
<1> QED
  BY <1>1, <1>2, <1>3, MonitorInvariance, PTL DEF Monitor!Spec, PresenceIsWatched, Monitor!PresenceIsWatched,
     Monitor!KeepsWatch, Monitor!Watch!Spec

HIDE DEF Monitor!world, Monitor!thread, Monitor!shared, Monitor!waiter, Monitor!Local,
    Monitor!At, Monitor!Read, Monitor!Finish, Monitor!End, Monitor!Close

USE DEF Card!media, Card!board, Card!daemon, Card!plan, Card!control, Card!outside,
    Card!Mounted, Card!Goto

-----------------------------------------------------------------------------
(* The inductive invariant.                                                *)

\* From the first identification of the medium to its ejection.
Handling == {"refresh", "recheck", "again", "write", "publish", "after",
             "readback", "eject"}
\* Before anything has been unmounted.
Early == {"menu", "validate", "arm", "select"} \cup Handling
\* After the reread, until the session ends.
Prepared == {"eject", "gate", "wait", "ready", "versions"}

\* A mount point and a device lead to one node, the system disk stays.
HostInv ==
    /\ \A m, n \in host : m # n => m.mounts # n.mounts /\ m.device # n.device
    /\ Card!SystemNodes \subseteq Card!Mounted
    /\ sdPc \in Early => unmounted = {}

\* Neither the mount point nor the device of the selection leads to the system
\* disk, whatever they lead to now.
SelectedInv ==
    sdPc \in Handling =>
        /\ selected \in Node
        /\ \A n \in Card!SystemNodes :
               n.mounts # selected.mounts /\ n.device # selected.device

\* The medium that was identified last is where it was, or known to be gone.
ReachedInv == sdPc = "readback" => selected \in host \/ selected \in away

\* What was reread is what the gate speaks of.
PreparedInv ==
    /\ sdPc \in Prepared => content[selected] = "planned" \/ selected \in away
    /\ sdPc \in Early => state \notin Card!AfterEject
    /\ sdPc = "publish" => buffer \in {"planned", "other"}

\* Only a fingerprint that was compared verifies.
ProofInv ==
    /\ sdPc = "proof" => state \in {"FAILED", "VERIFIED", "MCU_REENUMERATED"}
    /\ sdPc \in {"ready", "versions"} => ~recipe.deferred
    /\ state = "VERIFIED" => ~recipe.deferred /\ "planned" \in ran

CardInv ==
    /\ Card!TypeOK /\ Card!SystemDiskUntouched /\ Card!GateIsPrepared /\ Card!VerifiedHasRun
    /\ HostInv /\ SelectedInv /\ ReachedInv /\ PreparedInv /\ ProofInv

-----------------------------------------------------------------------------
\* A node that the executor accepts is attached and not on the system disk, so
\* that neither its mount point nor its device leads there.
LEMMA AcceptedElsewhere ==
    ASSUME Card!NodeAssumption, HostInv,
           NEW m \in Card!Candidates, NEW space, Card!VerifyMedia(m,
               space) \/ ~Card!SystemDisk(m)
    PROVE  /\ m \in host
           /\ \A n \in Card!SystemNodes : n.mounts # m.mounts /\ n.device # m.device
<1>1. m \in host /\ ~Card!SystemDisk(m)
  BY DEF Card!Candidates, Card!VerifyMedia
<1>2. ASSUME NEW n \in Card!SystemNodes
      PROVE  n \in host /\ n # m
  <2>1. PICK r \in Inserted : ~r.removable /\ "root" \in r.mounts /\ r.parent = n.parent
    BY DEF Card!SystemNodes
  <2>2. r \in Card!SystemNodes
    BY <2>1 DEF Card!SystemNodes, Card!NodeAssumption
  <2>3. n \in Card!Mounted /\ r \in Card!Mounted
    BY <2>2 DEF HostInv
  <2> QED
    BY <1>1, <2>1, <2>3 DEF Card!SystemDisk
<1> QED
  BY <1>1, <1>2 DEF HostInv

\* The run starts in a state of the invariant.
LEMMA CardInit == ASSUME Card!NodeAssumption, Card!Init PROVE CardInv
<1>1. Card!TypeOK
  BY DEF Card!Init, Card!NodeAssumption, Card!TypeOK
<1>2. Card!SystemDiskUntouched
  BY DEF Card!Init, Card!NodeAssumption, Card!SystemDiskUntouched, Card!SystemNodes
<1>3. Card!GateIsPrepared
  BY DEF Card!Init, Card!NodeAssumption, Card!GateIsPrepared
<1>4. Card!VerifiedHasRun
  BY DEF Card!Init, Card!NodeAssumption, Card!VerifiedHasRun, Card!AfterEject
<1>5. HostInv
  BY DEF Card!Init, Card!NodeAssumption, HostInv, Card!SystemNodes, Early
<1>6. SelectedInv
  BY DEF Card!Init, Card!NodeAssumption, SelectedInv, Handling
<1>7. ReachedInv
  BY DEF Card!Init, Card!NodeAssumption, ReachedInv
<1>8. PreparedInv
  BY DEF Card!Init, Card!NodeAssumption, PreparedInv, Prepared, Early
<1>9. ProofInv
  BY DEF Card!Init, Card!NodeAssumption, ProofInv, Card!AfterEject
<1> QED
  BY <1>1, <1>2, <1>3, <1>4, <1>5, <1>6, <1>7, <1>8, <1>9 DEF CardInv

\* What happens to the board and to Klipper disturbs nothing of the run: the
\* board keeps what it has run.
LEMMA WorldKeeps ==
    ASSUME CardInv, Card!TypeOK', UNCHANGED <<Card!media, Card!control, recipe>>,
        ran \subseteq ran'
    PROVE  CardInv'
<1> USE DEF CardInv
<1>1. Card!SystemDiskUntouched'
  BY DEF Card!SystemDiskUntouched
<1>2. Card!GateIsPrepared'
  BY DEF Card!GateIsPrepared
<1>3. Card!VerifiedHasRun'
  BY DEF Card!VerifiedHasRun
<1>4. HostInv'
  BY DEF HostInv
<1>5. SelectedInv'
  BY DEF SelectedInv
<1>6. ReachedInv'
  BY DEF ReachedInv
<1>7. PreparedInv'
  BY DEF PreparedInv
<1>8. ProofInv'
  BY DEF ProofInv
<1> QED
  BY <1>1, <1>2, <1>3, <1>4, <1>5, <1>6, <1>7, <1>8

\* A card is put into the host, where its mount point and device are free.
LEMMA InsertKeeps ==
    ASSUME Card!NodeAssumption, CardInv, NEW n \in Node, Card!Insert(n)
    PROVE  CardInv'
<1> USE DEF CardInv
<1>1. Card!TypeOK'
  BY DEF Card!Insert, Card!Swap, Card!TypeOK, PreparedInv, ProofInv, Card!Candidates
<1>2. Card!SystemDiskUntouched'
  BY DEF Card!Insert, Card!Swap, Card!SystemDiskUntouched, Card!TypeOK, SelectedInv,
     HostInv, Handling, Card!SystemNodes
<1>3. Card!GateIsPrepared'
  BY DEF Card!Insert, Card!Swap, Card!GateIsPrepared, Card!TypeOK, PreparedInv, Early,
     Prepared, Card!AfterEject, Card!NodeAssumption
<1>4. Card!VerifiedHasRun'
  BY DEF Card!Insert, Card!Swap, Card!VerifiedHasRun, ProofInv
<1>5. HostInv'
  BY DEF Card!Insert, Card!Swap, HostInv, Card!TypeOK, SelectedInv, Early, Handling,
     Card!SystemNodes
<1>6. SelectedInv'
  BY DEF Card!Insert, Card!Swap, SelectedInv, Card!TypeOK, Handling, Card!Candidates
<1>7. ReachedInv'
  BY DEF Card!Insert, Card!Swap, ReachedInv, Card!TypeOK, Card!Candidates
<1>8. PreparedInv'
  BY DEF Card!Insert, Card!Swap, PreparedInv, Card!TypeOK, HostInv, ReachedInv,
     Card!GateIsPrepared, Early, Handling, Prepared, Card!AfterEject
<1>9. ProofInv'
  BY DEF Card!Insert, Card!Swap, ProofInv, Card!TypeOK, Card!AfterEject, Card!NodeAssumption
<1> QED
  BY <1>1, <1>2, <1>3, <1>4, <1>5, <1>6, <1>7, <1>8, <1>9

\* A removable node leaves the host; one that leaves before the reread is known
\* to be gone.
LEMMA RemoveKeeps ==
    ASSUME Card!NodeAssumption, CardInv, NEW n \in Node, Card!Remove(n)
    PROVE  CardInv'
<1> USE DEF CardInv
<1>1. Card!TypeOK'
  BY DEF Card!Remove, Card!Swap, Card!TakenOut, Card!TypeOK, PreparedInv, ProofInv,
     Card!Candidates
<1>2. Card!SystemDiskUntouched'
  BY DEF Card!Remove, Card!Swap, Card!TakenOut, Card!SystemDiskUntouched, Card!TypeOK,
     SelectedInv, HostInv, Handling, Card!SystemNodes
<1>3. Card!GateIsPrepared'
  BY DEF Card!Remove, Card!Swap, Card!TakenOut, Card!GateIsPrepared, Card!TypeOK,
     PreparedInv, Early, Prepared, Card!AfterEject, Card!NodeAssumption
<1>4. Card!VerifiedHasRun'
  BY DEF Card!Remove, Card!Swap, Card!TakenOut, Card!VerifiedHasRun, ProofInv
<1>5. HostInv'
  BY DEF Card!Remove, Card!Swap, Card!TakenOut, HostInv, Card!TypeOK, SelectedInv, Early,
     Handling, Card!SystemNodes
<1>6. SelectedInv'
  BY DEF Card!Remove, Card!Swap, Card!TakenOut, SelectedInv, Card!TypeOK, Handling,
     Card!Candidates
<1>7. ReachedInv'
  BY DEF Card!Remove, Card!Swap, Card!TakenOut, ReachedInv, Card!TypeOK, Card!Candidates
<1>8. PreparedInv'
  BY DEF Card!Remove, Card!Swap, Card!TakenOut, PreparedInv, Card!TypeOK, HostInv,
     ReachedInv, Card!GateIsPrepared, Early, Handling, Prepared, Card!AfterEject
<1>9. ProofInv'
  BY DEF Card!Remove, Card!Swap, Card!TakenOut, ProofInv, Card!TypeOK, Card!AfterEject,
     Card!NodeAssumption
<1> QED
  BY <1>1, <1>2, <1>3, <1>4, <1>5, <1>6, <1>7, <1>8, <1>9

\* A card leaves for the printer.
LEMMA CarryKeeps ==
    ASSUME Card!NodeAssumption, CardInv, NEW n \in {m \in Node : m.removable} \cup {None},
        Card!Carry(n)
    PROVE  CardInv'
<1> USE DEF CardInv
<1>1. Card!TypeOK'
  BY DEF Card!Carry, Card!Move, Card!TakenOut, Card!TypeOK, PreparedInv, ProofInv,
     Card!Candidates
<1>2. Card!SystemDiskUntouched'
  BY DEF Card!Carry, Card!Move, Card!TakenOut, Card!SystemDiskUntouched, Card!TypeOK,
     SelectedInv, HostInv, Handling, Card!SystemNodes
<1>3. Card!GateIsPrepared'
  BY DEF Card!Carry, Card!Move, Card!TakenOut, Card!GateIsPrepared, Card!TypeOK,
     PreparedInv, Early, Prepared, Card!AfterEject, Card!NodeAssumption
<1>4. Card!VerifiedHasRun'
  BY DEF Card!Carry, Card!Move, Card!TakenOut, Card!VerifiedHasRun, ProofInv
<1>5. HostInv'
  <2>1. host' \subseteq host /\ sdPc' = sdPc /\ unmounted' = unmounted
    BY DEF Card!Carry, Card!Move, Card!TakenOut
  <2>2. Card!SystemNodes \subseteq host'
    BY DEF Card!Carry, Card!Move, Card!TakenOut, HostInv, Card!SystemNodes,
       Card!NodeAssumption
  <2> QED
    BY <2>1, <2>2 DEF HostInv
<1>6. SelectedInv'
  BY DEF Card!Carry, Card!Move, Card!TakenOut, SelectedInv, Card!TypeOK, Handling,
     Card!Candidates
<1>7. ReachedInv'
  BY DEF Card!Carry, Card!Move, Card!TakenOut, ReachedInv, Card!TypeOK, Card!Candidates
<1>8. PreparedInv'
  BY DEF Card!Carry, Card!Move, Card!TakenOut, PreparedInv, Card!TypeOK, HostInv,
     ReachedInv, Card!GateIsPrepared, Early, Handling, Prepared, Card!AfterEject
<1>9. ProofInv'
  BY DEF Card!Carry, Card!Move, Card!TakenOut, ProofInv, Card!TypeOK, Card!AfterEject,
     Card!NodeAssumption
<1> QED
  BY <1>1, <1>2, <1>3, <1>4, <1>5, <1>6, <1>7, <1>8, <1>9

\* The world outside the run.
LEMMA PowerOffKeeps == ASSUME CardInv, Card!PowerOff PROVE CardInv'
<1>1. Card!TypeOK'
  BY DEF Card!PowerOff, Card!Move, Card!Detached, CardInv, Card!TypeOK
<1>2. UNCHANGED <<Card!media, Card!control, recipe>> /\ ran \subseteq ran'
  BY DEF Card!PowerOff, Card!Move, Card!Detached
<1> QED
  BY <1>1, <1>2, WorldKeeps

\* A board that boots adds to what it has run.
LEMMA PowerOnKeeps == ASSUME CardInv, Card!PowerOn PROVE CardInv'
<1>1. Card!TypeOK'
  BY DEF Card!PowerOn, Card!Move, Card!Attached, CardInv, Card!TypeOK
<1>2. UNCHANGED <<Card!media, Card!control, recipe>> /\ ran \subseteq ran'
  BY DEF Card!PowerOn, Card!Move, Card!Attached
<1> QED
  BY <1>1, <1>2, WorldKeeps

\* The cable, without a reset.
LEMMA CableUnplugKeeps == ASSUME CardInv, Card!Unplug PROVE CardInv'
<1>1. Card!TypeOK'
  BY DEF Card!Unplug, Card!Move, Card!Detached, CardInv, Card!TypeOK
<1>2. UNCHANGED <<Card!media, Card!control, recipe>> /\ ran \subseteq ran'
  BY DEF Card!Unplug, Card!Move, Card!Detached
<1> QED
  BY <1>1, <1>2, WorldKeeps

\* The cable returns.
LEMMA ReplugKeeps == ASSUME CardInv, Card!Replug PROVE CardInv'
<1>1. Card!TypeOK'
  BY DEF Card!Replug, Card!Move, Card!Attached, CardInv, Card!TypeOK
<1>2. UNCHANGED <<Card!media, Card!control, recipe>> /\ ran \subseteq ran'
  BY DEF Card!Replug, Card!Move, Card!Attached
<1> QED
  BY <1>1, <1>2, WorldKeeps

\* Klipper loses the board.
LEMMA KlipperNoticesKeeps == ASSUME CardInv, Card!KlipperNotices PROVE CardInv'
<1>1. Card!TypeOK'
  BY DEF Card!KlipperNotices, CardInv, Card!TypeOK
<1>2. UNCHANGED <<Card!media, Card!control, recipe>> /\ ran \subseteq ran'
  BY DEF Card!KlipperNotices
<1> QED
  BY <1>1, <1>2, WorldKeeps

\* Klipper reports what runs, which has run.
LEMMA KlipperConnectsKeeps == ASSUME CardInv, Card!KlipperConnects PROVE CardInv'
<1>1. Card!TypeOK'
  BY DEF Card!KlipperConnects, Card!Move, CardInv, Card!TypeOK
<1>2. UNCHANGED <<Card!media, Card!control, recipe>> /\ ran \subseteq ran'
  BY DEF Card!KlipperConnects, Card!Move
<1> QED
  BY <1>1, <1>2, WorldKeeps

\* The staged artifact changes on the host.
LEMMA RebuildKeeps == ASSUME CardInv, Card!Rebuild PROVE CardInv'
<1>1. Card!TypeOK'
  BY DEF Card!Rebuild, Card!Move, CardInv, Card!TypeOK
<1>2. UNCHANGED <<Card!media, Card!control, recipe>> /\ ran \subseteq ran'
  BY DEF Card!Rebuild, Card!Move
<1> QED
  BY <1>1, <1>2, WorldKeeps

\* The menu, and what comes before a session is prepared.
LEMMA SelectMediumKeeps ==
    ASSUME Card!NodeAssumption, CardInv, Card!SelectMedium
    PROVE  CardInv'
<1> USE DEF CardInv
<1>1. Card!TypeOK'
  BY DEF Card!SelectMedium, Card!TypeOK, PreparedInv, ProofInv, Card!Candidates
<1>2. Card!SystemDiskUntouched'
  BY DEF Card!SelectMedium, Card!SystemDiskUntouched, Card!TypeOK, SelectedInv, HostInv,
     Handling
<1>3. Card!GateIsPrepared'
  BY DEF Card!SelectMedium, Card!GateIsPrepared, Card!TypeOK, PreparedInv, Early, Prepared,
     Card!AfterEject, Card!NodeAssumption
<1>4. Card!VerifiedHasRun'
  BY DEF Card!SelectMedium, Card!VerifiedHasRun, ProofInv
<1>5. HostInv'
  BY DEF Card!SelectMedium, HostInv, Card!TypeOK, SelectedInv, Early, Handling
<1>6. SelectedInv'
  BY DEF Card!SelectMedium, SelectedInv, Card!TypeOK, Handling, Card!Candidates
<1>7. ReachedInv'
  BY DEF Card!SelectMedium, ReachedInv, Card!TypeOK, Card!Candidates
<1>8. PreparedInv'
  BY DEF Card!SelectMedium, PreparedInv, Card!TypeOK, HostInv, ReachedInv,
     Card!GateIsPrepared, Early, Handling, Prepared, Card!AfterEject
<1>9. ProofInv'
  BY DEF Card!SelectMedium, ProofInv, Card!TypeOK, Card!AfterEject, Card!NodeAssumption
<1> QED
  BY <1>1, <1>2, <1>3, <1>4, <1>5, <1>6, <1>7, <1>8, <1>9

\* The plan and the artifact are checked.
LEMMA ValidateKeeps ==
    ASSUME Card!NodeAssumption, CardInv, Card!Validate
    PROVE  CardInv'
<1> USE DEF CardInv
<1>1. Card!TypeOK'
  BY DEF Card!Validate, Card!TypeOK, PreparedInv, ProofInv, Card!Candidates
<1>2. Card!SystemDiskUntouched'
  BY DEF Card!Validate, Card!SystemDiskUntouched, Card!TypeOK, SelectedInv, HostInv,
     Handling
<1>3. Card!GateIsPrepared'
  BY DEF Card!Validate, Card!GateIsPrepared, Card!TypeOK, PreparedInv, Early, Prepared,
     Card!AfterEject, Card!NodeAssumption
<1>4. Card!VerifiedHasRun'
  BY DEF Card!Validate, Card!VerifiedHasRun, ProofInv
<1>5. HostInv'
  BY DEF Card!Validate, HostInv, Card!TypeOK, SelectedInv, Early, Handling
<1>6. SelectedInv'
  BY DEF Card!Validate, SelectedInv, Card!TypeOK, Handling, Card!Candidates
<1>7. ReachedInv'
  BY DEF Card!Validate, ReachedInv, Card!TypeOK, Card!Candidates
<1>8. PreparedInv'
  BY DEF Card!Validate, PreparedInv, Card!TypeOK, HostInv, ReachedInv, Card!GateIsPrepared,
     Early, Handling, Prepared, Card!AfterEject
<1>9. ProofInv'
  BY DEF Card!Validate, ProofInv, Card!TypeOK, Card!AfterEject, Card!NodeAssumption
<1> QED
  BY <1>1, <1>2, <1>3, <1>4, <1>5, <1>6, <1>7, <1>8, <1>9

\* The monitor is armed.
LEMMA ArmKeeps ==
    ASSUME Card!NodeAssumption, CardInv, Card!Arm
    PROVE  CardInv'
<1> USE DEF CardInv
<1>1. Card!TypeOK'
  BY DEF Card!Arm, Card!Fail, Card!TypeOK, PreparedInv, ProofInv, Card!Candidates
<1>2. Card!SystemDiskUntouched'
  BY DEF Card!Arm, Card!Fail, Card!SystemDiskUntouched, Card!TypeOK, SelectedInv, HostInv,
     Handling
<1>3. Card!GateIsPrepared'
  BY DEF Card!Arm, Card!Fail, Card!GateIsPrepared, Card!TypeOK, PreparedInv, Early,
     Prepared, Card!AfterEject, Card!NodeAssumption
<1>4. Card!VerifiedHasRun'
  BY DEF Card!Arm, Card!Fail, Card!VerifiedHasRun, ProofInv
<1>5. HostInv'
  BY DEF Card!Arm, Card!Fail, HostInv, Card!TypeOK, SelectedInv, Early, Handling
<1>6. SelectedInv'
  BY DEF Card!Arm, Card!Fail, SelectedInv, Card!TypeOK, Handling, Card!Candidates
<1>7. ReachedInv'
  BY DEF Card!Arm, Card!Fail, ReachedInv, Card!TypeOK, Card!Candidates
<1>8. PreparedInv'
  BY DEF Card!Arm, Card!Fail, PreparedInv, Card!TypeOK, HostInv, ReachedInv,
     Card!GateIsPrepared, Early, Handling, Prepared, Card!AfterEject
<1>9. ProofInv'
  BY DEF Card!Arm, Card!Fail, ProofInv, Card!TypeOK, Card!AfterEject, Card!NodeAssumption
<1> QED
  BY <1>1, <1>2, <1>3, <1>4, <1>5, <1>6, <1>7, <1>8, <1>9

\* The identifications of the medium.
LEMMA SelectKeeps ==
    ASSUME Card!NodeAssumption, CardInv, Card!Select
    PROVE  CardInv'
<1> USE DEF CardInv
<1>1. Card!TypeOK'
  <2>1. selected' \in Node \cup {None}
    BY DEF Card!Select, Card!Fail, Card!Chosen, Card!TypeOK, Card!Candidates
  <2>2. monitor' \in {monitor, "closed"}
    BY DEF Card!Select, Card!Fail, Card!Chosen
  <2>3. UNCHANGED <<Card!outside, content, written, observed, proof>>
    BY DEF Card!Select, Card!Fail, Card!Chosen
  <2> QED
    BY <2>1, <2>2, <2>3 DEF Card!TypeOK
<1>2. Card!SystemDiskUntouched'
  BY DEF Card!Select, Card!Fail, Card!Chosen, Card!SystemDiskUntouched, Card!TypeOK,
     SelectedInv, HostInv, Handling
<1>3. Card!GateIsPrepared'
  BY DEF Card!Select, Card!Fail, Card!Chosen, Card!GateIsPrepared, Card!TypeOK,
     PreparedInv, Early, Prepared, Card!AfterEject, Card!NodeAssumption
<1>4. Card!VerifiedHasRun'
  BY DEF Card!Select, Card!Fail, Card!Chosen, Card!VerifiedHasRun, ProofInv
<1>5. HostInv'
  BY DEF Card!Select, Card!Fail, Card!Chosen, HostInv, Card!TypeOK, SelectedInv, Early,
     Handling
<1>6. SelectedInv'
  <2>1. CASE Card!Fail
    BY <2>1 DEF Card!Fail, SelectedInv, Handling
  <2>2. ASSUME NEW n \in Card!Chosen, Card!VerifyMedia(n, TRUE), selected' = n
        PROVE  SelectedInv'
    <3>1. n \in Card!Candidates
      BY DEF Card!Chosen
    <3>2. n \in host /\ \A m \in Card!SystemNodes : m.mounts # n.mounts /\ m.device # n.device
      BY <2>2, <3>1, AcceptedElsewhere
    <3> QED
      BY <2>2, <3>2 DEF SelectedInv, Card!TypeOK
  <2> QED
    BY <2>1, <2>2 DEF Card!Select
<1>7. ReachedInv'
  BY DEF Card!Select, Card!Fail, Card!Chosen, ReachedInv, Card!TypeOK, Card!Candidates
<1>8. PreparedInv'
  BY DEF Card!Select, Card!Fail, Card!Chosen, PreparedInv, Card!TypeOK, HostInv,
     ReachedInv, Card!GateIsPrepared, Early, Handling, Prepared, Card!AfterEject
<1>9. ProofInv'
  BY DEF Card!Select, Card!Fail, Card!Chosen, ProofInv, Card!TypeOK, Card!AfterEject,
     Card!NodeAssumption
<1> QED
  BY <1>1, <1>2, <1>3, <1>4, <1>5, <1>6, <1>7, <1>8, <1>9

\* The first identification of the session.
LEMMA FirstRefreshKeeps ==
    ASSUME Card!NodeAssumption, CardInv, Card!FirstRefresh
    PROVE  CardInv'
<1> USE DEF CardInv
<1>1. Card!TypeOK'
  <2>1. selected' \in Node \cup {None}
    BY DEF Card!FirstRefresh, Card!RefreshMedium, Card!Refreshed, Card!Fail, Card!TypeOK,
       Card!Candidates
  <2>2. monitor' \in {monitor, "closed"}
    BY DEF Card!FirstRefresh, Card!RefreshMedium, Card!Refreshed, Card!Fail
  <2>3. UNCHANGED <<Card!outside, content, written, observed, proof>>
    BY DEF Card!FirstRefresh, Card!RefreshMedium, Card!Refreshed, Card!Fail
  <2> QED
    BY <2>1, <2>2, <2>3 DEF Card!TypeOK
<1>2. Card!SystemDiskUntouched'
  BY DEF Card!FirstRefresh, Card!RefreshMedium, Card!Refreshed, Card!Fail,
     Card!SystemDiskUntouched, Card!TypeOK, SelectedInv, HostInv, Handling
<1>3. Card!GateIsPrepared'
  BY DEF Card!FirstRefresh, Card!RefreshMedium, Card!Refreshed, Card!Fail,
     Card!GateIsPrepared, Card!TypeOK, PreparedInv, Early, Prepared, Card!AfterEject,
         Card!NodeAssumption
<1>4. Card!VerifiedHasRun'
  BY DEF Card!FirstRefresh, Card!RefreshMedium, Card!Refreshed, Card!Fail,
     Card!VerifiedHasRun, ProofInv
<1>5. HostInv'
  BY DEF Card!FirstRefresh, Card!RefreshMedium, Card!Refreshed, Card!Fail, HostInv,
     Card!TypeOK, SelectedInv, Early, Handling
<1>6. SelectedInv'
  BY AcceptedElsewhere DEF Card!FirstRefresh, Card!RefreshMedium, Card!Refreshed,
     Card!Fail, SelectedInv, Card!TypeOK, Handling, Card!Candidates
<1>7. ReachedInv'
  BY DEF Card!FirstRefresh, Card!RefreshMedium, Card!Refreshed, Card!Fail, ReachedInv,
     Card!TypeOK, Card!Candidates
<1>8. PreparedInv'
  BY DEF Card!FirstRefresh, Card!RefreshMedium, Card!Refreshed, Card!Fail, PreparedInv,
     Card!TypeOK, HostInv, ReachedInv, Card!GateIsPrepared, Early, Handling, Prepared,
         Card!AfterEject
<1>9. ProofInv'
  BY DEF Card!FirstRefresh, Card!RefreshMedium, Card!Refreshed, Card!Fail, ProofInv,
     Card!TypeOK, Card!AfterEject, Card!NodeAssumption
<1> QED
  BY <1>1, <1>2, <1>3, <1>4, <1>5, <1>6, <1>7, <1>8, <1>9

\* Between two identifications nothing is written.
LEMMA SecondCheckKeeps ==
    ASSUME Card!NodeAssumption, CardInv, Card!Recheck
    PROVE  CardInv'
<1> USE DEF CardInv
<1>1. Card!TypeOK'
  BY DEF Card!Recheck, Card!Fail, Card!TypeOK, PreparedInv, ProofInv, Card!Candidates
<1>2. Card!SystemDiskUntouched'
  BY DEF Card!Recheck, Card!Fail, Card!SystemDiskUntouched, Card!TypeOK, SelectedInv,
     HostInv, Handling
<1>3. Card!GateIsPrepared'
  BY DEF Card!Recheck, Card!Fail, Card!GateIsPrepared, Card!TypeOK, PreparedInv, Early,
     Prepared, Card!AfterEject, Card!NodeAssumption
<1>4. Card!VerifiedHasRun'
  BY DEF Card!Recheck, Card!Fail, Card!VerifiedHasRun, ProofInv
<1>5. HostInv'
  BY DEF Card!Recheck, Card!Fail, HostInv, Card!TypeOK, SelectedInv, Early, Handling
<1>6. SelectedInv'
  BY DEF Card!Recheck, Card!Fail, SelectedInv, Card!TypeOK, Handling, Card!Candidates
<1>7. ReachedInv'
  BY DEF Card!Recheck, Card!Fail, ReachedInv, Card!TypeOK, Card!Candidates
<1>8. PreparedInv'
  BY DEF Card!Recheck, Card!Fail, PreparedInv, Card!TypeOK, HostInv, ReachedInv,
     Card!GateIsPrepared, Early, Handling, Prepared, Card!AfterEject
<1>9. ProofInv'
  BY DEF Card!Recheck, Card!Fail, ProofInv, Card!TypeOK, Card!AfterEject,
     Card!NodeAssumption
<1> QED
  BY <1>1, <1>2, <1>3, <1>4, <1>5, <1>6, <1>7, <1>8, <1>9

\* The second identification keeps the state of the session.
LEMMA SecondRefreshKeeps ==
    ASSUME Card!NodeAssumption, CardInv, Card!SecondRefresh
    PROVE  CardInv'
<1> USE DEF CardInv
<1>1. Card!TypeOK'
  <2>1. selected' \in Node \cup {None}
    BY DEF Card!SecondRefresh, Card!RefreshMedium, Card!Refreshed, Card!Fail, Card!TypeOK,
       Card!Candidates
  <2>2. monitor' \in {monitor, "closed"}
    BY DEF Card!SecondRefresh, Card!RefreshMedium, Card!Refreshed, Card!Fail
  <2>3. UNCHANGED <<Card!outside, content, written, observed, proof>>
    BY DEF Card!SecondRefresh, Card!RefreshMedium, Card!Refreshed, Card!Fail
  <2> QED
    BY <2>1, <2>2, <2>3 DEF Card!TypeOK
<1>2. Card!SystemDiskUntouched'
  BY DEF Card!SecondRefresh, Card!RefreshMedium, Card!Refreshed, Card!Fail,
     Card!SystemDiskUntouched, Card!TypeOK, SelectedInv, HostInv, Handling
<1>3. Card!GateIsPrepared'
  <2>1. state \notin Card!AfterEject
    BY DEF Card!SecondRefresh, PreparedInv, Early, Handling
  <2>2. state' = state \/ state' = "FAILED"
    BY DEF Card!SecondRefresh, Card!RefreshMedium, Card!Refreshed, Card!Fail
  <2> QED
    BY <2>1, <2>2 DEF Card!GateIsPrepared, Card!AfterEject
<1>4. Card!VerifiedHasRun'
  BY DEF Card!SecondRefresh, Card!RefreshMedium, Card!Refreshed, Card!Fail,
     Card!VerifiedHasRun, ProofInv
<1>5. HostInv'
  BY DEF Card!SecondRefresh, Card!RefreshMedium, Card!Refreshed, Card!Fail, HostInv,
     Card!TypeOK, SelectedInv, Early, Handling
<1>6. SelectedInv'
  BY AcceptedElsewhere DEF Card!SecondRefresh, Card!RefreshMedium, Card!Refreshed,
     Card!Fail, SelectedInv, Card!TypeOK, Handling, Card!Candidates
<1>7. ReachedInv'
  BY DEF Card!SecondRefresh, Card!RefreshMedium, Card!Refreshed, Card!Fail, ReachedInv,
     Card!TypeOK, Card!Candidates
<1>8. PreparedInv'
  BY DEF Card!SecondRefresh, Card!RefreshMedium, Card!Refreshed, Card!Fail, PreparedInv,
     Card!TypeOK, HostInv, ReachedInv, Card!GateIsPrepared, Early, Handling, Prepared,
         Card!AfterEject
<1>9. ProofInv'
  BY DEF Card!SecondRefresh, Card!RefreshMedium, Card!Refreshed, Card!Fail, ProofInv,
     Card!TypeOK, Card!AfterEject, Card!NodeAssumption
<1> QED
  BY <1>1, <1>2, <1>3, <1>4, <1>5, <1>6, <1>7, <1>8, <1>9

\* The copy goes to the mount point, which never leads to the system disk.
LEMMA WriteTemporaryKeeps ==
    ASSUME Card!NodeAssumption, CardInv, Card!WriteTemporary
    PROVE  CardInv'
<1> USE DEF CardInv
<1>1. Card!TypeOK'
  BY DEF Card!WriteTemporary, Card!AtMount, Card!Fail, Card!TypeOK, PreparedInv, ProofInv,
     Card!Candidates
<1>2. Card!SystemDiskUntouched'
  BY DEF Card!WriteTemporary, Card!AtMount, Card!Fail, Card!SystemDiskUntouched,
     Card!TypeOK, SelectedInv, HostInv, Handling
<1>3. Card!GateIsPrepared'
  BY DEF Card!WriteTemporary, Card!AtMount, Card!Fail, Card!GateIsPrepared, Card!TypeOK,
     PreparedInv, Early, Prepared, Card!AfterEject, Card!NodeAssumption
<1>4. Card!VerifiedHasRun'
  BY DEF Card!WriteTemporary, Card!AtMount, Card!Fail, Card!VerifiedHasRun, ProofInv
<1>5. HostInv'
  BY DEF Card!WriteTemporary, Card!AtMount, Card!Fail, HostInv, Card!TypeOK, SelectedInv,
     Early, Handling
<1>6. SelectedInv'
  BY DEF Card!WriteTemporary, Card!AtMount, Card!Fail, SelectedInv, Card!TypeOK, Handling,
     Card!Candidates
<1>7. ReachedInv'
  BY DEF Card!WriteTemporary, Card!AtMount, Card!Fail, ReachedInv, Card!TypeOK,
     Card!Candidates
<1>8. PreparedInv'
  BY DEF Card!WriteTemporary, Card!AtMount, Card!Fail, PreparedInv, Card!TypeOK, HostInv,
     ReachedInv, Card!GateIsPrepared, Early, Handling, Prepared, Card!AfterEject
<1>9. ProofInv'
  BY DEF Card!WriteTemporary, Card!AtMount, Card!Fail, ProofInv, Card!TypeOK,
     Card!AfterEject, Card!NodeAssumption
<1> QED
  BY <1>1, <1>2, <1>3, <1>4, <1>5, <1>6, <1>7, <1>8, <1>9

\* The bytes come from the temporary file of the same node.
LEMMA PublishKeeps ==
    ASSUME Card!NodeAssumption, CardInv, Card!Publish
    PROVE  CardInv'
<1> USE DEF CardInv
<1>1. Card!TypeOK'
  BY DEF Card!Publish, Card!AtMount, Card!Fail, Card!TypeOK, PreparedInv, ProofInv,
     Card!Candidates
<1>2. Card!SystemDiskUntouched'
  BY DEF Card!Publish, Card!AtMount, Card!Fail, Card!SystemDiskUntouched, Card!TypeOK,
     SelectedInv, HostInv, Handling
<1>3. Card!GateIsPrepared'
  <2>1. state \notin Card!AfterEject
    BY DEF Card!Publish, PreparedInv, Early, Handling
  <2>2. state' = state \/ state' = "FAILED"
    BY DEF Card!Publish, Card!AtMount, Card!Fail
  <2> QED
    BY <2>1, <2>2 DEF Card!GateIsPrepared, Card!AfterEject
<1>4. Card!VerifiedHasRun'
  BY DEF Card!Publish, Card!AtMount, Card!Fail, Card!VerifiedHasRun, ProofInv
<1>5. HostInv'
  BY DEF Card!Publish, Card!AtMount, Card!Fail, HostInv, Card!TypeOK, SelectedInv, Early,
     Handling
<1>6. SelectedInv'
  BY DEF Card!Publish, Card!AtMount, Card!Fail, SelectedInv, Card!TypeOK, Handling,
     Card!Candidates
<1>7. ReachedInv'
  BY DEF Card!Publish, Card!AtMount, Card!Fail, ReachedInv, Card!TypeOK, Card!Candidates
<1>8. PreparedInv'
  BY DEF Card!Publish, Card!AtMount, Card!Fail, PreparedInv, Card!TypeOK, HostInv,
     ReachedInv, Card!GateIsPrepared, Early, Handling, Prepared, Card!AfterEject
<1>9. ProofInv'
  BY DEF Card!Publish, Card!AtMount, Card!Fail, ProofInv, Card!TypeOK, Card!AfterEject,
     Card!NodeAssumption
<1> QED
  BY <1>1, <1>2, <1>3, <1>4, <1>5, <1>6, <1>7, <1>8, <1>9

\* The last identification finds the medium at its place.
LEMMA ThirdRefreshKeeps ==
    ASSUME Card!NodeAssumption, CardInv, Card!ThirdRefresh
    PROVE  CardInv'
<1> USE DEF CardInv
<1>1. Card!TypeOK'
  <2>1. selected' \in Node \cup {None}
    BY DEF Card!ThirdRefresh, Card!RefreshMedium, Card!Refreshed, Card!Fail, Card!TypeOK,
       Card!Candidates
  <2>2. monitor' \in {monitor, "closed"}
    BY DEF Card!ThirdRefresh, Card!RefreshMedium, Card!Refreshed, Card!Fail
  <2>3. UNCHANGED <<Card!outside, content, written, observed, proof>>
    BY DEF Card!ThirdRefresh, Card!RefreshMedium, Card!Refreshed, Card!Fail
  <2> QED
    BY <2>1, <2>2, <2>3 DEF Card!TypeOK
<1>2. Card!SystemDiskUntouched'
  BY DEF Card!ThirdRefresh, Card!RefreshMedium, Card!Refreshed, Card!Fail,
     Card!SystemDiskUntouched, Card!TypeOK, SelectedInv, HostInv, Handling
<1>3. Card!GateIsPrepared'
  BY DEF Card!ThirdRefresh, Card!RefreshMedium, Card!Refreshed, Card!Fail,
     Card!GateIsPrepared, Card!TypeOK, PreparedInv, Early, Prepared, Card!AfterEject,
         Card!NodeAssumption
<1>4. Card!VerifiedHasRun'
  BY DEF Card!ThirdRefresh, Card!RefreshMedium, Card!Refreshed, Card!Fail,
     Card!VerifiedHasRun, ProofInv
<1>5. HostInv'
  BY DEF Card!ThirdRefresh, Card!RefreshMedium, Card!Refreshed, Card!Fail, HostInv,
     Card!TypeOK, SelectedInv, Early, Handling
<1>6. SelectedInv'
  BY AcceptedElsewhere DEF Card!ThirdRefresh, Card!RefreshMedium, Card!Refreshed,
     Card!Fail, SelectedInv, Card!TypeOK, Handling, Card!Candidates
<1>7. ReachedInv'
  BY DEF Card!ThirdRefresh, Card!RefreshMedium, Card!Refreshed, Card!Fail, ReachedInv,
     Card!TypeOK, Card!Candidates
<1>8. PreparedInv'
  BY DEF Card!ThirdRefresh, Card!RefreshMedium, Card!Refreshed, Card!Fail, PreparedInv,
     Card!TypeOK, HostInv, ReachedInv, Card!GateIsPrepared, Early, Handling, Prepared,
         Card!AfterEject
<1>9. ProofInv'
  BY DEF Card!ThirdRefresh, Card!RefreshMedium, Card!Refreshed, Card!Fail, ProofInv,
     Card!TypeOK, Card!AfterEject, Card!NodeAssumption
<1> QED
  BY <1>1, <1>2, <1>3, <1>4, <1>5, <1>6, <1>7, <1>8, <1>9

\* One node is behind the mount point: the selection, unless it is gone.
LEMMA ReadbackKeeps ==
    ASSUME Card!NodeAssumption, CardInv, Card!Readback
    PROVE  CardInv'
<1> USE DEF CardInv
<1>1. Card!TypeOK'
  BY DEF Card!Readback, Card!AtMount, Card!Fail, Card!TypeOK, PreparedInv, ProofInv,
     Card!Candidates
<1>2. Card!SystemDiskUntouched'
  BY DEF Card!Readback, Card!AtMount, Card!Fail, Card!SystemDiskUntouched, Card!TypeOK,
     SelectedInv, HostInv, Handling
<1>3. Card!GateIsPrepared'
  BY DEF Card!Readback, Card!AtMount, Card!Fail, Card!GateIsPrepared, Card!TypeOK,
     PreparedInv, Early, Prepared, Card!AfterEject, Card!NodeAssumption
<1>4. Card!VerifiedHasRun'
  BY DEF Card!Readback, Card!AtMount, Card!Fail, Card!VerifiedHasRun, ProofInv
<1>5. HostInv'
  BY DEF Card!Readback, Card!AtMount, Card!Fail, HostInv, Card!TypeOK, SelectedInv, Early,
     Handling
<1>6. SelectedInv'
  BY DEF Card!Readback, Card!AtMount, Card!Fail, SelectedInv, Card!TypeOK, Handling,
     Card!Candidates
<1>7. ReachedInv'
  BY DEF Card!Readback, Card!AtMount, Card!Fail, ReachedInv, Card!TypeOK, Card!Candidates
<1>8. PreparedInv'
  BY DEF Card!Readback, Card!AtMount, Card!Fail, PreparedInv, Card!TypeOK, HostInv,
     ReachedInv, Card!GateIsPrepared, Early, Handling, Prepared, Card!AfterEject
<1>9. ProofInv'
  BY DEF Card!Readback, Card!AtMount, Card!Fail, ProofInv, Card!TypeOK, Card!AfterEject,
     Card!NodeAssumption
<1> QED
  BY <1>1, <1>2, <1>3, <1>4, <1>5, <1>6, <1>7, <1>8, <1>9

\* The node behind the device is unmounted, and is not of the system disk.
LEMMA EjectKeeps ==
    ASSUME Card!NodeAssumption, CardInv, Card!Eject
    PROVE  CardInv'
<1> USE DEF CardInv
<1>1. Card!TypeOK'
  BY DEF Card!Eject, Card!AtDevice, Card!Fail, Card!TypeOK, PreparedInv, ProofInv,
     Card!Candidates
<1>2. Card!SystemDiskUntouched'
  BY DEF Card!Eject, Card!AtDevice, Card!Fail, Card!SystemDiskUntouched, Card!TypeOK,
     SelectedInv, HostInv, Handling
<1>3. Card!GateIsPrepared'
  BY DEF Card!Eject, Card!AtDevice, Card!Fail, Card!GateIsPrepared, Card!TypeOK,
     PreparedInv, Early, Prepared, Card!AfterEject, Card!NodeAssumption
<1>4. Card!VerifiedHasRun'
  BY DEF Card!Eject, Card!AtDevice, Card!Fail, Card!VerifiedHasRun, ProofInv
<1>5. HostInv'
  BY DEF Card!Eject, Card!AtDevice, Card!Fail, HostInv, Card!TypeOK, SelectedInv, Early,
     Handling
<1>6. SelectedInv'
  BY DEF Card!Eject, Card!AtDevice, Card!Fail, SelectedInv, Card!TypeOK, Handling,
     Card!Candidates
<1>7. ReachedInv'
  BY DEF Card!Eject, Card!AtDevice, Card!Fail, ReachedInv, Card!TypeOK, Card!Candidates
<1>8. PreparedInv'
  BY DEF Card!Eject, Card!AtDevice, Card!Fail, PreparedInv, Card!TypeOK, HostInv,
     ReachedInv, Card!GateIsPrepared, Early, Handling, Prepared, Card!AfterEject
<1>9. ProofInv'
  BY DEF Card!Eject, Card!AtDevice, Card!Fail, ProofInv, Card!TypeOK, Card!AfterEject,
     Card!NodeAssumption
<1> QED
  BY <1>1, <1>2, <1>3, <1>4, <1>5, <1>6, <1>7, <1>8, <1>9

\* The operator confirms the power cycle.
LEMMA ConfirmKeeps ==
    ASSUME Card!NodeAssumption, CardInv, Card!Confirm
    PROVE  CardInv'
<1> USE DEF CardInv
<1>1. Card!TypeOK'
  BY DEF Card!Confirm, Card!TypeOK, PreparedInv, ProofInv, Card!Candidates
<1>2. Card!SystemDiskUntouched'
  BY DEF Card!Confirm, Card!SystemDiskUntouched, Card!TypeOK, SelectedInv, HostInv, Handling
<1>3. Card!GateIsPrepared'
  BY DEF Card!Confirm, Card!GateIsPrepared, Card!TypeOK, PreparedInv, Early, Prepared,
     Card!AfterEject, Card!NodeAssumption
<1>4. Card!VerifiedHasRun'
  BY DEF Card!Confirm, Card!VerifiedHasRun, ProofInv
<1>5. HostInv'
  BY DEF Card!Confirm, HostInv, Card!TypeOK, SelectedInv, Early, Handling
<1>6. SelectedInv'
  BY DEF Card!Confirm, SelectedInv, Card!TypeOK, Handling, Card!Candidates
<1>7. ReachedInv'
  BY DEF Card!Confirm, ReachedInv, Card!TypeOK, Card!Candidates
<1>8. PreparedInv'
  BY DEF Card!Confirm, PreparedInv, Card!TypeOK, HostInv, ReachedInv, Card!GateIsPrepared,
     Early, Handling, Prepared, Card!AfterEject
<1>9. ProofInv'
  BY DEF Card!Confirm, ProofInv, Card!TypeOK, Card!AfterEject, Card!NodeAssumption
<1> QED
  BY <1>1, <1>2, <1>3, <1>4, <1>5, <1>6, <1>7, <1>8, <1>9

\* The operator gives up at the gate.
LEMMA CancelKeeps ==
    ASSUME Card!NodeAssumption, CardInv, Card!Cancel
    PROVE  CardInv'
<1> USE DEF CardInv
<1>1. Card!TypeOK'
  BY DEF Card!Cancel, Card!Fail, Card!TypeOK, PreparedInv, ProofInv, Card!Candidates
<1>2. Card!SystemDiskUntouched'
  BY DEF Card!Cancel, Card!Fail, Card!SystemDiskUntouched, Card!TypeOK, SelectedInv,
     HostInv, Handling
<1>3. Card!GateIsPrepared'
  BY DEF Card!Cancel, Card!Fail, Card!GateIsPrepared, Card!TypeOK, PreparedInv, Early,
     Prepared, Card!AfterEject, Card!NodeAssumption
<1>4. Card!VerifiedHasRun'
  BY DEF Card!Cancel, Card!Fail, Card!VerifiedHasRun, ProofInv
<1>5. HostInv'
  BY DEF Card!Cancel, Card!Fail, HostInv, Card!TypeOK, SelectedInv, Early, Handling
<1>6. SelectedInv'
  BY DEF Card!Cancel, Card!Fail, SelectedInv, Card!TypeOK, Handling, Card!Candidates
<1>7. ReachedInv'
  BY DEF Card!Cancel, Card!Fail, ReachedInv, Card!TypeOK, Card!Candidates
<1>8. PreparedInv'
  BY DEF Card!Cancel, Card!Fail, PreparedInv, Card!TypeOK, HostInv, ReachedInv,
     Card!GateIsPrepared, Early, Handling, Prepared, Card!AfterEject
<1>9. ProofInv'
  BY DEF Card!Cancel, Card!Fail, ProofInv, Card!TypeOK, Card!AfterEject, Card!NodeAssumption
<1> QED
  BY <1>1, <1>2, <1>3, <1>4, <1>5, <1>6, <1>7, <1>8, <1>9

\* The board is back, or the wait fails.
LEMMA WaitKeeps ==
    ASSUME Card!NodeAssumption, CardInv, Card!Wait
    PROVE  CardInv'
<1> USE DEF CardInv
<1>1. Card!TypeOK'
  BY DEF Card!Wait, Card!Fail, Card!TypeOK, PreparedInv, ProofInv, Card!Candidates
<1>2. Card!SystemDiskUntouched'
  BY DEF Card!Wait, Card!Fail, Card!SystemDiskUntouched, Card!TypeOK, SelectedInv, HostInv,
     Handling
<1>3. Card!GateIsPrepared'
  BY DEF Card!Wait, Card!Fail, Card!GateIsPrepared, Card!TypeOK, PreparedInv, Early,
     Prepared, Card!AfterEject, Card!NodeAssumption
<1>4. Card!VerifiedHasRun'
  BY DEF Card!Wait, Card!Fail, Card!VerifiedHasRun, ProofInv
<1>5. HostInv'
  BY DEF Card!Wait, Card!Fail, HostInv, Card!TypeOK, SelectedInv, Early, Handling
<1>6. SelectedInv'
  BY DEF Card!Wait, Card!Fail, SelectedInv, Card!TypeOK, Handling, Card!Candidates
<1>7. ReachedInv'
  BY DEF Card!Wait, Card!Fail, ReachedInv, Card!TypeOK, Card!Candidates
<1>8. PreparedInv'
  BY DEF Card!Wait, Card!Fail, PreparedInv, Card!TypeOK, HostInv, ReachedInv,
     Card!GateIsPrepared, Early, Handling, Prepared, Card!AfterEject
<1>9. ProofInv'
  BY DEF Card!Wait, Card!Fail, ProofInv, Card!TypeOK, Card!AfterEject, Card!NodeAssumption
<1> QED
  BY <1>1, <1>2, <1>3, <1>4, <1>5, <1>6, <1>7, <1>8, <1>9

\* Klipper is ready, or not in time.
LEMMA SampleReadyKeeps ==
    ASSUME Card!NodeAssumption, CardInv, Card!SampleReady
    PROVE  CardInv'
<1> USE DEF CardInv
<1>1. Card!TypeOK'
  BY DEF Card!SampleReady, Card!Fail, Card!TypeOK, PreparedInv, ProofInv, Card!Candidates
<1>2. Card!SystemDiskUntouched'
  BY DEF Card!SampleReady, Card!Fail, Card!SystemDiskUntouched, Card!TypeOK, SelectedInv,
     HostInv, Handling
<1>3. Card!GateIsPrepared'
  BY DEF Card!SampleReady, Card!Fail, Card!GateIsPrepared, Card!TypeOK, PreparedInv, Early,
     Prepared, Card!AfterEject, Card!NodeAssumption
<1>4. Card!VerifiedHasRun'
  BY DEF Card!SampleReady, Card!Fail, Card!VerifiedHasRun, ProofInv
<1>5. HostInv'
  BY DEF Card!SampleReady, Card!Fail, HostInv, Card!TypeOK, SelectedInv, Early, Handling
<1>6. SelectedInv'
  BY DEF Card!SampleReady, Card!Fail, SelectedInv, Card!TypeOK, Handling, Card!Candidates
<1>7. ReachedInv'
  BY DEF Card!SampleReady, Card!Fail, ReachedInv, Card!TypeOK, Card!Candidates
<1>8. PreparedInv'
  BY DEF Card!SampleReady, Card!Fail, PreparedInv, Card!TypeOK, HostInv, ReachedInv,
     Card!GateIsPrepared, Early, Handling, Prepared, Card!AfterEject
<1>9. ProofInv'
  BY DEF Card!SampleReady, Card!Fail, ProofInv, Card!TypeOK, Card!AfterEject,
     Card!NodeAssumption
<1> QED
  BY <1>1, <1>2, <1>3, <1>4, <1>5, <1>6, <1>7, <1>8, <1>9

\* The fingerprint is compared.
LEMMA SampleVersionsKeeps ==
    ASSUME Card!NodeAssumption, CardInv, Card!SampleVersions
    PROVE  CardInv'
<1> USE DEF CardInv
<1>1. Card!TypeOK'
  BY DEF Card!SampleVersions, Card!TypeOK, PreparedInv, ProofInv, Card!Candidates
<1>2. Card!SystemDiskUntouched'
  BY DEF Card!SampleVersions, Card!SystemDiskUntouched, Card!TypeOK, SelectedInv, HostInv,
     Handling
<1>3. Card!GateIsPrepared'
  BY DEF Card!SampleVersions, Card!GateIsPrepared, Card!TypeOK, PreparedInv, Early,
     Prepared, Card!AfterEject, Card!NodeAssumption
<1>4. Card!VerifiedHasRun'
  BY DEF Card!SampleVersions, Card!VerifiedHasRun, ProofInv
<1>5. HostInv'
  BY DEF Card!SampleVersions, HostInv, Card!TypeOK, SelectedInv, Early, Handling
<1>6. SelectedInv'
  BY DEF Card!SampleVersions, SelectedInv, Card!TypeOK, Handling, Card!Candidates
<1>7. ReachedInv'
  BY DEF Card!SampleVersions, ReachedInv, Card!TypeOK, Card!Candidates
<1>8. PreparedInv'
  BY DEF Card!SampleVersions, PreparedInv, Card!TypeOK, HostInv, ReachedInv,
     Card!GateIsPrepared, Early, Handling, Prepared, Card!AfterEject
<1>9. ProofInv'
  BY DEF Card!SampleVersions, ProofInv, Card!TypeOK, Card!AfterEject, Card!NodeAssumption
<1> QED
  BY <1>1, <1>2, <1>3, <1>4, <1>5, <1>6, <1>7, <1>8, <1>9

\* The proof repeats the final state.
LEMMA WriteProofKeeps ==
    ASSUME Card!NodeAssumption, CardInv, Card!WriteProof
    PROVE  CardInv'
<1> USE DEF CardInv
<1>1. Card!TypeOK'
  BY DEF Card!WriteProof, Card!TypeOK, PreparedInv, ProofInv, Card!Candidates
<1>2. Card!SystemDiskUntouched'
  BY DEF Card!WriteProof, Card!SystemDiskUntouched, Card!TypeOK, SelectedInv, HostInv,
     Handling
<1>3. Card!GateIsPrepared'
  BY DEF Card!WriteProof, Card!GateIsPrepared, Card!TypeOK, PreparedInv, Early, Prepared,
     Card!AfterEject, Card!NodeAssumption
<1>4. Card!VerifiedHasRun'
  BY DEF Card!WriteProof, Card!VerifiedHasRun, ProofInv
<1>5. HostInv'
  BY DEF Card!WriteProof, HostInv, Card!TypeOK, SelectedInv, Early, Handling
<1>6. SelectedInv'
  BY DEF Card!WriteProof, SelectedInv, Card!TypeOK, Handling, Card!Candidates
<1>7. ReachedInv'
  BY DEF Card!WriteProof, ReachedInv, Card!TypeOK, Card!Candidates
<1>8. PreparedInv'
  BY DEF Card!WriteProof, PreparedInv, Card!TypeOK, HostInv, ReachedInv,
     Card!GateIsPrepared, Early, Handling, Prepared, Card!AfterEject
<1>9. ProofInv'
  BY DEF Card!WriteProof, ProofInv, Card!TypeOK, Card!AfterEject, Card!NodeAssumption
<1> QED
  BY <1>1, <1>2, <1>3, <1>4, <1>5, <1>6, <1>7, <1>8, <1>9

\* Ctrl+C leaves at most a temporary file.
LEMMA CardInterruptKeeps ==
    ASSUME Card!NodeAssumption, CardInv, Card!Interrupt
    PROVE  CardInv'
<1> USE DEF CardInv
<1>1. Card!TypeOK'
  BY DEF Card!Interrupt, Card!Ends, Card!TypeOK, PreparedInv, ProofInv, Card!Candidates
<1>2. Card!SystemDiskUntouched'
  BY DEF Card!Interrupt, Card!Ends, Card!SystemDiskUntouched, Card!TypeOK, SelectedInv,
     HostInv, Handling
<1>3. Card!GateIsPrepared'
  BY DEF Card!Interrupt, Card!Ends, Card!GateIsPrepared, Card!TypeOK, PreparedInv, Early,
     Prepared, Card!AfterEject, Card!NodeAssumption
<1>4. Card!VerifiedHasRun'
  BY DEF Card!Interrupt, Card!Ends, Card!VerifiedHasRun, ProofInv
<1>5. HostInv'
  BY DEF Card!Interrupt, Card!Ends, HostInv, Card!TypeOK, SelectedInv, Early, Handling
<1>6. SelectedInv'
  BY DEF Card!Interrupt, Card!Ends, SelectedInv, Card!TypeOK, Handling, Card!Candidates
<1>7. ReachedInv'
  BY DEF Card!Interrupt, Card!Ends, ReachedInv, Card!TypeOK, Card!Candidates
<1>8. PreparedInv'
  BY DEF Card!Interrupt, Card!Ends, PreparedInv, Card!TypeOK, HostInv, ReachedInv,
     Card!GateIsPrepared, Early, Handling, Prepared, Card!AfterEject
<1>9. ProofInv'
  BY DEF Card!Interrupt, Card!Ends, ProofInv, Card!TypeOK, Card!AfterEject,
     Card!NodeAssumption
<1> QED
  BY <1>1, <1>2, <1>3, <1>4, <1>5, <1>6, <1>7, <1>8, <1>9

\* Nothing happens.
LEMMA CardStutterKeeps == ASSUME CardInv, UNCHANGED Card!vars PROVE CardInv'
<1>1. Card!TypeOK'
  BY DEF Card!vars, CardInv, Card!TypeOK
<1>2. UNCHANGED <<Card!media, Card!control, recipe>> /\ ran \subseteq ran'
  BY DEF Card!vars
<1> QED
  BY <1>1, <1>2, WorldKeeps

\* Every step keeps the invariant.
LEMMA CardNext == ASSUME Card!NodeAssumption, CardInv, [Card!Next]_(Card!vars) PROVE CardInv'
<1>1. CASE Card!Run
  <2>1. CASE Card!SelectMedium
    BY <2>1, SelectMediumKeeps
  <2>2. CASE Card!Validate
    BY <2>2, ValidateKeeps
  <2>3. CASE Card!Arm
    BY <2>3, ArmKeeps
  <2>4. CASE Card!Select
    BY <2>4, SelectKeeps
  <2>5. CASE Card!FirstRefresh
    BY <2>5, FirstRefreshKeeps
  <2>6. CASE Card!Recheck
    BY <2>6, SecondCheckKeeps
  <2>7. CASE Card!SecondRefresh
    BY <2>7, SecondRefreshKeeps
  <2>8. CASE Card!WriteTemporary
    BY <2>8, WriteTemporaryKeeps
  <2>9. CASE Card!Publish
    BY <2>9, PublishKeeps
  <2>10. CASE Card!ThirdRefresh
    BY <2>10, ThirdRefreshKeeps
  <2>11. CASE Card!Readback
    BY <2>11, ReadbackKeeps
  <2>12. CASE Card!Eject
    BY <2>12, EjectKeeps
  <2>13. CASE Card!Wait
    BY <2>13, WaitKeeps
  <2>14. CASE Card!SampleReady
    BY <2>14, SampleReadyKeeps
  <2>15. CASE Card!SampleVersions
    BY <2>15, SampleVersionsKeeps
  <2>16. CASE Card!WriteProof
    BY <2>16, WriteProofKeeps
  <2> QED
    BY <1>1, <2>1, <2>2, <2>3, <2>4, <2>5, <2>6, <2>7, <2>8, <2>9, <2>10, <2>11, <2>12,
       <2>13, <2>14, <2>15, <2>16 DEF Card!Run
<1>2. CASE Card!Operator
  <2>1. ASSUME NEW n \in Node, Card!Insert(n) PROVE CardInv'
    BY <2>1, InsertKeeps
  <2>2. ASSUME NEW n \in Node, Card!Remove(n) PROVE CardInv'
    BY <2>2, RemoveKeeps
  <2>3. ASSUME NEW n \in {m \in Node : m.removable} \cup {None},
      Card!Carry(n) PROVE CardInv'
    BY <2>3, CarryKeeps
  <2>4. CASE Card!PowerOff
    BY <2>4, PowerOffKeeps
  <2>5. CASE Card!PowerOn
    BY <2>5, PowerOnKeeps
  <2>6. CASE Card!Unplug
    BY <2>6, CableUnplugKeeps
  <2>7. CASE Card!Replug
    BY <2>7, ReplugKeeps
  <2>8. CASE Card!Confirm
    BY <2>8, ConfirmKeeps
  <2>9. CASE Card!Cancel
    BY <2>9, CancelKeeps
  <2>10. CASE Card!Interrupt
    BY <2>10, CardInterruptKeeps
  <2> QED
    BY <1>2, <2>1, <2>2, <2>3, <2>4, <2>5, <2>6, <2>7, <2>8, <2>9, <2>10 DEF Card!Operator
<1>3. CASE Card!KlipperNotices
  BY <1>3, KlipperNoticesKeeps
<1>4. CASE Card!KlipperConnects
  BY <1>4, KlipperConnectsKeeps
<1>5. CASE Card!Rebuild
  BY <1>5, RebuildKeeps
<1>6. CASE UNCHANGED Card!vars
  BY <1>6, CardStutterKeeps
<1> QED
  BY <1>1, <1>2, <1>3, <1>4, <1>5, <1>6 DEF Card!Next

-----------------------------------------------------------------------------
(* The theorems.                                                           *)

\* The invariant holds for every host and recipe.
THEOREM CardInvariance == Card!NodeAssumption => (Card!Spec => []CardInv)
<1> SUFFICES ASSUME Card!NodeAssumption
             PROVE  Card!Spec => []CardInv
  OBVIOUS
<1>1. Card!Init => CardInv
  BY CardInit
<1>2. CardInv /\ [Card!Next]_(Card!vars) => CardInv'
  BY CardNext
<1> QED
  BY <1>1, <1>2, PTL DEF Card!Spec

\* The power cycle is asked for only when the medium that was identified last
\* holds the planned bytes, unless it left before the reread, and nothing is
\* ever written to the host's own disk: prepare_media, however often media with
\* the same or another identity are exchanged under the run.
THEOREM MediumIsPreparedAlways == Card!NodeAssumption => (Card!Spec => []MediumIsPrepared)
<1> SUFFICES ASSUME Card!NodeAssumption
             PROVE  Card!Spec => []MediumIsPrepared
  OBVIOUS
<1>1. CardInv => MediumIsPrepared
  BY DEF CardInv, MediumIsPrepared, Card!MediumIsPrepared
<1> QED
  BY <1>1, CardInvariance, PTL

\* A proof file that says VERIFIED speaks of a board that has run the planned
\* firmware since the deployment began: confirm_manual_power_cycle, whatever
\* the board, the cable, the power and Klipper do.
THEOREM VerifiedHasRunAlways == Card!NodeAssumption => (Card!Spec => []VerifiedHasRun)
<1> SUFFICES ASSUME Card!NodeAssumption
             PROVE  Card!Spec => []VerifiedHasRun
  OBVIOUS
<1>1. CardInv => VerifiedHasRun
  BY DEF CardInv, VerifiedHasRun
<1> QED
  BY <1>1, CardInvariance, PTL

HIDE DEF Card!media, Card!board, Card!daemon, Card!plan, Card!control, Card!outside,
    Card!Mounted, Card!Goto

-----------------------------------------------------------------------------
(* McuVerification: the device that is taken for the MCU.                  *)

\* A match has nothing against it, and enough evidence for it: 90 points need a
\* common place, and the serial number where that is only a path.
LEMMA MatchIsEvident ==
    ASSUME NEW a, NEW b, NEW expected, Verification!Assess(a, b, expected) = "MATCH"
    PROVE  LET common == Verification!CommonTopology(a, b) IN
           /\ b.vidPid \in expected /\ ~Verification!SerialConflict(a, b)
           /\ \/ common \cap {"port", "byPath"} # {}
              \/ common # {} /\ Verification!SerialMatch(a, b)
<1> DEFINE common == Verification!CommonTopology(a, b)
           score == Verification!TopologyScore(common)
<1>1. /\ common # {} /\ b.vidPid \in expected /\ ~Verification!SerialConflict(a, b)
      /\ Verification!Score(a, b, expected) >= 90
  BY DEF Verification!Assess, Verification!Threshold
<1>2. /\ score \in {0, 50, 55, 60}
      /\ score = 60 => common \cap {"port", "byPath"} # {}
  BY DEF Verification!TopologyScore
<1>3. CASE Verification!SerialMatch(a, b)
  BY <1>1, <1>3
<1>4. CASE ~Verification!SerialMatch(a, b)
  <2>1. Verification!Score(a, b, expected) = score + 30
    BY <1>1, <1>4 DEF Verification!Score
  <2>2. score = 60
    <3> HIDE DEF score
    <3> QED
      BY <1>1, <1>2, <2>1
  <2> QED
    BY <1>1, <1>2, <2>2
<1> QED
  BY <1>3, <1>4

\* What is chosen, and when.
LEMMA VerifyChooses ==
    ASSUME Verification!Verify
    PROVE  \E d \in present :
             LET candidates == {e \in present : Verification!Eligible(e)} IN
             /\ Verification!Pool(candidates) = {d} /\ d \in candidates
             /\ Verification!Judged(d) = "MATCH" \/ confirms
             /\ chosen' = [device |-> d, manual |-> Verification!Judged(d) # "MATCH"]
<1> DEFINE candidates == {e \in present : Verification!Eligible(e)}
           pool == Verification!Pool(candidates)
<1>1. PICK d \in pool :
          /\ pool = {d}
          /\ Verification!Judged(d) = "MATCH" \/ confirms
          /\ chosen' = [device |-> d, manual |-> Verification!Judged(d) # "MATCH"]
  BY DEF Verification!Verify
<1>2. pool \subseteq candidates
  BY DEF Verification!Pool
<1> HIDE DEF pool
<1>3. d \in candidates
  BY <1>1, <1>2
<1> QED
  BY <1>1, <1>3 DEF pool

\* A choice without the operator rests on a match.
LEMMA VerifyIsProven ==
    ASSUME Verification!Verify
    PROVE  Verification!AutomaticIsProven'
<1>1. PICK d \in present :
          chosen' = [device |-> d, manual |-> Verification!Judged(d) # "MATCH"]
  BY VerifyChooses
<1>2. baseline' = baseline
  BY DEF Verification!Verify
<1>3. chosen'.device = d /\ (chosen'.manual <=> Verification!Judged(d) # "MATCH")
  BY <1>1
<1>4. ASSUME Verification!Judged(d) = "MATCH"
      PROVE  /\ baseline # None
             /\ Verification!Assess(Verification!Original, Verification!Candidate(d),
                                    Verification!ExpectedIds) = "MATCH"
  BY <1>4 DEF Verification!Judged
<1> DEFINE id == Verification!Candidate(d)
           common == Verification!CommonTopology(Verification!Original, id)
<1>5. ASSUME Verification!Judged(d) = "MATCH"
      PROVE  /\ id.vidPid \in Verification!ExpectedIds
             /\ ~Verification!SerialConflict(Verification!Original, id)
             /\ \/ common \cap {"port", "byPath"} # {}
                \/ common # {} /\ Verification!SerialMatch(Verification!Original, id)
  BY <1>4, <1>5, MatchIsEvident
<1>6. UNCHANGED <<Verification!Original, Verification!ExpectedIds>>
  BY <1>2 DEF Verification!Original, Verification!ExpectedIds
<1> QED
  BY <1>2, <1>3, <1>4, <1>5, <1>6 DEF Verification!AutomaticIsProven

\* A choice of the operator was the only one.
LEMMA VerifyIsAlone ==
    ASSUME Verification!Verify
    PROVE  Verification!ConfirmedWasAlone'
<1> DEFINE candidates == {e \in present : Verification!Eligible(e)}
<1>1. PICK d \in present :
          /\ Verification!Pool(candidates) = {d} /\ d \in candidates
          /\ Verification!Judged(d) = "MATCH" \/ confirms
          /\ chosen' = [device |-> d, manual |-> Verification!Judged(d) # "MATCH"]
  BY VerifyChooses
<1>2. UNCHANGED <<baseline, present, confirms>>
  BY DEF Verification!Verify
<1>3. chosen'.device = d /\ (chosen'.manual <=> Verification!Judged(d) # "MATCH")
  BY <1>1
<1>4. Verification!Judged(d) # "MATCH" => candidates = {d}
  <2> HIDE DEF candidates
  <2> QED
    BY <1>1 DEF Verification!Pool
<1>5. ASSUME NEW e \in present \ {d}, Verification!Judged(d) # "MATCH"
      PROVE  ~(/\ e.model = "same" /\ Verification!Judged(e) \in {"MATCH", "AMBIGUOUS"}
               /\ Verification!ExpectedIds # {} =>
                      Verification!Candidate(e).vidPid \in Verification!ExpectedIds \cup {None})
  BY <1>4, <1>5 DEF Verification!Eligible
<1>6. ASSUME NEW e
      PROVE  UNCHANGED <<Verification!Judged(e), Verification!ExpectedIds>>
  BY <1>2 DEF Verification!Judged, Verification!Original, Verification!ExpectedIds
<1> QED
  BY <1>1, <1>2, <1>3, <1>5, <1>6 DEF Verification!ConfirmedWasAlone

\* Nothing is accepted without the operator that is not proven to be the board,
\* and nothing is confirmed that was not the only device that could be meant:
\* verify_reappeared_mcu, for any devices and any original identity.
THEOREM ChosenIsTheBoardAlways ==
    Verification!Spec => []ChosenIsTheBoard
<1> USE DEF ChosenIsTheBoard
<1>1. Verification!Init => ChosenIsTheBoard
  BY DEF Verification!Init, Verification!AutomaticIsProven, Verification!ConfirmedWasAlone
<1>2. ChosenIsTheBoard /\ [Verification!Next]_(Verification!vars) => ChosenIsTheBoard'
  <2> SUFFICES ASSUME ChosenIsTheBoard, [Verification!Next]_(Verification!vars)
               PROVE  ChosenIsTheBoard'
    OBVIOUS
  <2>1. CASE Verification!Verify
    BY <2>1, VerifyIsProven, VerifyIsAlone
  <2>2. CASE Verification!Replug
    <3>1. chosen' = None
      BY <2>2 DEF Verification!Replug
    <3> QED
      BY <3>1 DEF Verification!AutomaticIsProven, Verification!ConfirmedWasAlone
  <2>3. CASE UNCHANGED Verification!vars
    BY <2>3 DEF Verification!vars, Verification!AutomaticIsProven,
       Verification!ConfirmedWasAlone, Verification!Original, Verification!ExpectedIds,
       Verification!Judged
  <2> QED
    BY <2>1, <2>2, <2>3 DEF Verification!Next
<1> QED
  BY <1>1, <1>2, PTL DEF Verification!Spec
================================================================================
