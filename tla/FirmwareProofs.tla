---------------------------- MODULE FirmwareProofs ----------------------------
(***************************************************************************)
(* Theorems about the parts of FirmwareParts, for any profiles, symbols,   *)
(* contracts, builds and configurations.  Each is about one component and  *)
(* uses the variables of that component only.                              *)
(***************************************************************************)
EXTENDS FirmwareParts, Integers, Sequences, FiniteSetTheorems, TLAPS

USE DEF files, goals, fixed

-----------------------------------------------------------------------------
(* FirmwareDelivery: from the build to the board or the medium.            *)

\* The positions before the operator's method has touched anything.
Preparing == {"plan", "copy", "digest", "encode", "execute", "usb", "confirm", "payload",
              "manual", "place"}
\* The positions after the question, on the way to the board.
Flashing == {"confirm", "payload", "flash"}
\* The positions after the choice of a medium, on the way to it.
Placing == {"place", "compare"}

\* What was loaded and detected, and where a delivery can be.
PlanInv ==
    /\ target \in [board : Board, mcu : Mcu, bridge : Bridge \cup {NoBridge}]
    /\ artifact \in [mcu : Mcu, offset : Offset, deployable : BOOLEAN]
    /\ Loaded(profiles)
    /\ pc \in Preparing \cup Flashing \cup Placing \cup {"done"}
    /\ pc = "done" <=> status # "none"
    /\ pc \notin {"plan", "done"} => plan \in Resolve(method)
    /\ pc \in Flashing => Eligible
    /\ pc \in Placing => plan.strategy # "PREPARE_ONLY"
    /\ pc = "flash" => payload = "native"

\* What was touched: nothing before the last step of a method, and afterwards
\* only by a plan that was resolved for this board.
TouchedInv ==
    /\ pc # "done" => board = "earlier" /\ medium = "earlier"
    /\ pc # "compare" => scrap = "absent"
    /\ board # "earlier" => plan \in Resolve(method) /\ Eligible
    /\ medium # "earlier" => plan \in Resolve(method) /\ plan.strategy # "PREPARE_ONLY"

DeliveryInv ==
    TypeOK /\ PlanInv /\ TouchedInv /\ DeliveredIsApproved /\ LeavesNothingBehind

\* The profiles that are resolved are profiles.
LEMMA ResolvedIsProfile ==
  ASSUME TypeOK, PlanInv, NEW m \in Methods, NEW p \in Resolve(m)
  PROVE  p \in Profile
<1>1. Fallback \in Profile
  BY DEF PlanInv, Fallback, Profile, Methods
<1> QED
  BY <1>1 DEF TypeOK, Resolve, OfBoard

\* The first state satisfies the invariant.
LEMMA DeliveryInit ==
  ASSUME Init
  PROVE  DeliveryInv
<1>1. profiles \subseteq Profile /\ Loaded(profiles)
  BY DeliveryAssumption DEF Init
<1>2. PlanInv
  BY <1>1 DEF Init, PlanInv, Preparing, Flashing, Placing
<1>3. Fallback \in Profile
  BY <1>2 DEF PlanInv, Fallback, Profile, Methods
<1>4. {build, staged, payload, scrap} \subseteq Content
  BY DEF Init, Content
<1>5. tampers \in 0 .. MaxTampers
  BY DeliveryAssumption DEF Init
<1>6. TypeOK
  BY <1>1, <1>3, <1>4, <1>5 DEF Init, TypeOK
<1> QED
  BY <1>2, <1>6 DEF Init, DeliveryInv, TouchedInv, DeliveredIsApproved, LeavesNothingBehind

\* Every step keeps the types.
LEMMA DeliveryTypeNext ==
  ASSUME DeliveryInv, [Next]_vars
  PROVE  TypeOK'
<1> USE DEF DeliveryInv, TypeOK, Goto, Return, Content
<1>1. CASE Plan
  <2>1. plan' \in Profile
    <3>1. CASE plan' \in Resolve(method')
      BY <1>1, <3>1, ResolvedIsProfile DEF Plan
    <3>2. CASE plan' = plan
      BY <3>2
    <3> QED
      BY <1>1, <3>1, <3>2 DEF Plan
  <2> QED
    BY <1>1, <2>1 DEF Plan, Methods
<1>2. CASE Copy \/ Digest \/ Encode \/ Execute
  BY <1>2 DEF Copy, Digest, Encode, Execute
<1>3. CASE Usb \/ Confirm \/ Payload \/ Flash
  BY <1>3 DEF Usb, Confirm, Payload, Flash
<1>4. CASE Manual \/ Place \/ Compare
  BY <1>4 DEF Manual, Place, Compare
<1>5. CASE Tamper
  <2>1. tampers' \in 0 .. MaxTampers
    BY <1>5, DeliveryAssumption DEF Tamper
  <2> QED
    BY <1>5, <2>1 DEF Tamper
<1>6. CASE UNCHANGED vars
  BY <1>6 DEF vars
<1> QED
  BY <1>1, <1>2, <1>3, <1>4, <1>5, <1>6 DEF Next

\* Every step keeps the plan.
LEMMA PlanNext ==
  ASSUME DeliveryInv, [Next]_vars
  PROVE  PlanInv'
<1> USE DEF DeliveryInv, PlanInv, Goto, Return, Preparing, Flashing, Placing
<1>1. UNCHANGED fixed
  BY DEF Next, vars, Plan, Copy, Digest, Encode, Execute, Usb, Confirm, Payload, Flash,
         Manual, Place, Compare, Tamper
<1>2. \A m : Resolve(m)' = Resolve(m)
  BY <1>1 DEF Resolve, OfBoard, Fallback, Fits
<1>3. Loaded(profiles)'
  BY <1>1
<1>4. UNCHANGED plan => Eligible' = Eligible
  BY <1>1 DEF Eligible
<1>5. CASE Plan
  BY <1>1, <1>2, <1>3, <1>5 DEF Plan
<1>6. CASE Copy \/ Digest \/ Encode \/ Execute
  BY <1>1, <1>2, <1>3, <1>6 DEF Copy, Digest, Encode, Execute
<1>7. CASE Usb
  BY <1>1, <1>2, <1>3, <1>4, <1>7 DEF Usb
<1>8. CASE Confirm \/ Payload \/ Flash
  BY <1>1, <1>2, <1>3, <1>4, <1>8 DEF Confirm, Payload, Flash
<1>9. CASE Manual \/ Place \/ Compare
  BY <1>1, <1>2, <1>3, <1>9 DEF Manual, Place, Compare
<1>10. CASE Tamper
  BY <1>1, <1>2, <1>3, <1>4, <1>10 DEF Tamper
<1>11. CASE UNCHANGED vars
  BY <1>1, <1>2, <1>3, <1>4, <1>11 DEF vars
<1> QED
  BY <1>5, <1>6, <1>7, <1>8, <1>9, <1>10, <1>11 DEF Next

\* Every step keeps the medium and the board in order.
LEMMA TouchedNext ==
  ASSUME DeliveryInv, [Next]_vars
  PROVE  (TouchedInv /\ DeliveredIsApproved /\ LeavesNothingBehind)'
<1> USE DEF DeliveryInv, PlanInv, TouchedInv, DeliveredIsApproved, LeavesNothingBehind,
            Goto, Return, Preparing, Flashing, Placing
<1>1. UNCHANGED fixed
  BY DEF Next, vars, Plan, Copy, Digest, Encode, Execute, Usb, Confirm, Payload, Flash,
         Manual, Place, Compare, Tamper
<1>2. \A m : Resolve(m)' = Resolve(m)
  BY <1>1 DEF Resolve, OfBoard, Fallback, Fits
<1>3. UNCHANGED plan => Eligible' = Eligible
  BY <1>1 DEF Eligible
<1>4. CASE Plan \/ Copy \/ Digest \/ Encode \/ Execute
  BY <1>1, <1>2, <1>3, <1>4 DEF Plan, Copy, Digest, Encode, Execute
<1>5. CASE Usb \/ Confirm \/ Payload
  BY <1>1, <1>2, <1>3, <1>5 DEF Usb, Confirm, Payload
<1>6. CASE Flash
  BY <1>1, <1>2, <1>3, <1>6 DEF Flash
<1>7. CASE Manual \/ Place
  BY <1>1, <1>2, <1>3, <1>7 DEF Manual, Place
<1>8. CASE Compare
  BY <1>1, <1>2, <1>3, <1>8 DEF Compare
<1>9. CASE Tamper
  BY <1>1, <1>2, <1>3, <1>9 DEF Tamper
<1>10. CASE UNCHANGED vars
  BY <1>1, <1>2, <1>3, <1>10 DEF vars
<1> QED
  BY <1>4, <1>5, <1>6, <1>7, <1>8, <1>9, <1>10 DEF Next

\* A method names one profile: load_profiles refuses two for one board.
LEMMA OneProfile ==
  ASSUME DeliveryInv, NEW m \in Methods
  PROVE  (m \in Available <=> Resolve(m) # {}) /\ Cardinality(Resolve(m)) <= 1
<1>1. m \in Available <=> Resolve(m) # {}
  BY DEF Available, Resolve, Methods
<1>2. \A p, q \in Resolve(m) : p = q
  BY DEF DeliveryInv, PlanInv, Loaded, Resolve, OfBoard
<1>3. CASE Resolve(m) = {}
  BY <1>1, <1>3, FS_EmptySet
<1>4. CASE Resolve(m) # {}
  <2>1. PICK p : p \in Resolve(m)
    BY <1>4
  <2>2. Resolve(m) = {p}
    BY <1>2, <2>1
  <2>3. Cardinality({p}) = 1
    BY FS_Singleton
  <2>4. Cardinality(Resolve(m)) = 1
    BY <2>2, <2>3
  <2> QED
    BY <1>1, <2>4
<1> QED
  BY <1>3, <1>4

\* A board or a medium that was touched was touched under a plan that fits.
LEMMA TouchedFits ==
  ASSUME DeliveryInv
  PROVE  DeliveredFits
<1>1. CASE board # "earlier"
  BY <1>1 DEF DeliveryInv, TouchedInv, DeliveredFits, Resolve, OfBoard, Fits, Fallback, Eligible
<1>2. CASE board = "earlier" /\ medium # "earlier"
  BY <1>2 DEF DeliveryInv, TouchedInv, DeliveredFits, Resolve, OfBoard, Fits, Fallback
<1> QED
  BY <1>1, <1>2 DEF DeliveredFits

\* Whatever others do to the build and to the staged copy, the board and the
\* medium receive the approved build, under a profile of this board, processor
\* and flash start, and a delivery that is not made leaves nothing behind.
THEOREM DeliveredAsApprovedAlways == Spec => []DeliveredAsApproved
<1>1. Init => DeliveryInv
  BY DeliveryInit
<1>2. DeliveryInv /\ [Next]_vars => DeliveryInv'
  BY DeliveryTypeNext, PlanNext, TouchedNext DEF DeliveryInv
<1>3. DeliveryInv => DeliveredAsApproved
  BY OneProfile, TouchedFits DEF DeliveryInv, DeliveredAsApproved, MenuIsPlannable
<1> QED
  BY <1>1, <1>2, <1>3, PTL DEF Spec

-----------------------------------------------------------------------------
(* TargetContract: what a contract requests of Kconfig.                    *)

\* The seed and the .config that are compared, and how far they were checked.
ContractInv ==
    /\ contractPc \in {"load", "validate", "configure", "compare", "accepted", "rejected"}
    /\ contract.transport # {} /\ contract.transport \subseteq Target!Interfaces
    /\ contract.bootloader \subseteq Target!Starts
    /\ contractPc \in {"validate", "configure", "compare", "accepted"} =>
           Target!Encoded(contract)
    /\ contractPc \in {"configure", "compare", "accepted"} => Target!Coherent(contract)
    /\ contractPc \in {"compare", "accepted"} =>
           config \in [machine : {model, otherModel}, interface : Target!Interfaces,
                       start : Target!Starts, low : BOOLEAN]
    /\ contractPc = "accepted" => Target!Confirmed(contract, config)

\* The first state satisfies the invariant.
LEMMA ContractInit ==
  ASSUME Target!Init
  PROVE  ContractInv
<1>1. contract.transport # {} /\ contract.transport \subseteq Target!Interfaces
  BY DEF Target!Init
<1>2. contract.bootloader \subseteq Target!Starts
  BY DEF Target!Init
<1> QED
  BY <1>1, <1>2 DEF Target!Init, ContractInv

\* Every step keeps it.
LEMMA ContractNext ==
  ASSUME ContractInv, [Target!Next]_(Target!vars)
  PROVE  ContractInv'
<1> USE DEF ContractInv
<1>1. CASE Target!Load
  BY <1>1 DEF Target!Load
<1>2. CASE Target!Validate
  BY <1>2 DEF Target!Validate
<1>3. CASE Target!Olddefconfig
  BY <1>3 DEF Target!Olddefconfig
<1>4. CASE Target!Compare
  BY <1>4 DEF Target!Compare
<1>5. CASE UNCHANGED Target!vars
  BY <1>5 DEF Target!vars
<1> QED
  BY <1>1, <1>2, <1>3, <1>4, <1>5 DEF Target!Next

\* What was confirmed is what was declared: the checks before the build and the
\* comparison after it leave Kconfig no other choice.
LEMMA ConfirmedIsDeclared ==
  ASSUME Target!SymbolAssumption, ContractInv
  PROVE  BuiltAsDeclared
<1> SUFFICES ASSUME contractPc = "accepted"
             PROVE  BuiltAsDeclared
  BY DEF BuiltAsDeclared, Target!BuiltAsDeclared
<1> DEFINE On == Target!On(config)
<1> USE DEF ContractInv, Target!SymbolAssumption
<1>1. /\ config.machine = model /\ config.interface \in Target!Interfaces
      /\ config.start \in Target!Starts /\ config.low \in BOOLEAN
  BY DEF Target!Confirmed
<1>2. contract.requested \subseteq On /\ (low \notin contract.requested => low \notin On)
  BY DEF Target!Confirmed
<1>3. On \cap Target!Interfaces = {config.interface}
  BY <1>1 DEF Target!On, Target!Machines
<1>4. On \cap Target!Starts = {config.start}
  BY <1>1 DEF Target!On, Target!Machines
<1>5. low \in On <=> config.low
  BY <1>1 DEF Target!On, Target!Machines
<1>6. /\ {arch, model} \cup contract.transport \cup contract.bootloader \subseteq contract.requested
      /\ (low \in contract.requested) = contract.lowLevel
  BY DEF Target!Encoded
<1>7. contract.transport = {config.interface}
  BY <1>2, <1>3, <1>6
<1>8. contract.bootloader \subseteq {config.start}
  BY <1>2, <1>4, <1>6
<1>9. config.low = contract.lowLevel
  BY <1>1, <1>2, <1>5, <1>6
<1>10. contract.requested \cap Target!Interfaces = {config.interface}
  BY <1>2, <1>3, <1>6, <1>7
<1>11. config.interface \in Target!Prefixed(contract.kind)
  BY <1>7 DEF Target!Coherent
<1> QED
  BY <1>1, <1>7, <1>8, <1>9, <1>10, <1>11 DEF BuiltAsDeclared, Target!BuiltAsDeclared

\* Firmware that passes the checks of boards/models.py and boards/kconfig.py is
\* for the declared processor, speaks over the one declared interface and
\* begins at the declared start, whatever a contract requests besides and
\* whatever Kconfig makes of it.
THEOREM BuiltAsDeclaredAlways == Target!SymbolAssumption => (Target!Spec => []BuiltAsDeclared)
<1> SUFFICES ASSUME Target!SymbolAssumption
             PROVE  Target!Spec => []BuiltAsDeclared
  OBVIOUS
<1>1. Target!Init => ContractInv
  BY ContractInit
<1>2. ContractInv /\ [Target!Next]_(Target!vars) => ContractInv'
  BY ContractNext
<1>3. ContractInv => BuiltAsDeclared
  BY ConfirmedIsDeclared
<1> QED
  BY <1>1, <1>2, <1>3, PTL DEF Target!Spec


-----------------------------------------------------------------------------
(* ContractBuild: one build and its proof.                                 *)

\* The flags of an attempt with LTO.
WithLto == [lto |-> TRUE]
\* The flags of an attempt without it.
WithoutLto == [lto |-> FALSE]
\* The positions at which the configuration is accepted.
Configured == {"toolchain", "compile", "clean", "retry", "verify", "evidence", "built"}
\* The positions at which the artifact of the last attempt is there.
Compiled == {"verify", "evidence", "built"}

\* The log and the objects are of the same attempts at every position: none
\* before the first, one flag afterwards, and the other one after the retry.
BuildInv ==
    /\ buildPc \in Configured \cup {"configure", "failed"}
    /\ attempts \in Nat
    /\ buildPc \in Configured =>
           /\ \A s \in DOMAIN Requested : resolved[s] = Requested[s]
           /\ \A s \in DOMAIN Asserted : resolved[s] = Asserted[s]
    /\ buildPc \in Configured \ {"toolchain"} => injected = TRUE
    /\ buildPc \in {"configure", "toolchain", "compile"} =>
           attempts = 0 /\ noLto = FALSE /\ objects = {} /\ log = {}
    /\ buildPc = "clean" => attempts = 1
    /\ buildPc = "retry" => attempts = 1 /\ noLto = TRUE /\ objects = {} /\ log = {}
    /\ buildPc \in Compiled =>
           /\ compiled = [objects |-> objects, marked |-> TRUE]
           /\ log = objects
           /\ \/ attempts = 1 /\ objects = {WithLto}
              \/ attempts = 2 /\ objects = {WithoutLto}
    /\ buildPc # "built" => buildProof = None

\* A proof that was written is about the artifact and the files beside it.
ProofInv ==
    buildProof # None =>
        /\ buildProof = [attempts |-> attempts, retry |-> attempts > 1,
                         effective |-> log, resolved |-> resolved]
        /\ evidence = {Compilation!Evidence[j] : j \in 1 .. 3}

BuildInvs == BuildInv /\ ProofInv

\* Every step keeps the log beside the objects.
LEMMA BuildNext ==
  ASSUME BuildInvs, [Compilation!Next]_(Compilation!vars)
  PROVE  BuildInvs'
<1> USE DEF BuildInvs, BuildInv, ProofInv, Configured, Compiled, WithLto, WithoutLto,
            Compilation!Goto, Compilation!inputs, Compilation!compiled, Compilation!output
<1>1. CASE Compilation!Configure
  BY <1>1 DEF Compilation!Configure, Compilation!Kept, Compilation!Confirmed
<1>2. CASE Compilation!Identify
  BY <1>2 DEF Compilation!Identify
<1>3. CASE Compilation!Compile
  <2>1. noLto = FALSE /\ attempts = 0 /\ objects = {} /\ log = {} /\ injected = TRUE
    BY <1>3 DEF Compilation!Compile
  <2>2. [lto |-> ~noLto] = WithLto
    BY <2>1
  <2>3. objects' = {WithLto} /\ log' = {WithLto} /\ attempts' = 1
    <3>1. /\ objects' = objects \cup {[lto |-> ~noLto]}
          /\ log' = log \cup {[lto |-> ~noLto]}
          /\ attempts' = attempts + 1
      BY <1>3, Zenon DEF Compilation!Compile, Compilation!Attempt
    <3> HIDE DEF WithLto
    <3> QED
      BY <2>1, <2>2, <3>1
  <2>4. buildPc' = "verify" => compiled' = [objects |-> objects', marked |-> TRUE]
    BY <1>3, <2>1 DEF Compilation!Compile, Compilation!Attempt
  <2>5. /\ buildPc = "compile" /\ buildPc' \in {"verify", "clean", "failed"}
        /\ UNCHANGED <<resolved, injected, noLto, evidence, buildProof>>
    BY <1>3 DEF Compilation!Compile, Compilation!Attempt
  <2> QED
    BY <2>1, <2>3, <2>4, <2>5
<1>4. CASE Compilation!Clean
  BY <1>4 DEF Compilation!Clean
<1>5. CASE Compilation!Retry
  <2>1. noLto = TRUE /\ attempts = 1 /\ objects = {} /\ log = {} /\ injected = TRUE
    BY <1>5 DEF Compilation!Retry
  <2>2. [lto |-> ~noLto] = WithoutLto
    BY <2>1
  <2>3. objects' = {WithoutLto} /\ log' = {WithoutLto} /\ attempts' = 2
    <3>1. /\ objects' = objects \cup {[lto |-> ~noLto]}
          /\ log' = log \cup {[lto |-> ~noLto]}
          /\ attempts' = attempts + 1
      BY <1>5, Zenon DEF Compilation!Retry, Compilation!Attempt
    <3> HIDE DEF WithoutLto
    <3> QED
      BY <2>1, <2>2, <3>1
  <2>4. buildPc' = "verify" => compiled' = [objects |-> objects', marked |-> TRUE]
    BY <1>5, <2>1 DEF Compilation!Retry, Compilation!Attempt
  <2>5. /\ buildPc = "retry" /\ buildPc' \in {"verify", "failed"}
        /\ UNCHANGED <<resolved, injected, noLto, evidence, buildProof>>
    BY <1>5 DEF Compilation!Retry, Compilation!Attempt
  <2> QED
    BY <2>1, <2>3, <2>4, <2>5
<1>6. CASE Compilation!Verify
  BY <1>6 DEF Compilation!Verify
<1>7. CASE \E i \in 1 .. 3 : Compilation!Write(i)
  BY <1>7 DEF Compilation!Write
<1>8. CASE Compilation!Prove
  BY <1>8 DEF Compilation!Prove
<1>9. CASE Compilation!Interrupt
  BY <1>9 DEF Compilation!Interrupt
<1>10. CASE UNCHANGED Compilation!vars
  BY <1>10 DEF Compilation!vars
<1> QED
  BY <1>1, <1>2, <1>3, <1>4, <1>5, <1>6, <1>7, <1>8, <1>9, <1>10
     DEF Compilation!Next, Compilation!Step

\* A build proof is never without the files it names, and it describes the
\* artifact beside it: the requested and the asserted values survived
\* olddefconfig, and the flags it calls effective are those of the objects,
\* also after the retry without LTO.
THEOREM ProofIsTrueAlways == Compilation!Spec => []ProofIsTrue
<1>1. Compilation!Init => BuildInvs
  BY DEF Compilation!Init, BuildInvs, BuildInv, ProofInv, Configured, Compiled
<1>2. BuildInvs /\ [Compilation!Next]_(Compilation!vars) => BuildInvs'
  BY BuildNext
<1>3. BuildInvs => ProofIsTrue
  <2> SUFFICES ASSUME BuildInvs, buildProof # None
               PROVE  ProofIsTrue
    BY DEF ProofIsTrue, Compilation!ProofDescribesArtifact, Compilation!ProofIsLast
  <2> USE DEF BuildInvs, BuildInv, ProofInv
  <2>1. /\ buildProof.resolved = resolved /\ buildProof.effective = log
        /\ buildProof.retry = (attempts > 1)
    OBVIOUS
  <2>2. buildPc = "built"
    OBVIOUS
  <2>3. compiled.objects = objects /\ compiled.marked = TRUE
    BY <2>2 DEF Compiled
  <2>4. buildProof.retry => WithLto \notin objects
    <3>1. WithLto.lto = TRUE /\ WithoutLto.lto = FALSE
      BY DEF WithLto, WithoutLto
    <3>2. attempts > 1 => objects = {WithoutLto}
      BY <2>2 DEF Compiled
    <3> QED
      BY <2>1, <3>1, <3>2
  <2> QED
    BY <2>1, <2>2, <2>3, <2>4 DEF ProofIsTrue, Compilation!ProofDescribesArtifact,
       Compilation!ProofIsLast, Configured, Compiled, WithLto
<1> QED
  BY <1>1, <1>2, <1>3, PTL DEF Compilation!Spec

-----------------------------------------------------------------------------
(* ContractEvidence: from the catalogue to the board and the promotion.    *)

\* The positions after the review.
Accepted == {"confirmed", "built", "artifact", "copy", "publish", "prepared", "bundle",
             "planned", "delivered"}
\* The positions at which there is a plan.
Bundled == {"bundle", "planned", "delivered"}
\* The positions before the review, and the ends without one.
Undecided == {"start", "legacy", "review", "declined", "failed"}

\* The catalogue that was read, however the files are edited afterwards.
CatalogInv ==
    /\ chainPc \in Undecided \cup Accepted
    /\ directory \subseteq Document
    /\ cache # None => cache \subseteq Document /\ Chain!Indexed(cache)
    /\ chainPc \notin {"start", "failed"} => cache # None
    /\ Chain!NoFallback

\* What was reviewed, built and planned is what the decision names.
LinkInv ==
    /\ chainPc \in Accepted => reviewed \in Chain!Selected
    /\ chainPc \in Accepted \ {"confirmed"} =>
           [contract |-> chainProof.contract, target |-> chainProof.target] \in Chain!Selected
    /\ chainPc \in Bundled =>
           chainPlan = [contract |-> chainProof.contract, target |-> chainProof.target,
                        sha |-> chainProof.sha,
                        name |-> Chain!FinalFilename(chainProof.target, chainProof.sha)]

\* The flash that a verified deployment or a request stands on.
Earned(contract_, target_, sha) ==
    \E f \in flashes : f.verified /\ f.contract = contract_ /\ f.target = target_
                       /\ f.bytes = sha

\* What was flashed was named after its bytes, and a verified deployment
\* stands on a verified flash.
ResultInv ==
    /\ \A f \in flashes : /\ f.contract \in Document /\ f.target \in f.contract.targets
                          /\ f.name = Chain!FinalFilename(f.target, f.bytes)
    /\ \A p \in proofs : p.state = "VERIFIED" =>
           Earned(p.plan.contract, p.plan.target, p.plan.sha)
    /\ \A r \in requests : Earned(r.contract, r.target, r.sha)

ChainInv == CatalogInv /\ LinkInv /\ ResultInv

\* What a set of contracts offers.
LEMMA OfferedPairs ==
  ASSUME NEW docs, NEW c
  PROVE  c \in Chain!Offered(docs) <=>
             \E d \in docs : \E t \in d.targets : c = [contract |-> d, target |-> t]
BY DEF Chain!Offered

\* Two names select one target: the catalogue refuses two contracts of one id,
\* and a contract two targets of one variant.
LEMMA OneSelected ==
  ASSUME Chain!DocumentAssumption, CatalogInv, cache # None,
         NEW c \in Chain!Selected, NEW d \in Chain!Selected
  PROVE  c = d
<1>1. /\ c \in Chain!Offered(Chain!Contract(decision.id)) /\ c.target.variant = decision.variant
      /\ d \in Chain!Offered(Chain!Contract(decision.id)) /\ d.target.variant = decision.variant
  BY DEF Chain!Selected
<1>2. PICK a \in Chain!Contract(decision.id) : \E s \in a.targets :
          c = [contract |-> a, target |-> s]
  BY <1>1, OfferedPairs
<1>3. PICK b \in Chain!Contract(decision.id) : \E t \in b.targets :
          d = [contract |-> b, target |-> t]
  BY <1>1, OfferedPairs
<1>4. a \in cache /\ b \in cache /\ a.id = b.id
  BY DEF Chain!Contract, Chain!Catalog
<1>5. a = b /\ a \in Document
  BY <1>4 DEF CatalogInv, Chain!Indexed
<1>6. PICK s \in a.targets : c = [contract |-> a, target |-> s]
  BY <1>2
<1>7. PICK t \in a.targets : d = [contract |-> a, target |-> t]
  BY <1>3, <1>5
<1>8. s.variant = t.variant
  BY <1>1, <1>6, <1>7
<1>9. s = t
  BY <1>5, <1>8 DEF Chain!DocumentAssumption
<1> QED
  BY <1>6, <1>7, <1>9

\* What is selected belongs to a contract of the catalogue.
LEMMA SelectedInDocument ==
  ASSUME CatalogInv, cache # None, NEW c \in Chain!Selected
  PROVE  c.contract \in Document /\ c.target \in c.contract.targets
<1>1. PICK a \in Chain!Contract(decision.id) : \E s \in a.targets :
          c = [contract |-> a, target |-> s]
  BY OfferedPairs DEF Chain!Selected
<1>2. a \in Document
  BY DEF Chain!Contract, Chain!Catalog, CatalogInv
<1> QED
  BY <1>1, <1>2

\* The names select the same as before while the catalogue is in memory.
LEMMA SelectedStays ==
  ASSUME cache # None, UNCHANGED <<cache, decision>>
  PROVE  Chain!Selected' = Chain!Selected
BY DEF Chain!Selected, Chain!Offered, Chain!Contract, Chain!Catalog

\* Only a board without a runtime contract is left to the legacy builder.
LEMMA ResolveCatalog ==
  ASSUME Chain!DocumentAssumption, CatalogInv, Chain!Resolve
  PROVE  CatalogInv'
<1> USE DEF CatalogInv, Undecided, Accepted, Chain!world, Chain!Goto, Chain!Blocked
<1>1. directory' = directory /\ Chain!Catalog \subseteq Document
  BY DEF Chain!Resolve, Chain!Catalog
<1>2. Chain!Catalog # None
  BY <1>1 DEF Chain!DocumentAssumption
<1>3. /\ chainPc' \in {"failed", "legacy", "review"}
      /\ \/ chainPc' = "failed" /\ cache' = cache
         \/ cache' = Chain!Catalog /\ Chain!Indexed(Chain!Catalog)
  BY DEF Chain!Resolve
<1>4. cache' # None => cache' \subseteq Document /\ Chain!Indexed(cache')
  BY <1>1, <1>3
<1>5. ASSUME chainPc' = "legacy"
      PROVE  Chain!NoFallback'
  <2>1. PICK alias \in Alias : /\ Chain!Candidates(alias) = {}
                               /\ decision' = Chain!Decision("legacy", alias, None)
    BY <1>5 DEF Chain!Resolve
  <2>2. decision'.alias = alias
    BY <2>1 DEF Chain!Decision
  <2>3. cache' = Chain!Catalog
    BY <1>3, <1>5
  <2>4. ASSUME NEW d \in Chain!Catalog, alias \in Chain!Names(d), NEW t \in d.targets
        PROVE  t.status \notin Chain!Authoritative
    <3> DEFINE c == [contract |-> d, target |-> t]
    <3>1. c \in Chain!Offered(Chain!Catalog)
      BY OfferedPairs
    <3>2. c.contract = d /\ c.target = t
      OBVIOUS
    <3> HIDE DEF c
    <3> QED
      BY <2>1, <2>4, <3>1, <3>2 DEF Chain!Candidates
  <2>5. \A d \in Chain!Catalog : decision'.alias \in Chain!Names(d) =>
            \A t \in d.targets : t.status \notin Chain!Authoritative
    BY <2>2, <2>4
  <2> QED
    BY <1>2, <1>3, <1>4, <2>3, <2>5 DEF Chain!NoFallback
<1>6. chainPc' # "legacy" => Chain!NoFallback'
  BY DEF Chain!NoFallback
<1>7. directory' \subseteq Document
  BY <1>1
<1> QED
  BY <1>2, <1>3, <1>4, <1>5, <1>6, <1>7

\* Every step keeps the catalogue that was read.
LEMMA CatalogNext ==
  ASSUME Chain!DocumentAssumption, CatalogInv, [Chain!Next]_(Chain!vars)
  PROVE  CatalogInv'
<1> USE DEF CatalogInv, Undecided, Accepted, Chain!NoFallback, Chain!world, Chain!chosen,
            Chain!files, Chain!evidence, Chain!results, Chain!Goto, Chain!Blocked
<1>1. CASE Chain!Resolve
  BY <1>1, ResolveCatalog
<1>2. CASE Chain!Review \/ Chain!Build \/ Chain!FromProof \/ Chain!Apply
  BY <1>2 DEF Chain!Review, Chain!Build, Chain!FromProof, Chain!Apply
<1>3. CASE Chain!Copy \/ Chain!Publish \/ Chain!Plan \/ Chain!Bundle
  BY <1>3 DEF Chain!Copy, Chain!Publish, Chain!Plan, Chain!Bundle
<1>4. CASE Chain!Deliver \/ Chain!Promote
  BY <1>4 DEF Chain!Deliver, Chain!Promote
<1>5. CASE Chain!Again \/ Chain!Restart
  BY <1>5 DEF Chain!Again, Chain!Restart, Chain!Forget
<1>6. CASE Chain!Edit
  BY <1>6 DEF Chain!Edit
<1>7. CASE Chain!Overwrite
  BY <1>7 DEF Chain!Overwrite
<1>8. CASE UNCHANGED Chain!vars
  BY <1>8 DEF Chain!vars
<1> QED
  BY <1>1, <1>2, <1>3, <1>4, <1>5, <1>6, <1>7, <1>8 DEF Chain!Next

\* Every step keeps the links between what was reviewed, built and planned.
LEMMA LinkNext ==
  ASSUME ChainInv, [Chain!Next]_(Chain!vars)
  PROVE  LinkInv'
<1> USE DEF ChainInv, LinkInv, Accepted, Bundled, Chain!world, Chain!chosen, Chain!files,
            Chain!evidence, Chain!results, Chain!Goto, Chain!Blocked
<1>0. chainPc \in Accepted \cup {"review"} => cache # None
  BY DEF CatalogInv
<1>1. chainPc \in Accepted \cup {"review"} /\ UNCHANGED <<cache, decision>> =>
          Chain!Selected' = Chain!Selected
  BY <1>0, SelectedStays
<1>2. CASE Chain!Resolve
  BY <1>2 DEF Chain!Resolve
<1>3. CASE Chain!Review
  BY <1>1, <1>3 DEF Chain!Review
<1>4. CASE Chain!Build
  <2>1. CASE chainPc' = "failed"
    BY <2>1
  <2>2. CASE chainPc' # "failed"
    <3>1. PICK c \in Chain!Selected :
              /\ chainProof' = [contract |-> c.contract, target |-> c.target,
                                sha |-> builds + 1]
              /\ chainPc' = "built"
      BY <1>4, <2>2 DEF Chain!Build
    <3>2. chainPc = "confirmed" /\ UNCHANGED <<cache, decision, reviewed>>
      BY <1>4 DEF Chain!Build
    <3>3. c = [contract |-> c.contract, target |-> c.target]
      BY OfferedPairs DEF Chain!Selected
    <3>4. [contract |-> chainProof'.contract, target |-> chainProof'.target]
              \in Chain!Selected
      BY <3>1, <3>3
    <3> QED
      BY <1>1, <3>1, <3>2, <3>4
  <2> QED
    BY <2>1, <2>2
<1>5. CASE Chain!FromProof \/ Chain!Apply \/ Chain!Copy \/ Chain!Publish
  BY <1>1, <1>5 DEF Chain!FromProof, Chain!Apply, Chain!Copy, Chain!Publish
<1>6. CASE Chain!Plan
  <2>1. /\ chainPc = "prepared" /\ UNCHANGED <<cache, decision, reviewed, chainProof>>
        /\ chainPc' \in {"failed", "bundle"}
    BY <1>6 DEF Chain!Plan
  <2>2. chainPc' = "bundle" =>
            chainPlan' = [contract |-> chainProof.contract, target |-> chainProof.target,
                          sha |-> chainProof.sha,
                          name |-> Chain!FinalFilename(chainProof.target, chainProof.sha)]
    BY <1>6 DEF Chain!Plan
  <2> QED
    BY <1>1, <2>1, <2>2
<1>7. CASE Chain!Bundle \/ Chain!Deliver \/ Chain!Promote
  BY <1>1, <1>7 DEF Chain!Bundle, Chain!Deliver, Chain!Promote
<1>8. CASE Chain!Again \/ Chain!Restart
  BY <1>8 DEF Chain!Again, Chain!Restart, Chain!Forget
<1>9. CASE Chain!Edit \/ Chain!Overwrite
  BY <1>1, <1>9 DEF Chain!Edit, Chain!Overwrite
<1>10. CASE UNCHANGED Chain!vars
  BY <1>1, <1>10 DEF Chain!vars
<1> QED
  BY <1>2, <1>3, <1>4, <1>5, <1>6, <1>7, <1>8, <1>9, <1>10 DEF Chain!Next

\* What Deliver adds to the flashes and to the deployments.
LEMMA DeliverAdds ==
  ASSUME ChainInv, Chain!Deliver, flashes' # flashes
  PROVE  /\ chainPc = "planned" /\ prepared = chainPlan.sha
         /\ \E state \in {"VERIFIED", "MCU_REENUMERATED", "FAILED"} :
                /\ flashes' = flashes \cup
                        {[contract |-> chainPlan.contract, target |-> chainPlan.target,
                          bytes |-> prepared, name |-> chainPlan.name,
                          verified |-> state = "VERIFIED"]}
                /\ proofs' = proofs \cup {[plan |-> chainPlan, state |-> state]}
BY DEF Chain!Deliver

\* Every step keeps what the flashes, the deployments and the requests stand on.
LEMMA ResultNext ==
  ASSUME ChainInv, [Chain!Next]_(Chain!vars)
  PROVE  ResultInv'
<1> USE DEF ChainInv, ResultInv, Earned, Chain!world, Chain!chosen, Chain!files,
            Chain!evidence, Chain!results, Chain!Goto, Chain!Blocked
<1>1. CASE UNCHANGED <<flashes, proofs, requests>>
  BY <1>1 DEF Chain!FinalFilename
<1>2. CASE Chain!Deliver /\ flashes' # flashes
  <2>1. PICK state \in {"VERIFIED", "MCU_REENUMERATED", "FAILED"} :
            /\ flashes' = flashes \cup
                    {[contract |-> chainPlan.contract, target |-> chainPlan.target,
                      bytes |-> prepared, name |-> chainPlan.name,
                      verified |-> state = "VERIFIED"]}
            /\ proofs' = proofs \cup {[plan |-> chainPlan, state |-> state]}
    BY <1>2, DeliverAdds
  <2> DEFINE new == [contract |-> chainPlan.contract, target |-> chainPlan.target,
                     bytes |-> prepared, name |-> chainPlan.name,
                     verified |-> state = "VERIFIED"]
             proved == [plan |-> chainPlan, state |-> state]
  <2>2. /\ new.contract = chainPlan.contract /\ new.target = chainPlan.target
        /\ new.bytes = prepared /\ new.name = chainPlan.name
        /\ new.verified = (state = "VERIFIED")
        /\ proved.plan = chainPlan /\ proved.state = state
    OBVIOUS
  <2>3. flashes' = flashes \cup {new} /\ proofs' = proofs \cup {proved}
    BY <2>1
  <2> HIDE DEF new, proved
  <2>4. chainPc = "planned" /\ prepared = chainPlan.sha
    BY <1>2, DeliverAdds
  <2>5. chainPlan = [contract |-> chainProof.contract, target |-> chainProof.target,
                     sha |-> chainProof.sha,
                     name |-> Chain!FinalFilename(chainProof.target, chainProof.sha)]
    BY <2>4 DEF LinkInv, Bundled
  <2>6. chainPlan.name = Chain!FinalFilename(chainPlan.target, prepared)
    BY <2>4, <2>5
  <2>7. chainPlan.contract \in Document /\ chainPlan.target \in chainPlan.contract.targets
    <3> DEFINE c == [contract |-> chainProof.contract, target |-> chainProof.target]
    <3>1. c \in Chain!Selected /\ cache # None
      BY <2>4 DEF LinkInv, Accepted, CatalogInv
    <3>2. c.contract \in Document /\ c.target \in c.contract.targets
      BY <3>1, SelectedInDocument
    <3> QED
      BY <2>5, <3>2
  <2>8. requests' = requests
    BY <1>2 DEF Chain!Deliver
  <2>9. \A f \in flashes' : /\ f.contract \in Document /\ f.target \in f.contract.targets
                            /\ f.name = Chain!FinalFilename(f.target, f.bytes)
    BY <2>2, <2>3, <2>6, <2>7
  <2>10. \A p \in proofs' : p.state = "VERIFIED" =>
             Earned(p.plan.contract, p.plan.target, p.plan.sha)'
    BY <2>2, <2>3, <2>4
  <2>11. \A r \in requests' : Earned(r.contract, r.target, r.sha)'
    BY <2>3, <2>8
  <2> QED
    BY <2>9, <2>10, <2>11 DEF Chain!FinalFilename
<1>3. CASE Chain!Promote
  <2>1. PICK p \in proofs : p.state = "VERIFIED" /\ requests' = requests \cup {p.plan}
    BY <1>3 DEF Chain!Promote
  <2>2. UNCHANGED <<flashes, proofs>>
    BY <1>3 DEF Chain!Promote
  <2>3. \A r \in requests' : Earned(r.contract, r.target, r.sha)
    BY <2>1
  <2> QED
    BY <2>2, <2>3 DEF Chain!FinalFilename
<1>4. CASE Chain!Restart
  BY <1>4 DEF Chain!Restart, Chain!Forget, Chain!FinalFilename
<1>5. CASE Chain!Deliver /\ flashes' = flashes
  <2>1. \A p \in proofs' : p.state = "VERIFIED" =>
            Earned(p.plan.contract, p.plan.target, p.plan.sha)
    <3>1. CASE UNCHANGED proofs
      BY <3>1
    <3>2. CASE proofs' # proofs
      <4>1. PICK state \in {"VERIFIED", "MCU_REENUMERATED", "FAILED"} :
                /\ flashes' = flashes \cup
                        {[contract |-> chainPlan.contract, target |-> chainPlan.target,
                          bytes |-> prepared, name |-> chainPlan.name,
                          verified |-> state = "VERIFIED"]}
                /\ proofs' = proofs \cup {[plan |-> chainPlan, state |-> state]}
                /\ prepared = chainPlan.sha
        BY <1>5, <3>2 DEF Chain!Deliver
      <4> DEFINE new == [contract |-> chainPlan.contract, target |-> chainPlan.target,
                         bytes |-> prepared, name |-> chainPlan.name,
                         verified |-> state = "VERIFIED"]
                 proved == [plan |-> chainPlan, state |-> state]
      <4>2. /\ new.contract = chainPlan.contract /\ new.target = chainPlan.target
            /\ new.bytes = prepared /\ new.verified = (state = "VERIFIED")
            /\ proved.plan = chainPlan /\ proved.state = state
        OBVIOUS
      <4>3. new \in flashes /\ proofs' = proofs \cup {proved}
        BY <1>5, <4>1
      <4> HIDE DEF new, proved
      <4> QED
        BY <4>1, <4>2, <4>3
    <3> QED
      BY <3>1, <3>2
  <2>2. UNCHANGED <<flashes, requests>>
    BY <1>5 DEF Chain!Deliver
  <2> QED
    BY <2>1, <2>2 DEF Chain!FinalFilename
<1>6. \/ Chain!Deliver \/ Chain!Promote \/ Chain!Restart
      \/ UNCHANGED <<flashes, proofs, requests>>
  BY DEF Chain!Next, Chain!vars, Chain!Resolve, Chain!Review, Chain!Build, Chain!FromProof,
     Chain!Apply, Chain!Copy, Chain!Publish, Chain!Plan, Chain!Bundle, Chain!Again,
     Chain!Forget, Chain!Edit, Chain!Overwrite
<1> QED
  BY <1>1, <1>2, <1>3, <1>4, <1>5, <1>6

\* The invariant of the chain of evidence holds of every behaviour.
LEMMA ChainInvariant == Chain!DocumentAssumption => (Chain!Spec => []ChainInv)
<1> SUFFICES ASSUME Chain!DocumentAssumption
             PROVE  Chain!Spec => []ChainInv
  OBVIOUS
<1>1. Chain!Init => ChainInv
  BY DEF Chain!Init, ChainInv, CatalogInv, LinkInv, ResultInv, Undecided, Accepted,
     Bundled, Chain!NoFallback
<1>2. ChainInv /\ [Chain!Next]_(Chain!vars) => ChainInv'
  BY CatalogNext, LinkNext, ResultNext DEF ChainInv
<1> QED
  BY <1>1, <1>2, PTL DEF Chain!Spec

\* A board that a contract supports is never left to the legacy builder, a
\* broken catalogue included; what is planned is what the operator reviewed,
\* however the contracts are edited meanwhile; two images for a bootloader that
\* ignores a known name have two names; and a request for promotion stands on
\* a verified delivery of those bytes to that target.
THEOREM ContractIsFollowedAlways ==
  Chain!DocumentAssumption /\ Chain!NamingAssumption =>
      (Chain!Spec => []ContractIsFollowed)
<1> SUFFICES ASSUME Chain!DocumentAssumption, Chain!NamingAssumption
             PROVE  Chain!Spec => []ContractIsFollowed
  OBVIOUS
<1>1. ChainInv => ContractIsFollowed
  <2> SUFFICES ASSUME ChainInv
               PROVE  ContractIsFollowed
    OBVIOUS
  <2>1. Chain!ReviewedIsDelivered
    <3> SUFFICES ASSUME chainPc = "planned"
                 PROVE  chainPlan.contract = reviewed.contract
                        /\ chainPlan.target = reviewed.target
      BY DEF Chain!ReviewedIsDelivered
    <3> DEFINE c == [contract |-> chainProof.contract, target |-> chainProof.target]
    <3>1. reviewed \in Chain!Selected /\ c \in Chain!Selected /\ cache # None
      BY DEF ChainInv, CatalogInv, LinkInv, Accepted
    <3>2. reviewed = c
      BY <3>1, OneSelected DEF ChainInv
    <3>3. chainPlan.contract = chainProof.contract /\ chainPlan.target = chainProof.target
      BY DEF ChainInv, LinkInv, Bundled
    <3> QED
      BY <3>2, <3>3
  <2>2. Chain!NewNameEveryBuild
    BY DEF ChainInv, ResultInv, Chain!NewNameEveryBuild, Chain!FinalFilename,
       Chain!NamingAssumption
  <2>3. Chain!PromotionIsEarned
    BY DEF ChainInv, ResultInv, Earned, Chain!PromotionIsEarned
  <2> QED
    BY <2>1, <2>2, <2>3 DEF ChainInv, CatalogInv, ContractIsFollowed
<1> QED
  BY <1>1, ChainInvariant, PTL

\* A step that flashes writes the bytes and follows the contract of the proof:
\* a file that others changed between two checks never reaches the board.
THEOREM DeliveredIsBuiltAlways ==
  Chain!DocumentAssumption => (Chain!Spec => DeliveredIsBuilt)
<1> SUFFICES ASSUME Chain!DocumentAssumption
             PROVE  Chain!Spec => DeliveredIsBuilt
  OBVIOUS
<1>1. ASSUME ChainInv, [Chain!Next]_(Chain!vars)
      PROVE  [\A f \in flashes' \ flashes :
                  f.bytes = chainProof.sha /\ f.contract = chainProof.contract]_(Chain!vars)
  <2>1. flashes' = flashes \/ Chain!Deliver
    BY <1>1 DEF Chain!Next, Chain!vars, Chain!results, Chain!Resolve, Chain!Review,
       Chain!Build, Chain!FromProof, Chain!Apply, Chain!Copy, Chain!Publish, Chain!Plan,
       Chain!Bundle, Chain!Promote, Chain!Again, Chain!Restart, Chain!Forget, Chain!Edit,
       Chain!Overwrite
  <2>2. CASE flashes' = flashes
    BY <2>2
  <2>3. CASE Chain!Deliver /\ flashes' # flashes
    <3>1. \A f \in flashes' \ flashes : /\ f.bytes = chainPlan.sha
                                        /\ f.contract = chainPlan.contract
      BY <1>1, <2>3, DeliverAdds
    <3>2. chainPlan.sha = chainProof.sha /\ chainPlan.contract = chainProof.contract
      BY <1>1, <2>3, DeliverAdds DEF ChainInv, LinkInv, Bundled
    <3> QED
      BY <3>1, <3>2
  <2> QED
    BY <2>1, <2>2, <2>3
<1> QED
  BY <1>1, ChainInvariant, PTL DEF DeliveredIsBuilt, Chain!DeliveredIsBuilt, Chain!Spec

-----------------------------------------------------------------------------
(* DeploymentFrontEnd: one run of core/deployer.py.                        *)

\* The positions of the question for a Moonraker.
Asking == {"host", "key", "check", "fallback", "open"}
\* The positions of the transaction from the connection to the publication.
Checking == {"connect", "validate", "blockers", "sections", "pins", "review", "publish"}
\* The positions at which the destination has the configuration.
Published == {"activate", "verify", "firmware"}
\* The positions of an export.
Exporting == {"path", "export", "firmware"}

\* Where the run is, by which way, and what the destination has by then.
MenuInv ==
    /\ menuPc = "done" <=> outcome # Absent
    /\ ~exposed
    /\ held => menuPc = "read"
    /\ menuPc \notin Published \cup {"done"} => dest = Absent
    /\ menuPc # "done" => ~copied
    /\ menuPc \in Published => dest = bytes
    /\ menuPc \in Checking \cup Published => bytes \in Generation
    /\ menuPc \in Exporting => way \in {"local", "usb"}
    /\ menuPc \in Asking => way = "moonraker"
    /\ menuPc \in Checking \cup {"read", "activate", "verify"} => way \in {"ssh", "moonraker"}
    /\ menuPc = "verify" => active

\* As long as nobody generates, the file of the path is the one that was read,
\* and it is in the history of every check the run is past.
CheckedInv ==
    made = 0 =>
        /\ menuPc \in Checking \cup {"activate", "verify"} => printer = bytes
        /\ menuPc \in {"sections", "pins", "review", "publish", "activate", "verify"} =>
               bytes \in passed["blockers"]
        /\ menuPc \in {"pins", "review", "publish", "activate", "verify"} =>
               bytes \in passed["sections"]
        /\ Menu!UploadedIsChecked

MenuInvs == PublicationIsHonest /\ MenuInv /\ CheckedInv

\* The first state satisfies the invariant.
LEMMA MenuInit ==
  ASSUME Menu!FrontEndAssumption, Menu!Init
  PROVE  MenuInvs
<1> USE DEF Menu!FrontEndAssumption
<1>1. Menu!TypeOK
  <2>1. passed \in [Menu!Checks -> SUBSET Generation]
    BY DEF Menu!Init
  <2>2. made \in 0 .. MaxGenerations
    BY DEF Menu!Init
  <2>3. {copied, built, seen, active, key, exposed, held} \subseteq BOOLEAN
    BY DEF Menu!Init
  <2> QED
    BY <2>1, <2>2, <2>3 DEF Menu!Init, Menu!TypeOK
<1>2. MenuInv
  BY DEF Menu!Init, MenuInv, Asking, Checking, Published, Exporting
<1>3. CheckedInv
  BY DEF Menu!Init, CheckedInv, Checking, Menu!UploadedIsChecked
<1> QED
  BY <1>1, <1>2, <1>3 DEF Menu!Init, MenuInvs, CheckedInv, PublicationIsHonest,
     Menu!SuccessIsActive, Menu!RefusedIsUntouched, Menu!FirmwareHasConfiguration,
     Menu!SecretsAreDropped, Menu!Outcome

\* Every step keeps the types.
LEMMA MenuTypeNext ==
  ASSUME Menu!FrontEndAssumption, MenuInvs, [Menu!Next]_(Menu!vars)
  PROVE  Menu!TypeOK'
<1> USE DEF MenuInvs, PublicationIsHonest, Menu!Checks, Menu!Outcome, Menu!TypeOK,
            Menu!FrontEndAssumption, Menu!Goto, Menu!Return, Menu!Still, Menu!Untouched,
            Menu!runVars
<1>1. CASE Menu!Choose
  BY <1>1 DEF Menu!Choose
<1>2. CASE Menu!AskHost
  BY <1>2 DEF Menu!AskHost
<1>3. CASE Menu!AskKey
  BY <1>3 DEF Menu!AskKey
<1>4. CASE Menu!Check
  BY <1>4 DEF Menu!Check, Menu!Plain
<1>5. CASE Menu!Fallback
  BY <1>5 DEF Menu!Fallback
<1>6. CASE Menu!Open
  BY <1>6 DEF Menu!Open
<1>7. CASE Menu!Read
  BY <1>7 DEF Menu!Read
<1>8. CASE Menu!Connect
  BY <1>8 DEF Menu!Connect
<1>9. CASE Menu!Validate
  BY <1>9 DEF Menu!Validate
<1>10. CASE Menu!Blockers
  BY <1>10 DEF Menu!Blockers, Menu!Preflight
<1>11. CASE Menu!Sections
  BY <1>11 DEF Menu!Sections, Menu!Preflight
<1>12. CASE Menu!Pins
  BY <1>12 DEF Menu!Pins, Menu!Preflight
<1>13. CASE Menu!Review
  BY <1>13 DEF Menu!Review
<1>14. CASE Menu!Publish
  BY <1>14 DEF Menu!Publish
<1>15. CASE Menu!Activate
  <2>1. active' \in BOOLEAN
    BY <1>15 DEF Menu!Activate
  <2>2. /\ UNCHANGED <<world, way, scope, printer, bytes, dest, passed, copied, built, seen>>
        /\ UNCHANGED <<key, exposed, held, made>>
    BY <1>15 DEF Menu!Activate
  <2>3. menuPc' \in {"verify", "done"} /\ outcome' \in Menu!Outcome \cup {Absent}
    BY <1>15 DEF Menu!Activate
  <2> QED
    BY <2>1, <2>2, <2>3
<1>16. CASE Menu!Verify
  BY <1>16 DEF Menu!Verify
<1>17. CASE Menu!AskPath
  BY <1>17 DEF Menu!AskPath
<1>18. CASE Menu!Export
  BY <1>18 DEF Menu!Export
<1>19. CASE Menu!Firmware
  BY <1>19 DEF Menu!Firmware
<1>20. CASE Menu!Regenerate
  BY <1>20 DEF Menu!Regenerate
<1>21. CASE Menu!Flash
  BY <1>21 DEF Menu!Flash
<1>22. CASE UNCHANGED Menu!vars
  BY <1>22 DEF Menu!vars
<1> QED
  BY <1>1, <1>2, <1>3, <1>4, <1>5, <1>6, <1>7, <1>8, <1>9, <1>10, <1>11, <1>12, <1>13,
      <1>14, <1>15, <1>16, <1>17, <1>18, <1>19, <1>20, <1>21, <1>22 DEF Menu!Next,
      Menu!Run

\* Every step keeps the positions and what the destination has.
LEMMA MenuNext ==
  ASSUME Menu!FrontEndAssumption, MenuInvs, [Menu!Next]_(Menu!vars)
  PROVE  MenuInv'
<1> USE DEF MenuInvs, PublicationIsHonest, MenuInv, Asking, Checking, Published,
    Exporting, Menu!Outcome, Menu!TypeOK, Menu!FrontEndAssumption, Menu!Goto,
            Menu!Return, Menu!Still, Menu!Untouched, Menu!runVars
<1>1. CASE Menu!Choose
  BY <1>1 DEF Menu!Choose
<1>2. CASE Menu!AskHost
  BY <1>2 DEF Menu!AskHost
<1>3. CASE Menu!AskKey
  BY <1>3 DEF Menu!AskKey
<1>4. CASE Menu!Check
  BY <1>4 DEF Menu!Check, Menu!Plain
<1>5. CASE Menu!Fallback
  BY <1>5 DEF Menu!Fallback
<1>6. CASE Menu!Open
  BY <1>6 DEF Menu!Open
<1>7. CASE Menu!Read
  BY <1>7 DEF Menu!Read
<1>8. CASE Menu!Connect
  BY <1>8 DEF Menu!Connect
<1>9. CASE Menu!Validate
  BY <1>9 DEF Menu!Validate
<1>10. CASE Menu!Blockers
  BY <1>10 DEF Menu!Blockers, Menu!Preflight
<1>11. CASE Menu!Sections
  BY <1>11 DEF Menu!Sections, Menu!Preflight
<1>12. CASE Menu!Pins
  BY <1>12 DEF Menu!Pins, Menu!Preflight
<1>13. CASE Menu!Review
  BY <1>13 DEF Menu!Review
<1>14. CASE Menu!Publish
  BY <1>14 DEF Menu!Publish
<1>15. CASE Menu!Activate
  BY <1>15 DEF Menu!Activate
<1>16. CASE Menu!Verify
  BY <1>16 DEF Menu!Verify
<1>17. CASE Menu!AskPath
  BY <1>17 DEF Menu!AskPath
<1>18. CASE Menu!Export
  BY <1>18 DEF Menu!Export
<1>19. CASE Menu!Firmware
  BY <1>19 DEF Menu!Firmware
<1>20. CASE Menu!Regenerate
  BY <1>20 DEF Menu!Regenerate
<1>21. CASE Menu!Flash
  BY <1>21 DEF Menu!Flash
<1>22. CASE UNCHANGED Menu!vars
  BY <1>22 DEF Menu!vars
<1> QED
  BY <1>1, <1>2, <1>3, <1>4, <1>5, <1>6, <1>7, <1>8, <1>9, <1>10, <1>11, <1>12, <1>13,
      <1>14, <1>15, <1>16, <1>17, <1>18, <1>19, <1>20, <1>21, <1>22 DEF Menu!Next,
      Menu!Run

\* Every step keeps the history of the checks.
LEMMA CheckedNext ==
  ASSUME Menu!FrontEndAssumption, MenuInvs, [Menu!Next]_(Menu!vars)
  PROVE  CheckedInv'
<1> USE DEF MenuInvs, PublicationIsHonest, MenuInv, CheckedInv, Asking, Checking,
    Published, Exporting, Menu!UploadedIsChecked, Menu!Checks, Menu!Outcome,
            Menu!TypeOK, Menu!FrontEndAssumption, Menu!Goto, Menu!Return, Menu!Still,
            Menu!Untouched, Menu!runVars
<1>1. CASE Menu!Choose
  BY <1>1 DEF Menu!Choose
<1>2. CASE Menu!AskHost
  BY <1>2 DEF Menu!AskHost
<1>3. CASE Menu!AskKey
  BY <1>3 DEF Menu!AskKey
<1>4. CASE Menu!Check
  BY <1>4 DEF Menu!Check, Menu!Plain
<1>5. CASE Menu!Fallback
  BY <1>5 DEF Menu!Fallback
<1>6. CASE Menu!Open
  BY <1>6 DEF Menu!Open
<1>7. CASE Menu!Read
  BY <1>7 DEF Menu!Read
<1>8. CASE Menu!Connect
  BY <1>8 DEF Menu!Connect
<1>9. CASE Menu!Validate
  BY <1>9 DEF Menu!Validate
<1>10. CASE Menu!Blockers
  BY <1>10 DEF Menu!Blockers, Menu!Preflight
<1>11. CASE Menu!Sections
  BY <1>11 DEF Menu!Sections, Menu!Preflight
<1>12. CASE Menu!Pins
  BY <1>12 DEF Menu!Pins, Menu!Preflight
<1>13. CASE Menu!Review
  BY <1>13 DEF Menu!Review
<1>14. CASE Menu!Publish
  BY <1>14 DEF Menu!Publish
<1>15. CASE Menu!Activate
  BY <1>15 DEF Menu!Activate
<1>16. CASE Menu!Verify
  BY <1>16 DEF Menu!Verify
<1>17. CASE Menu!AskPath
  BY <1>17 DEF Menu!AskPath
<1>18. CASE Menu!Export
  BY <1>18 DEF Menu!Export
<1>19. CASE Menu!Firmware
  BY <1>19 DEF Menu!Firmware
<1>20. CASE Menu!Regenerate
  BY <1>20 DEF Menu!Regenerate
<1>21. CASE Menu!Flash
  BY <1>21 DEF Menu!Flash
<1>22. CASE UNCHANGED Menu!vars
  BY <1>22 DEF Menu!vars
<1> QED
  BY <1>1, <1>2, <1>3, <1>4, <1>5, <1>6, <1>7, <1>8, <1>9, <1>10, <1>11, <1>12, <1>13,
      <1>14, <1>15, <1>16, <1>17, <1>18, <1>19, <1>20, <1>21, <1>22 DEF Menu!Next,
      Menu!Run

\* Every step keeps what the run reports true.
LEMMA HonestNext ==
  ASSUME Menu!FrontEndAssumption, MenuInvs, [Menu!Next]_(Menu!vars)
  PROVE  (Menu!SuccessIsActive /\ Menu!RefusedIsUntouched /\ Menu!FirmwareHasConfiguration /\ Menu!SecretsAreDropped)'
<1> USE DEF MenuInvs, PublicationIsHonest, MenuInv, Asking, Checking, Published,
    Exporting, Menu!SuccessIsActive, Menu!RefusedIsUntouched,
            Menu!FirmwareHasConfiguration, Menu!SecretsAreDropped, Menu!Outcome, Menu!TypeOK,
            Menu!FrontEndAssumption, Menu!Goto, Menu!Return, Menu!Still, Menu!Untouched,
            Menu!runVars
<1>1. CASE Menu!Choose
  BY <1>1 DEF Menu!Choose
<1>2. CASE Menu!AskHost
  BY <1>2 DEF Menu!AskHost
<1>3. CASE Menu!AskKey
  BY <1>3 DEF Menu!AskKey
<1>4. CASE Menu!Check
  BY <1>4 DEF Menu!Check, Menu!Plain
<1>5. CASE Menu!Fallback
  BY <1>5 DEF Menu!Fallback
<1>6. CASE Menu!Open
  BY <1>6 DEF Menu!Open
<1>7. CASE Menu!Read
  BY <1>7 DEF Menu!Read
<1>8. CASE Menu!Connect
  BY <1>8 DEF Menu!Connect
<1>9. CASE Menu!Validate
  BY <1>9 DEF Menu!Validate
<1>10. CASE Menu!Blockers
  BY <1>10 DEF Menu!Blockers, Menu!Preflight
<1>11. CASE Menu!Sections
  BY <1>11 DEF Menu!Sections, Menu!Preflight
<1>12. CASE Menu!Pins
  BY <1>12 DEF Menu!Pins, Menu!Preflight
<1>13. CASE Menu!Review
  BY <1>13 DEF Menu!Review
<1>14. CASE Menu!Publish
  BY <1>14 DEF Menu!Publish
<1>15. CASE Menu!Activate
  BY <1>15 DEF Menu!Activate
<1>16. CASE Menu!Verify
  BY <1>16 DEF Menu!Verify
<1>17. CASE Menu!AskPath
  BY <1>17 DEF Menu!AskPath
<1>18. CASE Menu!Export
  BY <1>18 DEF Menu!Export
<1>19. CASE Menu!Firmware
  BY <1>19 DEF Menu!Firmware
<1>20. CASE Menu!Regenerate
  BY <1>20 DEF Menu!Regenerate
<1>21. CASE Menu!Flash
  BY <1>21 DEF Menu!Flash
<1>22. CASE UNCHANGED Menu!vars
  BY <1>22 DEF Menu!vars
<1> QED
  BY <1>1, <1>2, <1>3, <1>4, <1>5, <1>6, <1>7, <1>8, <1>9, <1>10, <1>11, <1>12, <1>13,
      <1>14, <1>15, <1>16, <1>17, <1>18, <1>19, <1>20, <1>21, <1>22 DEF Menu!Next,
      Menu!Run

\* Success means that the configuration that was read is at its destination and
\* loaded, with the board on the build of the checkpoint; a refusal published
\* nothing; no firmware leaves without its configuration; no secret outlives
\* the dialogue; and what is uploaded has been checked, unless another process
\* generates meanwhile.
THEOREM PublicationIsHonestAlways ==
  Menu!FrontEndAssumption => (Menu!Spec => []PublicationIsHonest)
<1> SUFFICES ASSUME Menu!FrontEndAssumption
             PROVE  Menu!Spec => []PublicationIsHonest
  OBVIOUS
<1>1. Menu!Init => MenuInvs
  BY MenuInit
<1>2. MenuInvs /\ [Menu!Next]_(Menu!vars) => MenuInvs'
  <2> SUFFICES ASSUME MenuInvs, [Menu!Next]_(Menu!vars)
               PROVE  MenuInvs'
    OBVIOUS
  <2>1. MenuInv' /\ CheckedInv' /\ Menu!TypeOK'
    BY MenuTypeNext, MenuNext, CheckedNext
  <2>2. (Menu!SuccessIsActive /\ Menu!RefusedIsUntouched
           /\ Menu!FirmwareHasConfiguration /\ Menu!SecretsAreDropped)'
    BY HonestNext
  <2> QED
    BY <2>1, <2>2 DEF MenuInvs, CheckedInv, PublicationIsHonest
<1>3. MenuInvs => PublicationIsHonest
  BY DEF MenuInvs
<1> QED
  BY <1>1, <1>2, <1>3, PTL DEF Menu!Spec

-----------------------------------------------------------------------------
(* FirmwareImages: what the decoders of UF2 and Intel HEX return.  First   *)
(* induction and recursion, stated for sets and functions, because a       *)
(* theorem that quantifies over operators could not be cited.              *)

\* A set of numbers with 0 and with every successor has all of them.
LEMMA SetInduction ==
    ASSUME NEW S \in SUBSET Nat, 0 \in S, \A n \in S : n + 1 \in S
    PROVE  S = Nat
<1> DEFINE R == OpToRel(<, Nat)
<1>1. SUFFICES ASSUME Nat \ S # {} PROVE FALSE
  OBVIOUS
<1>2. \A a, b \in Nat : a < b => <<a, b>> \in R
  BY DEF OpToRel
<1>3. IsWellFoundedOn(R, Nat)
  BY NatLessThanWellFounded
<1> HIDE DEF R
<1>4. PICK m \in Nat \ S : \A y \in Nat \ S : ~ (<<y, m>> \in R)
  BY <1>1, <1>3, WFMin
<1>5. m # 0 /\ m - 1 \in Nat /\ m - 1 < m
  OBVIOUS
<1>6. m - 1 \in S
  BY <1>2, <1>4, <1>5
<1>7. (m - 1) + 1 \in S
  BY <1>6
<1> QED
  BY <1>5, <1>7

\* f starts with first and goes on by F.
Follows(f, m, X, first, F) ==
    f \in [0..m -> X] /\ f[0] = first /\ \A k \in 1..m : f[k] = F[k][f[k - 1]]

\* A recursion over the first numbers has a solution.
LEMMA Recursion ==
    ASSUME NEW n \in Nat, NEW X, NEW first \in X, NEW F \in [1..n -> [X -> X]]
    PROVE  \E f : Follows(f, n, X, first, F)
<1> DEFINE Done(m) == m <= n => \E f : Follows(f, m, X, first, F)
           S == {m \in Nat : Done(m)}
<1>1. Done(0)
  <2>1. Follows([k \in 0..0 |-> first], 0, X, first, F)
    BY DEF Follows
  <2> QED
    BY <2>1
<1>2. ASSUME NEW m \in Nat, Done(m) PROVE Done(m + 1)
  <2>1. SUFFICES ASSUME m + 1 <= n PROVE \E f : Follows(f, m + 1, X, first, F)
    OBVIOUS
  <2>2. PICK g : Follows(g, m, X, first, F)
    BY <1>2, <2>1
  <2> DEFINE f == [k \in 0..(m + 1) |-> IF k = m + 1 THEN F[m + 1][g[m]] ELSE g[k]]
  <2>3. F[m + 1][g[m]] \in X
    BY <2>1, <2>2 DEF Follows
  <2>4. f \in [0..(m + 1) -> X] /\ f[0] = first
    BY <2>1, <2>2, <2>3 DEF Follows
  <2>5. ASSUME NEW k \in 1..(m + 1) PROVE f[k] = F[k][f[k - 1]]
    <3>1. CASE k = m + 1
      <4>1. f[k] = F[m + 1][g[m]] /\ f[k - 1] = g[m]
        BY <3>1
      <4> QED
        BY <3>1, <4>1
    <3>2. CASE k \in 1..m
      <4>1. f[k] = g[k] /\ f[k - 1] = g[k - 1]
        BY <3>2
      <4> HIDE DEF f
      <4> QED
        BY <2>2, <3>2, <4>1 DEF Follows
    <3> QED
      BY <3>1, <3>2
  <2> HIDE DEF f
  <2>6. Follows(f, m + 1, X, first, F)
    BY <2>4, <2>5 DEF Follows
  <2> QED
    BY <2>6
<1> HIDE DEF Done
<1>3. S \in SUBSET Nat /\ 0 \in S /\ \A m \in S : m + 1 \in S
  BY <1>1, <1>2
<1>4. \A m \in S : Done(m)
  OBVIOUS
<1> HIDE DEF S
<1>5. S = Nat
  BY <1>3, SetInduction
<1>6. Done(n)
  BY <1>4, <1>5
<1> QED
  BY <1>6 DEF Done

\* A largest and a smallest element are what Max and Min return.
LEMMA MaxIs ==
    ASSUME NEW S \in SUBSET Int, NEW m \in S, \A s \in S : s <= m
    PROVE  Image!Max(S) = m
<1>1. \A y \in S : m >= y
  OBVIOUS
<1>2. \A x \in S : (\A y \in S : x >= y) => x = m
  OBVIOUS
<1> QED
  BY <1>1, <1>2 DEF Image!Max

\* The same of the smallest.
LEMMA MinIs ==
    ASSUME NEW S \in SUBSET Int, NEW m \in S, \A s \in S : m <= s
    PROVE  Image!Min(S) = m
<1>1. \A y \in S : m <= y
  OBVIOUS
<1>2. \A x \in S : (\A y \in S : x <= y) => x = m
  OBVIOUS
<1> QED
  BY <1>1, <1>2 DEF Image!Min

\* The count of the modelled chunks is the cardinality of the theorems.
LEMMA CountIs == \A S : Image!Cardinality(S) = Cardinality(S)
BY DEF Image!Cardinality, Cardinality

-----------------------------------------------------------------------------
(* The base of a record.                                                   *)

\* The base after j records, as the programmer sees it.
Bases(j) == {l \in 1..j : items[l].kind = "base"}
\* That base: the address of the last such record, 0 without one.
Upper(j) == IF Bases(j) = {} THEN 0 ELSE items[Image!Max(Bases(j))].at

\* What the next record does to it.
LEMMA UpperStep ==
    ASSUME NEW j \in Nat
    PROVE  Upper(j + 1) = IF items[j + 1].kind = "base" THEN items[j + 1].at ELSE Upper(j)
<1>1. CASE items[j + 1].kind = "base"
  <2>1. /\ Bases(j + 1) \in SUBSET Int /\ j + 1 \in Bases(j + 1)
        /\ \A s \in Bases(j + 1) : s <= j + 1
    BY <1>1 DEF Bases
  <2>2. Image!Max(Bases(j + 1)) = j + 1
    BY <2>1, MaxIs
  <2> QED
    BY <1>1, <2>1, <2>2 DEF Upper
<1>2. CASE items[j + 1].kind # "base"
  <2>1. Bases(j + 1) = Bases(j)
    BY <1>2 DEF Bases
  <2> QED
    BY <1>2, <2>1 DEF Upper
<1> QED
  BY <1>1, <1>2

\* Nothing precedes the first record, and the base there is 0.
LEMMA UpperZero == Upper(0) = 0
BY DEF Upper, Bases

\* The recursion of BaseAt.
IsBase(f, n) ==
    f = [j \in 0..n |->
            IF j = 0 THEN 0 ELSE IF items[j].kind = "base" THEN items[j].at ELSE f[j - 1]]

\* So the base that the decoder's loop carries is the programmer's.
LEMMA BaseIsUpper ==
    ASSUME NEW i \in Nat \ {0}
    PROVE  Image!BaseAt(i) = Upper(i - 1)
<1> DEFINE n == i - 1
           g == [j \in 0..n |-> Upper(j)]
<1>1. n \in Nat
  OBVIOUS
<1> HIDE DEF n
<1>2. IsBase(g, n)
  <2>1. ASSUME NEW j \in 0..n
        PROVE  Upper(j) = IF j = 0 THEN 0
                          ELSE IF items[j].kind = "base" THEN items[j].at ELSE g[j - 1]
    <3>1. CASE j = 0
      BY <3>1, UpperZero
    <3>2. CASE j # 0
      <4>1. j - 1 \in Nat /\ j - 1 \in 0..n /\ (j - 1) + 1 = j
        BY <1>1, <3>2
      <4>2. g[j - 1] = Upper(j - 1)
        BY <4>1
      <4> HIDE DEF g
      <4> QED
        BY <3>2, <4>1, <4>2, UpperStep
    <3> QED
      BY <3>1, <3>2
  <2> QED
    BY <2>1 DEF IsBase
<1> HIDE DEF g
<1>3. PICK f : f = (CHOOSE h : IsBase(h, n)) /\ IsBase(f, n)
  BY <1>2
<1>4. Image!BaseAt(i) = f[n]
  BY <1>3 DEF Image!BaseAt, IsBase, n
<1>5. \A j \in 0..n : f[j] = Upper(j)
  <2> DEFINE Same(j) == j <= n => f[j] = Upper(j)
             S == {j \in Nat : Same(j)}
  <2>1. Same(0)
    BY <1>1, <1>3, UpperZero DEF IsBase
  <2>2. ASSUME NEW j \in Nat, Same(j) PROVE Same(j + 1)
    <3>1. SUFFICES ASSUME j + 1 <= n PROVE f[j + 1] = Upper(j + 1)
      OBVIOUS
    <3>2. f[j + 1] = IF items[j + 1].kind = "base" THEN items[j + 1].at ELSE f[j]
      <4>1. j + 1 \in 0..n /\ j + 1 # 0 /\ (j + 1) - 1 = j
        BY <1>1, <3>1
      <4> QED
        BY <1>3, <4>1 DEF IsBase
    <3> QED
      BY <1>1, <2>2, <3>1, <3>2, UpperStep
  <2> HIDE DEF Same
  <2>3. S \in SUBSET Nat /\ 0 \in S /\ \A j \in S : j + 1 \in S
    BY <2>1, <2>2
  <2>4. \A j \in S : Same(j)
    OBVIOUS
  <2> HIDE DEF S
  <2>5. S = Nat
    BY <2>3, SetInduction
  <2> QED
    BY <1>1, <2>4, <2>5 DEF Same
<1> QED
  BY <1>1, <1>4, <1>5 DEF n

-----------------------------------------------------------------------------
(* Sorting.                                                                *)

\* R orders D: any two elements, and transitively.
Orders(R, D) ==
    /\ \A x, y \in D : <<x, y>> \in R \/ <<y, x>> \in R
    /\ \A x, y, z \in D : <<x, y>> \in R /\ <<y, z>> \in R => <<x, z>> \in R

\* The element of D that no other follows in R.
Last(m, R, D) == m \in D /\ \A x \in D : <<x, m>> \in R

\* A finite set that R orders has a last element.
LEMMA LastExists ==
    ASSUME NEW D0, IsFiniteSet(D0), D0 # {}, NEW R, Orders(R, D0)
    PROVE  \E m : Last(m, R, D0)
<1> DEFINE Has1(n) == \A D \in SUBSET D0 : Cardinality(D) = n + 1 => \E m : Last(m, R, D)
           S == {n \in Nat : Has1(n)}
<1>0. \A D \in SUBSET D0 : IsFiniteSet(D) /\ Cardinality(D) \in Nat
  BY FS_Subset, FS_CardinalityType
<1>1. Has1(0)
  <2>1. SUFFICES ASSUME NEW D \in SUBSET D0, Cardinality(D) = 1 PROVE \E m : Last(m, R, D)
    OBVIOUS
  <2>2. PICK m : D = {m}
    BY <1>0, <2>1, FS_Singleton
  <2>3. m \in D0 /\ <<m, m>> \in R
    BY <2>2 DEF Orders
  <2> QED
    BY <2>2, <2>3 DEF Last
<1>2. ASSUME NEW n \in Nat, Has1(n) PROVE Has1(n + 1)
  <2>1. SUFFICES ASSUME NEW D \in SUBSET D0, Cardinality(D) = n + 1 + 1
                 PROVE  \E m : Last(m, R, D)
    OBVIOUS
  <2>2. D # {}
    BY <2>1, FS_EmptySet
  <2>3. PICK x : x \in D
    BY <2>2
  <2>4. Cardinality(D \ {x}) = n + 1 /\ D \ {x} \in SUBSET D0
    BY <1>0, <2>1, <2>3, FS_RemoveElement
  <2>5. PICK m : Last(m, R, D \ {x})
    BY <1>2, <2>4
  <2>6. m \in D0 /\ x \in D0 /\ m \in D /\ <<x, x>> \in R
    BY <2>1, <2>3, <2>5 DEF Last, Orders
  <2>7. CASE <<x, m>> \in R
    BY <2>5, <2>6, <2>7 DEF Last
  <2>8. CASE <<m, x>> \in R
    <3>1. \A y \in D : <<y, x>> \in R
      BY <2>1, <2>5, <2>6, <2>8 DEF Last, Orders
    <3> QED
      BY <2>3, <3>1 DEF Last
  <2> QED
    BY <2>6, <2>7, <2>8 DEF Orders
<1> HIDE DEF Has1
<1>3. S \in SUBSET Nat /\ 0 \in S /\ \A n \in S : n + 1 \in S
  BY <1>1, <1>2
<1>4. \A n \in S : Has1(n)
  OBVIOUS
<1> HIDE DEF S
<1>5. S = Nat
  BY <1>3, SetInduction
<1>6. Cardinality(D0) # 0 /\ Cardinality(D0) \in Nat
  BY <1>0, FS_EmptySet
<1>7. Cardinality(D0) - 1 \in Nat /\ Cardinality(D0) = (Cardinality(D0) - 1) + 1
  BY <1>6
<1> QED
  BY <1>4, <1>5, <1>7 DEF Has1

\* p enumerates D in the order R.
Arranges(p, n, R, D) ==
    p \in Image!Bijection(1..n, D) /\ \A j, k \in 1..n : j < k => <<p[j], p[k]>> \in R

\* A finite set can be sorted.
LEMMA SortExists ==
    ASSUME NEW D0, IsFiniteSet(D0), NEW R, Orders(R, D0)
    PROVE  \E p : Arranges(p, Cardinality(D0), R, D0)
<1> DEFINE Sorts(n) == \A D \in SUBSET D0 : Cardinality(D) = n => \E p : Arranges(p, n, R, D)
           S == {n \in Nat : Sorts(n)}
<1>0. \A D \in SUBSET D0 : IsFiniteSet(D) /\ Cardinality(D) \in Nat
  BY FS_Subset, FS_CardinalityType
<1>1. Sorts(0)
  <2>1. SUFFICES ASSUME NEW D \in SUBSET D0, Cardinality(D) = 0
                 PROVE  \E p : Arranges(p, 0, R, D)
    OBVIOUS
  <2>2. D = {}
    BY <1>0, <2>1, FS_EmptySet
  <2>3. Arranges([j \in 1..0 |-> 0], 0, R, D)
    BY <2>2 DEF Arranges, Image!Bijection, Image!Injection, Image!Surjection, Image!IsInjective
  <2> QED
    BY <2>3
<1>2. ASSUME NEW n \in Nat, Sorts(n) PROVE Sorts(n + 1)
  <2>1. SUFFICES ASSUME NEW D \in SUBSET D0, Cardinality(D) = n + 1
                 PROVE  \E p : Arranges(p, n + 1, R, D)
    OBVIOUS
  <2>2. D # {} /\ Orders(R, D)
    BY <2>1, FS_EmptySet DEF Orders
  <2>3. PICK m : Last(m, R, D)
    BY <1>0, <2>2, LastExists
  <2>4. Cardinality(D \ {m}) = n /\ D \ {m} \in SUBSET D0
    <3>1. m \in D /\ IsFiniteSet(D)
      BY <1>0, <2>3 DEF Last
    <3>2. Cardinality(D \ {m}) = Cardinality(D) - 1
      BY <3>1, FS_RemoveElement
    <3> QED
      BY <2>1, <3>2
  <2>5. PICK q : Arranges(q, n, R, D \ {m})
    BY <1>2, <2>4
  <2> DEFINE p == [j \in 1..(n + 1) |-> IF j = n + 1 THEN m ELSE q[j]]
  <2>6. q \in [1..n -> D \ {m}] /\ m \in D
    BY <2>3, <2>5 DEF Arranges, Image!Bijection, Image!Injection, Last
  <2>7. p \in [1..(n + 1) -> D] /\ p[n + 1] = m /\ \A j \in 1..n : p[j] = q[j]
    BY <2>6
  <2> HIDE DEF p
  <2>8. \A j, k \in 1..n : q[j] = q[k] => j = k
    BY <2>5, <2>6 DEF Arranges, Image!Bijection, Image!Injection, Image!IsInjective
  <2>9. \A d \in D \ {m} : \E j \in 1..n : q[j] = d
    BY <2>5 DEF Arranges, Image!Bijection, Image!Surjection
  <2>10. \A j, k \in 1..(n + 1) : p[j] = p[k] => j = k
    BY <2>6, <2>7, <2>8
  <2>11. \A d \in D : \E j \in 1..(n + 1) : p[j] = d
    BY <2>7, <2>9
  <2>12. p \in Image!Bijection(1..(n + 1), D)
    BY <2>7, <2>10, <2>11
       DEF Image!Bijection, Image!Injection, Image!Surjection, Image!IsInjective
  <2>13. ASSUME NEW j \in 1..(n + 1), NEW k \in 1..(n + 1), j < k
         PROVE  <<p[j], p[k]>> \in R
    <3>1. j \in 1..n
      BY <2>13
    <3>2. CASE k = n + 1
      BY <2>3, <2>6, <2>7, <3>1, <3>2 DEF Last
    <3>3. CASE k \in 1..n
      BY <2>5, <2>7, <2>13, <3>1, <3>3 DEF Arranges
    <3> QED
      BY <3>2, <3>3
  <2>14. Arranges(p, n + 1, R, D)
    BY <2>12, <2>13 DEF Arranges
  <2> QED
    BY <2>14
<1> HIDE DEF Sorts
<1>3. S \in SUBSET Nat /\ 0 \in S /\ \A n \in S : n + 1 \in S
  BY <1>1, <1>2
<1>4. \A n \in S : Sorts(n)
  OBVIOUS
<1> HIDE DEF S
<1>5. S = Nat
  BY <1>3, SetInduction
<1> QED
  BY <1>0, <1>4, <1>5 DEF Sorts

-----------------------------------------------------------------------------
(* Joining chunks, for any addresses a and any data d.                     *)

\* What images consist of.
Byte == {Start, End, Blank}
\* The value that the join's loop carries.
Laid == [bytes : Seq(Byte), end : Int, ok : BOOLEAN]

\* The bytes after one more chunk: gap zeros and the data.
Filled(s, gap, t) == s \o [x \in 1..gap |-> Blank] \o t

\* Its length, and its bytes in each of the three parts.
LEMMA FilledIs ==
    ASSUME NEW s \in Seq(Byte), NEW gap \in Int, NEW t \in Seq(Byte)
    PROVE  /\ Filled(s, gap, t) \in Seq(Byte)
           /\ gap >= 0 =>
                /\ Len(Filled(s, gap, t)) = Len(s) + gap + Len(t)
                /\ \A y \in 1..Len(s) : Filled(s, gap, t)[y] = s[y]
                /\ \A y \in 1..gap : Filled(s, gap, t)[Len(s) + y] = Blank
                /\ \A y \in 1..Len(t) : Filled(s, gap, t)[Len(s) + gap + y] = t[y]
<1> DEFINE g == [x \in 1..gap |-> Blank]
<1>1. g \in Seq(Byte) /\ (gap >= 0 => Len(g) = gap) /\ \A y \in 1..gap : g[y] = Blank
  <2>1. CASE gap >= 0
    BY <2>1 DEF Byte
  <2>2. CASE gap < 0
    <3>1. g = [x \in 1..0 |-> Blank]
      BY <2>2
    <3>2. [x \in 1..0 |-> Blank] \in Seq(Byte)
      BY DEF Byte
    <3> HIDE DEF g
    <3> QED
      BY <2>2, <3>1, <3>2
  <2> QED
    BY <2>1, <2>2
<1> HIDE DEF g
<1>2. Filled(s, gap, t) = (s \o g) \o t
  BY DEF Filled, g
<1>3. /\ s \o g \in Seq(Byte) /\ Len(s \o g) = Len(s) + Len(g)
      /\ \A y \in 1..Len(s) : (s \o g)[y] = s[y]
      /\ \A y \in 1..Len(g) : (s \o g)[Len(s) + y] = g[y]
  BY <1>1
<1> DEFINE h == s \o g
<1> HIDE DEF h
<1>4. /\ h \o t \in Seq(Byte) /\ Len(h \o t) = Len(h) + Len(t)
      /\ \A y \in 1..Len(h) : (h \o t)[y] = h[y]
      /\ \A y \in 1..Len(t) : (h \o t)[Len(h) + y] = t[y]
  BY <1>3 DEF h
<1>5. Filled(s, gap, t) = h \o t
  BY <1>2 DEF h
<1>6. SUFFICES ASSUME gap >= 0
               PROVE  /\ Len(h \o t) = Len(s) + gap + Len(t)
                      /\ \A y \in 1..Len(s) : (h \o t)[y] = s[y]
                      /\ \A y \in 1..gap : (h \o t)[Len(s) + y] = Blank
                      /\ \A y \in 1..Len(t) : (h \o t)[Len(s) + gap + y] = t[y]
  BY <1>4, <1>5
<1>7. Len(h) = Len(s) + gap /\ Len(s) \in Nat /\ Len(t) \in Nat
  <2>1. Len(g) = gap
    BY <1>1, <1>6
  <2>2. Len(h) = Len(s) + Len(g)
    BY <1>3 DEF h
  <2> QED
    BY <2>1, <2>2
<1>8. \A y \in 1..gap : h[Len(s) + y] = Blank
  BY <1>1, <1>3, <1>6 DEF h
<1>9. \A y \in 1..Len(s) : h[y] = s[y]
  BY <1>3 DEF h
<1>10. Len(h \o t) = Len(h) + Len(t)
  BY <1>4
<1>11. ASSUME NEW y \in 1..Len(s) PROVE (h \o t)[y] = s[y]
  <2>1. y \in 1..Len(h)
    BY <1>6, <1>7
  <2> QED
    BY <1>4, <1>9, <2>1
<1>12. ASSUME NEW y \in 1..gap PROVE (h \o t)[Len(s) + y] = Blank
  <2>1. Len(s) + y \in 1..Len(h)
    BY <1>6, <1>7
  <2> QED
    BY <1>4, <1>8, <2>1
<1>13. \A y \in 1..Len(t) : (h \o t)[Len(s) + gap + y] = t[y]
  BY <1>4, <1>7
<1>14. Len(h \o t) = Len(s) + gap + Len(t)
  BY <1>7, <1>10
<1> QED
  BY <1>11, <1>12, <1>13, <1>14

\* Addresses and data of n chunks.
Pieces(a, d, n) ==
    n \in Nat /\ \A j \in 1..n : a[j] \in Nat /\ d[j] \in Seq(Byte) /\ Len(d[j]) \in Nat

\* A chunk that starts at the end, or leaves a gap where that is allowed.
Joinable(b, at, gaps) == at = b.end \/ (gaps /\ at > b.end)

\* One more chunk.
More(b, at, t, gaps) ==
    [bytes |-> Filled(b.bytes, at - b.end, t), end |-> at + Len(t),
     ok |-> b.ok /\ Joinable(b, at, gaps)]

\* Address y, counted from the first, is one of chunk j's.
Covers(a, d, j, y) == a[j] - a[1] < y /\ y <= a[j] - a[1] + Len(d[j])

\* What the bytes are after k chunks that were not refused.
LaysOut(b, a, d, k, gaps) ==
    /\ b.end >= a[1] /\ Len(b.bytes) = b.end - a[1]
    /\ \A j \in 1..k : a[1] <= a[j] /\ a[j] + Len(d[j]) <= b.end
    /\ \A j, l \in 1..k : j < l => a[j] + Len(d[j]) <= a[l]
    /\ \A j \in 1..k : \A x \in 1..Len(d[j]) : b.bytes[a[j] - a[1] + x] = d[j][x]
    /\ \A y \in 1..Len(b.bytes) : (\E j \in 1..k : Covers(a, d, j, y)) \/ b.bytes[y] = Blank
    /\ ~gaps => \A y \in 1..Len(b.bytes) : \E j \in 1..k : Covers(a, d, j, y)
    /\ b.end = IF k = 0 THEN a[1] ELSE a[k] + Len(d[k])

\* A chunk that is not refused keeps what is laid out and adds its own bytes.
LEMMA OneMoreChunk ==
    ASSUME NEW n \in Nat, NEW a, NEW d, Pieces(a, d, n),
           NEW gaps \in BOOLEAN, NEW b \in Laid, NEW k \in Nat, k + 1 <= n,
           LaysOut(b, a, d, k, gaps), Joinable(b, a[k + 1], gaps)
    PROVE  LaysOut(More(b, a[k + 1], d[k + 1], gaps), a, d, k + 1, gaps)
<1> DEFINE c0 == More(b, a[k + 1], d[k + 1], gaps)
<1>a. PICK at : at = a[k + 1]
  OBVIOUS
<1>t. PICK t : t = d[k + 1]
  OBVIOUS
<1>e. PICK e : e = b.end
  OBVIOUS
<1>B. PICK B : B = b.bytes
  OBVIOUS
<1>f. PICK first : first = a[1]
  OBVIOUS
<1>g. PICK gap : gap = at - e
  OBVIOUS
<1>C. PICK C : C = Filled(B, gap, t)
  OBVIOUS
<1>c. PICK c : c = c0
  OBVIOUS
<1>0. t \in Seq(Byte) /\ B \in Seq(Byte)
  BY <1>t, <1>B DEF Laid, Pieces
<1>m. PICK m : m = Len(B)
  OBVIOUS
<1>s. PICK s : s = Len(t)
  OBVIOUS
<1>1. at \in Nat /\ first \in Nat /\ e \in Int /\ gap \in Int /\ s \in Nat /\ m \in Nat
  <2>1. e \in Int /\ m \in Nat
    BY <1>e, <1>B, <1>m DEF Laid
  <2>2. k + 1 \in 1..n /\ 1 \in 1..n
    OBVIOUS
  <2>3. at \in Nat /\ first \in Nat /\ s \in Nat
    BY <1>a, <1>f, <1>t, <1>s, <2>2 DEF Pieces
  <2> QED
    BY <1>g, <2>1, <2>3
<1>2. c.bytes = C /\ c.end = at + s /\ (at = e \/ (gaps /\ at > e))
  BY <1>a, <1>t, <1>e, <1>g, <1>s, <1>B, <1>C, <1>c DEF More, Joinable
<1>3. gap >= 0
  BY <1>1, <1>2, <1>g
<1> HIDE DEF c0
<1>4. /\ Len(C) = m + gap + s
      /\ \A y \in 1..m : C[y] = B[y]
      /\ \A y \in 1..gap : C[m + y] = Blank
      /\ \A y \in 1..s : C[m + gap + y] = t[y]
  <2>1. gap \in Int
    BY <1>1
  <2>2. /\ Len(Filled(B, gap, t)) = Len(B) + gap + Len(t)
        /\ \A y \in 1..Len(B) : Filled(B, gap, t)[y] = B[y]
        /\ \A y \in 1..gap : Filled(B, gap, t)[Len(B) + y] = Blank
        /\ \A y \in 1..Len(t) : Filled(B, gap, t)[Len(B) + gap + y] = t[y]
    BY <1>0, <1>3, <2>1, FilledIs
  <2> QED
    BY <1>m, <1>s, <1>C, <2>2
<1>5. Len(C) = m + gap + s
  BY <1>4
<1>6. /\ e >= first /\ m = e - first
      /\ \A j \in 1..k : first <= a[j] /\ a[j] + Len(d[j]) <= e
      /\ \A j, l \in 1..k : j < l => a[j] + Len(d[j]) <= a[l]
      /\ \A j \in 1..k : \A x \in 1..Len(d[j]) : B[a[j] - first + x] = d[j][x]
      /\ \A y \in 1..m : (\E j \in 1..k : Covers(a, d, j, y)) \/ B[y] = Blank
      /\ ~gaps => \A y \in 1..m : \E j \in 1..k : Covers(a, d, j, y)
  BY <1>B, <1>e, <1>f, <1>m DEF LaysOut
<1>7. e >= first /\ m = e - first /\ gap = at - e /\ m + gap = at - first
  <2>1. e >= first /\ m = e - first
    BY <1>6
  <2> QED
    BY <1>1, <2>1, <1>g
<1>8. c.end = at + s /\ c.bytes = C
  BY <1>2
<1>9. ASSUME NEW y \in 1..Len(C)
      PROVE  y \in 1..m \/ (\E x \in 1..gap : y = m + x) \/ (\E x \in 1..s : y = m + gap + x)
  <2>1. CASE y <= m
    BY <1>1, <2>1
  <2>2. CASE m < y /\ y <= m + gap
    <3>1. y - m \in 1..gap /\ y = m + (y - m)
      BY <1>1, <2>2
    <3> QED
      BY <3>1
  <2>3. CASE m + gap < y
    <3>1. y - (m + gap) \in 1..s /\ y = m + gap + (y - (m + gap))
      BY <1>1, <1>5, <2>3
    <3> QED
      BY <3>1
  <2> QED
    BY <1>1, <2>1, <2>2, <2>3
<1>10. c.end >= first /\ Len(c.bytes) = c.end - first
  BY <1>1, <1>3, <1>5, <1>7, <1>8
<1>11. ASSUME NEW j \in 1..(k + 1)
       PROVE  first <= a[j] /\ a[j] + Len(d[j]) <= c.end
  <2>1. CASE j = k + 1
    <3>1. a[j] = at /\ Len(d[j]) = s
      BY <2>1, <1>a, <1>t, <1>s
    <3> QED
      BY <1>1, <1>3, <1>7, <1>8, <3>1
  <2>2. CASE j \in 1..k
    <3>1. first <= a[j] /\ a[j] + Len(d[j]) <= e
      BY <1>6, <2>2
    <3>2. a[j] \in Nat /\ Len(d[j]) \in Nat
      <4>1. j \in 1..n
        OBVIOUS
      <4> QED
        BY <4>1 DEF Pieces
    <3>3. e <= at + s
      BY <1>1, <1>3, <1>7
    <3> QED
      BY <1>1, <1>8, <3>1, <3>2, <3>3
  <2> QED
    BY <2>1, <2>2
<1>12. ASSUME NEW j \in 1..(k + 1), NEW l \in 1..(k + 1), j < l
       PROVE  a[j] + Len(d[j]) <= a[l]
  <2>1. j \in 1..k
    BY <1>12
  <2>2. CASE l = k + 1
    <3>1. a[j] + Len(d[j]) <= e /\ a[l] = at
      BY <1>6, <2>1, <2>2, <1>a
    <3>2. a[j] \in Nat /\ Len(d[j]) \in Nat
      <4>1. j \in 1..n
        OBVIOUS
      <4> QED
        BY <4>1 DEF Pieces
    <3>3. e <= at
      BY <1>1, <1>3, <1>7
    <3> QED
      BY <1>1, <3>1, <3>2, <3>3
  <2>3. CASE l \in 1..k
    BY <1>6, <1>12, <2>1, <2>3
  <2> QED
    BY <2>2, <2>3
<1>13. ASSUME NEW j \in 1..(k + 1), NEW x \in 1..Len(d[j])
       PROVE  C[a[j] - first + x] = d[j][x]
  <2>1. CASE j = k + 1
    <3>1. a[j] = at /\ d[j] = t /\ x \in 1..s
      BY <2>1, <1>a, <1>t, <1>s
    <3>2. C[m + gap + x] = t[x]
      BY <1>4, <3>1
    <3> QED
      BY <1>7, <3>1, <3>2
  <2>2. CASE j \in 1..k
    <3>1. first <= a[j] /\ a[j] + Len(d[j]) <= e
      BY <1>6, <2>2
    <3>2. a[j] \in Nat /\ Len(d[j]) \in Nat
      <4>1. j \in 1..n
        OBVIOUS
      <4> QED
        BY <4>1 DEF Pieces
    <3>3. a[j] - first + x \in 1..m
      BY <1>1, <1>7, <3>1, <3>2
    <3>4. B[a[j] - first + x] = d[j][x]
      BY <1>6, <2>2
    <3> QED
      BY <1>4, <3>3, <3>4
  <2> QED
    BY <2>1, <2>2
<1>14. ASSUME NEW y \in 1..s PROVE Covers(a, d, k + 1, m + gap + y)
  <2>1. at - first < m + gap + y /\ m + gap + y <= at - first + s
    BY <1>1, <1>7
  <2> QED
    BY <2>1, <1>a, <1>f, <1>t, <1>s DEF Covers
<1>15. ASSUME NEW y \in 1..Len(C)
       PROVE  /\ (\E j \in 1..(k + 1) : Covers(a, d, j, y)) \/ C[y] = Blank
              /\ ~gaps => \E j \in 1..(k + 1) : Covers(a, d, j, y)
  <2>1. CASE y \in 1..m
    <3>1. /\ (\E j \in 1..k : Covers(a, d, j, y)) \/ B[y] = Blank
          /\ ~gaps => \E j \in 1..k : Covers(a, d, j, y)
      BY <1>6, <2>1
    <3>2. \A j \in 1..k : j \in 1..(k + 1)
      OBVIOUS
    <3>3. C[y] = B[y]
      BY <1>4, <2>1
    <3> QED
      BY <3>1, <3>2, <3>3
  <2>2. CASE \E x \in 1..gap : y = m + x
    <3>1. C[y] = Blank
      BY <1>4, <2>2
    <3>2. gaps
      BY <1>1, <1>2, <1>7, <2>2
    <3> QED
      BY <3>1, <3>2
  <2>3. CASE \E x \in 1..s : y = m + gap + x
    <3>1. k + 1 \in 1..(k + 1) /\ Covers(a, d, k + 1, y)
      BY <1>14, <2>3
    <3> QED
      BY <3>1
  <2> QED
    BY <1>9, <2>1, <2>2, <2>3
<1>16. c.end = IF k + 1 = 0 THEN a[1] ELSE a[k + 1] + Len(d[k + 1])
  BY <1>8, <1>a, <1>t, <1>s
<1> QED
  <2>1. LaysOut(c, a, d, k + 1, gaps)
    BY <1>8, <1>10, <1>11, <1>12, <1>13, <1>15, <1>16, <1>f DEF LaysOut
  <2> QED
    BY <2>1, <1>c DEF c0

\* One more chunk leaves bytes, an address and a verdict.
LEMMA MoreType ==
    ASSUME NEW b \in Laid, NEW at \in Nat, NEW t \in Seq(Byte), NEW gaps \in BOOLEAN
    PROVE  More(b, at, t, gaps) \in Laid
<1>1. b.bytes \in Seq(Byte) /\ b.end \in Int /\ b.ok \in BOOLEAN /\ at - b.end \in Int
  BY DEF Laid
<1>2. Filled(b.bytes, at - b.end, t) \in Seq(Byte)
  BY <1>1, FilledIs
<1>3. at + Len(t) \in Int
  OBVIOUS
<1>4. (b.ok /\ Joinable(b, at, gaps)) \in BOOLEAN
  OBVIOUS
<1> QED
  BY <1>2, <1>3, <1>4 DEF More, Laid

\* The values that the join passes through.
First(a) == [bytes |-> <<>>, end |-> a[1], ok |-> TRUE]
\* f has the values after 0 to n chunks.
Joins(f, a, d, n, gaps) ==
    f[0] = First(a) /\ \A k \in 1..n : f[k] = More(f[k - 1], a[k], d[k], gaps)

\* Unless it refused a chunk, the join has laid out all that it has seen.
LEMMA JoinLaysOut ==
    ASSUME NEW n \in Nat, n >= 1, NEW a, NEW d, Pieces(a, d, n), NEW gaps \in BOOLEAN,
           NEW f, Joins(f, a, d, n, gaps)
    PROVE  f[n] \in Laid /\ (f[n].ok => LaysOut(f[n], a, d, n, gaps))
<1> DEFINE Sound(k) == k <= n => f[k] \in Laid /\ (f[k].ok => LaysOut(f[k], a, d, k, gaps))
           S == {k \in Nat : Sound(k)}
<1>1. Sound(0)
  <2>1. a[1] \in Nat
    BY DEF Pieces
  <2>2. First(a) \in Laid
    BY <2>1 DEF First, Laid
  <2>3. LaysOut(First(a), a, d, 0, gaps)
    BY <2>1 DEF First, LaysOut
  <2> QED
    BY <2>2, <2>3 DEF Joins
<1>2. ASSUME NEW k \in Nat, Sound(k) PROVE Sound(k + 1)
  <2>1. SUFFICES ASSUME k + 1 <= n
                 PROVE  /\ f[k + 1] \in Laid
                        /\ f[k + 1].ok => LaysOut(f[k + 1], a, d, k + 1, gaps)
    OBVIOUS
  <2>2. k + 1 \in 1..n /\ (k + 1) - 1 = k
    BY <2>1
  <2>3. f[k + 1] = More(f[k], a[k + 1], d[k + 1], gaps)
    BY <2>2 DEF Joins
  <2>4. a[k + 1] \in Nat /\ d[k + 1] \in Seq(Byte)
    BY <2>2 DEF Pieces
  <2>5. f[k] \in Laid /\ (f[k].ok => LaysOut(f[k], a, d, k, gaps))
    BY <1>2, <2>1
  <2>6. f[k + 1] \in Laid
    BY <2>3, <2>4, <2>5, MoreType
  <2>7. ASSUME f[k + 1].ok PROVE LaysOut(f[k + 1], a, d, k + 1, gaps)
    <3>1. More(f[k], a[k + 1], d[k + 1], gaps).ok = (f[k].ok /\ Joinable(f[k], a[k + 1], gaps))
      BY DEF More
    <3>2. f[k].ok /\ Joinable(f[k], a[k + 1], gaps)
      BY <2>3, <2>7, <3>1
    <3> QED
      BY <2>1, <2>3, <2>5, <3>2, OneMoreChunk
  <2> QED
    BY <2>6, <2>7
<1> HIDE DEF Sound
<1>3. S \in SUBSET Nat /\ 0 \in S /\ \A k \in S : k + 1 \in S
  BY <1>1, <1>2
<1>4. \A k \in S : Sound(k)
  OBVIOUS
<1> HIDE DEF S
<1>5. S = Nat
  BY <1>3, SetInduction
<1> QED
  BY <1>4, <1>5 DEF Sound

\* Address y belongs to chunk j.
In(a, d, j, y) == a[j] <= y /\ y < a[j] + Len(d[j])
\* The addresses of all chunks.
Places(a, d, n) == {y \in Int : \E j \in 1..n : In(a, d, j, y)}

\* What is laid out, read by address.
LEMMA LaidOutIsRead ==
    ASSUME NEW n \in Nat, n >= 1, NEW a, NEW d, Pieces(a, d, n), NEW gaps \in BOOLEAN,
           NEW b \in Laid, LaysOut(b, a, d, n, gaps), Places(a, d, n) # {},
           gaps => \A j \in 1..n : Len(d[j]) > 0
    PROVE  /\ Image!Min(Places(a, d, n)) = a[1]
           /\ Len(b.bytes) = Image!Max(Places(a, d, n)) - a[1] + 1
           /\ Image!Max(Places(a, d, n)) \in Int /\ a[1] \in Int
           /\ \A y \in Places(a, d, n) :
                y \in Int /\ a[1] <= y /\ y <= Image!Max(Places(a, d, n))
           /\ \A j, l \in 1..n, y \in Int : In(a, d, j, y) /\ In(a, d, l, y) => j = l
           /\ \A y \in a[1]..Image!Max(Places(a, d, n)) :
                /\ \A j \in 1..n : In(a, d, j, y) => b.bytes[y - a[1] + 1] = d[j][y - a[j] + 1]
                /\ y \notin Places(a, d, n) => b.bytes[y - a[1] + 1] = Blank
<1>f. PICK first : first = a[1]
  OBVIOUS
<1>e. PICK e : e = b.end
  OBVIOUS
<1>B. PICK B : B = b.bytes
  OBVIOUS
<1>m. PICK m : m = Len(B)
  OBVIOUS
<1>W. PICK W : W = Places(a, d, n)
  OBVIOUS
<1>1. \A j \in 1..n : a[j] \in Nat /\ Len(d[j]) \in Nat
  BY DEF Pieces
<1>2. first \in Nat /\ e \in Int /\ m \in Nat
  <2>1. e \in Int /\ m \in Nat
    BY <1>e, <1>B, <1>m DEF Laid
  <2> QED
    BY <1>1, <1>f, <2>1
<1>3. e >= first /\ m = e - first
  BY <1>f, <1>e, <1>B, <1>m DEF LaysOut
<1>4. \A j \in 1..n : first <= a[j] /\ a[j] + Len(d[j]) <= e
  BY <1>f, <1>e DEF LaysOut
<1>5. \A j, l \in 1..n : j < l => a[j] + Len(d[j]) <= a[l]
  BY DEF LaysOut
<1>6. \A j \in 1..n : \A x \in 1..Len(d[j]) : B[a[j] - first + x] = d[j][x]
  BY <1>f, <1>B DEF LaysOut
<1>7. \A y \in 1..m : (\E j \in 1..n : Covers(a, d, j, y)) \/ B[y] = Blank
  BY <1>m, <1>B DEF LaysOut
<1>8. ~gaps => \A y \in 1..m : \E j \in 1..n : Covers(a, d, j, y)
  BY <1>m, <1>B DEF LaysOut
<1>9. e = a[n] + Len(d[n])
  BY <1>e DEF LaysOut
<1>10. ASSUME NEW j \in 1..n, NEW y \in Int, Covers(a, d, j, y - first + 1)
       PROVE  In(a, d, j, y)
  <2>1. a[j] - first < y - first + 1 /\ y - first + 1 <= a[j] - first + Len(d[j])
    BY <1>10, <1>f DEF Covers
  <2>2. a[j] \in Nat /\ Len(d[j]) \in Nat
    BY <1>1
  <2> QED
    BY <1>2, <2>1, <2>2 DEF In
<1>11. W \in SUBSET Int /\ W # {} /\ \A y \in Int : y \in W <=> \E j \in 1..n : In(a, d, j, y)
  BY <1>W DEF Places
<1>12. ASSUME NEW y \in W PROVE first <= y /\ y <= e - 1
  <2>1. PICK j \in 1..n : In(a, d, j, y)
    BY <1>11
  <2>2. a[j] \in Nat /\ Len(d[j]) \in Nat /\ first <= a[j] /\ a[j] + Len(d[j]) <= e
    BY <1>1, <1>4
  <2>3. y \in Int
    BY <1>11
  <2> QED
    BY <1>2, <2>1, <2>2, <2>3 DEF In
<1>13. m >= 1
  <2>1. PICK y \in W : TRUE
    BY <1>11
  <2>2. y \in Int /\ first <= y /\ y <= e - 1
    BY <1>11, <1>12
  <2> QED
    BY <1>2, <1>3, <2>2
<1>14. first \in W
  <2>1. CASE gaps
    <3>1. 1 \in 1..n /\ Len(d[1]) > 0 /\ Len(d[1]) \in Nat
      BY <1>1, <2>1
    <3>2. In(a, d, 1, first)
      BY <1>2, <1>f, <3>1 DEF In
    <3> QED
      BY <1>2, <1>11, <3>1, <3>2
  <2>2. CASE ~gaps
    <3>1. PICK j \in 1..n : Covers(a, d, j, 1)
      BY <1>2, <1>8, <1>13, <2>2
    <3>2. first - first + 1 = 1 /\ first \in Int
      BY <1>2
    <3>3. In(a, d, j, first)
      BY <1>10, <3>1, <3>2
    <3> QED
      BY <1>11, <3>2, <3>3
  <2> QED
    BY <2>1, <2>2
<1>15. e - 1 \in W
  <2>0. e - 1 \in Int
    BY <1>2
  <2>1. CASE gaps
    <3>1. n \in 1..n /\ Len(d[n]) > 0 /\ Len(d[n]) \in Nat /\ a[n] \in Nat
      BY <1>1, <2>1
    <3>2. In(a, d, n, e - 1)
      BY <1>2, <1>9, <3>1 DEF In
    <3> QED
      BY <1>11, <2>0, <3>1, <3>2
  <2>2. CASE ~gaps
    <3>1. PICK j \in 1..n : Covers(a, d, j, m)
      BY <1>2, <1>8, <1>13, <2>2
    <3>2. (e - 1) - first + 1 = m
      BY <1>2, <1>3
    <3>3. In(a, d, j, e - 1)
      BY <1>10, <2>0, <3>1, <3>2
    <3> QED
      BY <1>11, <2>0, <3>3
  <2> QED
    BY <2>1, <2>2
<1>16. Image!Min(W) = first /\ Image!Max(W) = e - 1
  BY <1>11, <1>12, <1>14, <1>15, MinIs, MaxIs
<1>17. ASSUME NEW j \in 1..n, NEW l \in 1..n, NEW y \in Int, In(a, d, j, y), In(a, d, l, y)
       PROVE  j = l
  <2>1. /\ a[j] \in Nat /\ Len(d[j]) \in Nat /\ a[l] \in Nat /\ Len(d[l]) \in Nat
        /\ a[j] <= y /\ y < a[j] + Len(d[j]) /\ a[l] <= y /\ y < a[l] + Len(d[l])
    BY <1>1, <1>17 DEF In
  <2>2. ~ (j < l)
    <3>1. SUFFICES ASSUME j < l PROVE FALSE
      OBVIOUS
    <3>2. a[j] + Len(d[j]) <= a[l]
      BY <1>5, <3>1
    <3> QED
      BY <2>1, <3>2
  <2>3. ~ (l < j)
    <3>1. SUFFICES ASSUME l < j PROVE FALSE
      OBVIOUS
    <3>2. a[l] + Len(d[l]) <= a[j]
      BY <1>5, <3>1
    <3> QED
      BY <2>1, <3>2
  <2> QED
    BY <2>2, <2>3
<1>18. ASSUME NEW y \in first..(e - 1)
       PROVE  /\ \A j \in 1..n : In(a, d, j, y) => B[y - first + 1] = d[j][y - a[j] + 1]
              /\ y \notin W => B[y - first + 1] = Blank
  <2>1. y \in Int /\ y - first + 1 \in 1..m
    BY <1>2, <1>3
  <2>2. ASSUME NEW j \in 1..n, In(a, d, j, y) PROVE B[y - first + 1] = d[j][y - a[j] + 1]
    <3>1. a[j] \in Nat /\ Len(d[j]) \in Nat /\ a[j] <= y /\ y < a[j] + Len(d[j])
      BY <1>1, <2>2 DEF In
    <3>2. y - a[j] + 1 \in 1..Len(d[j]) /\ a[j] - first + (y - a[j] + 1) = y - first + 1
      <4>1. PICK aj, lj : aj = a[j] /\ lj = Len(d[j])
        OBVIOUS
      <4>2. aj \in Nat /\ lj \in Nat /\ aj <= y /\ y < aj + lj
        BY <3>1, <4>1
      <4>3. y - aj + 1 \in 1..lj /\ aj - first + (y - aj + 1) = y - first + 1
        BY <1>2, <2>1, <4>2
      <4> QED
        BY <4>1, <4>3
    <3>3. B[a[j] - first + (y - a[j] + 1)] = d[j][y - a[j] + 1]
      BY <1>6, <3>2
    <3> QED
      BY <3>2, <3>3
  <2>3. ASSUME y \notin W PROVE B[y - first + 1] = Blank
    <3>1. \A j \in 1..n : ~ Covers(a, d, j, y - first + 1)
      BY <1>10, <1>11, <2>1, <2>3
    <3> QED
      BY <1>7, <2>1, <3>1
  <2> QED
    BY <2>2, <2>3
<1>19. m = (e - 1) - first + 1 /\ e - 1 \in Int /\ first \in Int
  BY <1>2, <1>3
<1>20. \A y \in W : y \in Int /\ first <= y /\ y <= e - 1
  BY <1>11, <1>12
<1> QED
  BY <1>16, <1>17, <1>18, <1>19, <1>20, <1>f, <1>B, <1>m, <1>W

-----------------------------------------------------------------------------
(* The items of a file.                                                    *)

\* The data of an item is bytes.
LEMMA DatumIsBytes == \A x \in Image!Datum : x \in Seq(Byte) /\ Len(x) \in Nat /\ Len(x) > 0
<1>0. Start \in Byte /\ End \in Byte
  BY DEF Byte
<1>1. ASSUME NEW u \in Byte PROVE <<u>> \in Seq(Byte) /\ Len(<<u>>) = 1
  OBVIOUS
<1>2. ASSUME NEW u \in Byte, NEW v \in Byte PROVE <<u, v>> \in Seq(Byte) /\ Len(<<u, v>>) = 2
  OBVIOUS
<1>3. TAKE x \in Image!Datum
<1>4. (x = <<Start>> \/ x = <<End>>) \/ (x = <<Start, End>> \/ x = <<End, Start>>)
  BY DEF Image!Datum
<1>5. x \in Seq(Byte) /\ Len(x) \in {1, 2}
  <2>1. CASE x = <<Start>> \/ x = <<End>>
    BY <1>0, <1>1, <2>1
  <2>2. CASE x = <<Start, End>> \/ x = <<End, Start>>
    BY <1>0, <1>2, <2>2
  <2> QED
    BY <1>4, <2>1, <2>2
<1>6. \A l \in {1, 2} : l \in Nat /\ l > 0
  OBVIOUS
<1> QED
  BY <1>5, <1>6

\* What the items of each format are.
LEMMA ItemTypes ==
    ASSUME Image!AddressAssumption, Image!TypeOK
    PROVE  /\ Len(items) \in Nat /\ DOMAIN items = 1..Len(items)
           /\ format = "uf2" => \A i \in 1..Len(items) : items[i] \in Image!Blocks
           /\ format = "hex" => \A i \in 1..Len(items) : items[i] \in Image!Records
           /\ format \in {"uf2", "hex"}
<1>1. format \in {"uf2", "hex"}
  BY DEF Image!TypeOK
<1>2. CASE format = "uf2"
  <2>1. items \in Seq(Image!Blocks)
    BY <1>2 DEF Image!TypeOK
  <2> QED
    BY <1>2, <2>1
<1>3. CASE format = "hex"
  <2>1. items \in Seq(Image!Records)
    BY <1>3 DEF Image!TypeOK
  <2> QED
    BY <1>3, <2>1
<1> QED
  BY <1>1, <1>2, <1>3

\* A chunk has an address and bytes, in UF2 at least one.
LEMMA ChunkTypes ==
    ASSUME Image!AddressAssumption, Image!TypeOK, NEW i \in Image!Chunks
    PROVE  /\ i \in 1..Len(items) /\ i \in Nat \ {0}
           /\ items[i].at \in Nat /\ items[i].data \in Seq(Byte)
           /\ Len(items[i].data) \in Nat
           /\ format = "uf2" => Len(items[i].data) > 0
<1>1. i \in 1..Len(items) /\ (format = "hex" => items[i].kind = "data") /\ Len(items) \in Nat
  BY ItemTypes DEF Image!Chunks
<1>2. CASE format = "uf2"
  <2>1. items[i] \in Image!Blocks
    BY <1>1, <1>2, ItemTypes
  <2>2. items[i].at \in Address /\ items[i].data \in Image!Datum
    BY <2>1 DEF Image!Blocks
  <2>3. items[i].at \in Nat
    BY <2>2 DEF Image!AddressAssumption
  <2>4. items[i].data \in Seq(Byte) /\ Len(items[i].data) \in Nat /\ Len(items[i].data) > 0
    BY <2>2, DatumIsBytes
  <2> QED
    BY <1>1, <2>3, <2>4
<1>3. CASE format = "hex"
  <2>1. items[i] \in Image!Records /\ items[i].kind = "data"
    BY <1>1, <1>3, ItemTypes
  <2>2. items[i] \in [kind : {"data"}, at : Address, data : Image!Datum \cup {<<>>}]
    BY <2>1 DEF Image!Records
  <2>3. items[i].at \in Address /\ (items[i].data \in Image!Datum \/ items[i].data = <<>>)
    BY <2>2
  <2>4. items[i].at \in Nat
    BY <2>3 DEF Image!AddressAssumption
  <2>5. items[i].data \in Seq(Byte) /\ Len(items[i].data) \in Nat
    <3>1. CASE items[i].data \in Image!Datum
      BY <3>1, DatumIsBytes
    <3>2. CASE items[i].data = <<>>
      BY <3>2
    <3> QED
      BY <2>3, <3>1, <3>2
  <2> QED
    BY <1>1, <1>3, <2>4, <2>5
<1> QED
  BY <1>2, <1>3, ItemTypes

\* The programmer's base is an address.
LEMMA UpperType ==
    ASSUME Image!AddressAssumption, Image!TypeOK, format = "hex",
           NEW i \in Nat, i <= Len(items)
    PROVE  Upper(i) \in Nat
<1> DEFINE Ok(j) == j <= Len(items) => Upper(j) \in Nat
           S == {j \in Nat : Ok(j)}
<1>1. Ok(0)
  BY UpperZero
<1>2. ASSUME NEW j \in Nat, Ok(j) PROVE Ok(j + 1)
  <2>1. SUFFICES ASSUME j + 1 <= Len(items) PROVE Upper(j + 1) \in Nat
    OBVIOUS
  <2>2. Len(items) \in Nat /\ items[j + 1] \in Image!Records
    <3>1. Len(items) \in Nat
      BY ItemTypes
    <3>2. j + 1 \in 1..Len(items)
      BY <2>1, <3>1
    <3> QED
      BY <3>1, <3>2, ItemTypes
  <2>3. items[j + 1].kind = "base" => items[j + 1].at \in Base
    BY <2>2 DEF Image!Records
  <2>4. Upper(j) \in Nat
    BY <1>2, <2>1, <2>2
  <2> QED
    BY <2>3, <2>4, UpperStep DEF Image!AddressAssumption
<1> HIDE DEF Ok
<1>3. S \in SUBSET Nat /\ 0 \in S /\ \A j \in S : j + 1 \in S
  BY <1>1, <1>2
<1>4. \A j \in S : Ok(j)
  OBVIOUS
<1> HIDE DEF S
<1>5. S = Nat
  BY <1>3, SetInduction
<1> QED
  BY <1>4, <1>5 DEF Ok

\* The decoder and the programmer agree about where a chunk belongs.
LEMMA PlacedIsAt ==
    ASSUME Image!AddressAssumption, Image!TypeOK, NEW i \in Image!Chunks
    PROVE  Image!Placed(i) = Image!At(i) /\ Image!At(i) \in Nat
<1>1. i \in Nat \ {0} /\ i \in 1..Len(items) /\ items[i].at \in Nat
  BY ChunkTypes
<1>2. CASE format = "uf2"
  BY <1>1, <1>2 DEF Image!Placed, Image!At
<1>3. CASE format = "hex"
  <2>1. Image!BaseAt(i) = Upper(i - 1)
    BY <1>1, BaseIsUpper
  <2>2. Image!Placed(i) = items[i].at + Upper(i - 1)
    BY <1>3 DEF Image!Placed, Upper, Bases
  <2>3. Image!At(i) = items[i].at + Upper(i - 1)
    BY <1>3, <2>1 DEF Image!At
  <2>4. Upper(i - 1) \in Nat
    <3>1. i - 1 \in Nat /\ i - 1 <= Len(items)
      BY <1>1, ItemTypes
    <3> QED
      BY <1>3, <3>1, UpperType
  <2> QED
    BY <1>1, <2>2, <2>3, <2>4
<1> QED
  BY <1>2, <1>3, ItemTypes

\* The chunks of a file are finitely many, and Sorted lists each of them once.
LEMMA SortedLists ==
    ASSUME Image!AddressAssumption, Image!TypeOK
    PROVE  /\ Cardinality(Image!Chunks) \in Nat
           /\ Cardinality(Image!Chunks) = 0 => Image!Chunks = {}
           /\ Image!Sorted \in [1..Cardinality(Image!Chunks) -> Image!Chunks]
           /\ \A j, k \in 1..Cardinality(Image!Chunks) :
                Image!Sorted[j] = Image!Sorted[k] => j = k
           /\ \A i \in Image!Chunks :
                \E j \in 1..Cardinality(Image!Chunks) : Image!Sorted[j] = i
<1> DEFINE R == {x \in Image!Chunks \X Image!Chunks : Image!Precedes(x[1], x[2])}
           n == Cardinality(Image!Chunks)
<1>1. IsFiniteSet(Image!Chunks)
  <2>1. IsFiniteSet(1..Len(items))
    BY ItemTypes, FS_Interval
  <2>2. Image!Chunks \in SUBSET (1..Len(items))
    BY ItemTypes DEF Image!Chunks
  <2> QED
    BY <2>1, <2>2, FS_Subset
<1>2. n \in Nat /\ (n = 0 => Image!Chunks = {})
  BY <1>1, FS_CardinalityType, FS_EmptySet
<1>3. \A i, j \in Image!Chunks : <<i, j>> \in R <=> Image!Precedes(i, j)
  OBVIOUS
<1>4. \A i \in Image!Chunks : Image!At(i) \in Nat /\ Image!Size(i) \in Nat
  BY PlacedIsAt, ChunkTypes DEF Image!Size
<1>5. \A i, j \in Image!Chunks : Image!Precedes(i, j) \/ Image!Precedes(j, i)
  BY <1>4 DEF Image!Precedes
<1>6. \A i, j, l \in Image!Chunks :
        Image!Precedes(i, j) /\ Image!Precedes(j, l) => Image!Precedes(i, l)
  BY <1>4 DEF Image!Precedes
<1>7. Orders(R, Image!Chunks)
  <2> HIDE DEF R
  <2> QED
    BY <1>3, <1>5, <1>6 DEF Orders
<1> HIDE DEF R
<1>8. PICK p : Arranges(p, n, R, Image!Chunks)
  BY <1>1, <1>7, SortExists
<1>9. p \in Image!Bijection(1..n, Image!Chunks) /\ DOMAIN p = 1..n
  BY <1>8 DEF Arranges, Image!Bijection, Image!Injection
<1>10. \A j, k \in DOMAIN p : j < k => Image!Precedes(p[j], p[k])
  <2>1. SUFFICES ASSUME NEW j \in 1..n, NEW k \in 1..n, j < k PROVE Image!Precedes(p[j], p[k])
    BY <1>9
  <2>2. <<p[j], p[k]>> \in R
    BY <1>8, <2>1 DEF Arranges
  <2>3. p[j] \in Image!Chunks /\ p[k] \in Image!Chunks
    BY <1>9 DEF Image!Bijection, Image!Injection
  <2> QED
    BY <1>3, <2>2, <2>3
<1>11. Image!Sorted \in Image!Bijection(1..n, Image!Chunks)
  BY <1>9, <1>10, CountIs DEF Image!Sorted
<1> QED
  BY <1>2, <1>11 DEF Image!Bijection, Image!Injection, Image!Surjection, Image!IsInjective

-----------------------------------------------------------------------------
(* The join of the decoder is the join of the lemmas.                      *)

\* Addresses and data of the sorted chunks.
Ats == [j \in 1..Cardinality(Image!Chunks) |-> Image!At(Image!Sorted[j])]
\* Their data, in the same order.
Datas == [j \in 1..Cardinality(Image!Chunks) |-> items[Image!Sorted[j]].data]

\* The recursive function of Join.
IsJoin(f, p, gaps) ==
    f = [k \in 0..Cardinality(Image!Chunks) |->
            IF k = 0 THEN [bytes |-> <<>>, end |-> Image!At(p[1]), ok |-> TRUE]
            ELSE LET before == f[k - 1]
                     i == p[k]
                 IN [bytes |-> before.bytes \o [x \in 1..(Image!At(i) - before.end) |-> Blank]
                                 \o items[i].data,
                     end |-> Image!At(i) + Image!Size(i),
                     ok |-> /\ before.ok
                            /\ Image!At(i) = before.end \/ (gaps /\ Image!At(i) > before.end)]]

\* The sorted chunks have addresses and bytes.
LEMMA PiecesOfChunks ==
    ASSUME Image!AddressAssumption, Image!TypeOK
    PROVE  Pieces(Ats, Datas, Cardinality(Image!Chunks))
<1>1. ASSUME NEW j \in 1..Cardinality(Image!Chunks)
      PROVE  /\ Ats[j] \in Nat
             /\ Datas[j] \in Seq(Byte) /\ Len(Datas[j]) \in Nat
  <2>1. Image!Sorted[j] \in Image!Chunks
    BY SortedLists
  <2> QED
    BY <2>1, PlacedIsAt, ChunkTypes DEF Ats, Datas
<1>2. Cardinality(Image!Chunks) \in Nat
  BY SortedLists
<1> QED
  BY <1>1, <1>2 DEF Pieces

\* One turn of the decoder's loop.
LEMMA TurnOfJoin ==
    ASSUME Image!AddressAssumption, Image!TypeOK, NEW f, NEW gaps \in BOOLEAN,
           NEW k \in 1..Cardinality(Image!Chunks)
    PROVE  More(f[k - 1], Ats[k], Datas[k], gaps) =
             LET before == f[k - 1]
                 i == Image!Sorted[k]
             IN [bytes |-> before.bytes \o [x \in 1..(Image!At(i) - before.end) |-> Blank]
                             \o items[i].data,
                 end |-> Image!At(i) + Image!Size(i),
                 ok |-> /\ before.ok
                        /\ Image!At(i) = before.end \/ (gaps /\ Image!At(i) > before.end)]
<1>1. Ats[k] = Image!At(Image!Sorted[k]) /\ Datas[k] = items[Image!Sorted[k]].data
  BY DEF Ats, Datas
<1> QED
  BY <1>1 DEF More, Joinable, Filled, Image!Size

\* A recursion has a solution, so what Join returns is what its loop computes.
LEMMA JoinIs ==
    ASSUME Image!AddressAssumption, Image!TypeOK, NEW gaps \in BOOLEAN, Image!Chunks # {}
    PROVE  \E f : /\ Joins(f, Ats, Datas, Cardinality(Image!Chunks), gaps)
                  /\ Image!Join(Image!Sorted, gaps) = f[Cardinality(Image!Chunks)]
<1>n. PICK n : n = Cardinality(Image!Chunks)
  OBVIOUS
<1>1. n \in Nat /\ n >= 1 /\ Pieces(Ats, Datas, n)
  BY <1>n, SortedLists, PiecesOfChunks
<1>2. \A k \in 1..n : Ats[k] \in Nat /\ Datas[k] \in Seq(Byte)
  BY <1>1 DEF Pieces
<1> DEFINE F == [k \in 1..n |-> [b \in Laid |-> More(b, Ats[k], Datas[k], gaps)]]
<1>3. F \in [1..n -> [Laid -> Laid]]
  BY <1>2, MoreType
<1>4. First(Ats) \in Laid
  <2>1. Ats[1] \in Int
    BY <1>1, <1>2
  <2>2. <<>> \in Seq(Byte)
    OBVIOUS
  <2> QED
    BY <2>1, <2>2 DEF First, Laid
<1>5. \A k \in 1..n, b \in Laid : F[k][b] = More(b, Ats[k], Datas[k], gaps)
  OBVIOUS
<1> HIDE DEF F
<1>6. PICK g : Follows(g, n, Laid, First(Ats), F)
  BY <1>1, <1>3, <1>4, Recursion
<1>7. g \in [0..n -> Laid] /\ g[0] = First(Ats)
  BY <1>6 DEF Follows
<1>8. ASSUME NEW k \in 1..n PROVE g[k] = More(g[k - 1], Ats[k], Datas[k], gaps)
  <2>1. g[k - 1] \in Laid
    BY <1>1, <1>7
  <2>2. g[k] = F[k][g[k - 1]]
    BY <1>6 DEF Follows
  <2> QED
    BY <1>5, <2>1, <2>2
<1>9. First(Ats) = [bytes |-> <<>>, end |-> Image!At(Image!Sorted[1]), ok |-> TRUE]
  <2>1. Ats[1] = Image!At(Image!Sorted[1])
    BY <1>1, <1>n DEF Ats
  <2> QED
    BY <2>1 DEF First
<1>10. IsJoin(g, Image!Sorted, gaps)
  <2> DEFINE Turn(f, k) ==
                IF k = 0 THEN [bytes |-> <<>>, end |-> Image!At(Image!Sorted[1]), ok |-> TRUE]
                ELSE LET before == f[k - 1]
                         i == Image!Sorted[k]
                     IN [bytes |-> before.bytes \o [x \in 1..(Image!At(i) - before.end) |-> Blank]
                                     \o items[i].data,
                         end |-> Image!At(i) + Image!Size(i),
                         ok |-> /\ before.ok
                                /\ Image!At(i) = before.end \/ (gaps /\ Image!At(i) > before.end)]
  <2>1. ASSUME NEW k \in 0..n PROVE g[k] = Turn(g, k)
    <3>1. CASE k = 0
      BY <1>7, <1>9, <3>1
    <3>2. CASE k # 0
      <4>1. k \in 1..n
        BY <1>1, <3>2
      <4>2. g[k] = More(g[k - 1], Ats[k], Datas[k], gaps)
        BY <1>8, <4>1
      <4>3. More(g[k - 1], Ats[k], Datas[k], gaps) = Turn(g, k)
        BY <1>n, <3>2, <4>1, TurnOfJoin
      <4> QED
        BY <4>2, <4>3
    <3> QED
      BY <3>1, <3>2
  <2>2. IsJoin(g, Image!Sorted, gaps) <=> g = [k \in 0..n |-> Turn(g, k)]
    BY <1>n DEF IsJoin
  <2> HIDE DEF Turn
  <2>3. g = [k \in 0..n |-> Turn(g, k)]
    BY <1>7, <2>1
  <2> QED
    BY <2>2, <2>3
<1>11. Image!Join(Image!Sorted, gaps) =
         (CHOOSE f : IsJoin(f, Image!Sorted, gaps))[Cardinality(Image!Chunks)]
  BY CountIs DEF Image!Join, IsJoin
<1> DEFINE h == CHOOSE f : IsJoin(f, Image!Sorted, gaps)
<1>12. IsJoin(h, Image!Sorted, gaps)
  BY <1>10
<1>13. Image!Join(Image!Sorted, gaps) = h[n]
  BY <1>11, <1>n
<1> HIDE DEF h
<1>14. Joins(h, Ats, Datas, n, gaps)
  <2>1. h[0] = First(Ats)
    <3>1. 0 \in 0..Cardinality(Image!Chunks)
      BY <1>1, <1>n
    <3>2. h[0] = [bytes |-> <<>>, end |-> Image!At(Image!Sorted[1]), ok |-> TRUE]
      BY <1>12, <3>1 DEF IsJoin
    <3> QED
      BY <1>9, <3>2
  <2>2. ASSUME NEW k \in 1..n PROVE h[k] = More(h[k - 1], Ats[k], Datas[k], gaps)
    <3>1. k \in 0..Cardinality(Image!Chunks) /\ k # 0 /\ k \in 1..Cardinality(Image!Chunks)
      BY <1>1, <1>n
    <3>2. h[k] = LET before == h[k - 1]
                     i == Image!Sorted[k]
                 IN [bytes |-> before.bytes \o [x \in 1..(Image!At(i) - before.end) |-> Blank]
                                 \o items[i].data,
                     end |-> Image!At(i) + Image!Size(i),
                     ok |-> /\ before.ok
                            /\ Image!At(i) = before.end \/ (gaps /\ Image!At(i) > before.end)]
      BY <1>12, <3>1 DEF IsJoin
    <3> QED
      BY <3>1, <3>2, TurnOfJoin
  <2> QED
    BY <2>1, <2>2 DEF Joins
<1> QED
  BY <1>13, <1>14, <1>n

-----------------------------------------------------------------------------
(* The payload is the flash memory.                                        *)

\* An accepted file has chunks, and those of UF2 are not empty.
LEMMA AcceptedHasChunks ==
    ASSUME Image!AddressAssumption, Image!TypeOK, Image!Payload # None
    PROVE  /\ Image!Chunks # {}
           /\ \E gaps \in BOOLEAN :
                /\ Image!Payload = Image!Joined(gaps)
                /\ gaps => \A j \in 1..Cardinality(Image!Chunks) : Len(Datas[j]) > 0
<1>1. CASE format = "uf2"
  <2>1. Image!Uf2Accepted /\ Image!Payload = Image!Joined(TRUE)
    BY <1>1 DEF Image!Payload
  <2>2. Len(items) \in Nat /\ items \in Seq(Image!Blocks) /\ items # <<>>
    BY <1>1, <2>1, ItemTypes DEF Image!Uf2Accepted, Image!TypeOK
  <2>3. Len(items) # 0
    BY <2>2
  <2>4. 1 \in Image!Chunks
    BY <1>1, <2>2, <2>3 DEF Image!Chunks
  <2>5. ASSUME NEW j \in 1..Cardinality(Image!Chunks) PROVE Len(Datas[j]) > 0
    <3>1. Image!Sorted[j] \in Image!Chunks /\ Datas[j] = items[Image!Sorted[j]].data
      BY SortedLists DEF Datas
    <3> QED
      BY <1>1, <3>1, ChunkTypes
  <2> QED
    BY <2>1, <2>4, <2>5
<1>2. CASE format = "hex"
  <2>1. Image!HexAccepted /\ Image!Payload = Image!Joined(FALSE)
    BY <1>2 DEF Image!Payload
  <2> QED
    BY <2>1 DEF Image!HexAccepted
<1> QED
  BY <1>1, <1>2, ItemTypes

\* A payload is what the join laid out.
LEMMA PayloadIsLaidOut ==
    ASSUME Image!AddressAssumption, Image!TypeOK, Image!Payload # None
    PROVE  \E b \in Laid, gaps \in BOOLEAN :
             /\ Image!Payload = b.bytes
             /\ LaysOut(b, Ats, Datas, Cardinality(Image!Chunks), gaps)
             /\ gaps => \A j \in 1..Cardinality(Image!Chunks) : Len(Datas[j]) > 0
<1>1. PICK gaps \in BOOLEAN :
        /\ Image!Payload = Image!Joined(gaps)
        /\ gaps => \A j \in 1..Cardinality(Image!Chunks) : Len(Datas[j]) > 0
  BY AcceptedHasChunks
<1>2. PICK f : Joins(f, Ats, Datas, Cardinality(Image!Chunks), gaps)
               /\ Image!Join(Image!Sorted, gaps) = f[Cardinality(Image!Chunks)]
  BY AcceptedHasChunks, JoinIs
<1>3. Image!Join(Image!Sorted, gaps).ok /\ Image!Payload = Image!Join(Image!Sorted, gaps).bytes
  BY <1>1 DEF Image!Joined
<1>4. Cardinality(Image!Chunks) \in Nat /\ Cardinality(Image!Chunks) >= 1
  BY AcceptedHasChunks, SortedLists
<1>5. f[Cardinality(Image!Chunks)] \in Laid
      /\ LaysOut(f[Cardinality(Image!Chunks)], Ats, Datas, Cardinality(Image!Chunks), gaps)
  BY <1>2, <1>3, <1>4, PiecesOfChunks, JoinLaysOut
<1> QED
  BY <1>1, <1>2, <1>3, <1>5

\* The addresses that a programmer gives to a chunk are those it is laid at.
LEMMA PlaceIsIn ==
    ASSUME Image!AddressAssumption, Image!TypeOK,
           NEW j \in 1..Cardinality(Image!Chunks), NEW y \in Int
    PROVE  y \in Image!Place(Image!Sorted[j]) <=> In(Ats, Datas, j, y)
<1>1. Image!Sorted[j] \in Image!Chunks
  BY SortedLists
<1>2. Image!Placed(Image!Sorted[j]) = Ats[j] /\ Ats[j] \in Nat
  BY <1>1, PlacedIsAt DEF Ats
<1>3. items[Image!Sorted[j]].data = Datas[j] /\ Len(Datas[j]) \in Nat
  BY <1>1, ChunkTypes DEF Datas
<1> QED
  BY <1>2, <1>3 DEF Image!Place, In

\* Places are integers.
LEMMA PlaceType ==
    ASSUME Image!AddressAssumption, Image!TypeOK, NEW i \in Image!Chunks
    PROVE  Image!Place(i) \in SUBSET Int
<1>1. Image!Placed(i) \in Nat /\ Len(items[i].data) \in Nat
  BY PlacedIsAt, ChunkTypes
<1> QED
  BY <1>1 DEF Image!Place

\* So a programmer writes what the join has laid out.
LEMMA WrittenIsPlaces ==
    ASSUME Image!AddressAssumption, Image!TypeOK
    PROVE  Image!Written = Places(Ats, Datas, Cardinality(Image!Chunks))
<1>1. ASSUME NEW y \in Image!Written PROVE y \in Places(Ats, Datas, Cardinality(Image!Chunks))
  <2>1. PICK i \in Image!Chunks : y \in Image!Place(i)
    BY DEF Image!Written
  <2>2. PICK j \in 1..Cardinality(Image!Chunks) : Image!Sorted[j] = i
    BY SortedLists
  <2>3. y \in Int
    BY <2>1, PlaceType
  <2> QED
    BY <2>1, <2>2, <2>3, PlaceIsIn DEF Places
<1>2. ASSUME NEW y \in Places(Ats, Datas, Cardinality(Image!Chunks)) PROVE y \in Image!Written
  <2>1. PICK j \in 1..Cardinality(Image!Chunks) : y \in Int /\ In(Ats, Datas, j, y)
    BY DEF Places
  <2>2. y \in Image!Place(Image!Sorted[j]) /\ Image!Sorted[j] \in Image!Chunks
    BY <2>1, PlaceIsIn, SortedLists
  <2> QED
    BY <2>2 DEF Image!Written
<1> QED
  BY <1>1, <1>2

\* Where no two chunks share an address, the last writer of one is the only.
LEMMA FlashIs ==
    ASSUME Image!AddressAssumption, Image!TypeOK, NEW y \in Int,
           NEW j \in 1..Cardinality(Image!Chunks), In(Ats, Datas, j, y),
           \A l \in 1..Cardinality(Image!Chunks) : In(Ats, Datas, l, y) => l = j
    PROVE  Image!Flash(y) = Datas[j][y - Ats[j] + 1]
<1>1. Image!Sorted[j] \in Image!Chunks /\ Image!Sorted[j] \in Int
  BY SortedLists, ChunkTypes
<1>2. Image!Sorted[j] \in Image!Writers(y)
  BY <1>1, PlaceIsIn DEF Image!Writers
<1>3. ASSUME NEW i \in Image!Writers(y) PROVE i = Image!Sorted[j]
  <2>1. i \in Image!Chunks /\ y \in Image!Place(i)
    BY DEF Image!Writers
  <2>2. PICK l \in 1..Cardinality(Image!Chunks) : Image!Sorted[l] = i
    BY <2>1, SortedLists
  <2>3. In(Ats, Datas, l, y)
    BY <2>1, <2>2, PlaceIsIn
  <2> QED
    BY <2>2, <2>3
<1>4. Image!Writers(y) = {Image!Sorted[j]}
  BY <1>2, <1>3
<1>5. Image!Max(Image!Writers(y)) = Image!Sorted[j]
  <2>1. Image!Writers(y) \in SUBSET Int /\ Image!Sorted[j] \in Image!Writers(y)
        /\ \A s \in Image!Writers(y) : s <= Image!Sorted[j]
    BY <1>1, <1>4
  <2> QED
    BY <2>1, MaxIs
<1>6. Image!Placed(Image!Sorted[j]) = Ats[j] /\ items[Image!Sorted[j]].data = Datas[j]
  BY <1>1, PlacedIsAt DEF Ats, Datas
<1> QED
  BY <1>5, <1>6 DEF Image!Flash

\* Byte for byte, the payload of an accepted file is the flash memory.
LEMMA PayloadIsFlashOfFile ==
    ASSUME Image!AddressAssumption, Image!TypeOK PROVE Image!PayloadIsFlash
<1>1. SUFFICES ASSUME Image!Payload # None, Image!Written # {}
               PROVE  LET first == Image!Min(Image!Written)
                      IN /\ Len(Image!Payload) = Image!Max(Image!Written) - first + 1
                         /\ \A y \in first..Image!Max(Image!Written) :
                              Image!Payload[y - first + 1] =
                                IF y \in Image!Written THEN Image!Flash(y) ELSE Blank
  BY DEF Image!PayloadIsFlash
<1>n. PICK n : n = Cardinality(Image!Chunks)
  OBVIOUS
<1>2. PICK b \in Laid, gaps \in BOOLEAN :
        /\ Image!Payload = b.bytes
        /\ LaysOut(b, Ats, Datas, n, gaps)
        /\ gaps => \A j \in 1..n : Len(Datas[j]) > 0
  BY <1>1, <1>n, PayloadIsLaidOut
<1>3. n \in Nat /\ n >= 1
  BY <1>1, <1>n, AcceptedHasChunks, SortedLists
<1>4. Image!Written = Places(Ats, Datas, n) /\ Places(Ats, Datas, n) # {}
  BY <1>1, <1>n, WrittenIsPlaces
<1>5. Pieces(Ats, Datas, n)
  BY <1>n, PiecesOfChunks
<1>6. /\ Image!Min(Places(Ats, Datas, n)) = Ats[1]
      /\ Len(b.bytes) = Image!Max(Places(Ats, Datas, n)) - Ats[1] + 1
      /\ Image!Max(Places(Ats, Datas, n)) \in Int /\ Ats[1] \in Int
      /\ \A j, l \in 1..n, y \in Int : In(Ats, Datas, j, y) /\ In(Ats, Datas, l, y) => j = l
      /\ \A y \in Ats[1]..Image!Max(Places(Ats, Datas, n)) :
           /\ \A j \in 1..n :
                In(Ats, Datas, j, y) => b.bytes[y - Ats[1] + 1] = Datas[j][y - Ats[j] + 1]
           /\ y \notin Places(Ats, Datas, n) => b.bytes[y - Ats[1] + 1] = Blank
  BY <1>2, <1>3, <1>4, <1>5, LaidOutIsRead
<1>7. PICK first, last, content, W :
        first = Ats[1] /\ last = Image!Max(Places(Ats, Datas, n)) /\ content = b.bytes
        /\ W = Places(Ats, Datas, n)
  OBVIOUS
<1>8. ASSUME NEW y \in first..last
      PROVE  content[y - first + 1] = IF y \in W THEN Image!Flash(y) ELSE Blank
  <2>1. y \in Int
    BY <1>6, <1>7
  <2>2. CASE y \in W
    <3>1. PICK j \in 1..n : In(Ats, Datas, j, y)
      BY <1>7, <2>2 DEF Places
    <3>2. content[y - first + 1] = Datas[j][y - Ats[j] + 1]
      BY <1>6, <1>7, <3>1
    <3>3. \A l \in 1..n : In(Ats, Datas, l, y) => l = j
      BY <1>6, <2>1, <3>1
    <3>4. Image!Flash(y) = Datas[j][y - Ats[j] + 1]
      BY <1>n, <2>1, <3>1, <3>3, FlashIs
    <3> QED
      BY <2>2, <3>2, <3>4
  <2>3. CASE y \notin W
    BY <1>6, <1>7, <2>3
  <2> QED
    BY <2>2, <2>3
<1>9. Image!Min(Image!Written) = first /\ Image!Max(Image!Written) = last /\ Image!Written = W
      /\ Image!Payload = content /\ Len(content) = last - first + 1
  BY <1>2, <1>4, <1>6, <1>7
<1> QED
  BY <1>8, <1>9

\* What a programmer writes for an accepted file has a first and a last address.
LEMMA WrittenBounds ==
    ASSUME Image!AddressAssumption, Image!TypeOK, Image!Payload # None, Image!Written # {}
    PROVE  /\ Image!Min(Image!Written) \in Int /\ Image!Max(Image!Written) \in Int
           /\ \A y \in Image!Written :
                y \in Int /\ Image!Min(Image!Written) <= y /\ y <= Image!Max(Image!Written)
<1>n. PICK n : n = Cardinality(Image!Chunks)
  OBVIOUS
<1>2. PICK b \in Laid, gaps \in BOOLEAN :
        /\ LaysOut(b, Ats, Datas, n, gaps)
        /\ gaps => \A j \in 1..n : Len(Datas[j]) > 0
  BY <1>n, PayloadIsLaidOut
<1>3. n \in Nat /\ n >= 1
  BY <1>n, AcceptedHasChunks, SortedLists
<1>4. Image!Written = Places(Ats, Datas, n) /\ Places(Ats, Datas, n) # {}
  BY <1>n, WrittenIsPlaces
<1>5. Pieces(Ats, Datas, n)
  BY <1>n, PiecesOfChunks
<1>6. /\ Image!Min(Places(Ats, Datas, n)) = Ats[1]
      /\ Image!Max(Places(Ats, Datas, n)) \in Int /\ Ats[1] \in Int
      /\ \A y \in Places(Ats, Datas, n) :
           y \in Int /\ Ats[1] <= y /\ y <= Image!Max(Places(Ats, Datas, n))
  BY <1>2, <1>3, <1>4, <1>5, LaidOutIsRead
<1> QED
  BY <1>4, <1>6

\* Two adjacent bytes of the flash memory are adjacent in the payload.
LEMMA FingerprintIsFound ==
    ASSUME Image!AddressAssumption, Image!TypeOK PROVE Image!FingerprintIsNotMissed
<1>1. SUFFICES ASSUME Image!Payload # None, NEW y \in Image!Written, y + 1 \in Image!Written,
                      Image!Flash(y) = Start, Image!Flash(y + 1) = End
               PROVE  Image!Has(Image!Payload)
  BY DEF Image!FingerprintIsNotMissed, Image!Contained
<1>2. PICK first, last, W :
        /\ first = Image!Min(Image!Written) /\ last = Image!Max(Image!Written)
        /\ W = Image!Written
  OBVIOUS
<1>3. /\ Len(Image!Payload) = last - first + 1
      /\ \A x \in first..last :
           Image!Payload[x - first + 1] = IF x \in W THEN Image!Flash(x) ELSE Blank
  BY <1>1, <1>2, PayloadIsFlashOfFile DEF Image!PayloadIsFlash
<1>4. first \in Int /\ last \in Int /\ \A x \in W : x \in Int /\ first <= x /\ x <= last
  BY <1>1, <1>2, WrittenBounds
<1>5. y \in first..last /\ y + 1 \in first..last /\ y \in W /\ y + 1 \in W
  BY <1>1, <1>2, <1>4
<1>6. Image!Payload[y - first + 1] = Start /\ Image!Payload[(y + 1) - first + 1] = End
  BY <1>1, <1>3, <1>5
<1>7. y - first + 1 \in 1..(Len(Image!Payload) - 1)
      /\ (y - first + 1) + 1 = (y + 1) - first + 1
  BY <1>3, <1>4, <1>5
<1> QED
  BY <1>6, <1>7 DEF Image!Has

-----------------------------------------------------------------------------
(* Every file.                                                             *)

\* A file of any length holds blocks or records of its format.
LEMMA FileTypeInductive ==
    Image!TypeOK /\ [Image!Append_]_Image!vars => Image!TypeOK'
<1>1. SUFFICES ASSUME Image!TypeOK, [Image!Append_]_Image!vars PROVE Image!TypeOK'
  OBVIOUS
<1>2. CASE Image!Append_
  <2>1. PICK i \in (IF format = "uf2" THEN Image!Blocks ELSE Image!Records) :
          items' = Append(items, i)
    BY <1>2 DEF Image!Append_
  <2>2. format' = format
    BY <1>2 DEF Image!Append_
  <2>3. items' \in Seq(IF format = "uf2" THEN Image!Blocks ELSE Image!Records)
    BY <1>1, <2>1 DEF Image!TypeOK
  <2> QED
    BY <1>1, <2>2, <2>3 DEF Image!TypeOK, Image!Blocks, Image!Records
<1>3. CASE UNCHANGED Image!vars
  BY <1>1, <1>3 DEF Image!TypeOK, Image!vars, Image!Blocks, Image!Records
<1> QED
  BY <1>1, <1>2, <1>3

\* Whatever blocks or records a file has, of any number and in any order, its
\* payload is the flash memory that writing it leaves, and a fingerprint there
\* is found (artifact_contains_firmware_fingerprint and its two decoders).
THEOREM ImageIsSearchedAlways ==
    ASSUME Image!AddressAssumption
    PROVE  Image!Spec => []ImageIsSearched
<1>1. Image!Init => Image!TypeOK
  BY DEF Image!Init, Image!TypeOK
<1>2. Image!TypeOK => ImageIsSearched
  BY PayloadIsFlashOfFile, FingerprintIsFound DEF ImageIsSearched
<1> QED
  BY <1>1, <1>2, FileTypeInductive, PTL DEF Image!Spec
=============================================================================
