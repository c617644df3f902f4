--------------------------- MODULE ContractEvidence ---------------------------
(***************************************************************************)
(* From the board contracts to a file for the card: the catalogue and its  *)
(* process-wide cache, the choice of the firmware authority, the review,   *)
(* the build, and the chain proof - artifact - prepared file - plan that   *)
(* boards/runtime.py and boards/deployment.py check link by link, up to    *)
(* the delivery and the request for promotion.  A maintainer edits the     *)
(* contracts and others write to the disk between any two steps.           *)
(***************************************************************************)
EXTENDS Naturals

CONSTANTS
    Document,       \* contracts that the files may hold: [id, aliases, targets]
    Alias,          \* what a user may have selected as the board
    Mcu,            \* what discover_mcu may have found
    None,
    MaxEdits, MaxBuilds

\* A target names its variant, the variant's processor, its support status, the
\* naming policy of its file and its flash strategy.  A contract is its digest.
\* from_mapping refuses two targets of one name.
DocumentAssumption ==
    /\ \A d \in Document :
        /\ \A t \in d.targets : DOMAIN t = {"variant", "mcu", "status", "naming",
                                            "mustDiffer", "strategy"}
        /\ \A s, t \in d.targets : s.variant = t.variant => s = t
    /\ \A dir \in SUBSET Document : dir # None

\* In the contracts that are shipped, a file whose name must change is named
\* after its build.  from_mapping does not insist on it.
NamingAssumption ==
    \A d \in Document : \A t \in d.targets : t.mustDiffer => t.naming = "build-id"

VARIABLES
    directory,      \* the contracts in data/board_contracts
    cache,          \* _DEFAULT_CATALOG of the process
    decision,       \* the authority: names only, or None
    reviewed,       \* the contract and target that the operator confirmed
    proof,          \* BuildProof
    native,         \* bytes of the native artifact on the disk: a build, or None
    temporary,      \* bytes of the .part file
    prepared,       \* bytes of the prepared file
    plan,           \* DeploymentPlan
    proofs,         \* typed DeploymentProofs that the process holds
    flashes,        \* what went to the board: [contract, target, bytes, name]
    requests,       \* promotion requests
    builds, edits,
    pc

world == <<directory, edits>>
chosen == <<decision, reviewed>>
files == <<native, temporary, prepared>>
evidence == <<proof, plan>>
results == <<proofs, flashes, requests>>
vars == <<world, cache, chosen, evidence, files, results, builds, pc>>

Authoritative == {"RUNTIME_SUPPORTED", "DEPLOYMENT_VERIFIED"}

-----------------------------------------------------------------------------
(* The catalogue.                                                          *)

Names(d) == d.aliases \cup {d.id}

\* BoardCatalog: not empty, no identity twice and no name with two owners.
Indexed(dir) ==
    /\ dir # {}
    /\ \A c, d \in dir : c # d => c.id # d.id /\ Names(c) \cap Names(d) = {}

\* Mutant: every call reads the files again.
ReadAgain == directory

\* load_default_catalog reads the files once per process.
Catalog == IF cache = None THEN directory ELSE cache

Contract(id) == {d \in Catalog : d.id = id}

Offered(docs) == UNION {{[contract |-> d, target |-> t] : t \in d.targets} : d \in docs}

\* _runtime_targets of the contract that owns the alias.
Candidates(alias) == {c \in Offered(Catalog) : /\ alias \in Names(c.contract)
                                              /\ c.target.status \in Authoritative}

\* One candidate needs no MCU; among several the MCU must name exactly one.
Sole(candidates) == \E c \in candidates : candidates = {c}
Matching(candidates, mcu) ==
    IF Sole(candidates) THEN candidates
    ELSE {c \in candidates : c.target.mcu = mcu}

Init ==
    /\ directory \in SUBSET Document /\ Indexed(directory)
    /\ cache = None /\ edits = 0 /\ builds = 0
    /\ decision = None /\ reviewed = None /\ proof = None /\ plan = None
    /\ native = None /\ temporary = None /\ prepared = None
    /\ proofs = {} /\ flashes = {} /\ requests = {} /\ pc = "start"

Goto(next) == pc' = next
Blocked == Goto("failed")

-----------------------------------------------------------------------------
(* Authority and review.                                                   *)

Decision(authority, alias, c) ==
    [authority |-> authority, alias |-> alias,
     id |-> IF c = None THEN None ELSE c.contract.id,
     variant |-> IF c = None THEN None ELSE c.target.variant]

\* Mutant: a catalogue that cannot be read leaves the board to legacy code.
ResolveFallsBack ==
    /\ pc = "start"
    /\ \E alias \in Alias, mcu \in Mcu \cup {None} :
        IF ~Indexed(Catalog)
        THEN decision' = Decision("legacy", alias, None) /\ Goto("legacy") /\ UNCHANGED cache
        ELSE /\ cache' = Catalog
             /\ LET all == Candidates(alias)
                IN \/ all = {} /\ decision' = Decision("legacy", alias, None) /\ Goto("legacy")
                   \/ \E c \in Matching(all, mcu) :
                        decision' = Decision("contract", alias, c) /\ Goto("review")
    /\ UNCHANGED <<world, reviewed, evidence, files, results, builds>>

\* resolve_firmware_authority as run_firmware_wizard calls it: whatever goes
\* wrong in the catalogue or in the choice ends the workflow.
Resolve ==
    /\ pc = "start"
    /\ \E alias \in Alias, mcu \in Mcu \cup {None} :
        LET all == Candidates(alias)
            matching == Matching(all, mcu)
        IN \/ /\ ~Indexed(Catalog) /\ Blocked /\ UNCHANGED <<cache, decision>>
           \/ /\ Indexed(Catalog) /\ cache' = Catalog
              /\ \/ /\ all = {}
                    /\ decision' = Decision("legacy", alias, None) /\ Goto("legacy")
                 \/ /\ all # {} /\ Sole(matching)
                    /\ \E c \in matching : decision' = Decision("contract", alias, c)
                    /\ Goto("review")
                 \/ /\ all # {} /\ ~Sole(matching)
                    /\ Blocked /\ UNCHANGED decision
    /\ UNCHANGED <<world, reviewed, evidence, files, results, builds>>

\* contract.variant and variant.target: the names looked up once more.
Selected == {c \in Offered(Contract(decision.id)) : c.target.variant = decision.variant}

\* _print_board_contract_firmware_review and the question after it.
Review ==
    /\ pc = "review"
    /\ \/ \E c \in Selected : reviewed' = c /\ Goto("confirmed")
       \/ UNCHANGED reviewed /\ Goto("declined")
    /\ UNCHANGED <<world, cache, decision, evidence, files, results, builds>>

-----------------------------------------------------------------------------
(* The build and the links of its evidence.                                *)

\* build_board_contract_runtime resolves the names again and compiles; the
\* build itself is ContractBuild.
Build ==
    /\ pc = "confirmed" /\ builds < MaxBuilds
    /\ \/ \E c \in Selected :
            /\ c.target.status \in Authoritative
            /\ builds' = builds + 1
            /\ proof' = [contract |-> c.contract, target |-> c.target,
                         sha |-> builds + 1]
            /\ native' = builds + 1 /\ temporary' = None /\ prepared' = None
            /\ Goto("built")
       \/ Blocked /\ UNCHANGED <<builds, proof, files>>
    /\ UNCHANGED <<world, cache, chosen, plan, results>>

\* build_artifact_from_proof: the files still hash as the proof says.
FromProof ==
    /\ pc = "built"
    /\ IF native = proof.sha THEN Goto("artifact") ELSE Blocked
    /\ UNCHANGED <<world, cache, chosen, evidence, files, results, builds>>

\* Mutant: a build-id name made from the contract's identity.
NameOfContract(t, sha) == 0

\* _final_filename: a name of this build, or the policy's constant name.
FinalFilename(t, sha) == IF t.naming = "build-id" THEN sha ELSE 0

\* apply_artifact_policy compares the native file with the artifact.
Apply ==
    /\ pc = "artifact"
    /\ IF native = proof.sha THEN Goto("copy") ELSE Blocked
    /\ UNCHANGED <<world, cache, chosen, evidence, files, results, builds>>

Copy ==
    /\ pc = "copy"
    /\ temporary' = native /\ Goto("publish")
    /\ UNCHANGED <<world, cache, chosen, evidence, native, prepared, results, builds>>

\* The .part file is compared, renamed, and always gone afterwards.
Publish ==
    /\ pc = "publish"
    /\ IF temporary = proof.sha
       THEN prepared' = temporary /\ Goto("prepared")
       ELSE Blocked /\ UNCHANGED prepared
    /\ temporary' = None
    /\ UNCHANGED <<world, cache, chosen, evidence, native, results, builds>>

\* _typed_steps: only two strategies have a plan, known once the file is there.
HasPlan(t) == t.strategy \in {"SD_CARD", "RP2040_BOOTSEL"}

\* The last comparison of apply_artifact_policy, and create_deployment_plan.
Plan ==
    /\ pc = "prepared"
    /\ IF prepared = proof.sha /\ HasPlan(proof.target)
       THEN /\ plan' = [contract |-> proof.contract, target |-> proof.target,
                        sha |-> proof.sha,
                        name |-> FinalFilename(proof.target, proof.sha)]
            /\ Goto("bundle")
       ELSE Blocked /\ UNCHANGED plan
    /\ UNCHANGED <<world, cache, chosen, proof, files, results, builds>>

\* The bundle compares the decision's names and the digests of its evidence.
Bundle ==
    /\ pc = "bundle"
    /\ IF /\ proof.contract.id = decision.id /\ proof.target.variant = decision.variant
          /\ plan.contract = proof.contract /\ plan.sha = proof.sha
       THEN Goto("planned") ELSE Blocked
    /\ UNCHANGED <<world, cache, chosen, evidence, files, results, builds>>

-----------------------------------------------------------------------------
(* Delivery and promotion.                                                 *)

\* validate_deployment_plan against the catalogue of the process.
ValidPlan ==
    /\ plan.contract \in Catalog /\ plan.target \in plan.contract.targets
    /\ plan.name = FinalFilename(plan.target, plan.sha)
    /\ plan.sha = proof.sha /\ plan.target.status \in Authoritative
    /\ plan.target.strategy = "SD_CARD"

\* Mutant: the plan is validated and the files are not read again.
DeliverUnread ==
    /\ pc = "planned"
    /\ \E state \in {"VERIFIED", "MCU_REENUMERATED", "FAILED"} :
        /\ ValidPlan
        /\ flashes' = flashes \cup {[contract |-> plan.contract, target |-> plan.target,
                                     bytes |-> prepared, name |-> plan.name,
                                     verified |-> state = "VERIFIED"]}
        /\ proofs' = proofs \cup {[plan |-> plan, state |-> state]}
    /\ Goto("delivered")
    /\ UNCHANGED <<world, cache, chosen, evidence, files, requests, builds>>

\* A plan may be left for a manual delivery.  Else the executor validates it and
\* reads both files; SdCardExecutor says what happens to the card.  A delivery
\* that fails may have flashed.
Deliver ==
    /\ pc = "planned"
    /\ \/ /\ ValidPlan /\ native = plan.sha /\ prepared = plan.sha
          /\ \E state \in {"VERIFIED", "MCU_REENUMERATED", "FAILED"} :
                /\ flashes' = flashes \cup
                        {[contract |-> plan.contract, target |-> plan.target,
                          bytes |-> prepared, name |-> plan.name,
                          verified |-> state = "VERIFIED"]}
                /\ proofs' = proofs \cup {[plan |-> plan, state |-> state]}
          /\ Goto("delivered")
       \/ Blocked /\ UNCHANGED <<proofs, flashes>>
    /\ UNCHANGED <<world, cache, chosen, evidence, files, requests, builds>>

\* Mutant: any finished deployment may be promoted.
PromoteAny ==
    /\ pc \in {"delivered", "failed"}
    /\ \E p \in proofs :
        /\ p.plan.contract \in Catalog
        /\ requests' = requests \cup {p.plan}
    /\ UNCHANGED <<world, cache, chosen, evidence, files, proofs, flashes, builds, pc>>

\* create_deployment_promotion_request, for a proof of this process.
Promote ==
    /\ pc \in {"delivered", "failed"}
    /\ \E p \in proofs :
        /\ p.state = "VERIFIED"
        /\ p.plan.contract \in Contract(p.plan.contract.id)
        /\ p.plan.target.status \in Authoritative
        /\ requests' = requests \cup {p.plan}
    /\ UNCHANGED <<world, cache, chosen, evidence, files, proofs, flashes, builds, pc>>

-----------------------------------------------------------------------------
(* Everything else.                                                        *)

Forget ==
    /\ decision' = None /\ reviewed' = None /\ proof' = None /\ plan' = None
    /\ Goto("start")
    /\ UNCHANGED <<world, files, flashes, requests, builds>>

\* The workflow is run again, in the process or in a new one.
Again ==
    /\ pc \in {"failed", "declined", "legacy", "planned", "delivered"}
    /\ Forget /\ UNCHANGED <<cache, proofs>>
Restart == Forget /\ cache' = None /\ proofs' = {}

\* A maintainer replaces or adds a contract; the files need not be consistent.
Edit ==
    /\ edits < MaxEdits /\ edits' = edits + 1
    /\ \E d \in Document \ directory :
        \/ directory' = directory \cup {d}
        \/ \E c \in directory : directory' = (directory \ {c}) \cup {d}
    /\ UNCHANGED <<cache, chosen, evidence, files, results, builds, pc>>

\* Someone else overwrites or removes one of the files of the build.
Overwrite ==
    /\ edits < MaxEdits /\ edits' = edits + 1
    /\ \/ native # None /\ native' = 0 /\ UNCHANGED prepared
       \/ prepared # None /\ prepared' = 0 /\ UNCHANGED native
    /\ UNCHANGED <<directory, cache, chosen, evidence, temporary, results, builds, pc>>

Next == Resolve \/ Review \/ Build \/ FromProof \/ Apply \/ Copy \/ Publish \/ Plan
        \/ Bundle \/ Deliver \/ Promote \/ Again \/ Restart \/ Edit \/ Overwrite

Spec == Init /\ [][Next]_vars

-----------------------------------------------------------------------------

\* A board that some contract supports at runtime is left to the legacy
\* builder under no circumstances, a broken catalogue included.
NoFallback ==
    pc = "legacy" =>
        /\ cache # None /\ Indexed(cache)
        /\ \A d \in cache : decision.alias \in Names(d) =>
                \A t \in d.targets : t.status \notin Authoritative

\* What goes to the board was built from the very contract and target that the
\* operator reviewed, however the contract files changed in the meantime.
ReviewedIsDelivered ==
    pc = "planned" => plan.contract = reviewed.contract /\ plan.target = reviewed.target

\* The board receives the bytes of the build that the plan stands for: a file
\* changed between any two of the checks never reaches the card.
DeliveredIsBuilt ==
    [][\A f \in flashes' \ flashes :
            f.bytes = proof.sha /\ f.contract = proof.contract]_vars

\* A bootloader that ignores a name it has seen never meets one twice: two
\* different images under such a policy have different names.
NewNameEveryBuild ==
    \A f, g \in flashes :
        f.target.mustDiffer /\ f.target = g.target /\ f.bytes # g.bytes => f.name # g.name

\* A request for promotion stands on a verified delivery of that very target
\* of that very contract.
PromotionIsEarned ==
    \A r \in requests :
        \E f \in flashes : f.verified /\ f.contract = r.contract /\ f.target = r.target
                           /\ f.bytes = r.sha
=============================================================================
