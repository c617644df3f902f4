---------------------------- MODULE ContractBuild ----------------------------
(***************************************************************************)
(* One contractual firmware build in its isolated checkout:                *)
(* _build_in_checkout of firmware/boards/kconfig.py, from the requested    *)
(* Kconfig values to the evidence directory and its proof.  The tools      *)
(* (olddefconfig, make, the compilers) answer as they like.                *)
(***************************************************************************)
EXTENDS Naturals

CONSTANTS
    Symbol,         \* Kconfig symbols
    Requested,      \* requested_kconfig: a function from some symbols
    Asserted,       \* resolved_assertions: a function from some symbols
    None            \* no value

TargetAssumption ==
    DOMAIN Requested \subseteq Symbol /\ DOMAIN Asserted \subseteq Symbol

VARIABLES
    declared,       \* symbols that the checkout's Kconfig files declare
    resolved,       \* .config after olddefconfig: a value or None per symbol
    injected,       \* the fingerprint is in the Makefile
    noLto,          \* KACE_CC_DISABLE_LTO of the next attempt
    attempts,       \* compilations so far
    objects,        \* attempts whose object files are in the tree
    log,            \* attempts whose flags are in the audit log
    native,         \* the artifact that the last attempt produced, or None
    evidence,       \* files in the evidence directory
    proof,          \* build-proof.json, or None
    pc

vars == <<declared, resolved, injected, noLto, attempts, objects, log, native,
          evidence, proof, pc>>
inputs == <<declared, resolved, injected>>
compiled == <<noLto, attempts, objects, log, native>>
output == <<evidence, proof>>

Values == {TRUE, FALSE, None}

Init ==
    /\ declared \in SUBSET Symbol
    /\ resolved = None /\ injected = FALSE /\ noLto = FALSE /\ attempts = 0
    /\ objects = {} /\ log = {} /\ native = None
    /\ evidence = {} /\ proof = None /\ pc = "configure"

Goto(next) == pc' = next

-----------------------------------------------------------------------------
(* Configuration.                                                          *)

\* verify_declared_symbols, for the selections and for the assertions.
Declared == DOMAIN Requested \cup DOMAIN Asserted \subseteq declared

\* verify_requested_selections and verify_resolved_assertions.
Kept(r) == \A s \in DOMAIN Requested : r[s] = Requested[s]
Confirmed(r) == \A s \in DOMAIN Asserted : r[s] = Asserted[s]

\* olddefconfig drops, changes and adds values; or it fails.
Configure ==
    /\ pc = "configure"
    /\ \/ /\ Declared
          /\ resolved' \in [Symbol -> Values]
          /\ IF Kept(resolved') /\ Confirmed(resolved')
             THEN Goto("toolchain") ELSE Goto("failed")
       \/ Goto("failed") /\ UNCHANGED resolved
    /\ UNCHANGED <<declared, injected, compiled, output>>

\* _identify_toolchain, _prepare_compiler_audit, _inject_firmware_fingerprint;
\* each may refuse: a tool is missing, the Makefile has drifted.
Identify ==
    /\ pc = "toolchain"
    /\ \/ injected' = TRUE /\ log' = {} /\ Goto("compile")
       \/ Goto("failed") /\ UNCHANGED <<injected, log>>
    /\ UNCHANGED <<declared, resolved, noLto, attempts, objects, native, output>>

-----------------------------------------------------------------------------
(* Compilation, with one retry without LTO.                                *)

\* An attempt reuses the object files it finds; every compiler call is logged.
Attempt(outcome) ==
    /\ attempts' = attempts + 1
    /\ objects' = objects \cup {[lto |-> ~noLto]}
    /\ log' = log \cup {[lto |-> ~noLto]}
    /\ native' = IF outcome = "ok" THEN [objects |-> objects', marked |-> injected]
                 ELSE native
    /\ UNCHANGED <<inputs, noLto, output>>

Compile ==
    /\ pc = "compile"
    /\ \/ Attempt("ok") /\ Goto("verify")
       \/ Attempt("lto") /\ Goto("clean")
       \/ Attempt("error") /\ Goto("failed")

\* Mutant: the audit log keeps the flags of the failed attempt.
CleanKeepsLog ==
    /\ pc = "clean"
    /\ noLto' = TRUE
    /\ \/ objects' = {} /\ native' = None /\ Goto("retry")
       \/ UNCHANGED <<objects, native>> /\ Goto("failed")
    /\ UNCHANGED <<inputs, attempts, log, output>>

\* The log is emptied and make clean run before the retry.
Clean ==
    /\ pc = "clean"
    /\ noLto' = TRUE /\ log' = {}
    /\ \/ objects' = {} /\ native' = None /\ Goto("retry")
       \/ UNCHANGED <<objects, native>> /\ Goto("failed")
    /\ UNCHANGED <<inputs, attempts, output>>

Retry ==
    /\ pc = "retry"
    /\ \/ Attempt("ok") /\ Goto("verify")
       \/ Attempt("error") /\ Goto("failed")

-----------------------------------------------------------------------------
(* Verification and evidence.                                              *)

\* The artifact policy, the native file and the fingerprint inside it.
Verify ==
    /\ pc = "verify"
    /\ \/ native.marked /\ Goto("evidence")
       \/ Goto("failed")
    /\ UNCHANGED <<inputs, compiled, output>>

\* The files are written one by one, and the proof last and at once; an error
\* of the file system leaves the directory without a proof.
Evidence == <<"requested.config", "resolved.config", "artifact">>

Write(i) ==
    /\ pc = "evidence"
    /\ evidence = {Evidence[j] : j \in 1..(i - 1)}
    /\ \/ evidence' = evidence \cup {Evidence[i]} /\ Goto("evidence")
       \/ UNCHANGED evidence /\ Goto("failed")
    /\ UNCHANGED <<inputs, compiled, proof>>

\* Mutant: the proof is published before the files it names.
ProveEarly ==
    /\ pc = "evidence"
    /\ proof' = [attempts |-> attempts, retry |-> attempts > 1, effective |-> log,
                 resolved |-> resolved]
    /\ IF evidence = {Evidence[j] : j \in 1..3} THEN Goto("built") ELSE Goto("evidence")
    /\ UNCHANGED <<inputs, compiled, evidence>>

Prove ==
    /\ pc = "evidence" /\ evidence = {Evidence[j] : j \in 1..3}
    /\ \/ /\ proof' = [attempts |-> attempts, retry |-> attempts > 1,
                       effective |-> log, resolved |-> resolved]
          /\ Goto("built")
       \/ UNCHANGED proof /\ Goto("failed")
    /\ UNCHANGED <<inputs, compiled, evidence>>

\* Ctrl+C or a kill; the disposable workspace goes, the evidence stays.
Interrupt ==
    /\ pc \notin {"built", "failed"}
    /\ Goto("failed")
    /\ UNCHANGED <<inputs, compiled, output>>

Step == Configure \/ Identify \/ Compile \/ Clean \/ Retry \/ Verify
        \/ (\E i \in 1..3 : Write(i)) \/ Prove

Next == Step \/ Interrupt

Spec == Init /\ [][Next]_vars

-----------------------------------------------------------------------------

\* A proof is about the artifact beside it: its configuration keeps every
\* requested and asserted value, and the flags it calls effective are those of
\* the objects in the artifact, also after the retry without LTO.
ProofDescribesArtifact ==
    proof # None =>
        /\ \A s \in DOMAIN Requested : proof.resolved[s] = Requested[s]
        /\ \A s \in DOMAIN Asserted : proof.resolved[s] = Asserted[s]
        /\ native.marked
        /\ proof.effective = native.objects
        /\ proof.retry => [lto |-> TRUE] \notin native.objects

\* Wherever the build is interrupted, a proof is never without the files that
\* it names: a directory without a proof is the only thing left half-way.
ProofIsLast == proof # None => evidence = {Evidence[j] : j \in 1..3}
=============================================================================
