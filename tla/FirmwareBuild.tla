---------------------------- MODULE FirmwareBuild ----------------------------
(***************************************************************************)
(* The legacy firmware build: build_firmware_orchestrator of               *)
(* firmware/builder.py with the build inputs of firmware/identity.py and   *)
(* the artifact of firmware/artifacts.py.                                  *)
(*                                                                         *)
(* All builds share one Klipper checkout, its .config and its out/         *)
(* directory, and so does whoever edits or compiles there by hand.  A file *)
(* is what it was compiled from and the build identifier inside it.        *)
(***************************************************************************)
EXTENDS FiniteSets, Naturals

CONSTANTS
    Process,        \* builds that run on this host
    None,           \* no file, no process, no identity
    Elsewhere,      \* whoever works in the checkout without KACE
    MaxEdits,       \* bound on edits of the sources or of .config by hand
    MaxMakes        \* bound on compilations by hand, or left by a killed build

BuildAssumption == None \notin Process /\ Elsewhere \notin Process

VARIABLES
    lock,           \* holder of .kace-build.lock
    source,         \* the checked-out commit, or Dirty
    config,         \* the resolved .config: whose request it answers
    out,            \* the artifact under out/, or None
    dest,           \* the published file in the output directory
    pc,
    identity,       \* the inputs that each process identified, or None
    retry,          \* the wrapper that disables LTO is in place
    seen,           \* what the sources and .config were while make ran
    result,         \* what each process returned
    mock,           \* make is the placeholder of the development container
    edits, makes,
    strays          \* history: edits by hand between identification and recheck

vars == <<lock, source, config, out, dest, pc, identity, retry, seen, result,
          mock, edits, makes, strays>>
checkout == <<source, config>>
files == <<out, dest>>
own == <<identity, retry, seen, result>>
world == <<mock, edits, makes, strays>>

Dirty == "dirty"
Source == {"pinned", "other", Dirty}

Init ==
    /\ lock = None /\ source \in {"pinned", Dirty} /\ config = Elsewhere
    /\ out = None /\ dest = None
    /\ pc = [p \in Process |-> "lock"]
    /\ identity = [p \in Process |-> None]
    /\ retry = [p \in Process |-> FALSE]
    /\ seen = [p \in Process |-> {}]
    /\ result = [p \in Process |-> None]
    /\ mock \in BOOLEAN /\ edits = 0 /\ makes = 0
    /\ strays = [p \in Process |-> 0]

Goto(p, next) == pc' = [pc EXCEPT ![p] = next]
Ended(p) == pc[p] = "ended"

\* Every return releases the lock; an error publishes no artifact.
Return(p, r) ==
    /\ result' = [result EXCEPT ![p] = r]
    /\ lock' = None
    /\ Goto(p, "ended")
Fail(p) == Return(p, [status |-> "error"])

-----------------------------------------------------------------------------
(* The checkout is also used by hand.                                      *)

Inputs == [source |-> source, config |-> config]
Compiling(p) == pc[p] = "make"
BetweenChecks(p) == pc[p] \in {"validate", "clean", "make", "retry", "recheck"}

\* An edit, a git checkout or a make menuconfig; make may read it at once.
Edit ==
    /\ edits < MaxEdits /\ edits' = edits + 1
    /\ \/ source' \in Source \ {source} /\ UNCHANGED config
       \/ config' = Elsewhere /\ config # Elsewhere /\ UNCHANGED source
       \/ config = Elsewhere /\ UNCHANGED source
          /\ \E p \in Process : lock = p /\ config' = p
    /\ seen' = [p \in Process |->
                  IF Compiling(p) THEN seen[p] \cup {Inputs'} ELSE seen[p]]
    /\ strays' = [p \in Process |-> strays[p] + (IF BetweenChecks(p) THEN 1 ELSE 0)]
    /\ UNCHANGED <<lock, files, pc, identity, retry, result, mock, makes>>

\* A make of somebody else ends.
Make ==
    /\ makes < MaxMakes /\ makes' = makes + 1
    /\ out' = [id |-> Elsewhere, from |-> {Inputs}, lto |-> TRUE, small |-> FALSE]
    /\ UNCHANGED <<lock, checkout, dest, pc, own, mock, edits, strays>>

-----------------------------------------------------------------------------
(* identity.py: the inputs of a build, or no identity when the tracked     *)
(* sources are dirty or a tool cannot be identified.                       *)

Identified(p) == [source |-> source, config |-> config, lto_retry |-> retry[p]]
MayIdentify == source # Dirty

-----------------------------------------------------------------------------
(* The build.                                                              *)

\* Mutant: the build does not wait for the lock.
LockIgnored(p) ==
    /\ pc[p] = "lock"
    /\ lock' = p /\ Goto(p, "configure")
    /\ UNCHANGED <<checkout, files, own, world>>

\* exclusive_file_lock and its timeout.
Lock(p) ==
    /\ pc[p] = "lock"
    /\ \/ lock = None /\ lock' = p /\ Goto(p, "configure") /\ UNCHANGED result
       \/ /\ Goto(p, "ended") /\ UNCHANGED lock
          /\ result' = [result EXCEPT ![p] = [status |-> "error"]]
    /\ UNCHANGED <<checkout, files, identity, retry, seen, world>>

\* The old binaries go, or silently stay; .config is generated and resolved.
Configure(p) ==
    /\ pc[p] = "configure"
    /\ out' \in {None, out}
    /\ \/ config' = p /\ Goto(p, "identify") /\ UNCHANGED <<lock, result>>
       \/ config' \in {config, p} /\ Fail(p)
    /\ UNCHANGED <<source, dest, identity, retry, seen, world>>

\* create_build_inputs; its failure is remembered, not reported yet.
Identify(p) ==
    /\ pc[p] = "identify"
    /\ \/ MayIdentify /\ identity' = [identity EXCEPT ![p] = Identified(p)]
       \/ UNCHANGED identity
    /\ Goto(p, "validate")
    /\ UNCHANGED <<lock, checkout, files, retry, seen, result, world>>

\* validate_config: Klipper kept every requested choice.
Validate(p) ==
    /\ pc[p] = "validate"
    /\ \/ config = p /\ Goto(p, "clean") /\ UNCHANGED <<lock, result>>
       \/ Fail(p)
    /\ UNCHANGED <<checkout, files, identity, retry, seen, world>>

\* make clean; the placeholder make cleans nothing.  Then make begins.
Clean(p) ==
    /\ pc[p] = "clean"
    /\ \/ /\ out' = IF mock THEN out ELSE None
          /\ seen' = [seen EXCEPT ![p] = {Inputs}]
          /\ Goto(p, "make") /\ UNCHANGED <<lock, result>>
       \/ Fail(p) /\ UNCHANGED <<out, seen>>
    /\ UNCHANGED <<checkout, dest, identity, retry, world>>

\* The Makefile with the fingerprint is only used with an identity.
Compiled(p) ==
    [id |-> IF identity[p] = None \/ mock THEN None ELSE p,
     from |-> seen[p], lto |-> ~retry[p], small |-> mock]

\* Mutant: every failure that looks like LTO is tried again.
CompileAgain(p) ==
    /\ pc[p] = "make"
    /\ \/ out' = Compiled(p) /\ Goto(p, "recheck") /\ UNCHANGED <<lock, result>>
       \/ UNCHANGED out /\ Goto(p, "retry") /\ UNCHANGED <<lock, result>>
       \/ UNCHANGED out /\ Fail(p)
    /\ UNCHANGED <<checkout, dest, identity, retry, seen, world>>

Compile(p) ==
    /\ pc[p] = "make"
    /\ \/ out' = Compiled(p) /\ Goto(p, "recheck") /\ UNCHANGED <<lock, result>>
       \/ UNCHANGED out /\ ~retry[p] /\ Goto(p, "retry") /\ UNCHANGED <<lock, result>>
       \/ UNCHANGED out /\ Fail(p)
    /\ UNCHANGED <<checkout, dest, identity, retry, seen, world>>

\* The retry without LTO identifies its inputs again, under the same build_id.
Retry(p) ==
    /\ pc[p] = "retry"
    /\ \/ /\ identity[p] # None => MayIdentify /\ source = identity[p].source
                                              /\ config = identity[p].config
          /\ retry' = [retry EXCEPT ![p] = TRUE]
          /\ identity' = [identity EXCEPT ![p] =
                IF @ = None THEN None ELSE [@ EXCEPT !.lto_retry = TRUE]]
          /\ Goto(p, "clean") /\ UNCHANGED <<lock, result>>
       \/ Fail(p) /\ UNCHANGED <<identity, retry>>
    /\ UNCHANGED <<checkout, files, seen, world>>

\* The inputs after the compilation must be the identified ones.
Recheck(p) ==
    /\ pc[p] = "recheck"
    /\ \/ /\ identity[p] # None => MayIdentify /\ Identified(p) = identity[p]
          /\ Goto(p, "check") /\ UNCHANGED <<lock, result>>
       \/ Fail(p)
    /\ UNCHANGED <<checkout, files, identity, retry, seen, world>>

-----------------------------------------------------------------------------
(* The artifact.                                                           *)

\* The file exists, is fresh and carries the fingerprint of this build.
Check(p) ==
    /\ pc[p] = "check"
    /\ \/ /\ out # None /\ (identity[p] # None /\ ~mock => out.id = p)
          /\ Goto(p, "copy") /\ UNCHANGED <<lock, result>>
       \/ Fail(p)
    /\ UNCHANGED <<checkout, files, identity, retry, seen, world>>

\* shutil.copy2 reads the file again.
Copy(p) ==
    /\ pc[p] = "copy"
    /\ \/ out # None /\ dest' = out /\ Goto(p, "hash") /\ UNCHANGED <<lock, result>>
       \/ UNCHANGED dest /\ Fail(p)
    /\ UNCHANGED <<checkout, out, identity, retry, seen, world>>

\* BuildArtifact.create hashes the published file and completes the identity.
Hash(p) ==
    /\ pc[p] = "hash"
    /\ IF ~mock /\ ~dest.small /\ identity[p] = None THEN Fail(p)
       ELSE Return(p, [status |-> "success", file |-> dest, identity |-> identity[p],
                       flashable |-> ~mock /\ ~dest.small /\ identity[p] # None])
    /\ UNCHANGED <<checkout, files, identity, retry, seen, world>>

\* The process is killed: the kernel frees its lock.
Killed(p) ==
    /\ ~Ended(p)
    /\ lock' = IF lock = p THEN None ELSE lock
    /\ Goto(p, "ended")
    /\ UNCHANGED <<checkout, files, own, world>>

Run(p) ==
    \/ Lock(p) \/ Configure(p) \/ Identify(p) \/ Validate(p) \/ Clean(p)
    \/ Compile(p) \/ Retry(p) \/ Recheck(p) \/ Check(p) \/ Copy(p) \/ Hash(p)

Next == Edit \/ Make \/ \E p \in Process : Run(p) \/ Killed(p)

Spec == Init /\ [][Next]_vars /\ \A p \in Process : WF_vars(Run(p))

-----------------------------------------------------------------------------

Flashable(p) == result[p] # None /\ result[p].status = "success" /\ result[p].flashable
Named(p) == [source |-> result[p].identity.source, config |-> result[p].identity.config]

\* A file that KACE compiled and calls flashable is the one of this build, it
\* was compiled from nothing but the inputs that its identity names, unless an
\* edit was undone before the recheck, and the identity tells whether LTO was
\* disabled (_build_firmware_locked).
IdentityDescribesFile ==
    \A p \in Process : Flashable(p) /\ result[p].file.id # Elsewhere =>
        /\ result[p].file.id = p
        /\ strays[p] <= 1 => result[p].file.from = {Named(p)}
        /\ result[p].file.lto = ~result[p].identity.lto_retry

\* Every build returns.
BuildReturns == \A p \in Process : <>Ended(p)

\* DEPLOYMENT.md: the builder "rejects build inputs that changed during
\* compilation".
ChangedInputsRejected ==
    \A p \in Process : Flashable(p) => Cardinality(seen[p]) = 1

\* DEPLOYMENT.md: build fingerprints "are checked in the binary metadata before
\* publication".
PublishedIsMarked ==
    \A p \in Process : Flashable(p) => result[p].file.id = p
=============================================================================
