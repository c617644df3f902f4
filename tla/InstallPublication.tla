------------------------- MODULE InstallPublication -------------------------
(***************************************************************************)
(* The publication of a staged runtime by install.sh: every runtime path   *)
(* is renamed into a backup and replaced by its staged successor, then the *)
(* wrapper is replaced.  The EXIT trap puts the earlier paths back after a *)
(* failed rename, a failed check or a signal; inside the trap the signals  *)
(* have their default effect again, and SIGKILL may come at any time.      *)
(***************************************************************************)
EXTENDS Naturals

CONSTANTS
    Last,           \* the runtime paths are 1 .. Last, .git first, then the pin file
    Old, New,       \* the version a path or the wrapper belongs to
    Absent          \* no such file

InstallAssumption ==
    /\ Last \in Nat /\ Last >= 2
    /\ Old # New
    /\ Absent \notin {Old, New, "installed", "restored", "failed", "killed", "cut"}

VARIABLES
    installed, backup, staging,     \* what is under each path in the three directories
    wrapper,        \* the commit the kace command insists on
    active,         \* PUBLICATION_ACTIVE
    published,      \* how many of the paths are in PUBLISHED_PATHS
    next, pc,       \* the loop at hand and the position
    result,         \* Absent while it runs: "installed", "restored", "failed",
                    \* or "killed", in the rollback "cut"
    had             \* history: the runtime before this installation

vars == <<installed, backup, staging, wrapper, active, published, next, pc, result, had>>
files == <<installed, backup, staging>>

Path == 1 .. Last
Git == 1
Pin == 2

-----------------------------------------------------------------------------

Init ==
    /\ had \in [Path -> {Old, Absent}] /\ installed = had
    /\ backup = [i \in Path |-> Absent] /\ staging = [i \in Path |-> New]
    /\ wrapper \in {Old, Absent}
    /\ active = TRUE /\ published = 0 /\ next = 1 /\ pc = "backup" /\ result = Absent

\* A command under set -e fails, or a signal ends the script: the EXIT trap.
Exit == pc' = "rollback" /\ next' = 1

\* Mutant: the code is published first, what names its commit last.
PathsReversed(i) == Last + 1 - i

\* _RUNTIME_PATHS
Paths(i) == i

\* The path is in PUBLISHED_PATHS before its first rename.
Backup ==
    /\ pc = "backup" /\ next <= Last
    /\ LET i == Paths(next) IN
       \/ /\ IF installed[i] = Absent THEN UNCHANGED <<installed, backup>>
             ELSE /\ backup' = [backup EXCEPT ![i] = installed[i]]
                  /\ installed' = [installed EXCEPT ![i] = Absent]
          /\ pc' = "place" /\ UNCHANGED next
       \/ installed[i] # Absent /\ Exit /\ UNCHANGED <<installed, backup>>
    /\ published' = next
    /\ UNCHANGED <<staging, wrapper, active, result, had>>

Place ==
    /\ pc = "place"
    /\ LET i == Paths(next) IN
       \/ /\ installed' = [installed EXCEPT ![i] = staging[i]]
          /\ staging' = [staging EXCEPT ![i] = Absent]
          /\ next' = next + 1 /\ pc' = "backup"
       \/ Exit /\ UNCHANGED <<installed, staging>>
    /\ UNCHANGED <<backup, wrapper, active, published, result, had>>

\* The commit, the pin, the imports and VERSION of what is now in place.
Examine ==
    /\ pc = "backup" /\ next > Last
    /\ \/ pc' = "wrapper" /\ UNCHANGED next
       \/ Exit
    /\ UNCHANGED <<files, wrapper, active, published, result, had>>

Wrapper ==
    /\ pc = "wrapper"
    /\ \/ wrapper' = New /\ pc' = "final" /\ UNCHANGED next
       \/ Exit /\ UNCHANGED wrapper
    /\ UNCHANGED <<files, active, published, result, had>>

\* Mutant: the publication stays open until the script ends.
FinalStaysOpen ==
    /\ pc = "final"
    /\ backup' = [i \in Path |-> Absent] /\ pc' = "launch"
    /\ UNCHANGED <<installed, staging, wrapper, active, published, next, result, had>>

\* PUBLICATION_ACTIVE=0, and the backup is removed.
Final ==
    /\ pc = "final" /\ active' = FALSE
    /\ backup' = [i \in Path |-> Absent] /\ pc' = "launch"
    /\ UNCHANGED <<installed, staging, wrapper, published, next, result, had>>

\* KACE is launched, or not, and the script exits with its status.
Launch ==
    /\ pc = "launch"
    /\ pc' \in {"rollback", "remove"} /\ next' = 1
    /\ UNCHANGED <<files, wrapper, active, published, result, had>>

Signal ==
    /\ pc \in {"backup", "place", "wrapper", "final", "launch"}
    /\ Exit
    /\ UNCHANGED <<files, wrapper, active, published, result, had>>

-----------------------------------------------------------------------------
(* _cleanup_installer and rollback_publication.                            *)

\* Both directories are kept for a recovery by hand.
Fails == pc' = "done" /\ result' = "failed" /\ UNCHANGED next

\* Mutant: whatever is in the way is moved aside.
DisplacesOriginal(i) == installed[i] # Absent

\* A path whose backup failed still has its successor in staging.
Displaces(i) == staging[i] = Absent /\ installed[i] # Absent

Rollback ==
    /\ pc = "rollback" /\ active /\ next <= published
    /\ LET i == Paths(next) IN
       \/ /\ installed' = [installed EXCEPT ![i] = IF Displaces(i) THEN Absent ELSE @]
          /\ pc' = "restore" /\ UNCHANGED <<next, result>>
       \/ Displaces(i) /\ Fails /\ UNCHANGED installed
    /\ UNCHANGED <<backup, staging, wrapper, active, published, had>>

Restore ==
    /\ pc = "restore"
    /\ LET i == Paths(next) IN
       \/ /\ IF backup[i] = Absent THEN UNCHANGED <<installed, backup>>
             ELSE /\ installed' = [installed EXCEPT ![i] = backup[i]]
                  /\ backup' = [backup EXCEPT ![i] = Absent]
          /\ next' = next + 1 /\ pc' = "rollback" /\ UNCHANGED result
       \/ backup[i] # Absent /\ Fails /\ UNCHANGED <<installed, backup>>
    /\ UNCHANGED <<staging, wrapper, active, published, had>>

RolledBack ==
    /\ pc = "rollback" /\ (active => next > published)
    /\ active' = FALSE /\ pc' = "remove"
    /\ result' = IF active THEN "restored" ELSE result
    /\ UNCHANGED <<files, wrapper, published, next, had>>

\* The two directories of the transaction are removed.
Remove ==
    /\ pc = "remove"
    /\ backup' = [i \in Path |-> Absent] /\ staging' = [i \in Path |-> Absent]
    /\ pc' = "done" /\ result' = IF result = Absent THEN "installed" ELSE result
    /\ UNCHANGED <<installed, wrapper, active, published, next, had>>

\* SIGKILL, the loss of power, or a second Ctrl+C inside the trap.
Kill ==
    /\ pc # "done" /\ pc' = "done"
    /\ result' = IF pc \in {"rollback", "restore"} THEN "cut" ELSE "killed"
    /\ UNCHANGED <<files, wrapper, active, published, next, had>>

Next ==
    \/ Backup \/ Place \/ Examine \/ Wrapper \/ Final \/ Launch \/ Signal
    \/ Rollback \/ Restore \/ RolledBack \/ Remove \/ Kill

Spec == Init /\ [][Next]_vars

-----------------------------------------------------------------------------

\* Until the new runtime has its wrapper and the publication is closed, every
\* earlier path is still there, in its place or in the backup: also when the
\* installer is killed between two renames, a rename back fails, or the first
\* one failed and its successor never came.
NothingIsLost ==
    active \/ result \in {"restored", "failed"} =>
        \A i \in Path : had[i] = Old => Old \in {installed[i], backup[i]}

\* An installer that ends by itself leaves the whole earlier runtime, nothing
\* of the staged one among it, or the whole new one with its wrapper, unless
\* it says that the recovery failed.
EndsWhole ==
    pc = "done" =>
        /\ result = "restored" => installed = had
        /\ result = "installed" => /\ wrapper = New
                                   /\ \A i \in Path : installed[i] = New

\* The kace command never starts code of one version under the name of the
\* other one while the runtime is being published: the repository and the pin
\* file, which it compares, are replaced before any code.  Only a rollback
\* that is under way or was cut short may let it start a mixture.
RefusesMixture ==
    (wrapper # Absent /\ installed[Git] = wrapper /\ installed[Pin] = wrapper)
        => \/ \A i \in Path : installed[i] \in {wrapper, Absent}
           \/ pc \in {"rollback", "restore"} \/ result \in {"failed", "cut"}

\* Wherever the installer is stopped, nothing of the earlier runtime is lost, an
\* end that claims to be whole is, and no mixture starts under either name.
RuntimeIsWhole == NothingIsLost /\ EndsWhole /\ RefusesMixture
=============================================================================
