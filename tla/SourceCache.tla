----------------------------- MODULE SourceCache -----------------------------
(***************************************************************************)
(* The Klipper source cache that all contract builds share:                *)
(* _prepare_checkout of firmware/boards/kconfig.py validates it and        *)
(* rebuilds it under a file lock, and fetches from it after the lock is    *)
(* released.                                                               *)
(*                                                                         *)
(* A repository on disk is what _validate_source_cache can tell of it.     *)
(***************************************************************************)
EXTENDS Naturals

CONSTANTS
    Process,        \* builds that run on this host
    None,           \* no file, no process
    MaxDamage,      \* bound on damage done to the cache from outside
    MaxFaults       \* bound on git commands and renames that fail

CacheAssumption == None \notin Process

VARIABLES
    cache,          \* what is at the path of the cache
    temporary,      \* the rebuilt repository of each process
    quarantine,     \* the repository that each process moved aside
    lock,           \* holder of the file lock of the cache
    pc,
    checkout,       \* the commit that each process has checked out
    had,            \* there was a cache when the process began to rebuild it
    damage, faults

vars == <<cache, temporary, quarantine, lock, pc, checkout, had, damage, faults>>

Repository == [ours : BOOLEAN, commit : BOOLEAN, intact : BOOLEAN]

\* Mutant: the commit itself is not looked for.
ValidUnchecked(r) == r # None /\ r.ours /\ r.intact

\* _validate_source_cache: bare, of this repository, with an intact commit.
Valid(r) == r # None /\ r.ours /\ r.commit /\ r.intact

Ends == {"built", "failed", "lost", "crashed"}

Init ==
    /\ cache \in Repository \cup {None}
    /\ temporary = [p \in Process |-> None]
    /\ quarantine = [p \in Process |-> None]
    /\ lock = None
    /\ pc = [p \in Process |-> "lock"]
    /\ checkout = [p \in Process |-> None]
    /\ had = [p \in Process |-> FALSE]
    /\ damage = 0 /\ faults = 0

Goto(p, next) == pc' = [pc EXCEPT ![p] = next]
Fault == faults < MaxFaults /\ faults' = faults + 1

\* The cache directory is damaged, or removed to free space.
Damage ==
    /\ damage < MaxDamage /\ damage' = damage + 1
    /\ cache # None
    /\ cache' \in {None, [cache EXCEPT !.intact = FALSE]}
    /\ UNCHANGED <<temporary, quarantine, lock, pc, checkout, had, faults>>

\* exclusive_file_lock, or its timeout, or too little space.
Lock(p) ==
    /\ pc[p] = "lock"
    /\ \/ lock = None /\ lock' = p /\ Goto(p, "validate")
       \/ lock' = lock /\ Goto(p, "failed")
    /\ UNCHANGED <<cache, temporary, quarantine, checkout, had, damage, faults>>

\* A git command that fails makes a good cache invalid as well.
Validate(p) ==
    /\ pc[p] = "validate"
    /\ \/ /\ Valid(cache)
          /\ lock' = None /\ Goto(p, "fetch") /\ UNCHANGED <<had, faults>>
       \/ /\ \/ ~Valid(cache) /\ UNCHANGED faults
             \/ Valid(cache) /\ Fault
          /\ had' = [had EXCEPT ![p] = cache # None]
          /\ Goto(p, "clone") /\ UNCHANGED lock
    /\ UNCHANGED <<cache, temporary, quarantine, checkout, damage>>

-----------------------------------------------------------------------------
(* _rebuild_source_cache.                                                  *)

\* The upstream repository, or the given checkout, may lack the commit.
Clone(p) ==
    /\ pc[p] = "clone"
    /\ \/ /\ \E c \in BOOLEAN : temporary' = [temporary EXCEPT ![p] =
                [ours |-> FALSE, commit |-> c, intact |-> TRUE]]
          /\ Goto(p, "bind") /\ UNCHANGED faults
       \/ Fault /\ Goto(p, "clean") /\ UNCHANGED temporary
    /\ UNCHANGED <<cache, quarantine, lock, checkout, had, damage>>

\* Mutant: what was cloned is not validated.
BindBlindly(p) ==
    /\ pc[p] = "bind"
    /\ temporary' = [temporary EXCEPT ![p].ours = TRUE]
    /\ Goto(p, "move")
    /\ UNCHANGED <<cache, quarantine, lock, checkout, had, damage, faults>>

\* The marker is written and the rebuilt repository validated.
Bind(p) ==
    /\ pc[p] = "bind"
    /\ temporary' = [temporary EXCEPT ![p].ours = TRUE]
    /\ \/ Valid(temporary'[p]) /\ Goto(p, "move") /\ UNCHANGED faults
       \/ ~Valid(temporary'[p]) /\ Goto(p, "clean") /\ UNCHANGED faults
       \/ Fault /\ Goto(p, "clean")
    /\ UNCHANGED <<cache, quarantine, lock, checkout, had, damage>>

\* The previous cache, if any, is moved aside.
Move(p) ==
    /\ pc[p] = "move"
    /\ \/ /\ cache' = None /\ quarantine' = [quarantine EXCEPT ![p] = cache]
          /\ Goto(p, "install") /\ UNCHANGED faults
       \/ Fault /\ Goto(p, "clean") /\ UNCHANGED <<cache, quarantine>>
    /\ UNCHANGED <<temporary, lock, checkout, had, damage>>

Install(p) ==
    /\ pc[p] = "install"
    /\ \/ /\ cache' = temporary[p]
          /\ temporary' = [temporary EXCEPT ![p] = None]
          /\ Goto(p, "discard") /\ UNCHANGED faults
       \/ Fault /\ Goto(p, "restore") /\ UNCHANGED <<cache, temporary>>
    /\ UNCHANGED <<quarantine, lock, checkout, had, damage>>

\* Mutant: the handler of the failed rename only raises.
RestoreNothing(p) ==
    /\ pc[p] = "restore"
    /\ Goto(p, "clean")
    /\ UNCHANGED <<cache, temporary, quarantine, lock, checkout, had, damage, faults>>

\* The previous cache is put back, which may fail as well.
Restore(p) ==
    /\ pc[p] = "restore"
    /\ \/ /\ quarantine[p] # None /\ cache = None
          /\ cache' = quarantine[p]
          /\ quarantine' = [quarantine EXCEPT ![p] = None]
          /\ Goto(p, "clean") /\ UNCHANGED <<lock, temporary, faults>>
       \/ /\ quarantine[p] = None \/ cache # None
          /\ Goto(p, "clean") /\ UNCHANGED <<cache, quarantine, lock, temporary, faults>>
       \/ /\ quarantine[p] # None /\ Fault
          /\ temporary' = [temporary EXCEPT ![p] = None] /\ lock' = None
          /\ Goto(p, "lost") /\ UNCHANGED <<cache, quarantine>>
    /\ UNCHANGED <<checkout, had, damage>>

Discard(p) ==
    /\ pc[p] = "discard"
    /\ quarantine' = [quarantine EXCEPT ![p] = None]
    /\ lock' = None /\ Goto(p, "fetch")
    /\ UNCHANGED <<cache, temporary, checkout, had, damage, faults>>

\* The finally clause, and the release of the lock.
Clean(p) ==
    /\ pc[p] = "clean"
    /\ temporary' = [temporary EXCEPT ![p] = None]
    /\ lock' = None /\ Goto(p, "failed")
    /\ UNCHANGED <<cache, quarantine, checkout, had, damage, faults>>

-----------------------------------------------------------------------------
(* The isolated checkout.                                                  *)

\* git fetch of the validated commit, which git checks by its hash.
Fetch(p) ==
    /\ pc[p] = "fetch"
    /\ \/ /\ cache # None /\ cache.commit /\ cache.intact
          /\ checkout' = [checkout EXCEPT ![p] = "validated"] /\ Goto(p, "head")
          /\ UNCHANGED faults
       \/ /\ ~(cache # None /\ cache.commit /\ cache.intact)
          /\ Goto(p, "unfetched") /\ UNCHANGED <<checkout, faults>>
    /\ UNCHANGED <<cache, temporary, quarantine, lock, had, damage>>

\* Mutant: the fetch is repeated.
UnfetchedAgain(p) ==
    /\ pc[p] = "unfetched"
    /\ Goto(p, "fetch")
    /\ UNCHANGED <<cache, temporary, quarantine, lock, checkout, had, damage, faults>>

\* The failed fetch ends the build.
Unfetched(p) ==
    /\ pc[p] = "unfetched"
    /\ Goto(p, "failed")
    /\ UNCHANGED <<cache, temporary, quarantine, lock, checkout, had, damage, faults>>

\* git checkout, rev-parse HEAD, git status; the build follows.
Head(p) ==
    /\ pc[p] = "head"
    /\ \/ checkout[p] = "validated" /\ Goto(p, "built") /\ UNCHANGED faults
       \/ Fault /\ Goto(p, "failed")
    /\ UNCHANGED <<cache, temporary, quarantine, lock, checkout, had, damage>>

\* A killed process frees the lock and leaves its files where they are.
Crash(p) ==
    /\ pc[p] \notin Ends /\ Fault
    /\ lock' = IF lock = p THEN None ELSE lock
    /\ Goto(p, "crashed")
    /\ UNCHANGED <<cache, temporary, quarantine, checkout, had, damage>>

Step(p) ==
    \/ Lock(p) \/ Validate(p) \/ Clone(p) \/ Bind(p) \/ Move(p) \/ Install(p)
    \/ Restore(p) \/ Discard(p) \/ Clean(p) \/ Fetch(p) \/ Unfetched(p) \/ Head(p)

Next == Damage \/ \E p \in Process : Step(p) \/ Crash(p)

Spec == Init /\ [][Next]_vars /\ \A p \in Process : WF_vars(Step(p))

-----------------------------------------------------------------------------

\* A rebuild never puts a repository at the cache's path that lacks the
\* validated commit, the marker or an intact object; it may put back what it
\* had moved aside (_rebuild_source_cache).
PublishedIsValid ==
    [][cache' # cache /\ cache' # None /\ damage' = damage
         => Valid(cache') \/ \E p \in Process : quarantine[p] = cache']_vars

\* While the cache is neither damaged from outside nor a process crashes or
\* meets a failing command, a build that leaves the lock finds in the cache
\* what it needs: no other build has it moved aside (_prepare_checkout).
FetchFindsCache ==
    (\E p \in Process : pc[p] = "unfetched") => damage + faults > 0

\* A rebuild that fails leaves a cache where there was one, unless the previous
\* cache could not be put back, and no temporary repository.
FailureKeepsCache ==
    [][\A p \in Process : pc[p] = "clean" /\ pc'[p] = "failed"
         => /\ temporary'[p] = None
            /\ had[p] => cache # None \/ damage > 0]_vars

\* All three: what a rebuild publishes, and what it leaves to other builds and
\* to its own failures.
CacheIsSound == []FetchFindsCache /\ PublishedIsValid /\ FailureKeepsCache

\* Every build gets its checkout or fails, also with a failing lock.
BuildEnds == \A p \in Process : <>(pc[p] \in Ends)
=============================================================================
