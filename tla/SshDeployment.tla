---------------------------- MODULE SshDeployment ----------------------------
(***************************************************************************)
(* The SSH deployment up to its configuration transaction: the trust store *)
(* of core/known_hosts.py, the connection and the bounded SFTP session of  *)
(* core/deployer.py.  Several processes connect at once; servers change    *)
(* their keys, refuse the login or fall silent.                            *)
(***************************************************************************)
EXTENDS FiniteSets, Naturals

CONSTANTS
    Process, Host, Key,
    None,           \* no process, nothing written yet
    System,         \* the system's known hosts: pairs <<host, key>>
    MaxReinstalls,  \* bound on servers that change their key
    MaxCrashes      \* bound on processes killed

SystemAssumption == System \subseteq Host \X Key /\ None \notin Process

VARIABLES
    exists, file,   \* the trust file: pairs <<host, key>>
    lock,           \* holder of the thread lock and the file lock together
    server,         \* the key that each host presents
    accepted,       \* pairs that some operator accepted
    pc, host, client, temporary,
    channel,        \* the SFTP channel: "closed" or "open"
    reinstalls, crashes

vars == <<exists, file, lock, server, accepted, pc, host, client, temporary,
          channel, reinstalls, crashes>>
store == <<exists, file, lock>>
world == <<server, reinstalls, crashes>>
session == <<host, client, temporary, channel>>

Init ==
    /\ \E h \in Host, k \in Key :
         exists \in BOOLEAN /\ file \in {{}, {<<h, k>>}} /\ (file # {} => exists)
    /\ lock = None /\ server \in [Host -> Key] /\ accepted = file
    /\ pc = [p \in Process |-> "path"]
    /\ host \in [Process -> Host]
    /\ client = [p \in Process |-> {}]
    /\ temporary = [p \in Process |-> None]
    /\ channel = [p \in Process |-> "closed"]
    /\ reinstalls = 0 /\ crashes = 0

Goto(p, next) == pc' = [pc EXCEPT ![p] = next]

\* Another machine answers for the host, or its keys were made anew.
Reinstall ==
    /\ reinstalls < MaxReinstalls /\ reinstalls' = reinstalls + 1
    /\ \E h \in Host, k \in Key : server' = [server EXCEPT ![h] = k]
    /\ UNCHANGED <<store, accepted, pc, session, crashes>>

-----------------------------------------------------------------------------
(* known_hosts.py.                                                         *)

\* Mutant: the lock is not waited for.
AcquireAlways(p, from, next) ==
    /\ pc[p] = from
    /\ lock' = p /\ Goto(p, next)
    /\ UNCHANGED <<exists, file, accepted, world, session>>

\* known_hosts_lock: both locks within five seconds, or the deployment fails.
Acquire(p, from, next) ==
    /\ pc[p] = from
    /\ \/ lock = None /\ lock' = p /\ Goto(p, next)
       \/ lock # None /\ UNCHANGED lock /\ Goto(p, "ended")
    /\ UNCHANGED <<exists, file, accepted, world, session>>

\* get_known_hosts_path creates the file when there is none.
Create(p) ==
    /\ pc[p] = "create"
    /\ exists' = TRUE /\ file' = IF exists THEN file ELSE {}
    /\ lock' = None /\ Goto(p, "trust")
    /\ UNCHANGED <<accepted, world, session>>

\* persist_host_keys_atomically: the file as it is now, and over it the keys
\* of the client, in a temporary file.
Write(p) ==
    /\ pc[p] = "write"
    /\ temporary' = [temporary EXCEPT ![p] =
          {e \in file : \A c \in client[p] : c[1] # e[1]} \cup client[p]]
    /\ Goto(p, "replace")
    /\ UNCHANGED <<store, accepted, world, host, client, channel>>

\* Closing the client drops the connection and what was staged in it.
Close(p) ==
    /\ client' = [client EXCEPT ![p] = {}]
    /\ channel' = [channel EXCEPT ![p] = "closed"]
    /\ temporary' = [temporary EXCEPT ![p] = None]
    /\ Goto(p, "ended")

\* os.replace and the end of the lock; or an error, and the file stays.
Replace(p) ==
    /\ pc[p] = "replace"
    /\ lock' = None
    /\ \/ /\ file' = temporary[p] /\ exists' = TRUE
          /\ temporary' = [temporary EXCEPT ![p] = None]
          /\ Goto(p, "session") /\ UNCHANGED <<client, channel>>
       \/ Close(p) /\ UNCHANGED <<exists, file>>
    /\ UNCHANGED <<accepted, world, host>>

-----------------------------------------------------------------------------
(* _connect_ssh_client and the host key policy, all under the lock.        *)

\* The keys that a client knows for a host.
Known(p, keys) == {e \in keys : e[1] = host[p]}
Presented(p) == <<host[p], server[host[p]]>>

Load(p) ==
    /\ pc[p] = "load"
    /\ client' = [client EXCEPT ![p] = file]
    /\ Goto(p, "connect")
    /\ UNCHANGED <<store, accepted, world, host, temporary, channel>>

\* Mutant: a host whose key has changed is asked about like an unknown one.
TrustChanged(p) ==
    /\ Presented(p) \notin System \cup client[p]
    /\ accepted' = accepted \cup {Presented(p)}
    /\ client' = [client EXCEPT ![p] = (@ \ Known(p, @)) \cup {Presented(p)}]

\* Mutant: an unknown host is trusted without a question.
TrustSilently(p) ==
    /\ Known(p, System) = {} /\ Known(p, client[p]) = {}
    /\ client' = [client EXCEPT ![p] = @ \cup {Presented(p)}]
    /\ UNCHANGED accepted

\* The host key is known, or the host is unknown and the operator says yes.
TrustKnown(p) ==
    /\ Presented(p) \in System \/ (Known(p, System) = {} /\ Presented(p) \in client[p])
    /\ UNCHANGED <<accepted, client>>
TrustNew(p) ==
    /\ Known(p, System) = {} /\ Known(p, client[p]) = {}
    /\ accepted' = accepted \cup {Presented(p)}
    /\ client' = [client EXCEPT ![p] = @ \cup {Presented(p)}]

\* The login follows; it may be refused, the host may be silent (ten seconds),
\* the key may be another one, the operator may say no: nothing is stored.
Connect(p) ==
    /\ pc[p] = "connect"
    /\ \/ /\ TrustKnown(p) \/ TrustNew(p)
          /\ Goto(p, "write") /\ UNCHANGED <<lock, temporary, channel>>
       \/ Close(p) /\ lock' = None /\ UNCHANGED accepted
    /\ UNCHANGED <<exists, file, world, host>>

-----------------------------------------------------------------------------
(* _open_sftp_bounded, with its timer, and deploy_config.                  *)

Open(p) ==
    /\ pc[p] = "session"
    /\ \/ channel' = [channel EXCEPT ![p] = "open"] /\ Goto(p, "subsystem")
          /\ UNCHANGED <<client, temporary>>
       \/ Close(p)
    /\ UNCHANGED <<store, accepted, world, host>>

\* Mutant: nothing closes a channel whose server does not answer.
NoTimer(p) ==
    /\ pc[p] = "subsystem" /\ channel[p] = "closed"
    /\ UNCHANGED vars

\* The timer of ten seconds closes the channel under the waiting call, or at
\* the moment the session is complete.
Timer(p) ==
    /\ pc[p] \in {"subsystem", "opened"} /\ channel[p] = "open"
    /\ channel' = [channel EXCEPT ![p] = "closed"]
    /\ UNCHANGED <<store, accepted, world, pc, host, client, temporary>>

\* The acknowledgement of the subsystem and the exchange of versions.
Answer(p) ==
    /\ pc[p] = "subsystem" /\ channel[p] = "open"
    /\ Goto(p, "opened")
    /\ UNCHANGED <<store, accepted, world, session>>

\* The call wakes up on a closed channel, or finds it closed at the end.
Broken(p) ==
    /\ pc[p] \in {"subsystem", "opened", "transfer"} /\ channel[p] = "closed"
    /\ Close(p)
    /\ UNCHANGED <<store, accepted, world, host>>

\* The check of the channel; the timer is stopped only after it.
Opened(p) ==
    /\ pc[p] = "opened" /\ channel[p] = "open"
    /\ channel' \in {channel, [channel EXCEPT ![p] = "closed"]}
    /\ Goto(p, "transfer")
    /\ UNCHANGED <<store, accepted, world, host, client, temporary>>

\* The configuration transaction runs over the session; finally both close.
Transfer(p) ==
    /\ pc[p] = "transfer" /\ channel[p] = "open"
    /\ Close(p)
    /\ UNCHANGED <<store, accepted, world, host>>

Crash(p) ==
    /\ crashes < MaxCrashes /\ crashes' = crashes + 1
    /\ pc[p] # "ended" /\ Goto(p, "ended")
    /\ lock' = IF lock = p THEN None ELSE lock
    /\ UNCHANGED <<exists, file, accepted, server, reinstalls, session>>

Run(p) ==
    \/ Acquire(p, "path", "create") \/ Create(p) \/ Acquire(p, "trust", "load")
    \/ Load(p) \/ Connect(p) \/ Write(p) \/ Replace(p)
    \/ Open(p) \/ Broken(p) \/ Opened(p) \/ Transfer(p)

Next == Reinstall \/ \E p \in Process : Run(p) \/ Timer(p) \/ Answer(p) \/ Crash(p)

\* The servers answer when they like; the timer and the code go on.
Spec == Init /\ [][Next]_vars /\ \A p \in Process : WF_vars(Run(p)) /\ WF_vars(Timer(p))

-----------------------------------------------------------------------------

\* Nothing is trusted that no operator accepted (_InteractiveHostKeyPolicy).
TrustIsAccepted == exists => file \subseteq accepted

\* A connection that is handed to its caller rests on a key that is in the
\* store, and stays there whatever the other processes store
\* (persist_host_keys_atomically).
ConnectionIsStored ==
    \A p \in Process : pc[p] \in {"session", "subsystem", "opened", "transfer"} =>
        Known(p, System) # {} \/ (Known(p, client[p]) # {} /\ Known(p, client[p]) \subseteq file)

\* The store never loses a key, nor changes one, through connections and
\* crashes in any order (atomic_write_known_hosts).
TrustOnlyGrows ==
    [][/\ file \subseteq file'
       /\ \A e, f \in file' : e[1] = f[1] => e = f]_vars

\* What is trusted was accepted, what a connection rests on is trusted, and no
\* process undoes what another one stored.
TrustIsKept == [](TrustIsAccepted /\ ConnectionIsStored) /\ TrustOnlyGrows

\* A silent server never holds a deployment forever (_open_sftp_bounded).
SessionEnds == \A p \in Process : <>(pc[p] = "ended")
=============================================================================
