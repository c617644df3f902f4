------------------------------ MODULE HostProofs ------------------------------
(***************************************************************************)
(* Theorems about the parts of the host, for any number of processes,      *)
(* hosts, keys, paths and events.  Each is about one component and uses    *)
(* the variables of that component only.                                   *)
(***************************************************************************)
EXTENDS HostParts, TLAPS

USE DEF Ssh!store, Ssh!world, Ssh!session

-----------------------------------------------------------------------------
(* SshDeployment: the trust store, and what rests on it.                   *)

Pairs == Host \X Key

\* A set of pairs with one key for each host.
OneKeyEach(keys) == \A e, f \in keys : e[1] = f[1] => e = f

\* The positions inside known_hosts_lock.
Locked == {"create", "load", "connect", "write", "replace"}
\* The positions after it, with a connection.
Connected == {"session", "subsystem", "opened", "transfer"}

TrustTypeInv ==
    /\ exists \in BOOLEAN /\ trust \subseteq Pairs /\ accepted \subseteq Pairs
    /\ server \in [Host -> Key] /\ host \in [Process -> Host]
    /\ sshPc \in [Process -> {"path", "trust", "ended"} \cup Locked \cup Connected]
    /\ client \in [Process -> SUBSET Pairs]
    /\ DOMAIN temporary = Process
    /\ DOMAIN channel = Process

\* The lock is held exactly by the process that is inside.
TrustLockInv == \A p \in Process : sshPc[p] \in Locked => trustLock = p

\* The store holds one key for each host, each of them accepted, and nothing
\* before it exists.
StoreInv ==
    /\ OneKeyEach(trust) /\ trust \subseteq accepted
    /\ ~exists => trust = {}

\* The operator's word, or the system's, for the host of this process.
Vouched(p) == Ssh!Known(p, System) # {} \/ Ssh!Known(p, client[p]) # {}

\* What a process carries towards the store, while nobody else can change it.
CarriedInv ==
    \A p \in Process :
        /\ sshPc[p] = "connect" => client[p] = trust
        /\ sshPc[p] = "write" =>
              /\ trust \subseteq client[p] /\ OneKeyEach(client[p])
              /\ client[p] \subseteq accepted /\ Vouched(p)
        /\ sshPc[p] = "replace" =>
              /\ trust \subseteq temporary[p] /\ client[p] \subseteq temporary[p]
              /\ OneKeyEach(temporary[p]) /\ temporary[p] \subseteq accepted
              /\ temporary[p] \subseteq Pairs /\ Vouched(p)

\* What a connection rests on is in the store.
ConnectedInv ==
    \A p \in Process :
        sshPc[p] \in Connected => client[p] \subseteq trust /\ Vouched(p)

TrustInv == TrustTypeInv /\ TrustLockInv /\ StoreInv /\ CarriedInv /\ ConnectedInv

-----------------------------------------------------------------------------
(* One step of one process.                                                *)

\* A process carries and keeps what the invariant asks of it.
Lands(p) ==
    /\ sshPc[p] \in Locked => trustLock = p
    /\ sshPc[p] = "connect" => client[p] = trust
    /\ sshPc[p] = "write" =>
          /\ trust \subseteq client[p] /\ OneKeyEach(client[p])
          /\ client[p] \subseteq accepted /\ Vouched(p)
    /\ sshPc[p] = "replace" =>
          /\ trust \subseteq temporary[p] /\ client[p] \subseteq temporary[p]
          /\ OneKeyEach(temporary[p]) /\ temporary[p] \subseteq accepted
          /\ temporary[p] \subseteq Pairs /\ Vouched(p)
    /\ sshPc[p] \in Connected => client[p] \subseteq trust /\ Vouched(p)

\* What a step of p leaves to the others: their own variables, the lock unless
\* it was free or p's, the keys in the store and the accepted ones.
Leaves(p) ==
    /\ UNCHANGED host
    /\ \A q \in Process \ {p} :
          sshPc'[q] = sshPc[q] /\ client'[q] = client[q] /\ temporary'[q] = temporary[q]
    /\ trustLock' = trustLock \/ trustLock = p \/ trustLock = None
    /\ trust' = trust \/ trustLock = p
    /\ trust \subseteq trust' /\ accepted \subseteq accepted'

-----------------------------------------------------------------------------

\* The first state satisfies the invariant.
LEMMA TrustInit ==
  ASSUME Ssh!Init
  PROVE  TrustInv
<1>1. PICK h \in Host, k \in Key : trust \in {{}, {<<h, k>>}}
  BY DEF Ssh!Init
<1>2. trust \subseteq Pairs /\ OneKeyEach(trust)
  BY <1>1 DEF Pairs, OneKeyEach
<1>3. TrustTypeInv
  BY <1>2 DEF Ssh!Init, TrustTypeInv, Locked, Connected
<1> QED
  BY <1>2, <1>3 DEF Ssh!Init, TrustInv, TrustLockInv, StoreInv, CarriedInv, ConnectedInv,
     Locked,
                    Connected

\* Such a step disturbs nobody else.
LEMMA OthersStay ==
  ASSUME Ssh!SystemAssumption, TrustInv, NEW p \in Process, Leaves(p),
         NEW q \in Process, q # p
  PROVE  Lands(q)'
<1>1. Vouched(q)' = Vouched(q)
  BY DEF Vouched, Ssh!Known, Leaves
<1>2. sshPc[q] \in Locked => trust' = trust /\ trustLock' = q
  BY DEF TrustInv, TrustLockInv, Leaves, Ssh!SystemAssumption
<1> QED
  BY <1>1, <1>2 DEF TrustInv, CarriedInv, ConnectedInv, Lands, Leaves, Locked, Connected

\* So the invariant is kept by a step that lands.
LEMMA StepKeeps ==
  ASSUME Ssh!SystemAssumption, TrustInv, NEW p \in Process, Leaves(p), Lands(p)',
         TrustTypeInv', StoreInv'
  PROVE  TrustInv'
<1>1. \A q \in Process : Lands(q)'
  BY OthersStay
<1> QED
  BY <1>1 DEF TrustInv, TrustLockInv, CarriedInv, ConnectedInv, Lands

\* Closing leaves nothing behind.
LEMMA CloseEffect ==
  ASSUME TrustInv, NEW p \in Process, Ssh!Close(p), UNCHANGED <<exists, trust, accepted,
      Ssh!world, host>>,
         trustLock' = trustLock \/ (trustLock = p /\ trustLock' = None)
  PROVE  Leaves(p) /\ Lands(p)' /\ TrustTypeInv' /\ StoreInv'
  BY DEF Ssh!Close, Ssh!Goto, TrustInv, TrustTypeInv, StoreInv, Lands, Leaves, Locked,
     Connected

\* The steps of a process that keeps the store as it is: every one of Run but
\* Create and Replace, and the timer, the server's answer and a kill.
LEMMA QuietSteps ==
  ASSUME TrustInv, NEW p \in Process,
         \/ Ssh!Acquire(p, "path", "create") \/ Ssh!Acquire(p, "trust", "load")
         \/ Ssh!Load(p) \/ Ssh!Open(p) \/ Ssh!Broken(p) \/ Ssh!Opened(p) \/ Ssh!Transfer(p)
         \/ Ssh!Timer(p) \/ Ssh!Answer(p) \/ Ssh!Crash(p)
  PROVE  Leaves(p) /\ Lands(p)' /\ TrustTypeInv' /\ StoreInv'
<1> USE DEF TrustInv, TrustTypeInv, StoreInv, Lands, Leaves, Locked, Connected, Ssh!Goto
<1>1. CASE Ssh!Acquire(p, "path", "create")
  BY <1>1 DEF Ssh!Acquire
<1>2. CASE Ssh!Acquire(p, "trust", "load")
  BY <1>2 DEF Ssh!Acquire
<1>3. CASE Ssh!Load(p)
  BY <1>3 DEF Ssh!Load, TrustLockInv
<1>4. CASE Ssh!Open(p)
  BY <1>4, CloseEffect DEF Ssh!Open, ConnectedInv, Vouched, Ssh!Known
<1>5. CASE Ssh!Broken(p)
  BY <1>5, CloseEffect DEF Ssh!Broken
<1>6. CASE Ssh!Opened(p)
  BY <1>6 DEF Ssh!Opened, ConnectedInv, Vouched, Ssh!Known
<1>7. CASE Ssh!Transfer(p)
  BY <1>7, CloseEffect DEF Ssh!Transfer
<1>8. CASE Ssh!Timer(p)
  BY <1>8 DEF Ssh!Timer, ConnectedInv, Vouched, Ssh!Known
<1>9. CASE Ssh!Answer(p)
  BY <1>9 DEF Ssh!Answer, ConnectedInv, Vouched, Ssh!Known
<1>10. CASE Ssh!Crash(p)
  BY <1>10 DEF Ssh!Crash
<1> QED
  BY <1>1, <1>2, <1>3, <1>4, <1>5, <1>6, <1>7, <1>8, <1>9, <1>10

\* The trust file is created empty, and only where there is none.
LEMMA CreateStep ==
  ASSUME TrustInv, NEW p \in Process, Ssh!Create(p)
  PROVE  Leaves(p) /\ Lands(p)' /\ TrustTypeInv' /\ StoreInv'
  BY DEF TrustInv, TrustTypeInv, StoreInv, TrustLockInv, Lands, Leaves, Locked, Connected,
     Ssh!Create, Ssh!Goto

\* A connection adds at most the key that the operator accepted for a host
\* that the store did not know.
LEMMA ConnectStep ==
  ASSUME TrustInv, NEW p \in Process, Ssh!Connect(p)
  PROVE  Leaves(p) /\ Lands(p)' /\ TrustTypeInv' /\ StoreInv'
<1>1. sshPc[p] = "connect" /\ trustLock = p /\ client[p] = trust
  BY DEF Ssh!Connect, TrustInv, TrustLockInv, CarriedInv, Locked
<1>2. CASE Ssh!Close(p) /\ trustLock' = None /\ UNCHANGED accepted
  BY <1>1, <1>2, CloseEffect DEF Ssh!Connect
<1>3. CASE Ssh!TrustKnown(p) /\ Ssh!Goto(p, "write") /\ UNCHANGED <<trustLock, temporary,
    channel>>
  <2>1. Vouched(p)
    BY <1>3 DEF Ssh!TrustKnown, Vouched, Ssh!Known, Ssh!Presented
  <2>2. UNCHANGED <<exists, trust, accepted, Ssh!world, host, client, trustLock, temporary,
      channel>>
    BY <1>3 DEF Ssh!Connect, Ssh!TrustKnown
  <2>3. Vouched(p)'
    BY <2>1, <2>2 DEF Vouched, Ssh!Known
  <2> QED
    BY <1>1, <1>3, <2>2, <2>3
       DEF TrustInv, TrustTypeInv, StoreInv, Lands, Leaves, Locked, Connected, Ssh!Goto
<1>4. CASE Ssh!TrustNew(p) /\ Ssh!Goto(p, "write") /\ UNCHANGED <<trustLock, temporary,
    channel>>
  <2>1. UNCHANGED <<exists, trust, Ssh!world, host, trustLock, temporary, channel>>
    BY <1>4 DEF Ssh!Connect
  <2>2. Ssh!Presented(p) \in Pairs /\ Ssh!Presented(p)[1] = host[p]
    BY DEF Ssh!Presented, Pairs, TrustInv, TrustTypeInv
  <2>3. /\ client'[p] = trust \cup {Ssh!Presented(p)}
        /\ accepted' = accepted \cup {Ssh!Presented(p)}
        /\ \A e \in trust : e[1] # Ssh!Presented(p)[1]
    BY <1>1, <1>4, <2>2 DEF Ssh!TrustNew, Ssh!Known, TrustInv, TrustTypeInv
  <2>4. OneKeyEach(client'[p])
    BY <2>3 DEF OneKeyEach, TrustInv, StoreInv
  <2>5. Vouched(p)'
    BY <2>1, <2>2, <2>3 DEF Vouched, Ssh!Known
  <2>6. TrustTypeInv'
    BY <1>4, <2>1, <2>2 DEF Ssh!TrustNew, TrustInv, TrustTypeInv, Locked, Ssh!Goto
  <2>7. Leaves(p)
    BY <1>4, <2>1, <2>3 DEF Ssh!TrustNew, Leaves, Ssh!Goto, TrustInv, TrustTypeInv
  <2>8. StoreInv'
    BY <2>1, <2>3 DEF StoreInv, TrustInv, OneKeyEach
  <2>9. sshPc'[p] = "write"
    BY <1>4 DEF Ssh!Goto, TrustInv, TrustTypeInv
  <2> QED
    BY <1>1, <2>1, <2>3, <2>4, <2>5, <2>6, <2>7, <2>8, <2>9
       DEF Lands, Locked, Connected, TrustInv, StoreInv
<1> QED
  BY <1>2, <1>3, <1>4 DEF Ssh!Connect

\* What is staged is the store and, over it, the keys of the client.
LEMMA WriteStep ==
  ASSUME TrustInv, NEW p \in Process, Ssh!Write(p)
  PROVE  Leaves(p) /\ Lands(p)' /\ TrustTypeInv' /\ StoreInv'
<1>1. /\ sshPc[p] = "write" /\ trustLock = p /\ trust \subseteq client[p]
      /\ OneKeyEach(client[p]) /\ client[p] \subseteq accepted /\ Vouched(p)
  BY DEF Ssh!Write, TrustInv, TrustLockInv, CarriedInv, Locked
<1>2. /\ temporary'[p] = client[p] /\ sshPc'[p] = "replace"
      /\ UNCHANGED <<Ssh!store, accepted, Ssh!world, host, client, channel>>
  BY <1>1 DEF Ssh!Write, TrustInv, TrustTypeInv, Ssh!Goto
<1>3. Vouched(p)'
  BY <1>1, <1>2 DEF Vouched, Ssh!Known
<1>4. Leaves(p) /\ TrustTypeInv'
  BY <1>2 DEF Ssh!Write, TrustInv, TrustTypeInv, Leaves, Ssh!Goto, Locked
<1>5. Lands(p)'
  BY <1>1, <1>2, <1>3 DEF Lands, Locked, Connected, TrustInv, TrustTypeInv
<1> QED
  BY <1>2, <1>4, <1>5 DEF TrustInv, StoreInv

\* The replacement loses no key and changes none.
LEMMA ReplaceStep ==
  ASSUME TrustInv, NEW p \in Process, Ssh!Replace(p)
  PROVE  Leaves(p) /\ Lands(p)' /\ TrustTypeInv' /\ StoreInv'
<1>1. /\ sshPc[p] = "replace" /\ trustLock = p /\ trustLock' = None
      /\ trust \subseteq temporary[p] /\ client[p] \subseteq temporary[p]
      /\ OneKeyEach(temporary[p]) /\ temporary[p] \subseteq accepted
      /\ temporary[p] \subseteq Pairs /\ Vouched(p)
  BY DEF Ssh!Replace, TrustInv, TrustLockInv, CarriedInv, Locked
<1>2. CASE Ssh!Close(p) /\ UNCHANGED <<exists, trust>>
  BY <1>1, <1>2, CloseEffect DEF Ssh!Replace
<1>3. CASE ~(Ssh!Close(p) /\ UNCHANGED <<exists, trust>>)
  <2>1. /\ trust' = temporary[p] /\ exists' = TRUE
        /\ temporary' = [temporary EXCEPT ![p] = None]
        /\ Ssh!Goto(p, "session") /\ UNCHANGED <<client, channel, accepted, Ssh!world, host>>
    BY <1>3 DEF Ssh!Replace
  <2>2. Vouched(p)'
    BY <1>1, <2>1 DEF Vouched, Ssh!Known
  <2>3. Leaves(p) /\ TrustTypeInv'
    BY <1>1, <2>1 DEF TrustInv, TrustTypeInv, Leaves, Ssh!Goto, Connected
  <2>4. sshPc'[p] = "session" /\ client'[p] = client[p]
    BY <2>1 DEF Ssh!Goto, TrustInv, TrustTypeInv
  <2>5. Lands(p)'
    BY <1>1, <2>1, <2>2, <2>4 DEF Lands, Locked, Connected
  <2> QED
    BY <1>1, <2>1, <2>3, <2>5 DEF StoreInv
<1> QED
  BY <1>2, <1>3

\* Every step keeps the invariant and every key of the store.
LEMMA TrustNext ==
  ASSUME Ssh!SystemAssumption, TrustInv, [Ssh!Next]_(Ssh!vars)
  PROVE  TrustInv' /\ trust \subseteq trust'
<1>1. CASE Ssh!Reinstall
  <2>1. server' \in [Host -> Key]
    BY <1>1 DEF Ssh!Reinstall, TrustInv, TrustTypeInv
  <2>2. UNCHANGED <<exists, trust, trustLock, accepted, sshPc, host, client, temporary,
      channel>>
    BY <1>1 DEF Ssh!Reinstall
  <2> QED
    BY <2>1, <2>2 DEF TrustInv, TrustTypeInv, TrustLockInv, StoreInv, CarriedInv,
       ConnectedInv,
                      Vouched, Ssh!Known
<1>2. ASSUME NEW p \in Process, Ssh!Run(p) \/ Ssh!Timer(p) \/ Ssh!Answer(p) \/ Ssh!Crash(p)
      PROVE  TrustInv' /\ trust \subseteq trust'
  <2>1. Leaves(p) /\ Lands(p)' /\ TrustTypeInv' /\ StoreInv'
    BY <1>2, QuietSteps, CreateStep, ConnectStep, WriteStep, ReplaceStep DEF Ssh!Run
  <2> QED
    BY <2>1, StepKeeps DEF Leaves
<1>3. CASE UNCHANGED Ssh!vars
  BY <1>3 DEF Ssh!vars, TrustInv, TrustTypeInv, TrustLockInv, StoreInv, CarriedInv,
     ConnectedInv,
              Vouched, Ssh!Known
<1> QED
  BY <1>1, <1>2, <1>3 DEF Ssh!Next

-----------------------------------------------------------------------------
(* The theorems.                                                           *)

\* The trust store under its lock, and what the connections rest on.
THEOREM TrustInvariance == Ssh!SystemAssumption => (Ssh!Spec => []TrustInv)
<1> SUFFICES ASSUME Ssh!SystemAssumption
             PROVE  Ssh!Spec => []TrustInv
  OBVIOUS
<1>1. Ssh!Init => TrustInv
  BY TrustInit
<1>2. TrustInv /\ [Ssh!Next]_(Ssh!vars) => TrustInv'
  BY TrustNext
<1> QED
  BY <1>1, <1>2, PTL DEF Ssh!Spec

\* Nothing is trusted that no operator accepted, a connection rests on a key
\* that is and stays in the store, and the store only grows, one key for each
\* host: known_hosts_lock and persist_host_keys_atomically, whatever processes,
\* crashes and servers do.
THEOREM TrustIsKeptAlways == Ssh!SystemAssumption => (Ssh!Spec => TrustIsKept)
<1> SUFFICES ASSUME Ssh!SystemAssumption
             PROVE  Ssh!Spec => TrustIsKept
  OBVIOUS
<1>1. TrustInv => Ssh!TrustIsAccepted /\ Ssh!ConnectionIsStored
  <2> SUFFICES ASSUME TrustInv
               PROVE  Ssh!TrustIsAccepted /\ Ssh!ConnectionIsStored
    OBVIOUS
  <2>1. Ssh!TrustIsAccepted
    BY DEF TrustInv, StoreInv, Ssh!TrustIsAccepted
  <2>2. ASSUME NEW p \in Process, sshPc[p] \in Connected
        PROVE  \/ Ssh!Known(p, System) # {}
               \/ Ssh!Known(p, client[p]) # {} /\ Ssh!Known(p, client[p]) \subseteq trust
    BY <2>2 DEF TrustInv, ConnectedInv, Vouched, Ssh!Known
  <2> QED
    BY <2>1, <2>2 DEF Ssh!ConnectionIsStored, Connected
<1>2. TrustInv /\ TrustInv' /\ [Ssh!Next]_(Ssh!vars)
        => [/\ trust \subseteq trust'
            /\ \A e, f \in trust' : e[1] = f[1] => e = f]_(Ssh!vars)
  BY TrustNext DEF TrustInv, StoreInv, OneKeyEach
<1> QED
  BY <1>1, <1>2, TrustInvariance, PTL DEF Ssh!Spec, TrustIsKept, Ssh!TrustIsKept, Ssh!TrustOnlyGrows

USE DEF Install!files

-----------------------------------------------------------------------------
(* InstallPublication: the paths of the runtime.                           *)

InstallTypeInv ==
    /\ installed \in [Install!Path -> {Old, New, Absent}] /\ before \in [Install!Path -> {Old, Absent}]
    /\ backup \in [Install!Path -> {Old, Absent}] /\ staging \in [Install!Path -> {New, Absent}]
    /\ wrapper \in {Old, New, Absent}
    /\ active \in BOOLEAN
    /\ published \in 0 .. Last /\ next \in 1 .. Last + 1
    /\ installPc \in {"backup", "place", "wrapper", "final", "launch", "rollback",
               "restore", "remove", "done"}
    /\ outcome \in {Absent, "installed", "restored", "failed", "killed", "cut"}
    /\ outcome \in {"installed", "failed", "killed", "cut"} => installPc = "done"
    /\ installPc = "done" => outcome # Absent

\* Where a path is: not yet begun, in the backup, replaced.
Untouched(i) == installed[i] = before[i] /\ backup[i] = Absent /\ staging[i] = New
Moved(i) == installed[i] = Absent /\ backup[i] = before[i] /\ staging[i] = New
Placed(i) == installed[i] = New /\ backup[i] = before[i] /\ staging[i] = Absent
\* In the rollback: out of the way, and back.
Cleared(i) == installed[i] = Absent /\ backup[i] = before[i]
Back(i) == installed[i] = before[i] /\ backup[i] = Absent

\* The loop goes through the paths in order, and the wrapper comes last.
ForwardInv ==
    /\ installPc \in {"backup", "place"} =>
          /\ active /\ outcome = Absent /\ wrapper # New
          /\ published = (IF installPc = "place" THEN next ELSE next - 1)
          /\ \A i \in Install!Path : (i < next => Placed(i)) /\ (i > next => Untouched(i))
          /\ next \in Install!Path => IF installPc = "place" THEN Moved(next) ELSE Untouched(next)
    /\ installPc = "place" => next \in Install!Path
    /\ installPc \in {"wrapper", "final"} =>
          /\ active /\ outcome = Absent /\ (wrapper = New <=> installPc = "final")
          /\ published = Last /\ \A i \in Install!Path : Placed(i)

\* Once the publication is closed the new runtime is whole.
ClosedInv ==
    /\ installPc \in {"launch", "remove"} => ~active
    /\ ~active /\ outcome # "restored" /\ installPc # "done" =>
          /\ wrapper = New /\ outcome = Absent
          /\ \A i \in Install!Path : installed[i] = New

\* What a rollback can put back: a path that was not begun, or a published one.
Recoverable(i) == Untouched(i) \/ (i <= published /\ (Moved(i) \/ Placed(i)))

\* The rollback goes through the published paths in order.
RollbackInv ==
    /\ installPc = "rollback" /\ active =>
          /\ outcome = Absent
          /\ \A i \in Install!Path : IF i < next THEN Back(i) ELSE Recoverable(i)
    /\ installPc = "restore" =>
          /\ active /\ next \in Install!Path /\ outcome = Absent
          /\ \A i \in Install!Path : (i < next => Back(i)) /\ (i > next => Recoverable(i))
          /\ Back(next) \/ Cleared(next)
    /\ outcome = "restored" => installed = before

InstallInv == InstallTypeInv /\ ForwardInv /\ ClosedInv /\ RollbackInv /\ Install!RuntimeIsWhole

-----------------------------------------------------------------------------

\* The first state satisfies the invariant.
LEMMA InstallInit ==
  ASSUME Install!InstallAssumption, Install!Init
  PROVE  InstallInv
<1> USE DEF Install!InstallAssumption, Install!Init, Install!Path
<1>1. InstallTypeInv
  BY DEF InstallTypeInv
<1>2. ForwardInv /\ ClosedInv /\ RollbackInv
  BY DEF ForwardInv, ClosedInv, RollbackInv, Untouched
<1>3. Install!NothingIsLost /\ Install!EndsWhole
  BY DEF Install!NothingIsLost, Install!EndsWhole
<1>4. Install!RefusesMixture
  BY DEF Install!RefusesMixture, Install!Git, Install!Pin
<1> QED
  BY <1>1, <1>2, <1>3, <1>4 DEF InstallInv, Install!RuntimeIsWhole

\* Every step keeps the types.
LEMMA InstallTypeNext ==
  ASSUME Install!InstallAssumption, InstallInv, Install!Next
  PROVE  InstallTypeInv'
<1> USE DEF InstallInv, InstallTypeInv, Install!InstallAssumption, Install!Path,
    ForwardInv, ClosedInv, RollbackInv, Recoverable, Untouched, Moved, Placed, Back, Cleared
<1>1. CASE Install!Backup
  <2>1. next \in Install!Path /\ installed[next] \in {Old, Absent} /\ published' \in 0 .. Last
    BY <1>1 DEF Install!Backup
  <2>2. backup' \in [Install!Path -> {Old, Absent}]
    BY <1>1, <2>1 DEF Install!Backup, Install!Paths
  <2> QED
    BY <1>1, <2>1, <2>2 DEF Install!Backup, Install!Paths, Install!Exit
<1>2. CASE Install!Place
  BY <1>2 DEF Install!Place, Install!Paths, Install!Exit
<1>3. CASE Install!Examine
  BY <1>3 DEF Install!Examine, Install!Exit
<1>4. CASE Install!Wrapper
  BY <1>4 DEF Install!Wrapper, Install!Exit
<1>5. CASE Install!Final
  BY <1>5 DEF Install!Final
<1>6. CASE Install!Launch
  BY <1>6 DEF Install!Launch
<1>7. CASE Install!Signal
  BY <1>7 DEF Install!Signal, Install!Exit
<1>8. CASE Install!Rollback
  BY <1>8 DEF Install!Rollback, Install!Paths, Install!Displaces, Install!Fails
<1>9. CASE Install!Restore
  BY <1>9 DEF Install!Restore, Install!Paths, Install!Fails
<1>10. CASE Install!RolledBack
  BY <1>10 DEF Install!RolledBack
<1>11. CASE Install!Remove
  BY <1>11 DEF Install!Remove
<1>12. CASE Install!Kill
  BY <1>12 DEF Install!Kill
<1> QED
  BY <1>1, <1>2, <1>3, <1>4, <1>5, <1>6,
     <1>7, <1>8, <1>9, <1>10, <1>11, <1>12 DEF Install!Next

\* Every step keeps the order of the publication.
LEMMA ForwardNext ==
  ASSUME Install!InstallAssumption, InstallInv, Install!Next
  PROVE  ForwardInv'
<1> USE DEF InstallInv, InstallTypeInv, Install!InstallAssumption, Install!Path,
    ForwardInv, ClosedInv, Recoverable, Untouched, Moved, Placed, Back, Cleared
<1>1. CASE Install!Backup
  BY <1>1 DEF Install!Backup, Install!Paths, Install!Exit
<1>2. CASE Install!Place
  BY <1>2 DEF Install!Place, Install!Paths, Install!Exit
<1>3. CASE Install!Examine
  BY <1>3 DEF Install!Examine, Install!Exit
<1>4. CASE Install!Wrapper
  BY <1>4 DEF Install!Wrapper, Install!Exit
<1>5. CASE Install!Final
  BY <1>5 DEF Install!Final
<1>6. CASE Install!Launch
  BY <1>6 DEF Install!Launch
<1>7. CASE Install!Signal
  BY <1>7 DEF Install!Signal, Install!Exit
<1>8. CASE Install!Rollback
  BY <1>8 DEF Install!Rollback, Install!Paths, Install!Displaces, Install!Fails
<1>9. CASE Install!Restore
  BY <1>9 DEF Install!Restore, Install!Paths, Install!Fails
<1>10. CASE Install!RolledBack
  BY <1>10 DEF Install!RolledBack
<1>11. CASE Install!Remove
  BY <1>11 DEF Install!Remove
<1>12. CASE Install!Kill
  BY <1>12 DEF Install!Kill
<1> QED
  BY <1>1, <1>2, <1>3, <1>4, <1>5, <1>6,
     <1>7, <1>8, <1>9, <1>10, <1>11, <1>12 DEF Install!Next

\* Every step keeps what a closed publication means.
LEMMA ClosedNext ==
  ASSUME Install!InstallAssumption, InstallInv, Install!Next
  PROVE  ClosedInv'
<1> USE DEF InstallInv, InstallTypeInv, Install!InstallAssumption, Install!Path,
    ForwardInv, ClosedInv, RollbackInv, Recoverable, Untouched, Moved, Placed, Back, Cleared
<1>1. CASE Install!Backup
  BY <1>1 DEF Install!Backup, Install!Paths, Install!Exit
<1>2. CASE Install!Place
  BY <1>2 DEF Install!Place, Install!Paths, Install!Exit
<1>3. CASE Install!Examine
  BY <1>3 DEF Install!Examine, Install!Exit
<1>4. CASE Install!Wrapper
  BY <1>4 DEF Install!Wrapper, Install!Exit
<1>5. CASE Install!Final
  BY <1>5 DEF Install!Final
<1>6. CASE Install!Launch
  BY <1>6 DEF Install!Launch
<1>7. CASE Install!Signal
  BY <1>7 DEF Install!Signal, Install!Exit
<1>8. CASE Install!Rollback
  BY <1>8 DEF Install!Rollback, Install!Paths, Install!Displaces, Install!Fails
<1>9. CASE Install!Restore
  BY <1>9 DEF Install!Restore, Install!Paths, Install!Fails
<1>10. CASE Install!RolledBack
  BY <1>10 DEF Install!RolledBack
<1>11. CASE Install!Remove
  BY <1>11 DEF Install!Remove
<1>12. CASE Install!Kill
  BY <1>12 DEF Install!Kill
<1> QED
  BY <1>1, <1>2, <1>3, <1>4, <1>5, <1>6,
     <1>7, <1>8, <1>9, <1>10, <1>11, <1>12 DEF Install!Next

\* Every step keeps the order of the rollback.
LEMMA RollbackNext ==
  ASSUME Install!InstallAssumption, InstallInv, Install!Next
  PROVE  RollbackInv'
<1> USE DEF InstallInv, InstallTypeInv, Install!InstallAssumption, Install!Path,
    ForwardInv, ClosedInv, RollbackInv, Recoverable, Untouched, Moved, Placed, Back, Cleared
<1>1. CASE Install!Backup
  BY <1>1 DEF Install!Backup, Install!Paths, Install!Exit
<1>2. CASE Install!Place
  BY <1>2 DEF Install!Place, Install!Paths, Install!Exit
<1>3. CASE Install!Examine
  BY <1>3 DEF Install!Examine, Install!Exit
<1>4. CASE Install!Wrapper
  BY <1>4 DEF Install!Wrapper, Install!Exit
<1>5. CASE Install!Final
  BY <1>5 DEF Install!Final
<1>6. CASE Install!Launch
  BY <1>6 DEF Install!Launch
<1>7. CASE Install!Signal
  BY <1>7 DEF Install!Signal, Install!Exit
<1>8. CASE Install!Rollback
  BY <1>8 DEF Install!Rollback, Install!Paths, Install!Displaces, Install!Fails
<1>9. CASE Install!Restore
  BY <1>9 DEF Install!Restore, Install!Paths, Install!Fails
<1>10. CASE Install!RolledBack
  BY <1>10 DEF Install!RolledBack
<1>11. CASE Install!Remove
  BY <1>11 DEF Install!Remove
<1>12. CASE Install!Kill
  BY <1>12 DEF Install!Kill
<1> QED
  BY <1>1, <1>2, <1>3, <1>4, <1>5, <1>6,
     <1>7, <1>8, <1>9, <1>10, <1>11, <1>12 DEF Install!Next

\* No step loses a path of the earlier runtime.
LEMMA LossNext ==
  ASSUME Install!InstallAssumption, InstallInv, Install!Next
  PROVE  Install!NothingIsLost'
<1> USE DEF InstallInv, InstallTypeInv, Install!InstallAssumption, Install!Path,
    ForwardInv, ClosedInv, RollbackInv, Recoverable, Untouched, Moved, Placed, Back,
        Cleared, Install!RuntimeIsWhole, Install!NothingIsLost
<1>1. CASE Install!Backup
  BY <1>1 DEF Install!Backup, Install!Paths, Install!Exit
<1>2. CASE Install!Place
  BY <1>2 DEF Install!Place, Install!Paths, Install!Exit
<1>3. CASE Install!Examine
  BY <1>3 DEF Install!Examine, Install!Exit
<1>4. CASE Install!Wrapper
  BY <1>4 DEF Install!Wrapper, Install!Exit
<1>5. CASE Install!Final
  BY <1>5 DEF Install!Final
<1>6. CASE Install!Launch
  BY <1>6 DEF Install!Launch
<1>7. CASE Install!Signal
  BY <1>7 DEF Install!Signal, Install!Exit
<1>8. CASE Install!Rollback
  BY <1>8 DEF Install!Rollback, Install!Paths, Install!Displaces, Install!Fails
<1>9. CASE Install!Restore
  BY <1>9 DEF Install!Restore, Install!Paths, Install!Fails
<1>10. CASE Install!RolledBack
  BY <1>10 DEF Install!RolledBack
<1>11. CASE Install!Remove
  BY <1>11 DEF Install!Remove
<1>12. CASE Install!Kill
  BY <1>12 DEF Install!Kill
<1> QED
  BY <1>1, <1>2, <1>3, <1>4, <1>5, <1>6,
     <1>7, <1>8, <1>9, <1>10, <1>11, <1>12 DEF Install!Next

\* No step ends with less than the whole.
LEMMA EndNext ==
  ASSUME Install!InstallAssumption, InstallInv, Install!Next
  PROVE  Install!EndsWhole'
<1> USE DEF InstallInv, InstallTypeInv, Install!InstallAssumption, Install!Path,
    ForwardInv, ClosedInv, RollbackInv, Install!RuntimeIsWhole, Install!EndsWhole
<1>1. CASE Install!Backup
  BY <1>1 DEF Install!Backup, Install!Paths, Install!Exit
<1>2. CASE Install!Place
  BY <1>2 DEF Install!Place, Install!Paths, Install!Exit
<1>3. CASE Install!Examine
  BY <1>3 DEF Install!Examine, Install!Exit
<1>4. CASE Install!Wrapper
  BY <1>4 DEF Install!Wrapper, Install!Exit
<1>5. CASE Install!Final
  BY <1>5 DEF Install!Final
<1>6. CASE Install!Launch
  BY <1>6 DEF Install!Launch
<1>7. CASE Install!Signal
  BY <1>7 DEF Install!Signal, Install!Exit
<1>8. CASE Install!Rollback
  BY <1>8 DEF Install!Rollback, Install!Paths, Install!Displaces, Install!Fails
<1>9. CASE Install!Restore
  BY <1>9 DEF Install!Restore, Install!Paths, Install!Fails
<1>10. CASE Install!RolledBack
  BY <1>10 DEF Install!RolledBack
<1>11. CASE Install!Remove
  BY <1>11 DEF Install!Remove
<1>12. CASE Install!Kill
  BY <1>12 DEF Install!Kill
<1> QED
  BY <1>1, <1>2, <1>3, <1>4, <1>5, <1>6,
     <1>7, <1>8, <1>9, <1>10, <1>11, <1>12 DEF Install!Next

\* No step makes a mixture that starts.
LEMMA MixtureNext ==
  ASSUME Install!InstallAssumption, InstallInv, Install!Next
  PROVE  Install!RefusesMixture'
<1> USE DEF InstallInv, InstallTypeInv, Install!InstallAssumption, Install!Path,
    ForwardInv, ClosedInv, RollbackInv, Recoverable, Untouched, Moved, Placed, Back,
        Cleared, Install!RuntimeIsWhole, Install!RefusesMixture, Install!Git, Install!Pin
<1>1. CASE Install!Backup
  BY <1>1 DEF Install!Backup, Install!Paths, Install!Exit
<1>2. CASE Install!Place
  BY <1>2 DEF Install!Place, Install!Paths, Install!Exit
<1>3. CASE Install!Examine
  BY <1>3 DEF Install!Examine, Install!Exit
<1>4. CASE Install!Wrapper
  BY <1>4 DEF Install!Wrapper, Install!Exit
<1>5. CASE Install!Final
  BY <1>5 DEF Install!Final
<1>6. CASE Install!Launch
  BY <1>6 DEF Install!Launch
<1>7. CASE Install!Signal
  BY <1>7 DEF Install!Signal, Install!Exit
<1>8. CASE Install!Rollback
  BY <1>8 DEF Install!Rollback, Install!Paths, Install!Displaces, Install!Fails
<1>9. CASE Install!Restore
  BY <1>9 DEF Install!Restore, Install!Paths, Install!Fails
<1>10. CASE Install!RolledBack
  BY <1>10 DEF Install!RolledBack
<1>11. CASE Install!Remove
  BY <1>11 DEF Install!Remove
<1>12. CASE Install!Kill
  BY <1>12 DEF Install!Kill
<1> QED
  BY <1>1, <1>2, <1>3, <1>4, <1>5, <1>6,
     <1>7, <1>8, <1>9, <1>10, <1>11, <1>12 DEF Install!Next

\* Every step keeps the invariant.
LEMMA InstallNext ==
  ASSUME Install!InstallAssumption, InstallInv, [Install!Next]_(Install!vars)
  PROVE  InstallInv'
<1>1. CASE Install!Next
  BY <1>1, InstallTypeNext, ForwardNext, ClosedNext, RollbackNext, LossNext, EndNext,
     MixtureNext DEF InstallInv, Install!RuntimeIsWhole
<1>2. CASE UNCHANGED Install!vars
  <2> USE <1>2 DEF Install!vars, InstallInv
  <2>1. InstallTypeInv' /\ ForwardInv' /\ ClosedInv' /\ RollbackInv'
    BY DEF InstallTypeInv, ForwardInv, ClosedInv, RollbackInv, Untouched, Moved, Placed,
       Back, Cleared,
           Recoverable
  <2>2. Install!RuntimeIsWhole'
    BY DEF Install!RuntimeIsWhole, Install!NothingIsLost, Install!EndsWhole,
       Install!RefusesMixture
  <2> QED
    BY <2>1, <2>2
<1> QED
  BY <1>1, <1>2

-----------------------------------------------------------------------------
(* The theorem.                                                            *)

\* Wherever a signal, a failing rename or a kill stops the installer, nothing of
\* the earlier runtime is lost while it may be needed, an end that claims to be
\* whole is, and the wrapper starts no mixture: rename_runtime_paths,
\* rollback_publication and the traps of install.sh.
THEOREM RuntimeIsWholeAlways == Install!InstallAssumption => (Install!Spec => []RuntimeIsWhole)
<1> SUFFICES ASSUME Install!InstallAssumption
             PROVE  Install!Spec => []RuntimeIsWhole
  OBVIOUS
<1>1. Install!Init => InstallInv
  BY InstallInit
<1>2. InstallInv /\ [Install!Next]_(Install!vars) => InstallInv'
  BY InstallNext
<1>3. InstallInv => RuntimeIsWhole
  BY DEF InstallInv, RuntimeIsWhole
<1> QED
  BY <1>1, <1>2, <1>3, PTL DEF Install!Spec

-----------------------------------------------------------------------------
(* PowerControl: the relay.                                                *)

\* A request is under way, and the relay was switched, only with a control that
\* was read from a valid file.
RelayInv ==
    /\ powerFile.kind \in {"missing", "unreadable", "mapping"}
    /\ powerFile.kind = "mapping" => powerFile.data \in Power!Config
    /\ powerPc \in {"idle", "settle", "send", "confirm", "fresh"}
    /\ powerPc # "idle" \/ switched => control = "ready"
    /\ control = "ready" => /\ powerFile.kind = "mapping" /\ powerFile.data.enabled
                            /\ powerFile.data.device = "well"

\* The first state satisfies the invariant.
LEMMA RelayInit ==
  ASSUME Power!Init
  PROVE  RelayInv
  BY DEF Power!Init, RelayInv

\* Every step keeps it.
LEMMA RelayNext ==
  ASSUME RelayInv, [Power!Next]_(Power!vars)
  PROVE  RelayInv'
<1> USE DEF RelayInv
<1>1. CASE Power!Configure
  <2>1. control' = "ready" => /\ powerFile.kind = "mapping" /\ powerFile.data.enabled
                              /\ Power!Valid(powerFile.data)
    BY <1>1 DEF Power!Configure
  <2>2. control' = "ready" => powerFile.data.device = "well"
    BY <2>1 DEF Power!Valid, Power!Config
  <2> QED
    BY <1>1, <2>1, <2>2 DEF Power!Configure
<1>2. CASE Power!Switches \/ Power!Restarts
  BY <1>2 DEF Power!Switches, Power!Restarts, Power!Event
<1>3. CASE Power!Late
  BY <1>3 DEF Power!Late
<1>4. CASE Power!Refresh
  BY <1>4 DEF Power!Refresh, Power!Report
<1>5. CASE Power!Request("on") \/ Power!Request("off")
  BY <1>5 DEF Power!Request
<1>6. CASE Power!Settle
  BY <1>6 DEF Power!Settle, Power!Failed, Power!Report
<1>7. CASE Power!Send
  BY <1>7 DEF Power!Send, Power!Failed, Power!Report
<1>8. CASE Power!Confirm
  BY <1>8 DEF Power!Confirm, Power!Failed, Power!Report
<1>9. CASE Power!Fresh
  BY <1>9 DEF Power!Fresh, Power!Failed, Power!Report
<1>10. CASE UNCHANGED Power!vars
  BY <1>10 DEF Power!vars
<1> QED
  BY <1>1, <1>2, <1>3, <1>4, <1>5, <1>6, <1>7, <1>8, <1>9, <1>10
     DEF Power!Next, Power!Step

\* A report of on or off is the state of the relay in the same moment.
LEMMA ReportStep ==
  ASSUME [Power!Next]_(Power!vars), result' # result,
         result'.state # "unknown"
  PROVE  /\ api /\ relay = result'.state
         /\ result'.confirmed => result'.state = action
<1>1. Power!Refresh \/ Power!Settle \/ Power!Send \/ Power!Confirm \/ Power!Fresh
  BY DEF Power!Next, Power!Step, Power!vars, Power!Configure, Power!Switches,
         Power!Restarts, Power!Event, Power!Late, Power!Request
<1>2. ~Power!Failed
  BY DEF Power!Failed, Power!Report
<1>3. Power!Refresh \/ Power!Fresh
  BY <1>1, <1>2 DEF Power!Settle, Power!Send, Power!Confirm
<1>4. CASE Power!Refresh
  BY <1>4 DEF Power!Refresh, Power!Report
<1>5. CASE Power!Fresh
  <2>1. api /\ Power!Report(relay, relay = action)
    BY <1>2, <1>5 DEF Power!Fresh
  <2>2. result'.state = relay /\ result'.confirmed = (relay = action)
    BY <2>1 DEF Power!Report
  <2> QED
    BY <2>1, <2>2
<1> QED
  BY <1>3, <1>4, <1>5

\* The relay is switched only under a configuration that names a valid device
\* and enables it, and the operator is shown what the relay is in at that
\* moment: load_power_config and MoonrakerPowerController, whatever other
\* clients and a late Moonraker do.
THEOREM RelayIsReportedAlways == Power!Spec => RelayIsReported
<1>1. Power!Init => RelayInv
  BY RelayInit
<1>2. RelayInv /\ [Power!Next]_(Power!vars) => RelayInv'
  BY RelayNext
<1>3. RelayInv => Power!SwitchedOnlyAsConfigured
  BY DEF RelayInv, Power!SwitchedOnlyAsConfigured
<1>4. [Power!Next]_(Power!vars)
        => [result' # result /\ result'.state # "unknown"
              => /\ api /\ relay = result'.state
                 /\ result'.confirmed => result'.state = action]_(Power!vars)
  BY ReportStep
<1> QED
  BY <1>1, <1>2, <1>3, <1>4, PTL
     DEF Power!Spec, RelayIsReported, Power!RelayIsReported, Power!ReportIsCurrent

-----------------------------------------------------------------------------
(* SourceCache: the shared source cache.                                   *)

\* The positions inside the file lock, and those of a rebuild.
Rebuilding == {"clone", "bind", "move", "install", "restore", "discard", "clean"}
Inside == {"validate"} \cup Rebuilding

CacheTypeInv ==
    /\ cachePc \in [Process -> {"lock", "fetch", "unfetched", "head"} \cup Inside
                                 \cup Cache!Ends]
    /\ cache \in Cache!Repository \cup {None}
    /\ renewed \in [Process -> Cache!Repository \cup {None}]
    /\ quarantine \in [Process -> Cache!Repository \cup {None}]
    /\ had \in [Process -> BOOLEAN]
    /\ damage \in Nat /\ faults \in Nat

\* One process at a time is inside the lock.
CacheLockInv == \A p \in Process : cachePc[p] \in Inside => cacheLock = p

\* What a rebuild is about to publish is a repository, and a valid one.
RenewedInv ==
    \A p \in Process :
        /\ cachePc[p] \in {"bind", "move", "install"} => renewed[p] \in Cache!Repository
        /\ cachePc[p] \in {"move", "install"} => Cache!Valid(renewed[p])

\* A cache that was there is there, or with the process that moved it aside.
KeptInv ==
    \A p \in Process : had[p] /\ damage = 0 =>
        /\ cachePc[p] \in {"clone", "bind", "move", "clean"} => cache # None
        /\ cachePc[p] \in {"install", "restore"} => quarantine[p] # None

\* Without damage and failing commands nobody rebuilds a valid cache, so what a
\* process validated is still there when it fetches.
FoundInv ==
    damage = 0 /\ faults = 0 =>
        \A p \in Process :
            /\ cachePc[p] \in {"clone", "bind", "move", "install"} => ~Cache!Valid(cache)
            /\ cachePc[p] \in {"discard", "fetch"} => Cache!Valid(cache)
            /\ cachePc[p] \notin {"restore", "unfetched"}

CacheInv == CacheTypeInv /\ CacheLockInv /\ RenewedInv /\ KeptInv /\ FoundInv

\* The first state satisfies the invariant.
LEMMA CacheInit ==
  ASSUME Cache!Init
  PROVE  CacheInv
  BY DEF Cache!Init, CacheInv, CacheTypeInv, CacheLockInv, RenewedInv, KeptInv, FoundInv,
         Inside, Rebuilding, Cache!Repository

\* A clone makes a repository, or nothing yet.
LEMMA CloneMakes ==
  ASSUME CacheInv, NEW p \in Process, Cache!Clone(p)
  PROVE  /\ renewed' \in [Process -> Cache!Repository \cup {None}]
         /\ cachePc'[p] = "bind" => renewed'[p] \in Cache!Repository
         /\ \A q \in Process : q # p => renewed'[q] = renewed[q]
<1>1. CASE \E r \in Cache!Repository : renewed' = [renewed EXCEPT ![p] = r]
  BY <1>1 DEF CacheInv, CacheTypeInv
<1>2. CASE renewed' = renewed /\ cachePc' = [cachePc EXCEPT ![p] = "clean"]
  BY <1>2 DEF CacheInv, CacheTypeInv
<1>3. \A c \in BOOLEAN : [ours |-> FALSE, commit |-> c, intact |-> TRUE] \in Cache!Repository
  BY DEF Cache!Repository
<1> QED
  BY <1>1, <1>2, <1>3 DEF Cache!Clone, Cache!Goto

\* A process keeps the types.
LEMMA CacheTypeStep ==
  ASSUME Cache!CacheAssumption, CacheInv, NEW p \in Process,
         Cache!Step(p) \/ Cache!Crash(p)
  PROVE  CacheTypeInv'
<1> USE DEF CacheInv, CacheTypeInv, Inside, Rebuilding, Cache!Ends, Cache!Goto, Cache!Fault,
            Cache!Repository
<1>1. CASE Cache!Lock(p)
  BY <1>1 DEF Cache!Lock
<1>2. CASE Cache!Validate(p)
  <2>1. (cache # None) \in BOOLEAN
    OBVIOUS
  <2>2. had' \in [Process -> BOOLEAN]
    BY <1>2, <2>1 DEF Cache!Validate
  <2> QED
    BY <1>2, <2>2 DEF Cache!Validate
<1>3. CASE Cache!Clone(p)
  <2>1. renewed' \in [Process -> Cache!Repository \cup {None}]
    BY <1>3, CloneMakes
  <2> QED
    BY <1>3, <2>1 DEF Cache!Clone
<1>4. CASE Cache!Bind(p)
  <2>1. [renewed[p] EXCEPT !.ours = TRUE] \in Cache!Repository
    BY <1>4 DEF Cache!Bind, RenewedInv
  <2>2. renewed' \in [Process -> Cache!Repository \cup {None}]
    BY <1>4, <2>1 DEF Cache!Bind
  <2> QED
    BY <1>4, <2>2 DEF Cache!Bind
<1>5. CASE Cache!Move(p)
  BY <1>5 DEF Cache!Move
<1>6. CASE Cache!Install(p)
  BY <1>6 DEF Cache!Install
<1>7. CASE Cache!Restore(p)
  BY <1>7 DEF Cache!Restore
<1>8. CASE Cache!Discard(p)
  BY <1>8 DEF Cache!Discard
<1>9. CASE Cache!Clean(p)
  BY <1>9 DEF Cache!Clean
<1>10. CASE Cache!Fetch(p)
  BY <1>10 DEF Cache!Fetch
<1>11. CASE Cache!Unfetched(p)
  BY <1>11 DEF Cache!Unfetched
<1>12. CASE Cache!Head(p)
  BY <1>12 DEF Cache!Head
<1>13. CASE Cache!Crash(p)
  BY <1>13 DEF Cache!Crash
<1> QED
  BY <1>1, <1>2, <1>3, <1>4, <1>5, <1>6, <1>7, <1>8, <1>9, <1>10, <1>11, <1>12, <1>13 DEF Cache!Step

\* It enters the lock only when nobody is inside.
LEMMA CacheLockStep ==
  ASSUME Cache!CacheAssumption, CacheInv, NEW p \in Process,
         Cache!Step(p) \/ Cache!Crash(p)
  PROVE  CacheLockInv'
<1> USE DEF CacheInv, CacheTypeInv, CacheLockInv, Inside, Rebuilding, Cache!Ends, Cache!Goto,
            Cache!CacheAssumption
<1>1. CASE Cache!Lock(p)
  BY <1>1 DEF Cache!Lock
<1>2. CASE Cache!Validate(p)
  BY <1>2 DEF Cache!Validate
<1>3. CASE Cache!Clone(p)
  BY <1>3 DEF Cache!Clone
<1>4. CASE Cache!Bind(p)
  BY <1>4 DEF Cache!Bind
<1>5. CASE Cache!Move(p)
  BY <1>5 DEF Cache!Move
<1>6. CASE Cache!Install(p)
  BY <1>6 DEF Cache!Install
<1>7. CASE Cache!Restore(p)
  BY <1>7 DEF Cache!Restore
<1>8. CASE Cache!Discard(p)
  BY <1>8 DEF Cache!Discard
<1>9. CASE Cache!Clean(p)
  BY <1>9 DEF Cache!Clean
<1>10. CASE Cache!Fetch(p)
  BY <1>10 DEF Cache!Fetch
<1>11. CASE Cache!Unfetched(p)
  BY <1>11 DEF Cache!Unfetched
<1>12. CASE Cache!Head(p)
  BY <1>12 DEF Cache!Head
<1>13. CASE Cache!Crash(p)
  BY <1>13 DEF Cache!Crash
<1> QED
  BY <1>1, <1>2, <1>3, <1>4, <1>5, <1>6, <1>7, <1>8, <1>9, <1>10, <1>11, <1>12, <1>13 DEF Cache!Step

\* It moves the old cache aside only with a valid successor.
LEMMA RenewedStep ==
  ASSUME Cache!CacheAssumption, CacheInv, NEW p \in Process,
         Cache!Step(p) \/ Cache!Crash(p)
  PROVE  RenewedInv'
<1> USE DEF CacheInv, CacheTypeInv, RenewedInv, Cache!Goto, Cache!Valid, Cache!Repository,
            Cache!Ends
<1>1. CASE Cache!Lock(p)
  BY <1>1 DEF Cache!Lock
<1>2. CASE Cache!Validate(p)
  BY <1>2 DEF Cache!Validate
<1>3. CASE Cache!Clone(p)
  <2>1. \A q \in Process : q # p => renewed'[q] = renewed[q] /\ cachePc'[q] = cachePc[q]
    BY <1>3, CloneMakes DEF Cache!Clone
  <2>2. /\ cachePc'[p] = "bind" => renewed'[p] \in Cache!Repository
        /\ cachePc'[p] \in {"bind", "clean"}
    BY <1>3, CloneMakes DEF Cache!Clone
  <2> QED
    BY <2>1, <2>2
<1>4. CASE Cache!Bind(p)
  BY <1>4 DEF Cache!Bind
<1>5. CASE Cache!Move(p)
  BY <1>5 DEF Cache!Move
<1>6. CASE Cache!Install(p)
  BY <1>6 DEF Cache!Install
<1>7. CASE Cache!Restore(p)
  BY <1>7 DEF Cache!Restore
<1>8. CASE Cache!Discard(p)
  BY <1>8 DEF Cache!Discard
<1>9. CASE Cache!Clean(p)
  BY <1>9 DEF Cache!Clean
<1>10. CASE Cache!Fetch(p)
  BY <1>10 DEF Cache!Fetch
<1>11. CASE Cache!Unfetched(p)
  BY <1>11 DEF Cache!Unfetched
<1>12. CASE Cache!Head(p)
  BY <1>12 DEF Cache!Head
<1>13. CASE Cache!Crash(p)
  BY <1>13 DEF Cache!Crash
<1> QED
  BY <1>1, <1>2, <1>3, <1>4, <1>5, <1>6, <1>7, <1>8, <1>9, <1>10, <1>11, <1>12, <1>13 DEF Cache!Step

\* It keeps what was there, its own and that of others.
LEMMA KeptStep ==
  ASSUME Cache!CacheAssumption, CacheInv, NEW p \in Process,
         Cache!Step(p) \/ Cache!Crash(p)
  PROVE  KeptInv'
<1> USE DEF CacheInv, CacheTypeInv, CacheLockInv, KeptInv, RenewedInv, Inside, Rebuilding,
            Cache!Goto, Cache!Fault, Cache!Valid, Cache!Ends
<1>1. CASE Cache!Lock(p)
  BY <1>1 DEF Cache!Lock
<1>2. CASE Cache!Validate(p)
  BY <1>2 DEF Cache!Validate
<1>3. CASE Cache!Clone(p)
  BY <1>3 DEF Cache!Clone
<1>4. CASE Cache!Bind(p)
  BY <1>4 DEF Cache!Bind
<1>5. CASE Cache!Move(p)
  BY <1>5 DEF Cache!Move
<1>6. CASE Cache!Install(p)
  BY <1>6 DEF Cache!Install
<1>7. CASE Cache!Restore(p)
  BY <1>7 DEF Cache!Restore
<1>8. CASE Cache!Discard(p)
  BY <1>8 DEF Cache!Discard
<1>9. CASE Cache!Clean(p)
  BY <1>9 DEF Cache!Clean
<1>10. CASE Cache!Fetch(p)
  BY <1>10 DEF Cache!Fetch
<1>11. CASE Cache!Unfetched(p)
  BY <1>11 DEF Cache!Unfetched
<1>12. CASE Cache!Head(p)
  BY <1>12 DEF Cache!Head
<1>13. CASE Cache!Crash(p)
  BY <1>13 DEF Cache!Crash
<1> QED
  BY <1>1, <1>2, <1>3, <1>4, <1>5, <1>6, <1>7, <1>8, <1>9, <1>10, <1>11, <1>12, <1>13 DEF Cache!Step

\* It leaves a valid cache to those who have validated it.
LEMMA FoundStep ==
  ASSUME Cache!CacheAssumption, CacheInv, NEW p \in Process,
         Cache!Step(p) \/ Cache!Crash(p)
  PROVE  FoundInv'
<1> USE DEF CacheInv, CacheTypeInv, CacheLockInv, FoundInv, RenewedInv, Inside, Rebuilding,
            Cache!Goto, Cache!Fault, Cache!Valid, Cache!Ends
<1>1. CASE Cache!Lock(p)
  BY <1>1 DEF Cache!Lock
<1>2. CASE Cache!Validate(p)
  BY <1>2 DEF Cache!Validate
<1>3. CASE Cache!Clone(p)
  BY <1>3 DEF Cache!Clone
<1>4. CASE Cache!Bind(p)
  BY <1>4 DEF Cache!Bind
<1>5. CASE Cache!Move(p)
  BY <1>5 DEF Cache!Move
<1>6. CASE Cache!Install(p)
  BY <1>6 DEF Cache!Install
<1>7. CASE Cache!Restore(p)
  BY <1>7 DEF Cache!Restore
<1>8. CASE Cache!Discard(p)
  BY <1>8 DEF Cache!Discard
<1>9. CASE Cache!Clean(p)
  BY <1>9 DEF Cache!Clean
<1>10. CASE Cache!Fetch(p)
  BY <1>10 DEF Cache!Fetch
<1>11. CASE Cache!Unfetched(p)
  BY <1>11 DEF Cache!Unfetched
<1>12. CASE Cache!Head(p)
  BY <1>12 DEF Cache!Head
<1>13. CASE Cache!Crash(p)
  BY <1>13 DEF Cache!Crash
<1> QED
  BY <1>1, <1>2, <1>3, <1>4, <1>5, <1>6, <1>7, <1>8, <1>9, <1>10, <1>11, <1>12, <1>13 DEF Cache!Step

\* Every step keeps the invariant.
LEMMA CacheNext ==
  ASSUME Cache!CacheAssumption, CacheInv, [Cache!Next]_(Cache!vars)
  PROVE  CacheInv'
<1>1. CASE Cache!Damage
  <2>1. cache' \in Cache!Repository \cup {None}
    BY <1>1 DEF Cache!Damage, CacheInv, CacheTypeInv, Cache!Repository
  <2>2. damage' \in Nat /\ damage' # 0
    BY <1>1 DEF Cache!Damage, CacheInv, CacheTypeInv
  <2> QED
    BY <1>1, <2>1, <2>2 DEF Cache!Damage, CacheInv, CacheTypeInv, CacheLockInv,
                            RenewedInv, KeptInv, FoundInv
<1>2. ASSUME NEW p \in Process, Cache!Step(p) \/ Cache!Crash(p)
      PROVE  CacheInv'
  BY <1>2, CacheTypeStep, CacheLockStep, RenewedStep, KeptStep, FoundStep DEF CacheInv
<1>3. CASE UNCHANGED Cache!vars
  BY <1>3 DEF Cache!vars, CacheInv, CacheTypeInv, CacheLockInv, RenewedInv, KeptInv,
              FoundInv
<1> QED
  BY <1>1, <1>2, <1>3 DEF Cache!Next

\* A process publishes what is valid, or what it had moved aside.
LEMMA PublishStep ==
  ASSUME CacheInv, NEW p \in Process, Cache!Step(p) \/ Cache!Crash(p),
         cache' # cache, cache' # None
  PROVE  Cache!Valid(cache') \/ quarantine[p] = cache'
<1>1. Cache!Move(p) \/ Cache!Install(p) \/ Cache!Restore(p)
  BY DEF Cache!Step, Cache!Lock, Cache!Validate, Cache!Clone, Cache!Bind, Cache!Discard,
         Cache!Clean, Cache!Fetch, Cache!Unfetched, Cache!Head, Cache!Crash
<1> QED
  BY <1>1 DEF Cache!Move, Cache!Install, Cache!Restore, CacheInv, RenewedInv, Cache!Valid

\* A failing rebuild removes its own repository and leaves a cache.
LEMMA FailStep ==
  ASSUME CacheInv, [Cache!Next]_(Cache!vars), NEW q \in Process,
         cachePc[q] = "clean", cachePc'[q] = "failed"
  PROVE  /\ renewed'[q] = None
         /\ had[q] => cache # None \/ damage > 0
<1>1. had[q] => cache # None \/ damage > 0
  BY DEF CacheInv, KeptInv, CacheTypeInv
<1>2. PICK p \in Process : Cache!Step(p) \/ Cache!Crash(p)
  BY DEF Cache!Next, Cache!Damage, Cache!vars
<1>3. p = q
  BY <1>2 DEF Cache!Step, Cache!Crash, Cache!Goto, CacheInv, CacheTypeInv,
     Cache!Lock, Cache!Validate, Cache!Clone, Cache!Bind, Cache!Move, Cache!Install,
     Cache!Restore, Cache!Discard, Cache!Clean, Cache!Fetch, Cache!Unfetched, Cache!Head
<1>4. Cache!Clean(q)
  BY <1>2, <1>3 DEF Cache!Step, Cache!Crash, Cache!Goto, CacheInv, CacheTypeInv,
     Cache!Lock, Cache!Validate, Cache!Clone, Cache!Bind, Cache!Move, Cache!Install,
     Cache!Restore, Cache!Discard, Cache!Fetch, Cache!Unfetched, Cache!Head
<1> QED
  BY <1>1, <1>4 DEF Cache!Clean, CacheInv, CacheTypeInv

\* A rebuild publishes only a validated repository or what it had moved aside,
\* a failing one leaves a cache where there was one, and without damage or a
\* failing command every fetch finds what was validated: _prepare_checkout and
\* _rebuild_source_cache, for any number of builds.
THEOREM CacheIsSoundAlways ==
  Cache!CacheAssumption => (Cache!Spec => Cache!CacheIsSound)
<1> SUFFICES ASSUME Cache!CacheAssumption
             PROVE  Cache!Spec => Cache!CacheIsSound
  OBVIOUS
<1>1. Cache!Init => CacheInv
  BY CacheInit
<1>2. CacheInv /\ [Cache!Next]_(Cache!vars) => CacheInv'
  BY CacheNext
<1>3. CacheInv => Cache!FetchFindsCache
  BY DEF CacheInv, FoundInv, CacheTypeInv, Cache!FetchFindsCache
<1>4. CacheInv /\ [Cache!Next]_(Cache!vars)
        => [cache' # cache /\ cache' # None /\ damage' = damage
              => Cache!Valid(cache') \/ \E p \in Process : quarantine[p] = cache']_(Cache!vars)
  <2> SUFFICES ASSUME CacheInv, Cache!Next, cache' # cache, cache' # None, damage' = damage
               PROVE  Cache!Valid(cache') \/ \E p \in Process : quarantine[p] = cache'
    OBVIOUS
  <2>1. ~Cache!Damage
    BY DEF Cache!Damage, CacheInv, CacheTypeInv
  <2> QED
    BY <2>1, PublishStep DEF Cache!Next
<1>5. CacheInv /\ [Cache!Next]_(Cache!vars)
        => [\A p \in Process : cachePc[p] = "clean" /\ cachePc'[p] = "failed"
              => /\ renewed'[p] = None
                 /\ had[p] => cache # None \/ damage > 0]_(Cache!vars)
  BY FailStep
<1> QED
  BY <1>1, <1>2, <1>3, <1>4, <1>5, PTL
     DEF Cache!Spec, Cache!CacheIsSound, Cache!PublishedIsValid, Cache!FailureKeepsCache

-----------------------------------------------------------------------------
(* FirmwareBuild: the legacy build.                                        *)

\* The positions after the inputs were identified, up to the recheck, and those
\* in which the output of make belongs to the process.
Checked == {"validate", "clean", "make", "retry", "recheck"}
Making == {"check", "copy", "hash"}

Identities == [source : Build!Source, config : Process \cup {Elsewhere}, lto_retry : BOOLEAN]

BuildTypeInv ==
    /\ buildPc \in [Process -> {"lock", "configure", "identify", "ended"} \cup Checked
                                  \cup Making]
    /\ source \in Build!Source /\ config \in Process \cup {Elsewhere}
    /\ identity \in [Process -> Identities \cup {None}]
    /\ retry \in [Process -> BOOLEAN] /\ strays \in [Process -> Nat]
    /\ mock \in BOOLEAN
    /\ DOMAIN seen = Process /\ DOMAIN built = Process

\* One process at a time works in the checkout under the lock.
BuildLockInv == \A p \in Process : buildPc[p] \notin {"lock", "ended"} => buildLock = p

\* The inputs that a process identified.
Approved(p) == [source |-> identity[p].source, config |-> identity[p].config]

\* Nothing is known before the identification.  After it one edit makes the
\* checkout differ from the identity, so that the recheck refuses it, and
\* without one make reads what was identified.
ApprovedOf(p) ==
    /\ buildPc[p] \in {"lock", "configure", "identify"} =>
          identity[p] = None /\ ~retry[p] /\ strays[p] = 0
    /\ identity[p] # None =>
          /\ identity[p].lto_retry = retry[p]
          /\ buildPc[p] \in Checked => (strays[p] = 0 => Build!Inputs = Approved(p))
          /\ buildPc[p] \in Checked => (strays[p] = 1 => Build!Inputs # Approved(p))
          /\ buildPc[p] \in {"make", "recheck"} \cup Making =>
                (strays[p] = 0 => seen[p] = {Approved(p)})
          /\ buildPc[p] \in Making => strays[p] # 1

ApprovedInv == \A p \in Process : ApprovedOf(p)

\* A file with the identifier of a process was compiled by it.
Made(file, p) ==
    file # None /\ file.id = p =>
        /\ buildPc[p] \in {"recheck", "ended"} \cup Making
        /\ file.from = seen[p] /\ file.lto = ~retry[p]

MadeInv == \A p \in Process : Made(out, p) /\ Made(dest, p)

\* What is copied and hashed carries the identifier, or a make by hand replaced
\* it since it was checked.
CopiedInv ==
    \A p \in Process : identity[p] # None /\ ~mock =>
        /\ buildPc[p] = "copy" /\ out # None => out.id \in {p, Elsewhere}
        /\ buildPc[p] = "hash" => dest # None /\ dest.id \in {p, Elsewhere}

BuiltInv ==
    /\ \A p \in Process : built[p] # None => buildPc[p] = "ended"
    /\ Build!IdentityDescribesFile

BuildInv ==
    Build!BuildAssumption /\ BuildTypeInv /\ BuildLockInv /\ ApprovedInv /\ MadeInv
    /\ CopiedInv /\ BuiltInv

\* The first state satisfies the invariant.
LEMMA BuildInit ==
  ASSUME Build!BuildAssumption, Build!Init
  PROVE  BuildInv
  BY DEF Build!BuildAssumption, Build!Init, BuildInv, BuildTypeInv, BuildLockInv,
         ApprovedInv, ApprovedOf, MadeInv, Made, CopiedInv, BuiltInv, Build!IdentityDescribesFile,
         Build!Flashable, Build!Source, Build!Dirty, Checked, Making

\* It keeps the types.
LEMMA BuildTypeStep ==
  ASSUME BuildInv, NEW p \in Process, Build!Run(p) \/ Build!Killed(p)
  PROVE  BuildTypeInv'
<1> USE DEF BuildInv, Build!BuildAssumption, BuildTypeInv, Identities, Build!Source,
            Build!Dirty, Build!Identified, Build!MayIdentify, Checked, Making,
        Build!Goto, Build!Return, Build!Fail, Build!Ended, Build!checkout, Build!files,
        Build!own, Build!world
<1>1. CASE Build!Lock(p)
  BY <1>1 DEF Build!Lock
<1>2. CASE Build!Configure(p)
  BY <1>2 DEF Build!Configure
<1>3. CASE Build!Identify(p)
  BY <1>3 DEF Build!Identify
<1>4. CASE Build!Validate(p)
  BY <1>4 DEF Build!Validate
<1>5. CASE Build!Clean(p)
  BY <1>5 DEF Build!Clean
<1>6. CASE Build!Compile(p)
  BY <1>6 DEF Build!Compile
<1>7. CASE Build!Retry(p)
  <2>1. CASE Build!Fail(p) /\ UNCHANGED <<identity, retry>>
    BY <1>7, <2>1 DEF Build!Retry
  <2>2. CASE /\ retry' = [retry EXCEPT ![p] = TRUE]
             /\ identity' = [identity EXCEPT ![p] =
                   IF @ = None THEN None ELSE [@ EXCEPT !.lto_retry = TRUE]]
    <3>1. identity[p] # None => [identity[p] EXCEPT !.lto_retry = TRUE] \in Identities
      OBVIOUS
    <3>2. identity' \in [Process -> Identities \cup {None}]
      BY <2>2, <3>1
    <3> QED
      BY <1>7, <2>2, <3>2 DEF Build!Retry
  <2> QED
    BY <1>7, <2>1, <2>2 DEF Build!Retry
<1>8. CASE Build!Recheck(p)
  BY <1>8 DEF Build!Recheck
<1>9. CASE Build!Check(p)
  BY <1>9 DEF Build!Check
<1>10. CASE Build!Copy(p)
  BY <1>10 DEF Build!Copy
<1>11. CASE Build!Hash(p)
  BY <1>11 DEF Build!Hash
<1>12. CASE Build!Killed(p)
  BY <1>12 DEF Build!Killed
<1> QED
  BY <1>1, <1>2, <1>3, <1>4, <1>5, <1>6, <1>7, <1>8, <1>9, <1>10, <1>11, <1>12 DEF Build!Run

\* It keeps the lock to one process.
LEMMA BuildLockStep ==
  ASSUME BuildInv, NEW p \in Process, Build!Run(p) \/ Build!Killed(p)
  PROVE  BuildLockInv'
<1> USE DEF BuildInv, Build!BuildAssumption, BuildTypeInv, BuildLockInv, Checked, Making,
        Build!Goto, Build!Return, Build!Fail, Build!Ended, Build!checkout, Build!files,
        Build!own, Build!world
<1>1. CASE Build!Lock(p)
  BY <1>1 DEF Build!Lock
<1>2. CASE Build!Configure(p)
  BY <1>2 DEF Build!Configure
<1>3. CASE Build!Identify(p)
  BY <1>3 DEF Build!Identify
<1>4. CASE Build!Validate(p)
  BY <1>4 DEF Build!Validate
<1>5. CASE Build!Clean(p)
  BY <1>5 DEF Build!Clean
<1>6. CASE Build!Compile(p)
  BY <1>6 DEF Build!Compile
<1>7. CASE Build!Retry(p)
  BY <1>7 DEF Build!Retry
<1>8. CASE Build!Recheck(p)
  BY <1>8 DEF Build!Recheck
<1>9. CASE Build!Check(p)
  BY <1>9 DEF Build!Check
<1>10. CASE Build!Copy(p)
  BY <1>10 DEF Build!Copy
<1>11. CASE Build!Hash(p)
  BY <1>11 DEF Build!Hash
<1>12. CASE Build!Killed(p)
  BY <1>12 DEF Build!Killed
<1> QED
  BY <1>1, <1>2, <1>3, <1>4, <1>5, <1>6, <1>7, <1>8, <1>9, <1>10, <1>11, <1>12 DEF Build!Run

\* It keeps what the process identified, and what make reads.
LEMMA ApprovedStep ==
  ASSUME BuildInv, NEW p \in Process, Build!Run(p) \/ Build!Killed(p)
  PROVE  ApprovedInv'
<1> USE DEF BuildInv, Build!BuildAssumption, ApprovedInv, ApprovedOf, Approved, BuildTypeInv,
            BuildLockInv, Build!Inputs, Identities, Build!Identified, Build!MayIdentify,
            Checked, Making,
        Build!Goto, Build!Return, Build!Fail, Build!Ended, Build!checkout, Build!files,
        Build!own, Build!world
<1>1. CASE Build!Lock(p)
  BY <1>1 DEF Build!Lock
<1>2. CASE Build!Configure(p)
  BY <1>2 DEF Build!Configure
<1>3. CASE Build!Identify(p)
  <2>1. CASE identity' = identity
    BY <1>3, <2>1 DEF Build!Identify
  <2>2. CASE identity' = [identity EXCEPT ![p] = Build!Identified(p)]
    <3>1. identity'[p] = Build!Identified(p) /\ strays[p] = 0 /\ ~retry[p]
      BY <1>3, <2>2 DEF Build!Identify
    <3>2. \A q \in Process : q # p => identity'[q] = identity[q]
      BY <2>2
    <3> QED
      BY <1>3, <3>1, <3>2 DEF Build!Identify
  <2> HIDE DEF ApprovedInv, BuildTypeInv, BuildLockInv, Build!MayIdentify, Build!Identified
  <2> QED
    BY <1>3, <2>1, <2>2 DEF Build!Identify
<1>4. CASE Build!Validate(p)
  BY <1>4 DEF Build!Validate
<1>5. CASE Build!Clean(p)
  BY <1>5 DEF Build!Clean
<1>6. CASE Build!Compile(p)
  BY <1>6 DEF Build!Compile
<1>7. CASE Build!Retry(p)
  <2>1. CASE Build!Fail(p) /\ UNCHANGED <<identity, retry>>
    BY <1>7, <2>1 DEF Build!Retry
  <2>2. CASE /\ identity[p] # None => source = identity[p].source /\ config = identity[p].config
             /\ retry' = [retry EXCEPT ![p] = TRUE]
             /\ identity' = [identity EXCEPT ![p] =
                   IF @ = None THEN None ELSE [@ EXCEPT !.lto_retry = TRUE]]
             /\ buildPc' = [buildPc EXCEPT ![p] = "clean"]
    <3>1. \A q \in Process : q # p => /\ identity'[q] = identity[q] /\ retry'[q] = retry[q]
                                    /\ buildPc'[q] = buildPc[q]
      BY <2>2
    <3>2. retry'[p] /\ buildPc'[p] = "clean"
      BY <2>2
    <3>3. CASE identity[p] = None
      <4>1. identity'[p] = None
        BY <2>2, <3>3
      <4> QED
        BY <1>7, <3>1, <3>2, <4>1 DEF Build!Retry
    <3>4. CASE identity[p] # None
      <4>1. /\ identity'[p].source = identity[p].source
            /\ identity'[p].config = identity[p].config /\ identity'[p].lto_retry = TRUE
        BY <2>2, <3>4
      <4>2. strays[p] # 1
        BY <1>7, <2>2, <3>4 DEF Build!Retry
      <4>3. \A q \in Process : q # p => ApprovedOf(q)'
        BY <1>7, <3>1 DEF Build!Retry
      <4>4. ApprovedOf(p)'
        BY <1>7, <2>2, <3>2, <3>4, <4>1, <4>2 DEF Build!Retry
      <4> HIDE DEF ApprovedOf
      <4> QED
        BY <4>3, <4>4
    <3> HIDE DEF ApprovedInv
    <3> QED
      BY <3>3, <3>4
  <2> HIDE DEF ApprovedInv, BuildTypeInv, BuildLockInv, Build!MayIdentify, Build!Identified
  <2> QED
    BY <1>7, <2>1, <2>2 DEF Build!Retry
<1>8. CASE Build!Recheck(p)
  BY <1>8 DEF Build!Recheck
<1>9. CASE Build!Check(p)
  BY <1>9 DEF Build!Check
<1>10. CASE Build!Copy(p)
  BY <1>10 DEF Build!Copy
<1>11. CASE Build!Hash(p)
  BY <1>11 DEF Build!Hash
<1>12. CASE Build!Killed(p)
  BY <1>12 DEF Build!Killed
<1> HIDE DEF ApprovedInv, BuildTypeInv, BuildLockInv
<1> QED
  BY <1>1, <1>2, <1>3, <1>4, <1>5, <1>6, <1>7, <1>8, <1>9, <1>10, <1>11, <1>12 DEF Build!Run

\* It keeps whose work the files are.
LEMMA MadeStep ==
  ASSUME BuildInv, NEW p \in Process, Build!Run(p) \/ Build!Killed(p)
  PROVE  MadeInv'
<1> USE DEF BuildInv, Build!BuildAssumption, MadeInv, Made, BuildTypeInv, BuildLockInv,
            Build!Compiled, Checked, Making,
        Build!Goto, Build!Return, Build!Fail, Build!Ended, Build!checkout, Build!files,
        Build!own, Build!world
<1>1. CASE Build!Lock(p)
  BY <1>1 DEF Build!Lock
<1>2. CASE Build!Configure(p)
  BY <1>2 DEF Build!Configure
<1>3. CASE Build!Identify(p)
  BY <1>3 DEF Build!Identify
<1>4. CASE Build!Validate(p)
  BY <1>4 DEF Build!Validate
<1>5. CASE Build!Clean(p)
  BY <1>5 DEF Build!Clean
<1>6. CASE Build!Compile(p)
  BY <1>6 DEF Build!Compile
<1>7. CASE Build!Retry(p)
  BY <1>7 DEF Build!Retry
<1>8. CASE Build!Recheck(p)
  BY <1>8 DEF Build!Recheck
<1>9. CASE Build!Check(p)
  BY <1>9 DEF Build!Check
<1>10. CASE Build!Copy(p)
  BY <1>10 DEF Build!Copy
<1>11. CASE Build!Hash(p)
  BY <1>11 DEF Build!Hash
<1>12. CASE Build!Killed(p)
  BY <1>12 DEF Build!Killed
<1> QED
  BY <1>1, <1>2, <1>3, <1>4, <1>5, <1>6, <1>7, <1>8, <1>9, <1>10, <1>11, <1>12 DEF Build!Run

\* It keeps what is published.
LEMMA CopiedStep ==
  ASSUME BuildInv, NEW p \in Process, Build!Run(p) \/ Build!Killed(p)
  PROVE  CopiedInv'
<1> USE DEF BuildInv, Build!BuildAssumption, CopiedInv, BuildTypeInv, BuildLockInv, Checked, Making,
        Build!Goto, Build!Return, Build!Fail, Build!Ended, Build!checkout, Build!files,
        Build!own, Build!world
<1>1. CASE Build!Lock(p)
  BY <1>1 DEF Build!Lock
<1>2. CASE Build!Configure(p)
  BY <1>2 DEF Build!Configure
<1>3. CASE Build!Identify(p)
  BY <1>3 DEF Build!Identify
<1>4. CASE Build!Validate(p)
  BY <1>4 DEF Build!Validate
<1>5. CASE Build!Clean(p)
  BY <1>5 DEF Build!Clean
<1>6. CASE Build!Compile(p)
  BY <1>6 DEF Build!Compile
<1>7. CASE Build!Retry(p)
  BY <1>7 DEF Build!Retry
<1>8. CASE Build!Recheck(p)
  BY <1>8 DEF Build!Recheck
<1>9. CASE Build!Check(p)
  BY <1>9 DEF Build!Check
<1>10. CASE Build!Copy(p)
  BY <1>10 DEF Build!Copy
<1>11. CASE Build!Hash(p)
  BY <1>11 DEF Build!Hash
<1>12. CASE Build!Killed(p)
  BY <1>12 DEF Build!Killed
<1> QED
  BY <1>1, <1>2, <1>3, <1>4, <1>5, <1>6, <1>7, <1>8, <1>9, <1>10, <1>11, <1>12 DEF Build!Run

\* It keeps what is returned.
LEMMA BuiltStep ==
  ASSUME BuildInv, NEW p \in Process, Build!Run(p) \/ Build!Killed(p)
  PROVE  BuiltInv'
<1> USE DEF BuildInv, Build!BuildAssumption, BuiltInv, Build!IdentityDescribesFile,
            Build!Flashable, Build!Named, BuildTypeInv, ApprovedInv, ApprovedOf, Approved,
            MadeInv, Made, CopiedInv, Checked, Making,
        Build!Goto, Build!Return, Build!Fail, Build!Ended, Build!checkout, Build!files,
        Build!own, Build!world
<1>1. CASE Build!Lock(p)
  BY <1>1 DEF Build!Lock
<1>2. CASE Build!Configure(p)
  BY <1>2 DEF Build!Configure
<1>3. CASE Build!Identify(p)
  BY <1>3 DEF Build!Identify
<1>4. CASE Build!Validate(p)
  BY <1>4 DEF Build!Validate
<1>5. CASE Build!Clean(p)
  BY <1>5 DEF Build!Clean
<1>6. CASE Build!Compile(p)
  BY <1>6 DEF Build!Compile
<1>7. CASE Build!Retry(p)
  BY <1>7 DEF Build!Retry
<1>8. CASE Build!Recheck(p)
  BY <1>8 DEF Build!Recheck
<1>9. CASE Build!Check(p)
  BY <1>9 DEF Build!Check
<1>10. CASE Build!Copy(p)
  BY <1>10 DEF Build!Copy
<1>11. CASE Build!Hash(p)
  <2>1. CASE Build!Fail(p)
    BY <1>11, <2>1 DEF Build!Hash
  <2>2. CASE Build!Return(p, [status |-> "success", file |-> dest, identity |-> identity[p],
                        flashable |-> ~mock /\ ~dest.small /\ identity[p] # None])
    <3>1. \A q \in Process : q # p => built'[q] = built[q] /\ buildPc'[q] = buildPc[q]
      BY <2>2
    <3>2. buildPc'[p] = "ended" /\ UNCHANGED <<dest, identity, retry, seen, mock, strays>>
      BY <1>11, <2>2 DEF Build!Hash
    <3>3. built'[p] = [status |-> "success", file |-> dest, identity |-> identity[p],
                       flashable |-> ~mock /\ ~dest.small /\ identity[p] # None]
      BY <2>2
    <3>4. built'[p].file = dest /\ built'[p].identity = identity[p]
      BY <3>3
    <3>5. built'[p].flashable => ~mock /\ identity[p] # None
      <4>1. CASE ~mock /\ ~dest.small /\ identity[p] # None
        BY <4>1
      <4>2. CASE ~(~mock /\ ~dest.small /\ identity[p] # None)
        <5>1. built'[p] = [status |-> "success", file |-> dest, identity |-> identity[p],
                           flashable |-> FALSE]
          BY <3>3, <4>2
        <5> QED
          BY <5>1
      <4> QED
        BY <4>1, <4>2
    <3>6. ~mock /\ identity[p] # None /\ dest.id # Elsewhere =>
              /\ dest.id = p
              /\ strays[p] <= 1 => dest.from = {Approved(p)}
              /\ dest.lto = ~identity[p].lto_retry
      <4>1. ~mock /\ identity[p] # None /\ dest.id # Elsewhere =>
              /\ dest.id = p /\ dest.from = seen[p] /\ dest.lto = ~retry[p]
        BY <1>11 DEF Build!Hash
      <4>2. identity[p] # None => /\ identity[p].lto_retry = retry[p] /\ strays[p] # 1
                                  /\ strays[p] = 0 => seen[p] = {Approved(p)}
        BY <1>11 DEF Build!Hash
      <4>3. strays[p] <= 1 => strays[p] = 0 \/ strays[p] = 1
        OBVIOUS
      <4>4. ~mock /\ identity[p] # None /\ dest.id # Elsewhere =>
              dest.lto = ~identity[p].lto_retry
        <5>1. identity[p] # None => identity[p].lto_retry = retry[p]
          BY <4>2
        <5> QED
          BY <4>1, <5>1, Zenon
      <4>5. ~mock /\ identity[p] # None /\ dest.id # Elsewhere =>
              (strays[p] <= 1 => dest.from = {Approved(p)})
        <5> HIDE DEF Approved
        <5>1. strays[p] <= 1 /\ identity[p] # None => seen[p] = {Approved(p)}
          BY <4>2, <4>3, Zenon
        <5> QED
          BY <4>1, <5>1, Zenon
      <4> QED
        BY <4>1, <4>4, <4>5, Zenon
    <3> QED
      BY <3>1, <3>2, <3>4, <3>5, <3>6
  <2> QED
    BY <1>11, <2>1, <2>2 DEF Build!Hash
<1>12. CASE Build!Killed(p)
  BY <1>12 DEF Build!Killed
<1> QED
  BY <1>1, <1>2, <1>3, <1>4, <1>5, <1>6, <1>7, <1>8, <1>9, <1>10, <1>11, <1>12 DEF Build!Run

\* An edit by hand, and a compilation by hand.
LEMMA EditStep ==
  ASSUME BuildInv, Build!Edit
  PROVE  BuildInv'
<1> USE DEF BuildInv, Build!BuildAssumption, Build!Edit, Build!files, BuildTypeInv

<1>1. BuildTypeInv'
  BY DEF Build!Source, Build!Dirty
<1>2. BuildLockInv'
  BY DEF BuildLockInv
<1>3. ApprovedInv'
  BY DEF ApprovedInv, ApprovedOf, Approved, Build!Inputs, Build!BetweenChecks, Build!Compiling,
         Checked, Making
<1>4. MadeInv'
  BY DEF MadeInv, Made, Build!Compiling, Making
<1>5. CopiedInv'
  BY DEF CopiedInv
<1>6. BuiltInv'
  BY DEF BuiltInv, Build!IdentityDescribesFile, Build!Flashable, Build!Named, Build!BetweenChecks
<1> QED
  BY <1>1, <1>2, <1>3, <1>4, <1>5, <1>6

\* Nor does somebody else's make.
LEMMA MakeStep ==
  ASSUME BuildInv, Build!Make
  PROVE  BuildInv'
<1> USE DEF BuildInv, Build!BuildAssumption, Build!Make, Build!checkout, Build!own
<1>1. BuildTypeInv' /\ BuildLockInv'
  BY DEF BuildTypeInv, BuildLockInv
<1>2. ApprovedInv'
  BY DEF ApprovedInv, ApprovedOf, Approved, Build!Inputs
<1>3. MadeInv'
  BY DEF MadeInv, Made
<1>4. CopiedInv'
  BY DEF CopiedInv
<1>5. BuiltInv'
  BY DEF BuiltInv, Build!IdentityDescribesFile, Build!Flashable, Build!Named
<1> QED
  BY <1>1, <1>2, <1>3, <1>4, <1>5

\* Every step keeps the invariant.
LEMMA BuildNext ==
  ASSUME BuildInv, [Build!Next]_(Build!vars)
  PROVE  BuildInv'
<1>1. CASE Build!Edit
  BY <1>1, EditStep
<1>2. CASE Build!Make
  BY <1>2, MakeStep
<1>3. ASSUME NEW p \in Process, Build!Run(p) \/ Build!Killed(p)
      PROVE  BuildInv'
  BY <1>3, BuildTypeStep, BuildLockStep, ApprovedStep, MadeStep, CopiedStep, BuiltStep
     DEF BuildInv, Build!BuildAssumption
<1>4. CASE UNCHANGED Build!vars
  BY <1>4 DEF Build!vars, BuildInv, Build!BuildAssumption, BuildTypeInv, BuildLockInv,
     ApprovedInv, ApprovedOf, Approved, MadeInv, Made, CopiedInv, BuiltInv, Build!Inputs,
     Build!IdentityDescribesFile, Build!Flashable, Build!Named
<1> QED
  BY <1>1, <1>2, <1>3, <1>4 DEF Build!Next

\* Builds are true: the shared cache is sound (CacheIsSoundAlways), and a file
\* that KACE compiled and calls flashable is the one of its build, compiled from
\* what its identity names (_build_firmware_locked), for any number of builds,
\* edits and compilations by hand.
THEOREM BuildsAreTrueAlways ==
  Cache!CacheAssumption /\ Build!BuildAssumption =>
    (Cache!Spec /\ Build!Spec => BuildsAreTrue)
<1> SUFFICES ASSUME Build!BuildAssumption, Cache!CacheAssumption
             PROVE  Cache!Spec /\ Build!Spec => BuildsAreTrue
  OBVIOUS
<1>1. Build!Init => BuildInv
  BY BuildInit
<1>2. BuildInv /\ [Build!Next]_(Build!vars) => BuildInv'
  BY BuildNext
<1>3. BuildInv => Build!IdentityDescribesFile
  BY DEF BuildInv, BuiltInv
<1>4. Build!Spec => []Build!IdentityDescribesFile
  BY <1>1, <1>2, <1>3, PTL DEF Build!Spec
<1>5. Cache!Spec => []Cache!FetchFindsCache /\ Cache!PublishedIsValid /\ Cache!FailureKeepsCache
  BY CacheIsSoundAlways DEF Cache!CacheIsSound
<1> QED
  BY <1>4, <1>5, PTL DEF BuildsAreTrue

-----------------------------------------------------------------------------
(* ManagedConfig: what the owner and the calibrations gave.  A plan treats  *)
(* each option by itself, and so do the proofs.                             *)

\* The files of a printer: a layout and four texts, with a value or None for
\* every option.
WellFormed(f) ==
    /\ f = [layout |-> f.layout, base |-> f.base, block |-> f.block,
            hardware |-> f.hardware, saved |-> f.saved]
    /\ f.layout \in {"absent", "root", "include"}
    /\ f.base = [o \in Settings!Option |-> f.base[o]]
    /\ f.block = [o \in Settings!Option |-> f.block[o]]
    /\ f.hardware = [o \in Settings!Option |-> f.hardware[o]]
    /\ f.saved = [o \in Settings!Option |-> f.saved[o]]

\* Where an option can be: only Klipper's own are saved, and never beside the
\* hardware file, which only the include layout has.
WellPlaced(f) ==
    /\ \A o \in Settings!Option \ Settings!Savable : f.saved[o] = None
    /\ f.saved["control"] \in {None, "pid"}
    /\ f.layout # "include" => \A o \in Settings!Option : f.hardware[o] = None
    /\ f.layout = "include" =>
           /\ \A o \in Settings!Savable : f.hardware[o] = None
           /\ f.block["own"] = None /\ f.hardware["own"] = None

\* What is generated, before what was there is carried into it or beside it.
Fresh(f, g, o) ==
    IF Settings!Root(f)[o] # None THEN Settings!Root(f)[o]
    ELSE IF f.hardware[o] # None THEN f.hardware[o] ELSE g.value

\* What is carried into a generated configuration, option by option.
LEMMA CarriedAt ==
  ASSUME Settings!SettingsAssumption, NEW f, NEW g \in Choices
  PROVE  /\ Settings!Carried(f, g)["control"] = g.control
         /\ Settings!Carried(f, g)["pin"] = g.value
         /\ Settings!Carried(f, g)["velocity"] = Fresh(f, g, "velocity")
         /\ Settings!Carried(f, g)["pid"] =
                IF g.control = "pid" THEN Fresh(f, g, "pid") ELSE None
         /\ Settings!Carried(f, g)["offset"] =
                IF g.probe THEN Fresh(f, g, "offset") ELSE None
         /\ Settings!Carried(f, g)["extra"] =
                IF f.hardware["extra"] # None THEN f.hardware["extra"]
                ELSE Settings!Root(f)["extra"]
         /\ Settings!Carried(f, g)["own"] = None
<1> USE DEF Settings!SettingsAssumption, Settings!Option, Settings!Owned, Settings!Preserved, Fresh
<1> DEFINE gen == Settings!GeneratedBy(g)
           mid == Settings!Carry(gen, g, f.hardware)
           root == Settings!Root(f)
<1>0. g.control \in {"pid", "watermark"} /\ g.value # None /\ g.control # None
  OBVIOUS
<1>1. /\ gen["control"] = g.control /\ gen["pin"] = g.value /\ gen["velocity"] = g.value
      /\ gen["pid"] = (IF g.control = "pid" THEN g.value ELSE None)
      /\ gen["offset"] = (IF g.probe THEN g.value ELSE None)
      /\ gen["extra"] = None /\ gen["own"] = None
  BY DEF Settings!GeneratedBy
<1> HIDE DEF gen
<1>2. /\ mid["control"] = g.control /\ mid["pin"] = g.value
      /\ mid["velocity"] = (IF f.hardware["velocity"] # None THEN f.hardware["velocity"] ELSE g.value)
      /\ mid["pid"] = (IF g.control = "pid"
                       THEN IF f.hardware["pid"] # None THEN f.hardware["pid"] ELSE g.value
                       ELSE None)
      /\ mid["offset"] = (IF g.probe
                          THEN IF f.hardware["offset"] # None THEN f.hardware["offset"] ELSE g.value
                          ELSE None)
      /\ mid["extra"] = f.hardware["extra"] /\ mid["own"] = None
  BY <1>0, <1>1 DEF Settings!Carry
<1>3. Settings!Carried(f, g) = Settings!Carry(mid, g, root)
  BY DEF Settings!Carried, gen
<1> HIDE DEF mid
<1> QED
  BY <1>0, <1>2, <1>3 DEF Settings!Carry

\* What the files say of an option.
LEMMA SaidAt ==
  ASSUME NEW f, NEW o \in Settings!Option
  PROVE  /\ Settings!Root(f)[o] = IF f.base[o] # None THEN f.base[o] ELSE f.block[o]
         /\ Settings!Active(f)[o] =
                IF Settings!Root(f)[o] # None THEN Settings!Root(f)[o] ELSE f.hardware[o]
         /\ Settings!Effective(f)[o] =
                IF f.layout = "include"
                THEN IF Settings!Active(f)[o] # None THEN Settings!Active(f)[o] ELSE f.saved[o]
                ELSE IF Settings!Root(f)[o] # None THEN Settings!Root(f)[o] ELSE f.saved[o]
<1>1. Settings!Root(f)[o] = IF f.base[o] # None THEN f.base[o] ELSE f.block[o]
  BY DEF Settings!Root, Settings!Over
<1>2. Settings!Active(f)[o] =
          IF Settings!Root(f)[o] # None THEN Settings!Root(f)[o] ELSE f.hardware[o]
  BY DEF Settings!Active, Settings!Over
<1>3. CASE f.layout = "include"
  BY <1>1, <1>2, <1>3 DEF Settings!Effective, Settings!Over
<1>4. CASE f.layout # "include"
  BY <1>1, <1>2, <1>4 DEF Settings!Effective, Settings!Over
<1> QED
  BY <1>1, <1>2, <1>3, <1>4

\* What a plan in the root layout says of an option.
LEMMA RootPlanAt ==
  ASSUME NEW f, NEW g \in Choices, NEW o \in Settings!Option
  PROVE  LET p == Settings!RootPlan(f, g)
         IN  /\ p.layout = "root" /\ p.saved = f.saved /\ p.hardware = f.hardware
             /\ p.base[o] = IF o \in Settings!Owned(g) THEN None ELSE Settings!Root(f)[o]
             /\ p.block[o] = IF f.saved[o] # None /\ Settings!Active(f)[o] = None THEN None
                             ELSE Settings!Carried(f, g)[o]
BY DEF Settings!RootPlan

\* What a plan in the include layout says of an option.
LEMMA IncludePlanAt ==
  ASSUME NEW f, NEW g \in Choices, NEW o \in Settings!Option
  PROVE  LET p == Settings!IncludePlan(f, g)
             new == Settings!Carried(f, g)[o]
         IN  /\ p.layout = "include" /\ p.saved = f.saved
             /\ p.base[o] = IF o \in Settings!Owned(g) THEN None ELSE f.base[o]
             /\ p.block[o] = IF o \in Settings!Calibrated(f, g) /\ o \in Settings!Owned(g)
                                /\ Settings!Retained(f, o, new) THEN new ELSE None
             /\ p.hardware[o] = IF o \in Settings!Calibrated(f, g) THEN None ELSE new
BY DEF Settings!IncludePlan, Settings!Stripped

\* Two well-formed files are equal if they say the same of every option.
LEMMA SameFiles ==
  ASSUME NEW f, NEW p, WellFormed(f), WellFormed(p), f.layout = p.layout,
         \A o \in Settings!Option : /\ f.base[o] = p.base[o] /\ f.block[o] = p.block[o]
                                    /\ f.hardware[o] = p.hardware[o] /\ f.saved[o] = p.saved[o]
  PROVE  f = p
<1>1. /\ [o \in Settings!Option |-> f.base[o]] = [o \in Settings!Option |-> p.base[o]]
      /\ [o \in Settings!Option |-> f.block[o]] = [o \in Settings!Option |-> p.block[o]]
      /\ [o \in Settings!Option |-> f.hardware[o]] = [o \in Settings!Option |-> p.hardware[o]]
      /\ [o \in Settings!Option |-> f.saved[o]] = [o \in Settings!Option |-> p.saved[o]]
  OBVIOUS
<1> QED
  BY <1>1, Zenon DEF WellFormed

\* A plan is in the layout of the files, and is well formed.
LEMMA PlanForm ==
  ASSUME NEW f, NEW g \in Choices, WellFormed(f)
  PROVE  /\ f.layout # "include" => Settings!Planned(f, g) = Settings!RootPlan(f, g)
         /\ f.layout = "include" /\ Settings!Conflict(f, g) => Settings!Planned(f, g) = Refused
         /\ f.layout = "include" /\ ~Settings!Conflict(f, g) =>
                Settings!Planned(f, g) = Settings!IncludePlan(f, g)
         /\ WellFormed(Settings!RootPlan(f, g)) /\ WellFormed(Settings!IncludePlan(f, g))
<1>1. WellFormed(Settings!RootPlan(f, g))
  BY DEF Settings!RootPlan, WellFormed
<1>2. WellFormed(Settings!IncludePlan(f, g))
  BY DEF Settings!IncludePlan, Settings!Stripped, WellFormed
<1> QED
  BY <1>1, <1>2 DEF Settings!Planned, WellFormed

\* p is what is planned for the choice g, and it is not refused.
PlanOf(f, g, p) ==
    \/ f.layout # "include" /\ p = Settings!RootPlan(f, g)
    \/ f.layout = "include" /\ ~Settings!Conflict(f, g) /\ p = Settings!IncludePlan(f, g)

\* A plan keeps the options where they can be.
LEMMA PlanIsPlaced ==
  ASSUME Settings!SettingsAssumption, NEW f, NEW g \in Choices, NEW p,
         WellFormed(f), WellPlaced(f), PlanOf(f, g, p)
  PROVE  WellFormed(p) /\ WellPlaced(p)
<1>1. WellFormed(p)
  BY PlanForm DEF PlanOf
<1>2. CASE p = Settings!RootPlan(f, g) /\ f.layout # "include"
  <2>1. p.saved = f.saved /\ p.hardware = f.hardware /\ p.layout = "root"
    BY <1>2 DEF Settings!RootPlan
  <2> QED
    BY <1>1, <1>2, <2>1 DEF WellPlaced
<1>3. CASE p = Settings!IncludePlan(f, g) /\ f.layout = "include"
  <2>1. p.saved = f.saved /\ p.layout = "include"
    BY <1>3 DEF Settings!IncludePlan
  <2>2. p.hardware["control"] = None /\ p.hardware["offset"] = None
    BY <1>3 DEF Settings!IncludePlan, Settings!Option, Settings!Calibrated
  <2>3. p.hardware["pid"] = None
    <3>1. p.hardware["pid"] = IF "pid" \in Settings!Calibrated(f, g) THEN None
                              ELSE Settings!Carried(f, g)["pid"]
      BY <1>3 DEF Settings!IncludePlan, Settings!Option
    <3>2. g.control = "pid" => "pid" \in Settings!Calibrated(f, g)
      BY DEF Settings!Calibrated
    <3> QED
      BY <3>1, <3>2, CarriedAt
  <2>4. p.hardware["own"] = None /\ p.block["own"] = None
    <3>1. p.hardware["own"] = None
      BY <1>3, CarriedAt DEF Settings!IncludePlan, Settings!Option
    <3>2. "own" \notin Settings!Owned(g)
      BY DEF Settings!Owned
    <3>3. p.block["own"] = None
      BY <1>3, <3>2 DEF Settings!IncludePlan, Settings!Option
    <3> QED
      BY <3>1, <3>3
  <2>5. \A o \in Settings!Savable : p.hardware[o] = None
    BY <2>2, <2>3 DEF Settings!Savable
  <2>6. /\ \A o \in Settings!Option \ Settings!Savable : p.saved[o] = None
        /\ p.saved["control"] \in {None, "pid"}
    BY <2>1 DEF WellPlaced
  <2>7. WellPlaced(p)
    BY <2>1, <2>4, <2>5, <2>6, Zenon DEF WellPlaced
  <2> QED
    BY <1>1, <2>7
<1> QED
  BY <1>1, <1>2, <1>3 DEF PlanOf

\* What is in force and changes is given up with its mode or its section, or the
\* review names it; and every value in force that changes is named.
LEMMA PlanKeeps ==
  ASSUME Settings!SettingsAssumption, NEW f, NEW g \in Choices, NEW p,
         WellFormed(f), WellPlaced(f), PlanOf(f, g, p), NEW o \in Settings!Option,
         Settings!Effective(f)[o] # None, Settings!Effective(p)[o] # Settings!Effective(f)[o]
  PROVE  /\ \/ o = "pid" /\ g.control # "pid"
            \/ o = "offset" /\ ~g.probe
            \/ o \in {"control", "pin"} /\ o \in Settings!Warned(f, p)
            \/ o = "extra" /\ f.hardware["extra"] # None /\ o \in Settings!Warned(f, p)
         /\ o \in Settings!Warned(f, p)
<1> DEFINE new == Settings!Carried(f, g)[o]
           root == Settings!Root(f)[o]
<1>1. g.control \in {"pid", "watermark"} /\ g.value # None /\ g.control # None
  BY DEF Settings!SettingsAssumption
<1>2. root = IF f.base[o] # None THEN f.base[o] ELSE f.block[o]
  BY SaidAt
<1>3. Settings!Active(f)[o] = IF root # None THEN root ELSE f.hardware[o]
  BY SaidAt
<1>4. Settings!Effective(f)[o] =
          IF f.layout = "include"
          THEN IF Settings!Active(f)[o] # None THEN Settings!Active(f)[o] ELSE f.saved[o]
          ELSE IF root # None THEN root ELSE f.saved[o]
  BY SaidAt
<1>5. Settings!Root(p)[o] = IF p.base[o] # None THEN p.base[o] ELSE p.block[o]
  BY SaidAt
<1>6. Settings!Active(p)[o] =
          IF Settings!Root(p)[o] # None THEN Settings!Root(p)[o] ELSE p.hardware[o]
  BY SaidAt
<1>7. Settings!Effective(p)[o] =
          IF p.layout = "include"
          THEN IF Settings!Active(p)[o] # None THEN Settings!Active(p)[o] ELSE p.saved[o]
          ELSE IF Settings!Root(p)[o] # None THEN Settings!Root(p)[o] ELSE p.saved[o]
  BY SaidAt
<1>8. Fresh(f, g, o) = IF root # None THEN root
                       ELSE IF f.hardware[o] # None THEN f.hardware[o] ELSE g.value
  BY DEF Fresh
<1>9. o \in Settings!Warned(f, p) <=>
          \/ root \notin {None, Settings!Effective(p)[o]}
          \/ f.hardware[o] \notin {None, Settings!Effective(p)[o]}
  BY DEF Settings!Warned
<1>10. /\ o \notin Settings!Savable => f.saved[o] = None
       /\ f.layout # "include" => f.hardware[o] = None
       /\ f.layout = "include" /\ o \in Settings!Savable => f.hardware[o] = None
       /\ f.layout = "include" /\ o = "own" => f.block[o] = None /\ f.hardware[o] = None
       /\ o = "control" => f.saved[o] \in {None, "pid"}
  BY DEF WellPlaced
<1> HIDE DEF root
<1>11. CASE f.layout = "include"
  <2>1. p = Settings!IncludePlan(f, g) /\ ~Settings!Conflict(f, g)
    BY <1>11 DEF PlanOf
  <2>2. p.layout = "include" /\ p.saved[o] = f.saved[o]
    BY <2>1 DEF Settings!IncludePlan
  <2>3. p.base[o] = IF o \in Settings!Owned(g) THEN None ELSE f.base[o]
    BY <2>1 DEF Settings!IncludePlan, Settings!Stripped
  <2>4. p.block[o] = IF o \in Settings!Calibrated(f, g) /\ o \in Settings!Owned(g)
                        /\ Settings!Retained(f, o, new) THEN new ELSE None
    BY <2>1 DEF Settings!IncludePlan
  <2>5. p.hardware[o] = IF o \in Settings!Calibrated(f, g) THEN None ELSE new
    BY <2>1 DEF Settings!IncludePlan
  <2>6. Settings!Retained(f, o, new) <=>
            new # None /\ (f.saved[o] = None
                           \/ (Settings!Active(f)[o] # None /\ new = Settings!Active(f)[o]))
    BY DEF Settings!Retained
  <2>7. g.control # "pid" => (o \in {"control", "pid"} => f.saved[o] = None)
    BY <2>1 DEF Settings!Conflict
  <2> HIDE DEF new
  <2>8. CASE o = "control"
    <3>1. new = g.control
      BY <2>8, CarriedAt DEF new, root
    <3>2. o \in Settings!Owned(g)
      BY <2>8 DEF Settings!Owned
    <3>3. o \in Settings!Calibrated(f, g)
      BY <2>8 DEF Settings!Calibrated, Settings!Option
    <3>4. o \in Settings!Savable
      BY <2>8 DEF Settings!Savable
    <3> QED
      BY <1>1, <1>2, <1>3, <1>4, <1>5, <1>6, <1>7, <1>8, <1>9, <1>10, <1>11, <2>2, <2>3,
         <2>4, <2>5, <2>6, <2>7, <2>8, <3>1, <3>2, <3>3, <3>4
  <2>9. CASE o = "pid"
    <3>1. new = (IF g.control = "pid" THEN Fresh(f, g, o) ELSE None)
      BY <2>9, CarriedAt DEF new, root
    <3>2. o \in Settings!Owned(g)
      BY <2>9 DEF Settings!Owned
    <3>3. o \in Settings!Calibrated(f, g) <=> (f.saved[o] # None \/ g.control = "pid")
      BY <2>9 DEF Settings!Calibrated, Settings!Option
    <3>4. o \in Settings!Savable
      BY <2>9 DEF Settings!Savable
    <3> QED
      BY <1>1, <1>2, <1>3, <1>4, <1>5, <1>6, <1>7, <1>8, <1>9, <1>10, <1>11, <2>2, <2>3,
         <2>4, <2>5, <2>6, <2>7, <2>9, <3>1, <3>2, <3>3, <3>4
  <2>10. CASE o = "offset"
    <3>1. new = (IF g.probe THEN Fresh(f, g, o) ELSE None)
      BY <2>10, CarriedAt DEF new, root
    <3>2. o \in Settings!Owned(g) <=> g.probe
      BY <2>10 DEF Settings!Owned
    <3>3. o \in Settings!Calibrated(f, g)
      BY <2>10 DEF Settings!Calibrated, Settings!Option
    <3>4. o \in Settings!Savable
      BY <2>10 DEF Settings!Savable
    <3> QED
      BY <1>1, <1>2, <1>3, <1>4, <1>5, <1>6, <1>7, <1>8, <1>9, <1>10, <1>11, <2>2, <2>3,
         <2>4, <2>5, <2>6, <2>7, <2>10, <3>1, <3>2, <3>3, <3>4
  <2>11. CASE o = "velocity"
    <3>1. new = Fresh(f, g, o)
      BY <2>11, CarriedAt DEF new, root
    <3>2. o \in Settings!Owned(g)
      BY <2>11 DEF Settings!Owned
    <3>3. o \notin Settings!Calibrated(f, g)
      BY <2>11, <1>10 DEF Settings!Calibrated, Settings!Savable
    <3>4. o \notin Settings!Savable
      BY <2>11 DEF Settings!Savable
    <3> QED
      BY <1>1, <1>2, <1>3, <1>4, <1>5, <1>6, <1>7, <1>8, <1>9, <1>10, <1>11, <2>2, <2>3,
         <2>4, <2>5, <2>6, <2>7, <2>11, <3>1, <3>2, <3>3, <3>4
  <2>12. CASE o = "pin"
    <3>1. new = g.value
      BY <2>12, CarriedAt DEF new, root
    <3>2. o \in Settings!Owned(g)
      BY <2>12 DEF Settings!Owned
    <3>3. o \notin Settings!Calibrated(f, g)
      BY <2>12, <1>10 DEF Settings!Calibrated, Settings!Savable
    <3>4. o \notin Settings!Savable
      BY <2>12 DEF Settings!Savable
    <3> QED
      BY <1>1, <1>2, <1>3, <1>4, <1>5, <1>6, <1>7, <1>8, <1>9, <1>10, <1>11, <2>2, <2>3,
         <2>4, <2>5, <2>6, <2>7, <2>12, <3>1, <3>2, <3>3, <3>4
  <2>13. CASE o = "extra"
    <3>1. new = (IF f.hardware[o] # None THEN f.hardware[o] ELSE root)
      BY <2>13, CarriedAt DEF new, root
    <3>2. o \in Settings!Owned(g)
      BY <2>13 DEF Settings!Owned
    <3>3. o \notin Settings!Calibrated(f, g)
      BY <2>13, <1>10 DEF Settings!Calibrated, Settings!Savable
    <3>4. o \notin Settings!Savable
      BY <2>13 DEF Settings!Savable
    <3> QED
      BY <1>1, <1>2, <1>3, <1>4, <1>5, <1>6, <1>7, <1>8, <1>9, <1>10, <1>11, <2>2, <2>3,
         <2>4, <2>5, <2>6, <2>7, <2>13, <3>1, <3>2, <3>3, <3>4
  <2>14. CASE o = "own"
    <3>1. new = None
      BY <2>14, CarriedAt DEF new, root
    <3>2. o \notin Settings!Owned(g)
      BY <2>14 DEF Settings!Owned
    <3>3. o \notin Settings!Calibrated(f, g)
      BY <2>14, <1>10 DEF Settings!Calibrated, Settings!Savable
    <3>4. o \notin Settings!Savable
      BY <2>14 DEF Settings!Savable
    <3> QED
      BY <1>1, <1>2, <1>3, <1>4, <1>5, <1>6, <1>7, <1>8, <1>9, <1>10, <1>11, <2>2, <2>3,
         <2>4, <2>5, <2>6, <2>7, <2>14, <3>1, <3>2, <3>3, <3>4
  <2> QED
    BY <2>8, <2>9, <2>10, <2>11, <2>12, <2>13, <2>14 DEF Settings!Option
<1>12. CASE f.layout # "include"
  <2>1. p = Settings!RootPlan(f, g)
    BY <1>12 DEF PlanOf
  <2>2. p.layout = "root" /\ p.saved[o] = f.saved[o] /\ p.hardware[o] = f.hardware[o]
    BY <2>1 DEF Settings!RootPlan
  <2>3. p.base[o] = IF o \in Settings!Owned(g) THEN None ELSE root
    BY <2>1 DEF Settings!RootPlan, root
  <2>4. p.block[o] = IF f.saved[o] # None /\ Settings!Active(f)[o] = None THEN None ELSE new
    BY <2>1 DEF Settings!RootPlan
  <2> HIDE DEF new
  <2>5. CASE o = "control"
    <3>1. new = g.control
      BY <2>5, CarriedAt DEF new, root
    <3>2. o \in Settings!Owned(g)
      BY <2>5 DEF Settings!Owned
    <3>3. o \in Settings!Savable
      BY <2>5 DEF Settings!Savable
    <3> QED
      BY <1>1, <1>2, <1>3, <1>4, <1>5, <1>6, <1>7, <1>8, <1>9, <1>10, <1>12, <2>2, <2>3,
         <2>4, <2>5, <3>1, <3>2, <3>3
  <2>6. CASE o = "pid"
    <3>1. new = (IF g.control = "pid" THEN Fresh(f, g, o) ELSE None)
      BY <2>6, CarriedAt DEF new, root
    <3>2. o \in Settings!Owned(g)
      BY <2>6 DEF Settings!Owned
    <3>3. o \in Settings!Savable
      BY <2>6 DEF Settings!Savable
    <3> QED
      BY <1>1, <1>2, <1>3, <1>4, <1>5, <1>6, <1>7, <1>8, <1>9, <1>10, <1>12, <2>2, <2>3,
         <2>4, <2>6, <3>1, <3>2, <3>3
  <2>7. CASE o = "offset"
    <3>1. new = (IF g.probe THEN Fresh(f, g, o) ELSE None)
      BY <2>7, CarriedAt DEF new, root
    <3>2. o \in Settings!Owned(g) <=> g.probe
      BY <2>7 DEF Settings!Owned
    <3>3. o \in Settings!Savable
      BY <2>7 DEF Settings!Savable
    <3> QED
      BY <1>1, <1>2, <1>3, <1>4, <1>5, <1>6, <1>7, <1>8, <1>9, <1>10, <1>12, <2>2, <2>3,
         <2>4, <2>7, <3>1, <3>2, <3>3
  <2>8. CASE o = "velocity"
    <3>1. new = Fresh(f, g, o)
      BY <2>8, CarriedAt DEF new, root
    <3>2. o \in Settings!Owned(g)
      BY <2>8 DEF Settings!Owned
    <3>3. o \notin Settings!Savable
      BY <2>8 DEF Settings!Savable
    <3> QED
      BY <1>1, <1>2, <1>3, <1>4, <1>5, <1>6, <1>7, <1>8, <1>9, <1>10, <1>12, <2>2, <2>3,
         <2>4, <2>8, <3>1, <3>2, <3>3
  <2>9. CASE o = "pin"
    <3>1. new = g.value
      BY <2>9, CarriedAt DEF new, root
    <3>2. o \in Settings!Owned(g)
      BY <2>9 DEF Settings!Owned
    <3>3. o \notin Settings!Savable
      BY <2>9 DEF Settings!Savable
    <3> QED
      BY <1>1, <1>2, <1>3, <1>4, <1>5, <1>6, <1>7, <1>8, <1>9, <1>10, <1>12, <2>2, <2>3,
         <2>4, <2>9, <3>1, <3>2, <3>3
  <2>10. CASE o = "extra"
    <3>1. new = (IF f.hardware[o] # None THEN f.hardware[o] ELSE root)
      BY <2>10, CarriedAt DEF new, root
    <3>2. o \in Settings!Owned(g)
      BY <2>10 DEF Settings!Owned
    <3>3. o \notin Settings!Savable
      BY <2>10 DEF Settings!Savable
    <3> QED
      BY <1>1, <1>2, <1>3, <1>4, <1>5, <1>6, <1>7, <1>8, <1>9, <1>10, <1>12, <2>2, <2>3,
         <2>4, <2>10, <3>1, <3>2, <3>3
  <2>11. CASE o = "own"
    <3>1. new = None
      BY <2>11, CarriedAt DEF new, root
    <3>2. o \notin Settings!Owned(g)
      BY <2>11 DEF Settings!Owned
    <3>3. o \notin Settings!Savable
      BY <2>11 DEF Settings!Savable
    <3> QED
      BY <1>1, <1>2, <1>3, <1>4, <1>5, <1>6, <1>7, <1>8, <1>9, <1>10, <1>12, <2>2, <2>3,
         <2>4, <2>11, <3>1, <3>2, <3>3
  <2> QED
    BY <2>5, <2>6, <2>7, <2>8, <2>9, <2>10, <2>11 DEF Settings!Option
<1> QED
  BY <1>11, <1>12


\* What is planned for a choice is what would be planned for it again.
LEMMA PlanAgainAt ==
  ASSUME Settings!SettingsAssumption, NEW f, NEW g \in Choices, NEW p,
         WellFormed(f), WellPlaced(f), PlanOf(f, g, p), NEW o \in Settings!Option
  PROVE  /\ f.layout = "include" =>
                LET q == Settings!IncludePlan(p, g)
                IN  q.base[o] = p.base[o] /\ q.block[o] = p.block[o] /\ q.hardware[o] = p.hardware[o]
         /\ f.layout # "include" =>
                LET q == Settings!RootPlan(p, g)
                IN  q.base[o] = p.base[o] /\ q.block[o] = p.block[o] /\ q.hardware[o] = p.hardware[o]
<1> DEFINE new == Settings!Carried(f, g)[o]
           newp == Settings!Carried(p, g)[o]
           root == Settings!Root(f)[o]
           rootp == Settings!Root(p)[o]
<1>1. g.control \in {"pid", "watermark"} /\ g.value # None /\ g.control # None
  BY DEF Settings!SettingsAssumption
<1>2. root = IF f.base[o] # None THEN f.base[o] ELSE f.block[o]
  BY SaidAt
<1>3. Settings!Active(f)[o] = IF root # None THEN root ELSE f.hardware[o]
  BY SaidAt
<1>4. rootp = IF p.base[o] # None THEN p.base[o] ELSE p.block[o]
  BY SaidAt
<1>5. Settings!Active(p)[o] = IF rootp # None THEN rootp ELSE p.hardware[o]
  BY SaidAt
<1>6. /\ Fresh(f, g, o) = IF root # None THEN root
                          ELSE IF f.hardware[o] # None THEN f.hardware[o] ELSE g.value
      /\ Fresh(p, g, o) = IF rootp # None THEN rootp
                          ELSE IF p.hardware[o] # None THEN p.hardware[o] ELSE g.value
  BY DEF Fresh
<1>7. /\ o \notin Settings!Savable => f.saved[o] = None
      /\ f.layout # "include" => f.hardware[o] = None
      /\ f.layout = "include" /\ o \in Settings!Savable => f.hardware[o] = None
      /\ f.layout = "include" /\ o = "own" => f.block[o] = None /\ f.hardware[o] = None
      /\ o = "control" => f.saved[o] \in {None, "pid"}
  BY DEF WellPlaced
<1> HIDE DEF root, rootp
<1>8. CASE f.layout = "include"
  <2>1. p = Settings!IncludePlan(f, g) /\ ~Settings!Conflict(f, g)
    BY <1>8 DEF PlanOf
  <2> DEFINE q == Settings!IncludePlan(p, g)
  <2>2. p.saved[o] = f.saved[o]
    BY <2>1 DEF Settings!IncludePlan
  <2>3. p.base[o] = IF o \in Settings!Owned(g) THEN None ELSE f.base[o]
    BY <2>1 DEF Settings!IncludePlan, Settings!Stripped
  <2>4. p.block[o] = IF o \in Settings!Calibrated(f, g) /\ o \in Settings!Owned(g)
                        /\ Settings!Retained(f, o, new) THEN new ELSE None
    BY <2>1 DEF Settings!IncludePlan
  <2>5. p.hardware[o] = IF o \in Settings!Calibrated(f, g) THEN None ELSE new
    BY <2>1 DEF Settings!IncludePlan
  <2>6. Settings!Retained(f, o, new) <=>
            new # None /\ (f.saved[o] = None
                           \/ (Settings!Active(f)[o] # None /\ new = Settings!Active(f)[o]))
    BY DEF Settings!Retained
  <2>7. g.control # "pid" => (o \in {"control", "pid"} => f.saved[o] = None)
    BY <2>1 DEF Settings!Conflict
  <2>8. q.base[o] = IF o \in Settings!Owned(g) THEN None ELSE p.base[o]
    BY DEF Settings!IncludePlan, Settings!Stripped
  <2>9. q.block[o] = IF o \in Settings!Calibrated(p, g) /\ o \in Settings!Owned(g)
                        /\ Settings!Retained(p, o, newp) THEN newp ELSE None
    BY DEF Settings!IncludePlan
  <2>10. q.hardware[o] = IF o \in Settings!Calibrated(p, g) THEN None ELSE newp
    BY DEF Settings!IncludePlan
  <2>11. Settings!Retained(p, o, newp) <=>
            newp # None /\ (p.saved[o] = None
                            \/ (Settings!Active(p)[o] # None /\ newp = Settings!Active(p)[o]))
    BY DEF Settings!Retained
  <2> HIDE DEF new, newp, q
  <2>12. CASE o = "control"
    <3>1. new = g.control
      BY <2>12, CarriedAt DEF new, root
    <3>2. newp = g.control
      BY <2>12, CarriedAt DEF newp, rootp
    <3>3. o \in Settings!Owned(g)
      BY <2>12 DEF Settings!Owned
    <3>4. /\ o \in Settings!Calibrated(f, g)
          /\ o \in Settings!Calibrated(p, g)
      BY <2>12 DEF Settings!Calibrated, Settings!Option
    <3>5. o \in Settings!Savable
      BY <2>12 DEF Settings!Savable
    <3>6. q.base[o] = p.base[o]
      BY <2>3, <2>8
    <3>7. q.block[o] = p.block[o]
      BY <1>1, <1>2, <1>3, <1>4, <1>5, <1>6, <1>7, <1>8,
         <2>2, <2>3, <2>4, <2>5, <2>6, <2>7, <2>9, <2>11, <2>12, <3>1, <3>2, <3>3, <3>4, <3>5
    <3>8. q.hardware[o] = p.hardware[o]
      BY <1>1, <1>2, <1>3, <1>4, <1>5, <1>6, <1>7, <1>8,
         <2>2, <2>3, <2>4, <2>5, <2>6, <2>7, <2>10, <2>12, <3>1, <3>2, <3>3, <3>4, <3>5
    <3> QED
      BY <1>8, <3>6, <3>7, <3>8 DEF q
  <2>13. CASE o = "pid"
    <3>1. new = (IF g.control = "pid" THEN Fresh(f, g, o) ELSE None)
      BY <2>13, CarriedAt DEF new, root
    <3>2. newp = (IF g.control = "pid" THEN Fresh(p, g, o) ELSE None)
      BY <2>13, CarriedAt DEF newp, rootp
    <3>3. o \in Settings!Owned(g)
      BY <2>13 DEF Settings!Owned
    <3>4. /\ o \in Settings!Calibrated(f, g) <=> (f.saved[o] # None \/ g.control = "pid")
          /\ o \in Settings!Calibrated(p, g) <=> (p.saved[o] # None \/ g.control = "pid")
      BY <2>13 DEF Settings!Calibrated, Settings!Option
    <3>5. o \in Settings!Savable
      BY <2>13 DEF Settings!Savable
    <3>6. q.base[o] = p.base[o]
      BY <2>3, <2>8
    <3>7. q.block[o] = p.block[o]
      BY <1>1, <1>2, <1>3, <1>4, <1>5, <1>6, <1>7, <1>8,
         <2>2, <2>3, <2>4, <2>5, <2>6, <2>7, <2>9, <2>11, <2>13, <3>1, <3>2, <3>3, <3>4, <3>5
    <3>8. q.hardware[o] = p.hardware[o]
      BY <1>1, <1>2, <1>3, <1>4, <1>5, <1>6, <1>7, <1>8,
         <2>2, <2>3, <2>4, <2>5, <2>6, <2>7, <2>10, <2>13, <3>1, <3>2, <3>3, <3>4, <3>5
    <3> QED
      BY <1>8, <3>6, <3>7, <3>8 DEF q
  <2>14. CASE o = "offset"
    <3>1. new = (IF g.probe THEN Fresh(f, g, o) ELSE None)
      BY <2>14, CarriedAt DEF new, root
    <3>2. newp = (IF g.probe THEN Fresh(p, g, o) ELSE None)
      BY <2>14, CarriedAt DEF newp, rootp
    <3>3. o \in Settings!Owned(g) <=> g.probe
      BY <2>14 DEF Settings!Owned
    <3>4. /\ o \in Settings!Calibrated(f, g)
          /\ o \in Settings!Calibrated(p, g)
      BY <2>14 DEF Settings!Calibrated, Settings!Option
    <3>5. o \in Settings!Savable
      BY <2>14 DEF Settings!Savable
    <3>6. q.base[o] = p.base[o]
      BY <2>3, <2>8
    <3>7. q.block[o] = p.block[o]
      BY <1>1, <1>2, <1>3, <1>4, <1>5, <1>6, <1>7, <1>8,
         <2>2, <2>3, <2>4, <2>5, <2>6, <2>7, <2>9, <2>11, <2>14, <3>1, <3>2, <3>3, <3>4, <3>5
    <3>8. q.hardware[o] = p.hardware[o]
      BY <1>1, <1>2, <1>3, <1>4, <1>5, <1>6, <1>7, <1>8,
         <2>2, <2>3, <2>4, <2>5, <2>6, <2>7, <2>10, <2>14, <3>1, <3>2, <3>3, <3>4, <3>5
    <3> QED
      BY <1>8, <3>6, <3>7, <3>8 DEF q
  <2>15. CASE o = "velocity"
    <3>1. new = Fresh(f, g, o)
      BY <2>15, CarriedAt DEF new, root
    <3>2. newp = Fresh(p, g, o)
      BY <2>15, CarriedAt DEF newp, rootp
    <3>3. o \in Settings!Owned(g)
      BY <2>15 DEF Settings!Owned
    <3>4. o \notin Settings!Calibrated(f, g) /\ o \notin Settings!Calibrated(p, g)
      BY <2>15, <1>7, <2>2 DEF Settings!Calibrated, Settings!Savable
    <3>5. o \notin Settings!Savable
      BY <2>15 DEF Settings!Savable
    <3>6. q.base[o] = p.base[o]
      BY <2>3, <2>8
    <3>7. q.block[o] = p.block[o]
      BY <1>1, <1>2, <1>3, <1>4, <1>5, <1>6, <1>7, <1>8,
         <2>2, <2>3, <2>4, <2>5, <2>6, <2>7, <2>9, <2>11, <2>15, <3>1, <3>2, <3>3, <3>4, <3>5
    <3>8. q.hardware[o] = p.hardware[o]
      BY <1>1, <1>2, <1>3, <1>4, <1>5, <1>6, <1>7, <1>8,
         <2>2, <2>3, <2>4, <2>5, <2>6, <2>7, <2>10, <2>15, <3>1, <3>2, <3>3, <3>4, <3>5
    <3> QED
      BY <1>8, <3>6, <3>7, <3>8 DEF q
  <2>16. CASE o = "pin"
    <3>1. new = g.value
      BY <2>16, CarriedAt DEF new, root
    <3>2. newp = g.value
      BY <2>16, CarriedAt DEF newp, rootp
    <3>3. o \in Settings!Owned(g)
      BY <2>16 DEF Settings!Owned
    <3>4. o \notin Settings!Calibrated(f, g) /\ o \notin Settings!Calibrated(p, g)
      BY <2>16, <1>7, <2>2 DEF Settings!Calibrated, Settings!Savable
    <3>5. o \notin Settings!Savable
      BY <2>16 DEF Settings!Savable
    <3>6. q.base[o] = p.base[o]
      BY <2>3, <2>8
    <3>7. q.block[o] = p.block[o]
      BY <1>1, <1>2, <1>3, <1>4, <1>5, <1>6, <1>7, <1>8,
         <2>2, <2>3, <2>4, <2>5, <2>6, <2>7, <2>9, <2>11, <2>16, <3>1, <3>2, <3>3, <3>4, <3>5
    <3>8. q.hardware[o] = p.hardware[o]
      BY <1>1, <1>2, <1>3, <1>4, <1>5, <1>6, <1>7, <1>8,
         <2>2, <2>3, <2>4, <2>5, <2>6, <2>7, <2>10, <2>16, <3>1, <3>2, <3>3, <3>4, <3>5
    <3> QED
      BY <1>8, <3>6, <3>7, <3>8 DEF q
  <2>17. CASE o = "extra"
    <3>1. new = (IF f.hardware[o] # None THEN f.hardware[o] ELSE root)
      BY <2>17, CarriedAt DEF new, root
    <3>2. newp = (IF p.hardware[o] # None THEN p.hardware[o] ELSE rootp)
      BY <2>17, CarriedAt DEF newp, rootp
    <3>3. o \in Settings!Owned(g)
      BY <2>17 DEF Settings!Owned
    <3>4. o \notin Settings!Calibrated(f, g) /\ o \notin Settings!Calibrated(p, g)
      BY <2>17, <1>7, <2>2 DEF Settings!Calibrated, Settings!Savable
    <3>5. o \notin Settings!Savable
      BY <2>17 DEF Settings!Savable
    <3>6. q.base[o] = p.base[o]
      BY <2>3, <2>8
    <3>7. q.block[o] = p.block[o]
      BY <1>1, <1>2, <1>3, <1>4, <1>5, <1>6, <1>7, <1>8,
         <2>2, <2>3, <2>4, <2>5, <2>6, <2>7, <2>9, <2>11, <2>17, <3>1, <3>2, <3>3, <3>4, <3>5
    <3>8. q.hardware[o] = p.hardware[o]
      BY <1>1, <1>2, <1>3, <1>4, <1>5, <1>6, <1>7, <1>8,
         <2>2, <2>3, <2>4, <2>5, <2>6, <2>7, <2>10, <2>17, <3>1, <3>2, <3>3, <3>4, <3>5
    <3> QED
      BY <1>8, <3>6, <3>7, <3>8 DEF q
  <2>18. CASE o = "own"
    <3>1. new = None
      BY <2>18, CarriedAt DEF new, root
    <3>2. newp = None
      BY <2>18, CarriedAt DEF newp, rootp
    <3>3. o \notin Settings!Owned(g)
      BY <2>18 DEF Settings!Owned
    <3>4. o \notin Settings!Calibrated(f, g) /\ o \notin Settings!Calibrated(p, g)
      BY <2>18, <1>7, <2>2 DEF Settings!Calibrated, Settings!Savable
    <3>5. o \notin Settings!Savable
      BY <2>18 DEF Settings!Savable
    <3>6. q.base[o] = p.base[o]
      BY <2>3, <2>8
    <3>7. q.block[o] = p.block[o]
      BY <1>1, <1>2, <1>3, <1>4, <1>5, <1>6, <1>7, <1>8,
         <2>2, <2>3, <2>4, <2>5, <2>6, <2>7, <2>9, <2>11, <2>18, <3>1, <3>2, <3>3, <3>4, <3>5
    <3>8. q.hardware[o] = p.hardware[o]
      BY <1>1, <1>2, <1>3, <1>4, <1>5, <1>6, <1>7, <1>8,
         <2>2, <2>3, <2>4, <2>5, <2>6, <2>7, <2>10, <2>18, <3>1, <3>2, <3>3, <3>4, <3>5
    <3> QED
      BY <1>8, <3>6, <3>7, <3>8 DEF q
  <2> QED
    BY <2>12, <2>13, <2>14, <2>15, <2>16, <2>17, <2>18 DEF Settings!Option
<1>9. CASE f.layout # "include"
  <2>1. p = Settings!RootPlan(f, g)
    BY <1>9 DEF PlanOf
  <2> DEFINE q == Settings!RootPlan(p, g)
  <2>2. p.saved[o] = f.saved[o] /\ p.hardware[o] = f.hardware[o]
    BY <2>1 DEF Settings!RootPlan
  <2>3. p.base[o] = IF o \in Settings!Owned(g) THEN None ELSE root
    BY <2>1 DEF Settings!RootPlan, root
  <2>4. p.block[o] = IF f.saved[o] # None /\ Settings!Active(f)[o] = None THEN None ELSE new
    BY <2>1 DEF Settings!RootPlan
  <2>5. q.hardware[o] = p.hardware[o]
    BY DEF Settings!RootPlan
  <2>6. q.base[o] = IF o \in Settings!Owned(g) THEN None ELSE rootp
    BY DEF Settings!RootPlan, rootp
  <2>7. q.block[o] = IF p.saved[o] # None /\ Settings!Active(p)[o] = None THEN None ELSE newp
    BY DEF Settings!RootPlan
  <2> HIDE DEF new, newp, q
  <2>8. CASE o = "control"
    <3>1. new = g.control
      BY <2>8, CarriedAt DEF new, root
    <3>2. newp = g.control
      BY <2>8, CarriedAt DEF newp, rootp
    <3>3. o \in Settings!Owned(g)
      BY <2>8 DEF Settings!Owned
    <3>4. o \in Settings!Savable
      BY <2>8 DEF Settings!Savable
    <3>5. q.base[o] = p.base[o]
      BY <1>1, <1>2, <1>3, <1>4, <1>5, <1>6, <1>7, <1>9, <2>2, <2>3, <2>4, <2>6, <2>8,
         <3>1, <3>3, <3>4
    <3>6. q.block[o] = p.block[o]
      BY <1>1, <1>2, <1>3, <1>4, <1>5, <1>6, <1>7, <1>9, <2>2, <2>3, <2>4, <2>7, <2>8,
         <3>1, <3>2, <3>3, <3>4
    <3> QED
      BY <1>9, <2>5, <3>5, <3>6 DEF q
  <2>9. CASE o = "pid"
    <3>1. new = (IF g.control = "pid" THEN Fresh(f, g, o) ELSE None)
      BY <2>9, CarriedAt DEF new, root
    <3>2. newp = (IF g.control = "pid" THEN Fresh(p, g, o) ELSE None)
      BY <2>9, CarriedAt DEF newp, rootp
    <3>3. o \in Settings!Owned(g)
      BY <2>9 DEF Settings!Owned
    <3>4. o \in Settings!Savable
      BY <2>9 DEF Settings!Savable
    <3>5. q.base[o] = p.base[o]
      BY <1>1, <1>2, <1>3, <1>4, <1>5, <1>6, <1>7, <1>9, <2>2, <2>3, <2>4, <2>6, <2>9,
         <3>1, <3>3, <3>4
    <3>6. q.block[o] = p.block[o]
      BY <1>1, <1>2, <1>3, <1>4, <1>5, <1>6, <1>7, <1>9, <2>2, <2>3, <2>4, <2>7, <2>9,
         <3>1, <3>2, <3>3, <3>4
    <3> QED
      BY <1>9, <2>5, <3>5, <3>6 DEF q
  <2>10. CASE o = "offset"
    <3>1. new = (IF g.probe THEN Fresh(f, g, o) ELSE None)
      BY <2>10, CarriedAt DEF new, root
    <3>2. newp = (IF g.probe THEN Fresh(p, g, o) ELSE None)
      BY <2>10, CarriedAt DEF newp, rootp
    <3>3. o \in Settings!Owned(g) <=> g.probe
      BY <2>10 DEF Settings!Owned
    <3>4. o \in Settings!Savable
      BY <2>10 DEF Settings!Savable
    <3>5. q.base[o] = p.base[o]
      BY <1>1, <1>2, <1>3, <1>4, <1>5, <1>6, <1>7, <1>9, <2>2, <2>3, <2>4, <2>6, <2>10,
         <3>1, <3>3, <3>4
    <3>6. q.block[o] = p.block[o]
      BY <1>1, <1>2, <1>3, <1>4, <1>5, <1>6, <1>7, <1>9, <2>2, <2>3, <2>4, <2>7, <2>10,
         <3>1, <3>2, <3>3, <3>4
    <3> QED
      BY <1>9, <2>5, <3>5, <3>6 DEF q
  <2>11. CASE o = "velocity"
    <3>1. new = Fresh(f, g, o)
      BY <2>11, CarriedAt DEF new, root
    <3>2. newp = Fresh(p, g, o)
      BY <2>11, CarriedAt DEF newp, rootp
    <3>3. o \in Settings!Owned(g)
      BY <2>11 DEF Settings!Owned
    <3>4. o \notin Settings!Savable
      BY <2>11 DEF Settings!Savable
    <3>5. q.base[o] = p.base[o]
      BY <1>1, <1>2, <1>3, <1>4, <1>5, <1>6, <1>7, <1>9, <2>2, <2>3, <2>4, <2>6, <2>11,
         <3>1, <3>3, <3>4
    <3>6. q.block[o] = p.block[o]
      BY <1>1, <1>2, <1>3, <1>4, <1>5, <1>6, <1>7, <1>9, <2>2, <2>3, <2>4, <2>7, <2>11,
         <3>1, <3>2, <3>3, <3>4
    <3> QED
      BY <1>9, <2>5, <3>5, <3>6 DEF q
  <2>12. CASE o = "pin"
    <3>1. new = g.value
      BY <2>12, CarriedAt DEF new, root
    <3>2. newp = g.value
      BY <2>12, CarriedAt DEF newp, rootp
    <3>3. o \in Settings!Owned(g)
      BY <2>12 DEF Settings!Owned
    <3>4. o \notin Settings!Savable
      BY <2>12 DEF Settings!Savable
    <3>5. q.base[o] = p.base[o]
      BY <1>1, <1>2, <1>3, <1>4, <1>5, <1>6, <1>7, <1>9, <2>2, <2>3, <2>4, <2>6, <2>12,
         <3>1, <3>3, <3>4
    <3>6. q.block[o] = p.block[o]
      BY <1>1, <1>2, <1>3, <1>4, <1>5, <1>6, <1>7, <1>9, <2>2, <2>3, <2>4, <2>7, <2>12,
         <3>1, <3>2, <3>3, <3>4
    <3> QED
      BY <1>9, <2>5, <3>5, <3>6 DEF q
  <2>13. CASE o = "extra"
    <3>1. new = (IF f.hardware[o] # None THEN f.hardware[o] ELSE root)
      BY <2>13, CarriedAt DEF new, root
    <3>2. newp = (IF p.hardware[o] # None THEN p.hardware[o] ELSE rootp)
      BY <2>13, CarriedAt DEF newp, rootp
    <3>3. o \in Settings!Owned(g)
      BY <2>13 DEF Settings!Owned
    <3>4. o \notin Settings!Savable
      BY <2>13 DEF Settings!Savable
    <3>5. q.base[o] = p.base[o]
      BY <1>1, <1>2, <1>3, <1>4, <1>5, <1>6, <1>7, <1>9, <2>2, <2>3, <2>4, <2>6, <2>13,
         <3>1, <3>3, <3>4
    <3>6. q.block[o] = p.block[o]
      BY <1>1, <1>2, <1>3, <1>4, <1>5, <1>6, <1>7, <1>9, <2>2, <2>3, <2>4, <2>7, <2>13,
         <3>1, <3>2, <3>3, <3>4
    <3> QED
      BY <1>9, <2>5, <3>5, <3>6 DEF q
  <2>14. CASE o = "own"
    <3>1. new = None
      BY <2>14, CarriedAt DEF new, root
    <3>2. newp = None
      BY <2>14, CarriedAt DEF newp, rootp
    <3>3. o \notin Settings!Owned(g)
      BY <2>14 DEF Settings!Owned
    <3>4. o \notin Settings!Savable
      BY <2>14 DEF Settings!Savable
    <3>5. q.base[o] = p.base[o]
      BY <1>1, <1>2, <1>3, <1>4, <1>5, <1>6, <1>7, <1>9, <2>2, <2>3, <2>4, <2>6, <2>14,
         <3>1, <3>3, <3>4
    <3>6. q.block[o] = p.block[o]
      BY <1>1, <1>2, <1>3, <1>4, <1>5, <1>6, <1>7, <1>9, <2>2, <2>3, <2>4, <2>7, <2>14,
         <3>1, <3>2, <3>3, <3>4
    <3> QED
      BY <1>9, <2>5, <3>5, <3>6 DEF q
  <2> QED
    BY <2>8, <2>9, <2>10, <2>11, <2>12, <2>13, <2>14 DEF Settings!Option
<1> QED
  BY <1>8, <1>9

\* To plan twice is to plan once.
LEMMA PlanAgain ==
  ASSUME Settings!SettingsAssumption, NEW f, NEW g \in Choices, NEW p,
         WellFormed(f), WellPlaced(f), PlanOf(f, g, p)
  PROVE  Settings!Planned(p, g) = p
<1>1. WellFormed(p)
  BY PlanIsPlaced
<1>2. CASE f.layout = "include"
  <2> DEFINE q == Settings!IncludePlan(p, g)
  <2>1. p = Settings!IncludePlan(f, g) /\ ~Settings!Conflict(f, g)
    BY <1>2 DEF PlanOf
  <2>2. p.layout = "include" /\ p.saved = f.saved
    BY <2>1 DEF Settings!IncludePlan
  <2>3. ~Settings!Conflict(p, g)
    BY <2>1, <2>2 DEF Settings!Conflict
  <2>4. Settings!Planned(p, g) = q /\ WellFormed(q)
    BY <1>1, <2>2, <2>3, PlanForm
  <2>5. q.layout = p.layout /\ q.saved = p.saved
    BY <2>2 DEF Settings!IncludePlan
  <2>6. \A o \in Settings!Option :
            q.base[o] = p.base[o] /\ q.block[o] = p.block[o] /\ q.hardware[o] = p.hardware[o]
    BY <1>2, PlanAgainAt
  <2> HIDE DEF q
  <2>7. q = p
    BY <1>1, <2>4, <2>5, <2>6, SameFiles
  <2> QED
    BY <2>4, <2>7
<1>3. CASE f.layout # "include"
  <2> DEFINE q == Settings!RootPlan(p, g)
  <2>1. p = Settings!RootPlan(f, g)
    BY <1>3 DEF PlanOf
  <2>2. p.layout = "root"
    BY <2>1 DEF Settings!RootPlan
  <2>3. Settings!Planned(p, g) = q /\ WellFormed(q)
    BY <1>1, <2>2, PlanForm
  <2>4. q.layout = p.layout /\ q.saved = p.saved
    BY <2>2 DEF Settings!RootPlan
  <2>5. \A o \in Settings!Option :
            q.base[o] = p.base[o] /\ q.block[o] = p.block[o] /\ q.hardware[o] = p.hardware[o]
    BY <1>3, PlanAgainAt
  <2> HIDE DEF q
  <2>6. q = p
    BY <1>1, <2>3, <2>4, <2>5, SameFiles
  <2> QED
    BY <2>3, <2>6
<1> QED
  BY <1>2, <1>3

\* In the include layout the planned control mode is in force.
LEMMA PlanSetsMode ==
  ASSUME Settings!SettingsAssumption, NEW f, NEW g \in Choices, NEW p,
         WellFormed(f), WellPlaced(f), PlanOf(f, g, p), p.layout = "include"
  PROVE  Settings!Effective(p)["control"] = g.control
<1>1. p = Settings!IncludePlan(f, g) /\ ~Settings!Conflict(f, g) /\ f.layout = "include"
  BY DEF PlanOf, Settings!RootPlan
<1>2. g.control \in {"pid", "watermark"} /\ g.control # None
  BY DEF Settings!SettingsAssumption
<1>3. "control" \in Settings!Option /\ "control" \in Settings!Owned(g)
      /\ "control" \in Settings!Calibrated(f, g) /\ "control" \in Settings!Savable
  BY DEF Settings!Option, Settings!Owned, Settings!Calibrated, Settings!Savable
<1>4. Settings!Carried(f, g)["control"] = g.control
  BY CarriedAt
<1>5. /\ p.saved["control"] = f.saved["control"] /\ p.base["control"] = None
      /\ p.hardware["control"] = None
      /\ p.block["control"] = IF Settings!Retained(f, "control", g.control) THEN g.control ELSE None
  BY <1>1, <1>3, <1>4 DEF Settings!IncludePlan, Settings!Stripped
<1>6. Settings!Effective(p)["control"] =
          IF p.block["control"] # None THEN p.block["control"] ELSE p.saved["control"]
  BY <1>3, <1>5, SaidAt
<1>7. Settings!Retained(f, "control", g.control) \/ f.saved["control"] # None
  BY <1>2 DEF Settings!Retained
<1>8. f.saved["control"] # None => g.control = "pid" /\ f.saved["control"] = "pid"
  BY <1>1 DEF Settings!Conflict, WellPlaced
<1> QED
  BY <1>2, <1>5, <1>6, <1>7, <1>8

\* Over the first files.
LEMMA FirstFiles ==
  ASSUME Settings!SettingsAssumption, NEW f \in InitialFiles
  PROVE  WellFormed(f) /\ WellPlaced(f)
<1>1. /\ f = [layout |-> f.layout, base |-> f.base, block |-> Settings!Nothing,
              hardware |-> Settings!Nothing, saved |-> f.saved]
      /\ f.layout \in {"absent", "include"}
      /\ Settings!IsText(f.base) /\ Settings!IsText(f.saved)
  BY DEF Settings!SettingsAssumption
<1>2. f.block = Settings!Nothing /\ f.hardware = Settings!Nothing
  BY <1>1
<1>3. f = [layout |-> f.layout, base |-> f.base, block |-> f.block,
           hardware |-> f.hardware, saved |-> f.saved]
  BY <1>1, <1>2
<1>4. /\ f.base = [o \in Settings!Option |-> f.base[o]]
      /\ f.saved = [o \in Settings!Option |-> f.saved[o]]
  BY <1>1 DEF Settings!IsText
<1>5. /\ f.block = [o \in Settings!Option |-> f.block[o]]
      /\ f.hardware = [o \in Settings!Option |-> f.hardware[o]]
      /\ \A o \in Settings!Option : f.block[o] = None /\ f.hardware[o] = None
  BY <1>2 DEF Settings!Nothing
<1>6. f.layout \in {"absent", "root", "include"}
  BY <1>1
<1>7. WellFormed(f)
  BY <1>1, <1>3, <1>4, <1>5, <1>6, Zenon DEF WellFormed
<1>8. "own" \in Settings!Option /\ Settings!Savable \subseteq Settings!Option
  BY DEF Settings!Option, Settings!Savable
<1>9. WellPlaced(f)
  BY <1>5, <1>8 DEF WellPlaced, Settings!SettingsAssumption
<1> QED
  BY <1>7, <1>9

\* What the owner and the calibrations gave is in force, and Klipper can save;
\* what has been deployed settles, with the mode that was selected.
SettingsInv ==
    /\ WellFormed(settings) /\ WellPlaced(settings)
    /\ wanted = [o \in Settings!Option |-> wanted[o]]
    /\ Settings!UserValuesSurvive
    /\ Settings!SavingIsPossible
    /\ Settings!DeploymentSettles
    /\ Settings!ModeIsInForce

\* The first state satisfies the invariant.
LEMMA SettingsInit ==
  ASSUME Settings!SettingsAssumption, Settings!Init
  PROVE  SettingsInv
<1>1. WellFormed(settings) /\ WellPlaced(settings)
  BY FirstFiles DEF Settings!Init
<1>2. wanted = [o \in Settings!Option |-> wanted[o]]
  <2>1. wanted = Settings!Effective(settings)
    BY DEF Settings!Init
  <2> QED
    BY <2>1 DEF Settings!Effective, Settings!Over
<1>3. Settings!UserValuesSurvive
  BY DEF Settings!Init, Settings!UserValuesSurvive
<1>4. Settings!SavingIsPossible /\ Settings!DeploymentSettles /\ Settings!ModeIsInForce
  BY DEF Settings!Init, Settings!SavingIsPossible, Settings!DeploymentSettles,
         Settings!ModeIsInForce
<1> QED
  BY <1>1, <1>2, <1>3, <1>4 DEF SettingsInv

\* A deployment publishes what is planned.
LEMMA DeployPlans ==
  ASSUME WellFormed(settings), NEW g \in Choices, Settings!Deploy(g)
  PROVE  PlanOf(settings, g, settings') /\ settings' = Settings!Planned(settings, g)
<1>1. settings' = Settings!Planned(settings, g) /\ settings' # Refused
  BY DEF Settings!Deploy
<1>2. CASE settings.layout # "include"
  BY <1>1, <1>2, PlanForm DEF PlanOf
<1>3. CASE settings.layout = "include" /\ Settings!Conflict(settings, g)
  BY <1>1, <1>3, PlanForm
<1>4. CASE settings.layout = "include" /\ ~Settings!Conflict(settings, g)
  BY <1>1, <1>4, PlanForm DEF PlanOf
<1> QED
  BY <1>1, <1>2, <1>3, <1>4

\* A deployment keeps the invariant.
LEMMA DeployKeeps ==
  ASSUME Settings!SettingsAssumption, SettingsInv, NEW g \in Choices, Settings!Deploy(g)
  PROVE  SettingsInv'
<1> DEFINE f == settings
           p == Settings!Planned(settings, g)
<1>1. WellFormed(f) /\ WellPlaced(f) /\ PlanOf(f, g, p) /\ settings' = p
  BY DeployPlans DEF SettingsInv
<1>2. /\ deployed' = g /\ blocked' = blocked
      /\ wanted' = [o \in Settings!Option |->
                       IF o \in Settings!GivenUp(g, p) THEN None ELSE wanted[o]]
  BY DEF Settings!Deploy
<1> HIDE DEF p
<1>3. WellFormed(p) /\ WellPlaced(p)
  BY <1>1, PlanIsPlaced
<1>4. Settings!Planned(p, g) = p
  BY <1>1, PlanAgain
<1>5. p.layout = "include" => Settings!Effective(p)["control"] = g.control
  BY <1>1, PlanSetsMode
<1>6. ASSUME NEW o \in Settings!Option, wanted'[o] # None
      PROVE  Settings!Effective(p)[o] = wanted'[o]
  <2>1. o \notin Settings!GivenUp(g, p) /\ wanted'[o] = wanted[o]
    BY <1>2, <1>6
  <2>2. Settings!Effective(f)[o] = wanted[o] /\ Settings!Effective(f)[o] # None
    BY <1>6, <2>1 DEF SettingsInv, Settings!UserValuesSurvive
  <2>3. ASSUME Settings!Effective(p)[o] # Settings!Effective(f)[o]
        PROVE  FALSE
    <3>1. \/ o = "pid" /\ g.control # "pid"
          \/ o = "offset" /\ ~g.probe
          \/ o \in {"control", "pin"} /\ o \in Settings!Warned(f, p)
          \/ o = "extra" /\ f.hardware["extra"] # None /\ o \in Settings!Warned(f, p)
      BY <1>1, <2>2, <2>3, PlanKeeps
    <3>2. o \in Settings!GivenUp(g, p)
      BY <3>1 DEF Settings!GivenUp
    <3> QED
      BY <2>1, <3>2
  <2> QED
    BY <2>1, <2>2, <2>3
<1>7. Settings!UserValuesSurvive'
  BY <1>1, <1>6 DEF Settings!UserValuesSurvive
<1>8. Settings!DeploymentSettles' /\ Settings!ModeIsInForce'
  BY <1>1, <1>2, <1>4, <1>5 DEF Settings!DeploymentSettles, Settings!ModeIsInForce
<1>9. Settings!SavingIsPossible'
  BY <1>2 DEF SettingsInv, Settings!SavingIsPossible
<1>10. wanted' = [o \in Settings!Option |-> wanted'[o]]
  BY <1>2
<1>11. (WellFormed(settings) /\ WellPlaced(settings))'
  BY <1>1, <1>3
<1> QED
  BY <1>7, <1>8, <1>9, <1>10, <1>11 DEF SettingsInv

\* What is in force is said by the layout, the owner's text, the block, the
\* hardware file and the autosave text, option by option.
LEMMA SameInForce ==
  ASSUME NEW f, NEW p, NEW o \in Settings!Option, p.layout = f.layout,
         p.base[o] = f.base[o], p.block[o] = f.block[o], p.hardware[o] = f.hardware[o],
         p.saved[o] = f.saved[o]
  PROVE  Settings!Effective(p)[o] = Settings!Effective(f)[o]
<1> DEFINE Said(q) == LET root == IF q.base[o] # None THEN q.base[o] ELSE q.block[o]
                          text == IF root # None THEN root ELSE q.hardware[o]
                      IN  IF q.layout = "include"
                          THEN IF text # None THEN text ELSE q.saved[o]
                          ELSE IF root # None THEN root ELSE q.saved[o]
<1>1. Settings!Effective(f)[o] = Said(f)
  BY SaidAt
<1>2. Settings!Effective(p)[o] = Said(p)
  BY SaidAt
<1> QED
  BY <1>1, <1>2

\* An edit keeps the invariant.
LEMMA EditKeeps ==
  ASSUME Settings!SettingsAssumption, SettingsInv, NEW o \in Settings!Option, NEW v,
         Settings!Edit(o, v)
  PROVE  SettingsInv'
<1> DEFINE f == settings
<1>1. WellFormed(f) /\ WellPlaced(f)
  BY DEF SettingsInv
<1>2. /\ deployed' = None /\ blocked' = blocked
      /\ wanted' = [wanted EXCEPT ![o] = IF v = None THEN None
                                         ELSE Settings!Effective(settings')[o]]
  BY DEF Settings!Edit
<1>3. PICK base, block :
          /\ base = [q \in Settings!Option |-> base[q]]
          /\ block = [q \in Settings!Option |-> block[q]]
          /\ settings' = [layout |-> f.layout, base |-> base, block |-> block,
                          hardware |-> f.hardware, saved |-> f.saved]
          /\ \A q \in Settings!Option \ {o} : base[q] = f.base[q] /\ block[q] = f.block[q]
          /\ f.layout = "include" => block["own"] = f.block["own"] \/ block["own"] = None
  <2>1. CASE settings' = [settings EXCEPT !.base[o] = v]
    <3> DEFINE base == [q \in Settings!Option |-> IF q = o THEN v ELSE f.base[q]]
    <3>1. base = [f.base EXCEPT ![o] = v]
      BY <1>1 DEF WellFormed
    <3>2. settings' = [layout |-> f.layout, base |-> base, block |-> f.block,
                       hardware |-> f.hardware, saved |-> f.saved]
      BY <1>1, <2>1, <3>1 DEF WellFormed
    <3>3. f.block = [q \in Settings!Option |-> f.block[q]]
      BY <1>1 DEF WellFormed
    <3>4. /\ base = [q \in Settings!Option |-> base[q]]
          /\ f.block = [q \in Settings!Option |-> f.block[q]]
          /\ \A q \in Settings!Option \ {o} : base[q] = f.base[q] /\ f.block[q] = f.block[q]
          /\ f.layout = "include" => f.block["own"] = f.block["own"] \/ f.block["own"] = None
      BY <3>3
    <3> HIDE DEF base
    <3> QED
      BY <3>2, <3>4, Zenon
  <2>2. CASE /\ settings' = [settings EXCEPT !.block[o] = v]
             /\ settings.block[o] # None \/ settings.layout = "root"
    <3> DEFINE block == [q \in Settings!Option |-> IF q = o THEN v ELSE f.block[q]]
    <3>1. block = [f.block EXCEPT ![o] = v]
      BY <1>1 DEF WellFormed
    <3>2. settings' = [layout |-> f.layout, base |-> f.base, block |-> block,
                       hardware |-> f.hardware, saved |-> f.saved]
      BY <1>1, <2>2, <3>1 DEF WellFormed
    <3>3. f.base = [q \in Settings!Option |-> f.base[q]]
      BY <1>1 DEF WellFormed
    <3>4. f.layout = "include" => block["own"] = f.block["own"]
      BY <1>1, <2>2 DEF WellPlaced, Settings!Option
    <3>5. /\ f.base = [q \in Settings!Option |-> f.base[q]]
          /\ block = [q \in Settings!Option |-> block[q]]
          /\ \A q \in Settings!Option \ {o} : f.base[q] = f.base[q] /\ block[q] = f.block[q]
          /\ f.layout = "include" => block["own"] = f.block["own"] \/ block["own"] = None
      BY <3>3, <3>4
    <3> HIDE DEF block
    <3> QED
      BY <3>2, <3>5, Zenon
  <2>3. CASE settings' = [settings EXCEPT !.base[o] = None, !.block[o] = None]
    <3> DEFINE base == [q \in Settings!Option |-> IF q = o THEN None ELSE f.base[q]]
               block == [q \in Settings!Option |-> IF q = o THEN None ELSE f.block[q]]
    <3>1. base = [f.base EXCEPT ![o] = None] /\ block = [f.block EXCEPT ![o] = None]
      BY <1>1 DEF WellFormed
    <3>2. settings' = [layout |-> f.layout, base |-> base, block |-> block,
                       hardware |-> f.hardware, saved |-> f.saved]
      BY <1>1, <2>3, <3>1 DEF WellFormed
    <3>3. block["own"] = f.block["own"] \/ block["own"] = None
      BY DEF Settings!Option
    <3>4. /\ base = [q \in Settings!Option |-> base[q]]
          /\ block = [q \in Settings!Option |-> block[q]]
          /\ \A q \in Settings!Option \ {o} : base[q] = f.base[q] /\ block[q] = f.block[q]
          /\ f.layout = "include" => block["own"] = f.block["own"] \/ block["own"] = None
      BY <3>3
    <3> HIDE DEF base, block
    <3> QED
      BY <3>2, <3>4, Zenon
  <2> QED
    BY <2>1, <2>2, <2>3 DEF Settings!Edit
<1>4. WellFormed(settings')
  BY <1>1, <1>3 DEF WellFormed
<1>5. WellPlaced(settings')
  BY <1>1, <1>3 DEF WellPlaced
<1>6. wanted' = [q \in Settings!Option |-> wanted'[q]]
  BY <1>2 DEF SettingsInv
<1>7. ASSUME NEW q \in Settings!Option, wanted'[q] # None
      PROVE  Settings!Effective(settings')[q] = wanted'[q]
  <2>1. CASE q = o
    BY <1>2, <1>7, <2>1 DEF SettingsInv
  <2>2. CASE q # o
    <3>1. wanted'[q] = wanted[q]
      BY <1>2, <2>2 DEF SettingsInv
    <3>2. Settings!Effective(f)[q] = wanted[q]
      BY <1>7, <3>1 DEF SettingsInv, Settings!UserValuesSurvive
    <3>3. /\ settings'.layout = f.layout /\ settings'.hardware[q] = f.hardware[q]
          /\ settings'.base[q] = f.base[q] /\ settings'.block[q] = f.block[q]
          /\ settings'.saved[q] = f.saved[q]
      BY <1>3, <2>2
    <3>4. Settings!Effective(settings')[q] = Settings!Effective(f)[q]
      BY <3>3, SameInForce
    <3> QED
      BY <3>1, <3>2, <3>4
  <2> QED
    BY <2>1, <2>2
<1>8. Settings!UserValuesSurvive'
  BY <1>7 DEF Settings!UserValuesSurvive
<1>9. (Settings!SavingIsPossible /\ Settings!DeploymentSettles /\ Settings!ModeIsInForce)'
  BY <1>2 DEF SettingsInv, Settings!SavingIsPossible, Settings!DeploymentSettles,
              Settings!ModeIsInForce
<1> QED
  BY <1>4, <1>5, <1>6, <1>8, <1>9 DEF SettingsInv

\* SAVE_CONFIG keeps the invariant, and is never refused.
LEMMA SaveKeeps ==
  ASSUME Settings!SettingsAssumption, SettingsInv,
         NEW group \in {{"control", "pid"}, {"offset"}}, NEW v \in Saved,
         Settings!SaveConfig(group, v)
  PROVE  SettingsInv'
<1> DEFINE f == settings
           text == IF f.layout = "include" THEN Settings!Active(f) ELSE Settings!Root(f)
           value(o) == IF o = "control" THEN "pid" ELSE v
           saved == [o \in Settings!Option |->
                        IF o \in group THEN value(o)
                        ELSE IF text[o] = None THEN f.saved[o] ELSE None]
           base == [o \in Settings!Option |-> IF saved[o] # None THEN None ELSE f.base[o]]
           block == [o \in Settings!Option |-> IF saved[o] # None THEN None ELSE f.block[o]]
<1>1. WellFormed(f) /\ WellPlaced(f)
  BY DEF SettingsInv
<1>2. group \subseteq Settings!Savable /\ Settings!Savable \subseteq Settings!Option
  BY DEF Settings!Savable, Settings!Option
<1>3. \A o \in group : value(o) # None
  BY DEF Settings!SettingsAssumption
<1>4. \A o \in Settings!Option \ Settings!Savable : saved[o] = None
  BY <1>1, <1>2 DEF WellPlaced
<1>5. saved["control"] \in {None, "pid"}
  BY <1>1 DEF WellPlaced, Settings!Option
<1>6. f.layout = "include" => \A o \in Settings!Option : saved[o] = None \/ f.hardware[o] = None
  BY <1>1, <1>4 DEF WellPlaced
<1>7. /\ settings' = [settings EXCEPT !.saved = saved, !.base = base, !.block = block]
      /\ wanted' = [o \in Settings!Option |-> IF o \in group THEN value(o) ELSE wanted[o]]
      /\ deployed' = None /\ blocked' = blocked
  BY <1>6 DEF Settings!SaveConfig
<1>8. /\ \A o \in group : saved[o] = value(o)
      /\ \A o \in Settings!Option \ group : saved[o] = IF text[o] = None THEN f.saved[o] ELSE None
  BY <1>2
<1>9. /\ base = [o \in Settings!Option |-> base[o]] /\ block = [o \in Settings!Option |-> block[o]]
      /\ saved = [o \in Settings!Option |-> saved[o]]
      /\ \A o \in Settings!Option : /\ base[o] = IF saved[o] # None THEN None ELSE f.base[o]
                                    /\ block[o] = IF saved[o] # None THEN None ELSE f.block[o]
  OBVIOUS
<1>10. \A o \in Settings!Option :
           text[o] = IF f.layout = "include" THEN Settings!Active(f)[o] ELSE Settings!Root(f)[o]
  OBVIOUS
<1> HIDE DEF saved, base, block, text, value
<1>11. settings' = [layout |-> f.layout, base |-> base, block |-> block,
                    hardware |-> f.hardware, saved |-> saved]
  BY <1>1, <1>7 DEF WellFormed
<1>12. WellFormed(settings')
  BY <1>1, <1>9, <1>11 DEF WellFormed
<1>13. WellPlaced(settings')
  <2>1. "own" \in Settings!Option
    BY DEF Settings!Option
  <2>2. f.layout = "include" => block["own"] = None
    BY <1>1, <1>9, <2>1 DEF WellPlaced
  <2> QED
    BY <1>1, <1>4, <1>5, <1>11, <2>2 DEF WellPlaced
<1>14. ASSUME NEW o \in Settings!Option, wanted'[o] # None
       PROVE  Settings!Effective(settings')[o] = wanted'[o]
  <2>1. /\ settings'.layout = f.layout /\ settings'.hardware = f.hardware
        /\ settings'.base[o] = (IF saved[o] # None THEN None ELSE f.base[o])
        /\ settings'.block[o] = (IF saved[o] # None THEN None ELSE f.block[o])
        /\ settings'.saved[o] = saved[o]
    BY <1>9, <1>11
  <2>2. /\ Settings!Root(settings')[o] =
               IF settings'.base[o] # None THEN settings'.base[o] ELSE settings'.block[o]
        /\ Settings!Active(settings')[o] =
               IF Settings!Root(settings')[o] # None THEN Settings!Root(settings')[o]
               ELSE settings'.hardware[o]
        /\ Settings!Effective(settings')[o] =
               IF settings'.layout = "include"
               THEN IF Settings!Active(settings')[o] # None THEN Settings!Active(settings')[o]
                    ELSE settings'.saved[o]
               ELSE IF Settings!Root(settings')[o] # None THEN Settings!Root(settings')[o]
                    ELSE settings'.saved[o]
    BY SaidAt
  <2>3. f.layout = "include" => saved[o] = None \/ f.hardware[o] = None
    BY <1>6
  <2>4. CASE o \in group
    <3>1. saved[o] = value(o) /\ value(o) # None /\ wanted'[o] = value(o)
      BY <1>3, <1>7, <1>8, <2>4
    <3> QED
      BY <2>1, <2>2, <2>3, <3>1
  <2>5. CASE o \notin group
    <3>1. wanted'[o] = wanted[o] /\ Settings!Effective(f)[o] = wanted[o]
      BY <1>7, <1>14, <2>5 DEF SettingsInv, Settings!UserValuesSurvive
    <3>2. saved[o] = IF text[o] = None THEN f.saved[o] ELSE None
      BY <1>8, <2>5
    <3>3. /\ Settings!Root(f)[o] = IF f.base[o] # None THEN f.base[o] ELSE f.block[o]
          /\ Settings!Active(f)[o] =
                 IF Settings!Root(f)[o] # None THEN Settings!Root(f)[o] ELSE f.hardware[o]
          /\ Settings!Effective(f)[o] =
                 IF f.layout = "include"
                 THEN IF Settings!Active(f)[o] # None THEN Settings!Active(f)[o] ELSE f.saved[o]
                 ELSE IF Settings!Root(f)[o] # None THEN Settings!Root(f)[o] ELSE f.saved[o]
      BY SaidAt
    <3>4. text[o] = IF f.layout = "include" THEN Settings!Active(f)[o] ELSE Settings!Root(f)[o]
      BY <1>10
    <3>5. Settings!Effective(settings')[o] = Settings!Effective(f)[o]
      BY <2>1, <2>2, <3>2, <3>3, <3>4
    <3> QED
      BY <3>1, <3>5
  <2> QED
    BY <2>4, <2>5
<1>15. Settings!UserValuesSurvive'
  BY <1>14 DEF Settings!UserValuesSurvive
<1>16. wanted' = [o \in Settings!Option |-> wanted'[o]]
  BY <1>7
<1>17. (Settings!SavingIsPossible /\ Settings!DeploymentSettles /\ Settings!ModeIsInForce)'
  BY <1>7 DEF SettingsInv, Settings!SavingIsPossible, Settings!DeploymentSettles,
              Settings!ModeIsInForce
<1> QED
  BY <1>12, <1>13, <1>15, <1>16, <1>17 DEF SettingsInv

\* Every step keeps the invariant.
LEMMA SettingsNext ==
  ASSUME Settings!SettingsAssumption, SettingsInv, [Settings!Next]_(Settings!cvars)
  PROVE  SettingsInv'
<1>1. CASE UNCHANGED Settings!cvars
  BY <1>1 DEF SettingsInv, Settings!cvars, WellFormed, WellPlaced, Settings!UserValuesSurvive,
              Settings!SavingIsPossible, Settings!DeploymentSettles, Settings!ModeIsInForce
<1>2. CASE \E g \in Choices : Settings!Deploy(g)
  BY <1>2, DeployKeeps
<1>3. CASE \E o \in Settings!Option \ {"pin"}, v \in UserValues \cup {None} :
               o # "control" /\ Settings!Edit(o, v)
  BY <1>3, EditKeeps
<1>4. CASE \E v \in {"pid", "watermark", None} : Settings!Edit("control", v)
  BY <1>4, EditKeeps DEF Settings!Option
<1>5. CASE \E group \in {{"control", "pid"}, {"offset"}}, v \in Saved :
               Settings!SaveConfig(group, v)
  BY <1>5, SaveKeeps
<1> QED
  BY <1>1, <1>2, <1>3, <1>4, <1>5 DEF Settings!Next

\* A deployment names every value in force that it changes.
LEMMA LossStep ==
  ASSUME Settings!SettingsAssumption, SettingsInv, [Settings!Next]_(Settings!cvars),
         NEW o \in Settings!Option, deployed' # None, settings' # settings,
         Settings!Effective(settings)[o] \notin {None, Settings!Effective(settings')[o]}
  PROVE  o \in Settings!Warned(settings, settings')
<1>1. CASE \E g \in Choices : Settings!Deploy(g)
  <2>1. PICK g \in Choices : Settings!Deploy(g)
    BY <1>1
  <2>2. WellFormed(settings) /\ WellPlaced(settings)
    BY DEF SettingsInv
  <2>3. PlanOf(settings, g, settings')
    BY <2>1, <2>2, DeployPlans
  <2> QED
    BY <2>2, <2>3, PlanKeeps
<1>2. CASE UNCHANGED Settings!cvars
  BY <1>2 DEF Settings!cvars
<1>3. CASE \E q \in Settings!Option : \E v : Settings!Edit(q, v)
  BY <1>3 DEF Settings!Edit
<1>4. CASE \E group, v : Settings!SaveConfig(group, v)
  BY <1>4 DEF Settings!SaveConfig
<1> QED
  BY <1>1, <1>2, <1>3, <1>4 DEF Settings!Next, Settings!Option

\* Whatever is deployed, edited and calibrated in any order: what was given stays
\* in force until somebody gives something else, or the review names its loss;
\* Klipper can always save; to deploy again changes nothing; and in the include
\* layout the selected control mode is the one in force.
THEOREM SettingsSurviveAlways ==
  Settings!SettingsAssumption => (Settings!Spec => SettingsSurvive)
<1> SUFFICES ASSUME Settings!SettingsAssumption
             PROVE  Settings!Spec => SettingsSurvive
  OBVIOUS
<1>1. Settings!Init => SettingsInv
  BY SettingsInit
<1>2. SettingsInv /\ [Settings!Next]_(Settings!cvars) => SettingsInv'
  BY SettingsNext
<1>3. SettingsInv => /\ Settings!UserValuesSurvive /\ Settings!SavingIsPossible
                     /\ Settings!DeploymentSettles /\ Settings!ModeIsInForce
  BY DEF SettingsInv
<1>4. SettingsInv /\ [Settings!Next]_(Settings!cvars)
        => [\A o \in Settings!Option :
               (deployed' # None /\ settings' # settings
                /\ Settings!Effective(settings)[o] \notin {None, Settings!Effective(settings')[o]})
                   => o \in Settings!Warned(settings, settings')]_(Settings!cvars)
  BY LossStep
<1> QED
  BY <1>1, <1>2, <1>3, <1>4, PTL DEF Settings!Spec, SettingsSurvive, Settings!LossIsWarned
===============================================================================
