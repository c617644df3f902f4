----------------------- MODULE FirmwareWorkflowProofs -----------------------
(***************************************************************************)
(* Theorems about FirmwareWorkflow: it is well typed, its evidence belongs *)
(* to the build it names, COMPLETE is recorded only for a firmware that    *)
(* ran, and the checkpoint file implements CheckpointLineage.              *)
(***************************************************************************)
EXTENDS FirmwareWorkflow, TLAPS

-----------------------------------------------------------------------------
(* The inductive invariant.                                                *)

\* From ARTIFACT_READY on a checkpoint names a build.
Built(c) ==
    c.state \notin {"HARDWARE_SELECTED", "COMPILE_REQUIRED"}
        => c.artifact # None

Good(c) == c \in Record /\ Sound(c) /\ Built(c)

\* The revision c can never again be the stored one: its workflow has been
\* replaced or discarded, or has gone on.
Past(c, current, ids) ==
    /\ c.id <= ids
    /\ \/ current = NoCheckpoint
       \/ current.id # c.id
       \/ current.seq > c.seq

\* What a process remembers of the file: nothing, what is there, or the past.
Remembered(c, current, ids) ==
    c = NoCheckpoint \/ c = current \/ Past(c, current, ids)

SharedInv ==
    /\ store \in Record \cup {NoCheckpoint}
    /\ printer \in Serial \cup {Absent}
    /\ firmware \in Artifact \cup {Foreign}
    /\ runs \in 0 .. MaxRuns
    /\ created \in Nat
    /\ built \in SUBSET Artifact
    /\ refused \in SUBSET Record
    /\ ran \in SUBSET (Artifact \cup {Foreign})
    /\ store # NoCheckpoint => Good(store) /\ store.id <= created

LocalType(p) ==
    /\ pc[p] \in Position
    /\ mem[p] \in Record \cup {NoCheckpoint}
    /\ initial[p] \in Record \cup {NoCheckpoint}
    /\ path[p] \in Serial \cup {None}
    /\ output[p] \in Artifact \cup {None}
    /\ reviewed[p] \in BOOLEAN

\* In which states of its checkpoint a process can be where it is.
In(p, states) == mem[p] # NoCheckpoint /\ mem[p].state \in states

PositionInv(p) ==
    /\ pc[p] \in Ended \cup {"load", "wizard", "create"}
          => mem[p] = NoCheckpoint
    /\ pc[p] = "menu" => In(p, State \ {"COMPLETE"})
    /\ pc[p] = "review" /\ mem[p] # NoCheckpoint
          => In(p, State \ {"DEPLOYING", "COMPLETE"})
    /\ pc[p] \in {"compile", "built", "flashed"}
          => In(p, {"HARDWARE_SELECTED", "COMPILE_REQUIRED"})
    /\ pc[p] \in {"deliver", "autoverify"} => In(p, {"ARTIFACT_READY"})
    /\ pc[p] \in {"autocheck", "verify"} => In(p, {"VERIFYING_MCU"})
    /\ pc[p] \in {"await", "verifynow"}
          => In(p, {"ARTIFACT_READY", "AWAITING_FLASH", "VERIFYING_MCU"})
    /\ pc[p] = "wait" => In(p, {"AWAITING_FLASH", "VERIFYING_MCU"})
    /\ pc[p] \in {"generate", "gate"} /\ mem[p] # NoCheckpoint
          => In(p, {"MCU_VERIFIED", "CONFIG_GENERATED", "READY_TO_DEPLOY"})
    /\ pc[p] = "ready" => In(p, {"CONFIG_GENERATED", "READY_TO_DEPLOY"})
    /\ pc[p] = "choose" /\ mem[p] # NoCheckpoint
          => In(p, {"READY_TO_DEPLOY"})
    /\ pc[p] \in {"deploy", "succeeded", "failed"} => In(p, {"DEPLOYING"})
    /\ pc[p] \in {"built", "flashed"} => output[p] # None
    /\ pc[p] \notin Ended \cup {"load", "wizard"} => path[p] \in Serial

CopyInv(p) ==
    /\ mem[p] # NoCheckpoint => Good(mem[p])
    /\ Remembered(mem[p], store, created)
    /\ Remembered(initial[p], store, created)

\* A process that is going to create a workflow may replace the revision it
\* captured, or will fail.
ReplaceInv(p) ==
    pc[p] \in {"wizard", "review", "create"} /\ mem[p] = NoCheckpoint
      => \/ initial[p] = NoCheckpoint
         \/ initial[p].state = "COMPLETE"
         \/ initial[p] \in refused
         \/ Past(initial[p], store, created)

\* While its DEPLOYING is the stored revision, nobody has started the history
\* of the firmware again.
RanInv(p) ==
    /\ pc[p] = "deploy" /\ store = mem[p] => firmware \in ran
    /\ pc[p] = "succeeded" /\ store = mem[p] => mem[p].artifact \in ran

LocalInv(p) ==
    LocalType(p) /\ PositionInv(p) /\ CopyInv(p) /\ ReplaceInv(p) /\ RanInv(p)

FunctionType ==
    /\ pc \in [Process -> Position]
    /\ mem \in [Process -> Record \cup {NoCheckpoint}]
    /\ initial \in [Process -> Record \cup {NoCheckpoint}]
    /\ path \in [Process -> Serial \cup {None}]
    /\ output \in [Process -> Artifact \cup {None}]
    /\ reviewed \in [Process -> BOOLEAN]

IInv == FunctionType /\ SharedInv /\ \A p \in Process : LocalInv(p)

-----------------------------------------------------------------------------
(* The checkpoint's operations.                                            *)

\* The operators of the abstract specification are those of this one.
LEMMA SameOperators ==
    /\ Lineage!Record = Record
    /\ \A c, state : Lineage!Allowed(c, state) <=> Allowed(c, state)
    /\ \A id, serial : Lineage!Fresh(id, serial) = Fresh(id, serial)
BY DEF Lineage!Record, Record, Lineage!State, State, Lineage!Allowed, Allowed,
       Lineage!Transitions, Transitions, Lineage!Fresh, Fresh

\* A record stays one when a field takes another value of its type.
LEMMA FieldUpdates ==
    ASSUME NEW c \in Record
    PROVE  /\ \A state \in State : [c EXCEPT !.state = state] \in Record
           /\ \A n \in Nat : [c EXCEPT !.seq = n] \in Record
           /\ \A a \in Artifact \cup {None} :
                 /\ [c EXCEPT !.artifact = a] \in Record
                 /\ [c EXCEPT !.evidence = a] \in Record
           /\ \A s \in Serial \cup {None} : [c EXCEPT !.serial = s] \in Record
           /\ \A s \in Serial : [c EXCEPT !.saved = s] \in Record
BY DEF Record

\* The operations return records.
LEMMA OperationTypes ==
    ASSUME NEW c \in Record, NEW state \in State, NEW serial \in Serial,
           NEW a \in Artifact \cup {None}
    PROVE  /\ Moved(c, state) \in Record
           /\ Resaved(c, state, serial) \in Record
           /\ Compiled(c, a, serial) \in Record
           /\ Matched(c, serial) \in Record
<1>1. /\ c.seq + 1 \in Nat /\ c.artifact \in Artifact \cup {None}
      /\ "ARTIFACT_READY" \in State /\ "MCU_VERIFIED" \in State
  BY DEF Record, State
<1>2. Moved(c, state) \in Record
  <2> DEFINE c1 == [c EXCEPT !.state = state]
             c2 == [c1 EXCEPT !.seq = c.seq + 1]
  <2>1. c1 \in Record BY <1>1, FieldUpdates
  <2>2. c2 \in Record BY <2>1, <1>1, FieldUpdates
  <2>3. Moved(c, state) = c2 BY DEF Moved, Record
  <2> QED BY <2>2, <2>3
<1>3. Resaved(c, state, serial) \in Record
  <2> DEFINE c1 == [c EXCEPT !.state = state]
             c2 == [c1 EXCEPT !.seq = c.seq + 1]
             c3 == [c2 EXCEPT !.saved = serial]
  <2>1. c1 \in Record BY <1>1, FieldUpdates
  <2>2. c2 \in Record BY <2>1, <1>1, FieldUpdates
  <2>3. c3 \in Record BY <2>2, <1>1, FieldUpdates
  <2>4. Resaved(c, state, serial) = c3 BY DEF Resaved, Record
  <2> QED BY <2>3, <2>4
<1>4. Compiled(c, a, serial) \in Record
  <2> DEFINE c1 == [c EXCEPT !.state = "ARTIFACT_READY"]
             c2 == [c1 EXCEPT !.seq = c.seq + 1]
             c3 == [c2 EXCEPT !.artifact = a]
             c4 == [c3 EXCEPT !.saved = serial]
  <2>1. c1 \in Record BY <1>1, FieldUpdates
  <2>2. c2 \in Record BY <2>1, <1>1, FieldUpdates
  <2>3. c3 \in Record BY <2>2, <1>1, FieldUpdates
  <2>4. c4 \in Record BY <2>3, <1>1, FieldUpdates
  <2>5. Compiled(c, a, serial) = c4 BY DEF Compiled, Record
  <2> QED BY <2>4, <2>5
<1>5. Matched(c, serial) \in Record
  <2> DEFINE c1 == [c EXCEPT !.state = "MCU_VERIFIED"]
             c2 == [c1 EXCEPT !.seq = c.seq + 1]
             c3 == [c2 EXCEPT !.serial = serial]
             c4 == [c3 EXCEPT !.evidence = c.artifact]
  <2>1. c1 \in Record BY <1>1, FieldUpdates
  <2>2. c2 \in Record BY <2>1, <1>1, FieldUpdates
  <2>3. c3 \in Record BY <2>2, <1>1, FieldUpdates
  <2>4. c4 \in Record BY <2>3, <1>1, FieldUpdates
  <2>5. Matched(c, serial) = c4 BY DEF Matched, Record
  <2> QED BY <2>4, <2>5
<1> QED BY <1>2, <1>3, <1>4, <1>5

\* A new workflow has neither evidence nor a claim that needs it.
LEMMA FreshFields ==
    ASSUME NEW id \in Nat, NEW serial \in Serial
    PROVE  LET d == Fresh(id, serial)
           IN  /\ d \in Record /\ Good(d)
               /\ d.id = id /\ d.state = "HARDWARE_SELECTED"
BY DEF Fresh, Record, State, Good, Sound, Built, Verified, Deployable

\* The edges of the table that the command line takes.
LEMMA Edges ==
    /\ <<"HARDWARE_SELECTED", "ARTIFACT_READY">> \in Transitions
    /\ <<"COMPILE_REQUIRED", "ARTIFACT_READY">> \in Transitions
    /\ <<"HARDWARE_SELECTED", "COMPILE_REQUIRED">> \in Transitions
    /\ <<"ARTIFACT_READY", "AWAITING_FLASH">> \in Transitions
    /\ <<"ARTIFACT_READY", "VERIFYING_MCU">> \in Transitions
    /\ <<"AWAITING_FLASH", "VERIFYING_MCU">> \in Transitions
    /\ <<"VERIFYING_MCU", "AWAITING_FLASH">> \in Transitions
    /\ <<"VERIFYING_MCU", "MCU_VERIFIED">> \in Transitions
    /\ <<"MCU_VERIFIED", "CONFIG_GENERATED">> \in Transitions
    /\ <<"CONFIG_GENERATED", "READY_TO_DEPLOY">> \in Transitions
    /\ <<"READY_TO_DEPLOY", "DEPLOYING">> \in Transitions
    /\ <<"DEPLOYING", "READY_TO_DEPLOY">> \in Transitions
    /\ <<"DEPLOYING", "COMPLETE">> \in Transitions
BY DEF Transitions, State

\* d is a legal and justified successor of c.
Successor(c, d) ==
    /\ Good(d) /\ d # c
    /\ d.id = c.id /\ d.seq = c.seq + 1
    /\ Lineage!Follows(c, d)

\* A transition that only changes the state keeps the evidence justified when
\* it does not enter a state that needs more of it.
LEMMA MoveSucceeds ==
    ASSUME NEW c, Good(c), NEW state \in State, NEW serial \in Serial,
           Allowed(c, state),
           state \in Verified => c.state \in Verified,
           state \notin {"HARDWARE_SELECTED", "COMPILE_REQUIRED"}
             => c.state \notin {"HARDWARE_SELECTED", "COMPILE_REQUIRED"}
    PROVE  /\ Successor(c, Moved(c, state))
           /\ Moved(c, state).state = state
           /\ Successor(c, Resaved(c, state, serial))
           /\ Resaved(c, state, serial).state = state
           /\ Moved(c, state).artifact = c.artifact
<1>1. c \in Record /\ Sound(c) /\ Built(c) /\ c.seq \in Nat
  BY DEF Good, Record
<1>2. ASSUME NEW d \in Record, d.id = c.id, d.state = state,
             d.seq = c.seq + 1, d.artifact = c.artifact,
             d.evidence = c.evidence, d.serial = c.serial
      PROVE  Successor(c, d)
  <2>1. Good(d)
    BY <1>1, <1>2 DEF Good, Sound, Built
  <2>2. d # c
    BY <1>1, <1>2
  <2>3. Lineage!Follows(c, d)
    BY <1>1, <1>2, SameOperators DEF Lineage!Follows
  <2> QED BY <1>2, <2>1, <2>2, <2>3 DEF Successor
<1>3. /\ Moved(c, state).id = c.id /\ Moved(c, state).state = state
      /\ Moved(c, state).seq = c.seq + 1
      /\ Moved(c, state).artifact = c.artifact
      /\ Moved(c, state).evidence = c.evidence
      /\ Moved(c, state).serial = c.serial
  BY <1>1 DEF Moved, Record
<1>4. /\ Resaved(c, state, serial).id = c.id
      /\ Resaved(c, state, serial).state = state
      /\ Resaved(c, state, serial).seq = c.seq + 1
      /\ Resaved(c, state, serial).artifact = c.artifact
      /\ Resaved(c, state, serial).evidence = c.evidence
      /\ Resaved(c, state, serial).serial = c.serial
  BY <1>1 DEF Resaved, Record
<1>5. Moved(c, state) \in Record /\ Resaved(c, state, serial) \in Record
  BY <1>1, OperationTypes
<1> QED BY <1>2, <1>3, <1>4, <1>5

\* A new artifact is a legal successor and claims no evidence.
LEMMA CompileSucceeds ==
    ASSUME NEW c, Good(c), NEW a \in Artifact, NEW serial \in Serial,
           c.state \in {"HARDWARE_SELECTED", "COMPILE_REQUIRED"}
    PROVE  /\ Successor(c, Compiled(c, a, serial))
           /\ Compiled(c, a, serial).state = "ARTIFACT_READY"
<1> DEFINE d == Compiled(c, a, serial)
<1>1. c \in Record /\ c.seq \in Nat
  BY DEF Good, Record
<1>2. /\ d \in Record /\ d.id = c.id /\ d.state = "ARTIFACT_READY"
      /\ d.seq = c.seq + 1 /\ d.artifact = a
      /\ d.evidence = c.evidence /\ d.serial = c.serial
  BY <1>1, OperationTypes DEF Compiled, Record
<1> HIDE DEF d
<1>3. Good(d)
  BY <1>2, CheckpointAssumption
     DEF Good, Sound, Built, Verified, Deployable
<1>4. Lineage!Follows(c, d)
  BY <1>1, <1>2, SameOperators, Edges DEF Lineage!Follows, Allowed
<1>5. Successor(c, d)
  BY <1>1, <1>2, <1>3, <1>4 DEF Successor
<1> QED BY <1>2, <1>5 DEF d

\* The verification of the MCU is a legal successor with current evidence.
LEMMA MatchSucceeds ==
    ASSUME NEW c, Good(c), NEW serial \in Serial, c.state = "VERIFYING_MCU"
    PROVE  /\ Successor(c, Matched(c, serial))
           /\ Matched(c, serial).state = "MCU_VERIFIED"
<1> DEFINE d == Matched(c, serial)
<1>1. c \in Record /\ c.seq \in Nat /\ c.artifact # None
  BY DEF Good, Record, Built
<1>2. /\ d \in Record /\ d.id = c.id /\ d.state = "MCU_VERIFIED"
      /\ d.seq = c.seq + 1 /\ d.artifact = c.artifact
      /\ d.evidence = c.artifact /\ d.serial = serial
  BY <1>1, OperationTypes DEF Matched, Record
<1> HIDE DEF d
<1>3. Good(d)
  BY <1>1, <1>2, CheckpointAssumption DEF Good, Sound, Built
<1>4. Lineage!Follows(c, d)
  BY <1>1, <1>2, SameOperators, Edges DEF Lineage!Follows, Allowed
<1>5. Successor(c, d)
  BY <1>1, <1>2, <1>3, <1>4 DEF Successor
<1> QED BY <1>2, <1>5 DEF d

-----------------------------------------------------------------------------
(* One step, seen from one process and from the others.                    *)

\* Only the memory of p changes.
Frame(p) ==
    /\ pc' = [pc EXCEPT ![p] = pc'[p]]
    /\ mem' = [mem EXCEPT ![p] = mem'[p]]
    /\ initial' = [initial EXCEPT ![p] = initial'[p]]
    /\ path' = [path EXCEPT ![p] = path'[p]]
    /\ output' = [output EXCEPT ![p] = output'[p]]
    /\ reviewed' = [reviewed EXCEPT ![p] = reviewed'[p]]

\* p has ended.
Cleared(p) ==
    /\ pc'[p] \in Ended
    /\ mem'[p] = NoCheckpoint /\ initial'[p] = NoCheckpoint
    /\ path'[p] = None /\ output'[p] = None /\ reviewed'[p] = FALSE

\* What p keeps when it only moves on.
Keeps(p) ==
    /\ mem'[p] = mem[p] /\ initial'[p] = initial[p]
    /\ path'[p] = path[p] /\ output'[p] = output[p]
    /\ reviewed'[p] = reviewed[p]

\* What may happen to the history of the firmware: nothing, a flash, or a new
\* beginning together with a new revision.
HistoryStep ==
    \/ firmware' = firmware /\ ran' = ran
    \/ \E f : Runs(f)
    \/ /\ firmware' = firmware /\ ran' = {firmware}
       /\ store' # store /\ store' # NoCheckpoint

LineageStep == Lineage!Next \/ UNCHANGED Lineage!lineage

\* What is shown of every step of a process p.
Step(p) ==
    Frame(p) /\ SharedInv' /\ LocalInv(p)' /\ LineageStep /\ HistoryStep

\* A revision that is past stays past, and the stored one becomes past when it
\* is replaced.
LEMMA RememberedStays ==
    ASSUME NEW c \in Record \cup {NoCheckpoint},
           SharedInv, SharedInv', LineageStep,
           Remembered(c, store, created)
    PROVE  \/ c = NoCheckpoint
           \/ c = store /\ store' = store
           \/ Past(c, store', created')
<1> SUFFICES ASSUME c # NoCheckpoint
             PROVE  \/ c = store /\ store' = store
                    \/ Past(c, store', created')
  OBVIOUS
<1>1. /\ c \in Record /\ c.id \in Nat /\ c.seq \in Nat
      /\ store \in Record \cup {NoCheckpoint}
      /\ store' \in Record \cup {NoCheckpoint}
      /\ created \in Nat /\ created' \in Nat
      /\ store # NoCheckpoint
           => store.id \in Nat /\ store.seq \in Nat /\ store.id <= created
      /\ store' # NoCheckpoint => store'.id \in Nat /\ store'.seq \in Nat
  BY DEF SharedInv, Record
<1>2. c.id <= created
  BY <1>1 DEF Remembered, Past
<1>3. CASE Lineage!Create
  <2>1. /\ created' = created + 1
        /\ store' # NoCheckpoint /\ store'.id = created'
    <3>1. created' = created + 1
      BY <1>3 DEF Lineage!Create
    <3>2. PICK serial \in Serial : store' = Fresh(created', serial)
      BY <1>3, SameOperators DEF Lineage!Create
    <3>3. Fresh(created', serial).id = created' /\ Fresh(created', serial) \in Record
      BY <1>1, <3>2, FreshFields
    <3> QED BY <3>1, <3>2, <3>3, NoCheckpointAssumption
  <2> QED BY <1>1, <1>2, <2>1 DEF Past
<1>4. CASE Lineage!Advance
  <2>1. /\ store # NoCheckpoint /\ store' # NoCheckpoint
        /\ store'.id = store.id /\ store'.seq = store.seq + 1
        /\ created' = created
    BY <1>4, SameOperators, NoCheckpointAssumption
       DEF Lineage!Advance, Lineage!Follows
  <2> QED BY <1>1, <1>2, <2>1 DEF Past, Remembered
<1>5. CASE Lineage!Discard
  BY <1>1, <1>2, <1>5 DEF Lineage!Discard, Past
<1>6. CASE store' = store /\ (created' = created \/ created' = created + 1)
  BY <1>1, <1>2, <1>6 DEF Past, Remembered
<1>7. CASE Lineage!Abandon \/ Lineage!Refuse \/ UNCHANGED Lineage!lineage
  BY <1>6, <1>7 DEF Lineage!Abandon, Lineage!Refuse, Lineage!lineage
<1> QED BY <1>3, <1>4, <1>5, <1>7 DEF LineageStep, Lineage!Next

\* The past is not the present.
LEMMA PastIsNotStored ==
    ASSUME NEW c \in Record, SharedInv, Past(c, store, created)
    PROVE  c # store
BY NoCheckpointAssumption DEF Past, Record, SharedInv

\* A step of p does not disturb another process.
LEMMA OthersStay ==
    ASSUME IInv, NEW p \in Process, NEW q \in Process, q # p, Step(p)
    PROVE  LocalInv(q)'
<1>1. /\ pc'[q] = pc[q] /\ mem'[q] = mem[q] /\ initial'[q] = initial[q]
      /\ path'[q] = path[q] /\ output'[q] = output[q]
      /\ reviewed'[q] = reviewed[q]
  BY DEF IInv, FunctionType, Step, Frame
<1>2. /\ LocalType(q) /\ PositionInv(q) /\ CopyInv(q)
      /\ ReplaceInv(q) /\ RanInv(q)
      /\ SharedInv /\ SharedInv' /\ LineageStep /\ HistoryStep
  BY DEF IInv, LocalInv, Step
<1>3. LocalType(q)'
  BY <1>1, <1>2 DEF LocalType
<1>4. PositionInv(q)'
  BY <1>1, <1>2 DEF PositionInv, In
<1>5. /\ mem[q] \in Record \cup {NoCheckpoint}
      /\ initial[q] \in Record \cup {NoCheckpoint}
      /\ Remembered(mem[q], store, created)
      /\ Remembered(initial[q], store, created)
  BY <1>2 DEF LocalType, CopyInv
<1>6. \/ mem[q] = NoCheckpoint
      \/ mem[q] = store /\ store' = store
      \/ Past(mem[q], store', created')
  BY <1>2, <1>5, RememberedStays
<1>7. \/ initial[q] = NoCheckpoint
      \/ initial[q] = store /\ store' = store
      \/ Past(initial[q], store', created')
  BY <1>2, <1>5, RememberedStays
<1>8. CopyInv(q)'
  BY <1>1, <1>2, <1>6, <1>7 DEF CopyInv, Remembered
<1>9. ReplaceInv(q)'
  <2>1. initial[q] \in refused => initial[q] \in refused'
    BY <1>2 DEF LineageStep, Lineage!Next, Lineage!Create, Lineage!Abandon,
                Lineage!Advance, Lineage!Discard, Lineage!Refuse,
                Lineage!lineage
  <2>2. initial[q] # NoCheckpoint /\ Past(initial[q], store, created)
          => Past(initial[q], store', created')
    BY <1>2, <1>5, <1>7, PastIsNotStored
  <2> QED BY <1>1, <1>2, <2>1, <2>2 DEF ReplaceInv
<1>10. RanInv(q)'
  <2>1. CASE pc[q] \notin {"deploy", "succeeded"}
    BY <1>1, <2>1 DEF RanInv
  <2>2. CASE pc[q] \in {"deploy", "succeeded"} /\ store' # mem[q]
    BY <1>1, <2>2 DEF RanInv
  <2>3. CASE pc[q] \in {"deploy", "succeeded"} /\ store' = mem[q]
    <3>1. mem[q] \in Record /\ mem[q] # NoCheckpoint
      BY <1>2, <1>5, <2>3, NoCheckpointAssumption DEF PositionInv, In
    <3>2. store' = store
      <4>1. ~Past(mem[q], store', created')
        BY <2>3, <3>1, NoCheckpointAssumption DEF Past, Record
      <4> QED BY <1>6, <3>1, <4>1
    <3>3. \/ firmware' = firmware /\ ran' = ran
          \/ \E f : Runs(f)
      BY <1>2, <3>2 DEF HistoryStep
    <3>4. \A f : f \in ran => f \in ran'
      BY <3>3 DEF Runs
    <3>5. firmware \in ran => firmware' \in ran'
      BY <3>3 DEF Runs
    <3> QED BY <1>1, <1>2, <2>3, <3>2, <3>4, <3>5 DEF RanInv
  <2> QED BY <2>1, <2>2, <2>3
<1> QED BY <1>3, <1>4, <1>8, <1>9, <1>10 DEF LocalInv

\* A step of a process preserves the invariant.
LEMMA StepPreserves ==
    ASSUME IInv, NEW p \in Process, Step(p)
    PROVE  IInv'
<1>1. SharedInv' /\ LocalInv(p)'
  BY DEF Step
<1>2. \A q \in Process : LocalInv(q)'
  BY <1>1, OthersStay
<1>3. FunctionType'
  <2>1. LocalType(p)'
    BY <1>1 DEF LocalInv
  <2> QED BY <2>1 DEF IInv, FunctionType, Step, Frame, LocalType
<1> QED BY <1>1, <1>2, <1>3 DEF IInv

-----------------------------------------------------------------------------
(* The shapes of a step.                                                   *)

SharedStays == UNCHANGED <<store, worldVars, countVars, historyVars>>

\* A move changes the position of p alone.
LEMMA GotoEffect ==
    ASSUME FunctionType, NEW p \in Process, NEW step,
           Goto(p, step), UNCHANGED <<mem, localVars>>
    PROVE  Frame(p) /\ Keeps(p) /\ pc'[p] = step
BY DEF FunctionType, Goto, localVars, Frame, Keeps

\* The end of a run clears the memory of p alone.
LEMMA EndEffect ==
    ASSUME FunctionType, NEW p \in Process, NEW step \in Ended, End(p, step)
    PROVE  Frame(p) /\ Cleared(p)
BY DEF FunctionType, Goto, End, Frame, Cleared

\* A publication replaces the stored revision by the next one and leaves p with
\* it, or ends p and stores nothing.
LEMMA PublishEffect ==
    ASSUME FunctionType, NEW p \in Process, NEW expected, NEW next, NEW step,
           Publish(p, expected, next, step)
    PROVE  /\ Frame(p)
           /\ \/ /\ store = expected /\ store' = next
                 /\ pc'[p] = step /\ mem'[p] = next
                 /\ initial'[p] = initial[p] /\ path'[p] = path[p]
                 /\ output'[p] = output[p] /\ reviewed'[p] = reviewed[p]
              \/ store' = store /\ Cleared(p)
<1>1. CASE PersistFails(p, expected)
  BY <1>1, EndEffect DEF PersistFails, Finish, Ended
<1>2. CASE /\ Replace(expected, next)
           /\ mem' = [mem EXCEPT ![p] = next]
           /\ Goto(p, step)
           /\ UNCHANGED localVars
  BY <1>2 DEF FunctionType, Replace, Goto, localVars, Frame
<1> QED BY <1>1, <1>2 DEF Publish

\* A last publication ends p, whether it stores the next revision or not.
LEMMA PublishLastEffect ==
    ASSUME FunctionType, NEW p \in Process, NEW next, PublishLast(p, next)
    PROVE  /\ Frame(p) /\ Cleared(p)
           /\ \/ store' = store
              \/ store = mem[p] /\ store' = next
BY EndEffect DEF PublishLast, PersistFails, Finish, Ended, Replace

\* The end of a process satisfies everything that is said of one.
LEMMA ClearedIsFine ==
    ASSUME NEW p \in Process, Cleared(p)
    PROVE  LocalInv(p)'
<1>1. LocalType(p)'
  BY DEF Cleared, LocalType, Ended, Position
<1>2. PositionInv(p)'
  BY DEF Cleared, PositionInv, Ended, In
<1>3. CopyInv(p)' /\ ReplaceInv(p)' /\ RanInv(p)'
  BY DEF Cleared, CopyInv, ReplaceInv, RanInv, Remembered, Ended
<1> QED BY <1>1, <1>2, <1>3 DEF LocalInv

\* What is shared changes in no way.
LEMMA QuietShared ==
    ASSUME SharedInv, SharedStays
    PROVE  SharedInv' /\ LineageStep /\ HistoryStep
<1>1. SharedInv'
  BY DEF SharedInv, SharedStays, worldVars, countVars, historyVars, Good
<1>2. LineageStep
  BY DEF SharedStays, LineageStep, Lineage!lineage, countVars, historyVars
<1>3. HistoryStep
  BY DEF SharedStays, HistoryStep, worldVars, historyVars
<1> QED BY <1>1, <1>2, <1>3

\* The stored revision is replaced by a legal successor.
LEMMA SuccessorShared ==
    ASSUME SharedInv, store # NoCheckpoint, Successor(store, store'),
           UNCHANGED <<worldVars, countVars, built, refused>>,
           ran' = ran \/ ran' = {firmware}
    PROVE  SharedInv' /\ LineageStep /\ HistoryStep
<1>1. /\ store' \in Record /\ Good(store') /\ store'.id = store.id
      /\ store' # store /\ store' # NoCheckpoint
      /\ Lineage!Follows(store, store')
  BY NoCheckpointAssumption DEF Successor, Good
<1>2. SharedInv'
  BY <1>1 DEF SharedInv, worldVars, countVars
<1>3. LineageStep
  BY <1>1, SameOperators
     DEF SharedInv, LineageStep, Lineage!Next, Lineage!Advance, countVars
<1>4. HistoryStep
  BY <1>1 DEF HistoryStep, worldVars
<1> QED BY <1>2, <1>3, <1>4

\* p moves on and nothing else happens.
LEMMA MoveStep ==
    ASSUME IInv, NEW p \in Process, NEW step \in Position,
           Goto(p, step), UNCHANGED <<mem, localVars>>, SharedStays,
           Keeps(p) /\ pc'[p] = step
             => PositionInv(p)' /\ ReplaceInv(p)' /\ RanInv(p)'
    PROVE  Step(p)
<1>1. Frame(p) /\ Keeps(p) /\ pc'[p] = step
  BY GotoEffect DEF IInv
<1>2. SharedInv' /\ LineageStep /\ HistoryStep
  BY QuietShared DEF IInv
<1>3. LocalType(p)' /\ CopyInv(p)'
  <2>1. LocalType(p) /\ CopyInv(p)
    BY DEF IInv, LocalInv
  <2> QED BY <1>1, <2>1 DEF LocalType, CopyInv, Keeps, SharedStays, countVars
<1> QED BY <1>1, <1>2, <1>3 DEF Step, LocalInv

\* p ends.
LEMMA EndStep ==
    ASSUME IInv, NEW p \in Process, NEW step \in Ended, End(p, step),
           SharedStays
    PROVE  Step(p)
<1>1. Frame(p) /\ Cleared(p)
  BY EndEffect DEF IInv
<1>2. SharedInv' /\ LineageStep /\ HistoryStep
  BY QuietShared DEF IInv
<1> QED BY <1>1, <1>2, ClearedIsFine DEF Step

\* p publishes a successor of its checkpoint, or ends because it cannot.
LEMMA PublishStep ==
    ASSUME IInv, NEW p \in Process, NEW next, NEW step \in Position,
           Publish(p, mem[p], next, step),
           mem[p] # NoCheckpoint, Successor(mem[p], next),
           UNCHANGED <<worldVars, countVars, historyVars>>,
           step \notin {"deploy", "succeeded"},
           (pc'[p] = step /\ mem'[p] = next /\ path'[p] = path[p])
             => PositionInv(p)'
    PROVE  Step(p)
<1>1. /\ Frame(p)
      /\ \/ /\ store = mem[p] /\ store' = next
            /\ pc'[p] = step /\ mem'[p] = next
            /\ initial'[p] = initial[p] /\ path'[p] = path[p]
            /\ output'[p] = output[p] /\ reviewed'[p] = reviewed[p]
         \/ store' = store /\ Cleared(p)
  BY PublishEffect DEF IInv
<1>2. CASE store' = store /\ Cleared(p)
  <2>1. SharedStays
    BY <1>2 DEF SharedStays
  <2>2. SharedInv' /\ LineageStep /\ HistoryStep
    BY <2>1, QuietShared DEF IInv
  <2> QED BY <1>1, <1>2, <2>2, ClearedIsFine DEF Step
<1>3. CASE /\ store = mem[p] /\ store' = next
           /\ pc'[p] = step /\ mem'[p] = next
           /\ initial'[p] = initial[p] /\ path'[p] = path[p]
           /\ output'[p] = output[p] /\ reviewed'[p] = reviewed[p]
  <2>1. SharedInv' /\ LineageStep /\ HistoryStep
    BY <1>3, SuccessorShared DEF IInv, historyVars
  <2>2. /\ LocalType(p) /\ CopyInv(p) /\ SharedInv
    BY DEF IInv, LocalInv
  <2>3. next \in Record /\ next # NoCheckpoint /\ Good(next)
    BY NoCheckpointAssumption DEF Successor, Good
  <2>4. LocalType(p)'
    BY <1>3, <2>2, <2>3 DEF LocalType
  <2>5. \/ initial[p] = NoCheckpoint
        \/ initial[p] = store /\ store' = store
        \/ Past(initial[p], store', created')
    BY <2>1, <2>2, RememberedStays DEF LocalType, CopyInv
  <2>6. CopyInv(p)'
    BY <1>3, <2>3, <2>5 DEF CopyInv, Remembered
  <2>7. PositionInv(p)' /\ ReplaceInv(p)' /\ RanInv(p)'
    BY <1>3, <2>3 DEF ReplaceInv, RanInv
  <2> QED BY <1>1, <2>1, <2>4, <2>6, <2>7 DEF Step, LocalInv
<1> QED BY <1>1, <1>2, <1>3

\* p publishes its last revision and ends.
LEMMA PublishLastStep ==
    ASSUME IInv, NEW p \in Process, NEW next, PublishLast(p, next),
           mem[p] # NoCheckpoint, Successor(mem[p], next),
           UNCHANGED <<worldVars, countVars, historyVars>>
    PROVE  Step(p)
<1>1. /\ Frame(p) /\ Cleared(p)
      /\ \/ store' = store
         \/ store = mem[p] /\ store' = next
  BY PublishLastEffect DEF IInv
<1>2. SharedInv' /\ LineageStep /\ HistoryStep
  <2>1. CASE store' = store
    BY <2>1, QuietShared DEF IInv, SharedStays
  <2>2. CASE store = mem[p] /\ store' = next
    BY <2>2, SuccessorShared DEF IInv, historyVars
  <2> QED BY <1>1, <2>1, <2>2
<1> QED BY <1>1, <1>2, ClearedIsFine DEF Step

-----------------------------------------------------------------------------
(* One lemma for each group of actions.                                    *)

\* Positions where nothing but the end is left to do.
LEMMA EndSteps ==
    ASSUME IInv, NEW p \in Process,
           Cancel(p) \/ Interrupt(p) \/ GateBlocks(p) \/ Crash(p)
    PROVE  Step(p)
BY EndStep
   DEF Cancel, Interrupt, GateBlocks, Crash, Finish, Ended, SharedStays

\* Steps that only move on.
LEMMA MoveSteps ==
    ASSUME IInv, NEW p \in Process,
           \/ VerifyNow(p) \/ ConfigurationOnly(p) \/ Pause(p)
           \/ FlashClaimed(p) \/ KeepGenerated(p)
           \/ DeploySucceeds(p) \/ DeployFails(p) \/ LoadNothing(p)
    PROVE  Step(p)
<1>1. LocalType(p) /\ PositionInv(p) /\ CopyInv(p) /\ ReplaceInv(p) /\ RanInv(p)
  BY DEF IInv, LocalInv
<1>2. SharedInv
  BY DEF IInv
<1>3. CASE VerifyNow(p)
  <2>1. /\ Goto(p, "verifynow") /\ UNCHANGED <<mem, localVars>> /\ SharedStays
    BY <1>3 DEF VerifyNow, SharedStays
  <2>2. Keeps(p) /\ pc'[p] = "verifynow"
          => PositionInv(p)' /\ ReplaceInv(p)' /\ RanInv(p)'
    BY <1>1, <1>3, <2>1
       DEF VerifyNow, PositionInv, ReplaceInv, RanInv, In, Keeps, Ended
  <2> QED BY <2>1, <2>2, MoveStep DEF Position, Prompts
<1>4. CASE ConfigurationOnly(p)
  <2>1. /\ Goto(p, "generate") /\ UNCHANGED <<mem, localVars>> /\ SharedStays
    BY <1>4 DEF ConfigurationOnly, SharedStays
  <2>2. Keeps(p) /\ pc'[p] = "generate"
          => PositionInv(p)' /\ ReplaceInv(p)' /\ RanInv(p)'
    BY <1>1, <1>4, <2>1
       DEF ConfigurationOnly, PositionInv, ReplaceInv, RanInv, In, Keeps, Ended
  <2> QED BY <2>1, <2>2, MoveStep DEF Position, Prompts
<1>5. CASE Pause(p)
  <2>1. /\ Goto(p, "wait") /\ UNCHANGED <<mem, localVars>> /\ SharedStays
    BY <1>5 DEF Pause, SharedStays
  <2>2. Keeps(p) /\ pc'[p] = "wait"
          => PositionInv(p)' /\ ReplaceInv(p)' /\ RanInv(p)'
    BY <1>1, <1>5, <2>1
       DEF Pause, PositionInv, ReplaceInv, RanInv, In, Keeps, Ended
  <2> QED BY <2>1, <2>2, MoveStep DEF Position, Prompts
<1>6. CASE FlashClaimed(p)
  <2>1. /\ Goto(p, "verifynow") /\ UNCHANGED <<mem, localVars>> /\ SharedStays
    BY <1>6 DEF FlashClaimed, SharedStays
  <2>2. Keeps(p) /\ pc'[p] = "verifynow"
          => PositionInv(p)' /\ ReplaceInv(p)' /\ RanInv(p)'
    BY <1>1, <1>6, <2>1
       DEF FlashClaimed, PositionInv, ReplaceInv, RanInv, In, Keeps, Ended
  <2> QED BY <2>1, <2>2, MoveStep DEF Position, Prompts
<1>7. CASE KeepGenerated(p)
  <2>1. /\ Goto(p, "gate") /\ UNCHANGED <<mem, localVars>> /\ SharedStays
    BY <1>7 DEF KeepGenerated, SharedStays
  <2>2. Keeps(p) /\ pc'[p] = "gate"
          => PositionInv(p)' /\ ReplaceInv(p)' /\ RanInv(p)'
    BY <1>1, <1>7, <2>1
       DEF KeepGenerated, PositionInv, ReplaceInv, RanInv, In, Keeps, Ended
  <2> QED BY <2>1, <2>2, MoveStep DEF Position, Prompts
<1>8. CASE DeploySucceeds(p)
  <2>1. /\ Goto(p, "succeeded") /\ UNCHANGED <<mem, localVars>> /\ SharedStays
    BY <1>8 DEF DeploySucceeds, SharedStays
  <2>2. Keeps(p) /\ pc'[p] = "succeeded"
          => PositionInv(p)' /\ ReplaceInv(p)' /\ RanInv(p)'
    BY <1>1, <1>8, <2>1
       DEF DeploySucceeds, PositionInv, ReplaceInv, RanInv, In, Keeps, Ended, SharedStays,
           worldVars, historyVars
  <2> QED BY <2>1, <2>2, MoveStep DEF Position, Prompts
<1>9. CASE DeployFails(p)
  <2>1. /\ Goto(p, "failed") /\ UNCHANGED <<mem, localVars>> /\ SharedStays
    BY <1>9 DEF DeployFails, SharedStays
  <2>2. Keeps(p) /\ pc'[p] = "failed"
          => PositionInv(p)' /\ ReplaceInv(p)' /\ RanInv(p)'
    BY <1>1, <1>9, <2>1
       DEF DeployFails, PositionInv, ReplaceInv, RanInv, In, Keeps, Ended
  <2> QED BY <2>1, <2>2, MoveStep DEF Position, Prompts
<1>10. CASE LoadNothing(p)
  <2>1. /\ Goto(p, "wizard") /\ UNCHANGED <<mem, localVars>> /\ SharedStays
    BY <1>10 DEF LoadNothing, SharedStays
  <2>2. Keeps(p) /\ pc'[p] = "wizard" => ReplaceInv(p)'
    BY <1>1, <1>10, <2>1
       DEF LoadNothing, ReplaceInv, CopyInv, Remembered, Keeps, SharedStays,
           countVars
  <2>3. Keeps(p) /\ pc'[p] = "wizard" => PositionInv(p)' /\ RanInv(p)'
    BY <1>1, <1>10, <2>1 DEF LoadNothing, PositionInv, RanInv, In, Keeps, Ended
  <2> QED BY <2>1, <2>2, <2>3, MoveStep DEF Position, Prompts
<1> QED BY <1>3, <1>4, <1>5, <1>6, <1>7, <1>8, <1>9, <1>10

\* What a process at a position holds, for the operations it applies.
LEMMA Holding ==
    ASSUME IInv, NEW p \in Process
    PROVE  /\ PositionInv(p)
           /\ mem[p] # NoCheckpoint
                => /\ Good(mem[p]) /\ mem[p].state \in State
                   /\ mem[p].artifact \in Artifact \cup {None}
BY DEF IInv, LocalInv, CopyInv, Good, Record

\* Steps that publish a revision and go on, or end when they cannot.
LEMMA PublishSteps ==
    ASSUME IInv, NEW p \in Process,
           \/ Continue(p) \/ Recompile(p) \/ PublishArtifact(p)
           \/ AutoVerify(p) \/ Await(p) \/ BeginVerification(p)
           \/ Gate(p) \/ Ready(p)
    PROVE  Step(p)
<1>1. /\ PositionInv(p)
      /\ mem[p] # NoCheckpoint
           => /\ Good(mem[p]) /\ mem[p].state \in State
              /\ mem[p].artifact \in Artifact \cup {None}
  BY Holding
<1>2. LocalType(p) /\ ReplaceInv(p) /\ RanInv(p)
  BY DEF IInv, LocalInv
<1>3. CASE Continue(p) /\ mem[p].state = "DEPLOYING"
  <2> DEFINE next == Resaved(mem[p], "READY_TO_DEPLOY", path[p])
  <2>1. /\ mem[p] # NoCheckpoint /\ path[p] \in Serial
        /\ mem[p].state \in {"DEPLOYING"}
    BY <1>1, <1>3 DEF Continue, PositionInv, In, Ended
  <2>2. Allowed(mem[p], "READY_TO_DEPLOY")
    BY <1>3, <2>1, Edges DEF Allowed
  <2>3. /\ Successor(mem[p], next) /\ next.state = "READY_TO_DEPLOY"
    BY <1>1, <2>1, <2>2, MoveSucceeds DEF State, Verified, Deployable
  <2>4. /\ Publish(p, mem[p], next, "review")
        /\ UNCHANGED <<worldVars, countVars, historyVars>>
    BY <1>3 DEF Continue
  <2> HIDE DEF next
  <2>5. ASSUME pc'[p] = "review", mem'[p] = next, path'[p] = path[p]
        PROVE  PositionInv(p)'
    <3>1. next # NoCheckpoint
      BY <2>3, NoCheckpointAssumption DEF Successor, Good
    <3> QED BY <2>1, <2>3, <2>5, <3>1 DEF PositionInv, In, Ended, State
  <2>6. "review" \in Position /\ "review" \notin {"deploy", "succeeded"}
    BY DEF Position, Prompts
  <2> QED BY <2>1, <2>3, <2>4, <2>5, <2>6, PublishStep
<1>4. CASE Continue(p) /\ mem[p].state # "DEPLOYING"
  <2>1. /\ Goto(p, "review") /\ UNCHANGED <<mem, localVars>> /\ SharedStays
    BY <1>4 DEF Continue, SharedStays
  <2>2. Keeps(p) /\ pc'[p] = "review"
          => PositionInv(p)' /\ ReplaceInv(p)' /\ RanInv(p)'
    BY <1>1, <1>2, <1>4, <2>1
       DEF Continue, PositionInv, ReplaceInv, RanInv, In, Keeps, Ended, State,
           SharedStays, countVars, historyVars
  <2> QED BY <2>1, <2>2, MoveStep DEF Position, Prompts
<1>5. CASE Recompile(p) /\ Allowed(mem[p], "COMPILE_REQUIRED")
  <2> DEFINE next == Resaved(mem[p], "COMPILE_REQUIRED", path[p])
  <2>1. /\ mem[p] # NoCheckpoint /\ path[p] \in Serial
        /\ mem[p].state \in State
    BY <1>1, <1>5 DEF Recompile, PositionInv, In, Ended
  <2>2. Allowed(mem[p], "COMPILE_REQUIRED")
    BY <1>5, <2>1, Edges DEF Allowed
  <2>3. /\ Successor(mem[p], next) /\ next.state = "COMPILE_REQUIRED"
    BY <1>1, <2>1, <2>2, MoveSucceeds DEF State, Verified, Deployable
  <2>4. /\ Publish(p, mem[p], next, "review")
        /\ UNCHANGED <<worldVars, countVars, historyVars>>
    BY <1>5 DEF Recompile
  <2> HIDE DEF next
  <2>5. ASSUME pc'[p] = "review", mem'[p] = next, path'[p] = path[p]
        PROVE  PositionInv(p)'
    <3>1. next # NoCheckpoint
      BY <2>3, NoCheckpointAssumption DEF Successor, Good
    <3> QED BY <2>1, <2>3, <2>5, <3>1 DEF PositionInv, In, Ended, State
  <2>6. "review" \in Position /\ "review" \notin {"deploy", "succeeded"}
    BY DEF Position, Prompts
  <2> QED BY <2>1, <2>3, <2>4, <2>5, <2>6, PublishStep
<1>6. CASE Recompile(p) /\ ~Allowed(mem[p], "COMPILE_REQUIRED")
  BY <1>6, EndStep DEF Recompile, Ended, SharedStays
<1>7. CASE PublishArtifact(p)
  <2> DEFINE next == Compiled(mem[p], output[p], path[p])
  <2>1. /\ mem[p] # NoCheckpoint /\ path[p] \in Serial
        /\ output[p] \in Artifact
        /\ mem[p].state \in {"HARDWARE_SELECTED", "COMPILE_REQUIRED"}
    BY <1>1, <1>2, <1>7
       DEF PublishArtifact, PositionInv, In, Ended, LocalType
  <2>2. Successor(mem[p], next) /\ next.state = "ARTIFACT_READY"
    BY <1>1, <2>1, CompileSucceeds
  <2>3. PICK step \in {"autoverify", "deliver", "await"} :
          /\ Publish(p, mem[p], next, step)
          /\ UNCHANGED <<worldVars, countVars, historyVars>>
    BY <1>7 DEF PublishArtifact
  <2> HIDE DEF next
  <2>4. ASSUME pc'[p] = step, mem'[p] = next, path'[p] = path[p]
        PROVE  PositionInv(p)'
    <3>1. next # NoCheckpoint
      BY <2>2, NoCheckpointAssumption DEF Successor, Good
    <3> QED BY <2>1, <2>2, <2>3, <2>4, <3>1 DEF PositionInv, In, Ended
  <2> QED BY <2>1, <2>2, <2>3, <2>4, PublishStep DEF Position, Prompts
<1>8. CASE AutoVerify(p)
  <2> DEFINE next == Moved(mem[p], "VERIFYING_MCU")
  <2>1. /\ mem[p] # NoCheckpoint /\ path[p] \in Serial
        /\ mem[p].state \in {"ARTIFACT_READY"}
    BY <1>1, <1>8 DEF AutoVerify, PositionInv, In, Ended
  <2>2. Allowed(mem[p], "VERIFYING_MCU")
    BY <1>8, <2>1, Edges DEF Allowed
  <2>3. /\ Successor(mem[p], next) /\ next.state = "VERIFYING_MCU"
    BY <1>1, <2>1, <2>2, MoveSucceeds DEF State, Verified, Deployable
  <2>4. /\ Publish(p, mem[p], next, "autocheck")
        /\ UNCHANGED <<worldVars, countVars, historyVars>>
    BY <1>8 DEF AutoVerify
  <2> HIDE DEF next
  <2>5. ASSUME pc'[p] = "autocheck", mem'[p] = next, path'[p] = path[p]
        PROVE  PositionInv(p)'
    <3>1. next # NoCheckpoint
      BY <2>3, NoCheckpointAssumption DEF Successor, Good
    <3> QED BY <2>1, <2>3, <2>5, <3>1 DEF PositionInv, In, Ended, State
  <2>6. "autocheck" \in Position /\ "autocheck" \notin {"deploy", "succeeded"}
    BY DEF Position, Prompts
  <2> QED BY <2>1, <2>3, <2>4, <2>5, <2>6, PublishStep
<1>9. CASE Await(p) /\ pc[p] = "await"
  <2> DEFINE next == Moved(mem[p], "AWAITING_FLASH")
  <2>1. /\ mem[p] # NoCheckpoint /\ path[p] \in Serial
        /\ mem[p].state \in {"ARTIFACT_READY"}
    BY <1>1, <1>9 DEF Await, PositionInv, In, Ended
  <2>2. Allowed(mem[p], "AWAITING_FLASH")
    BY <1>9, <2>1, Edges DEF Allowed
  <2>3. /\ Successor(mem[p], next) /\ next.state = "AWAITING_FLASH"
    BY <1>1, <2>1, <2>2, MoveSucceeds DEF State, Verified, Deployable
  <2>4. /\ Publish(p, mem[p], next, "await")
        /\ UNCHANGED <<worldVars, countVars, historyVars>>
    BY <1>9 DEF Await
  <2> HIDE DEF next
  <2>5. ASSUME pc'[p] = "await", mem'[p] = next, path'[p] = path[p]
        PROVE  PositionInv(p)'
    <3>1. next # NoCheckpoint
      BY <2>3, NoCheckpointAssumption DEF Successor, Good
    <3> QED BY <2>1, <2>3, <2>5, <3>1 DEF PositionInv, In, Ended, State
  <2>6. "await" \in Position /\ "await" \notin {"deploy", "succeeded"}
    BY DEF Position, Prompts
  <2> QED BY <2>1, <2>3, <2>4, <2>5, <2>6, PublishStep
<1>10. CASE Await(p) /\ pc[p] = "verifynow"
  <2> DEFINE next == Moved(mem[p], "AWAITING_FLASH")
  <2>1. /\ mem[p] # NoCheckpoint /\ path[p] \in Serial
        /\ mem[p].state \in {"ARTIFACT_READY"}
    BY <1>1, <1>10 DEF Await, PositionInv, In, Ended
  <2>2. Allowed(mem[p], "AWAITING_FLASH")
    BY <1>10, <2>1, Edges DEF Allowed
  <2>3. /\ Successor(mem[p], next) /\ next.state = "AWAITING_FLASH"
    BY <1>1, <2>1, <2>2, MoveSucceeds DEF State, Verified, Deployable
  <2>4. /\ Publish(p, mem[p], next, "verifynow")
        /\ UNCHANGED <<worldVars, countVars, historyVars>>
    BY <1>10 DEF Await
  <2> HIDE DEF next
  <2>5. ASSUME pc'[p] = "verifynow", mem'[p] = next, path'[p] = path[p]
        PROVE  PositionInv(p)'
    <3>1. next # NoCheckpoint
      BY <2>3, NoCheckpointAssumption DEF Successor, Good
    <3> QED BY <2>1, <2>3, <2>5, <3>1 DEF PositionInv, In, Ended, State
  <2>6. "verifynow" \in Position /\ "verifynow" \notin {"deploy", "succeeded"}
    BY DEF Position, Prompts
  <2> QED BY <2>1, <2>3, <2>4, <2>5, <2>6, PublishStep
<1>11. CASE BeginVerification(p) /\ mem[p].state # "VERIFYING_MCU"
  <2> DEFINE next == Moved(mem[p], "VERIFYING_MCU")
  <2>1. /\ mem[p] # NoCheckpoint /\ path[p] \in Serial
        /\ mem[p].state \in {"AWAITING_FLASH"}
    BY <1>1, <1>11 DEF BeginVerification, PositionInv, In, Ended
  <2>2. Allowed(mem[p], "VERIFYING_MCU")
    BY <1>11, <2>1, Edges DEF Allowed
  <2>3. /\ Successor(mem[p], next) /\ next.state = "VERIFYING_MCU"
    BY <1>1, <2>1, <2>2, MoveSucceeds DEF State, Verified, Deployable
  <2>4. /\ Publish(p, mem[p], next, "verify")
        /\ UNCHANGED <<worldVars, countVars, historyVars>>
    BY <1>11 DEF BeginVerification
  <2> HIDE DEF next
  <2>5. ASSUME pc'[p] = "verify", mem'[p] = next, path'[p] = path[p]
        PROVE  PositionInv(p)'
    <3>1. next # NoCheckpoint
      BY <2>3, NoCheckpointAssumption DEF Successor, Good
    <3> QED BY <2>1, <2>3, <2>5, <3>1 DEF PositionInv, In, Ended, State
  <2>6. "verify" \in Position /\ "verify" \notin {"deploy", "succeeded"}
    BY DEF Position, Prompts
  <2> QED BY <2>1, <2>3, <2>4, <2>5, <2>6, PublishStep
<1>12. CASE BeginVerification(p) /\ mem[p].state = "VERIFYING_MCU"
  <2>1. /\ Goto(p, "verify") /\ UNCHANGED <<mem, localVars>> /\ SharedStays
    BY <1>12 DEF BeginVerification, SharedStays
  <2>2. Keeps(p) /\ pc'[p] = "verify"
          => PositionInv(p)' /\ ReplaceInv(p)' /\ RanInv(p)'
    BY <1>1, <1>2, <1>12, <2>1
       DEF BeginVerification, PositionInv, ReplaceInv, RanInv, In, Keeps, Ended, State,
           SharedStays, countVars, historyVars
  <2> QED BY <2>1, <2>2, MoveStep DEF Position, Prompts
<1>13. CASE Gate(p) /\ mem[p] # NoCheckpoint /\ mem[p].state = "MCU_VERIFIED"
  <2> DEFINE next == Resaved(mem[p], "CONFIG_GENERATED", path[p])
  <2>1. /\ mem[p] # NoCheckpoint /\ path[p] \in Serial
        /\ mem[p].state \in {"MCU_VERIFIED"}
    BY <1>1, <1>13 DEF Gate, PositionInv, In, Ended
  <2>2. Allowed(mem[p], "CONFIG_GENERATED")
    BY <1>13, <2>1, Edges DEF Allowed
  <2>3. /\ Successor(mem[p], next) /\ next.state = "CONFIG_GENERATED"
    BY <1>1, <2>1, <2>2, MoveSucceeds DEF State, Verified, Deployable
  <2>4. /\ Publish(p, mem[p], next, "ready")
        /\ UNCHANGED <<worldVars, countVars, historyVars>>
    BY <1>13 DEF Gate
  <2> HIDE DEF next
  <2>5. ASSUME pc'[p] = "ready", mem'[p] = next, path'[p] = path[p]
        PROVE  PositionInv(p)'
    <3>1. next # NoCheckpoint
      BY <2>3, NoCheckpointAssumption DEF Successor, Good
    <3> QED BY <2>1, <2>3, <2>5, <3>1 DEF PositionInv, In, Ended, State
  <2>6. "ready" \in Position /\ "ready" \notin {"deploy", "succeeded"}
    BY DEF Position, Prompts
  <2> QED BY <2>1, <2>3, <2>4, <2>5, <2>6, PublishStep
<1>14. CASE Gate(p) /\ mem[p] # NoCheckpoint /\ mem[p].state # "MCU_VERIFIED"
  <2>1. /\ Goto(p, "ready") /\ UNCHANGED <<mem, localVars>> /\ SharedStays
    BY <1>14 DEF Gate, SharedStays
  <2>2. Keeps(p) /\ pc'[p] = "ready"
          => PositionInv(p)' /\ ReplaceInv(p)' /\ RanInv(p)'
    BY <1>1, <1>2, <1>14, <2>1
       DEF Gate, PositionInv, ReplaceInv, RanInv, In, Keeps, Ended, State,
           SharedStays, countVars, historyVars
  <2> QED BY <2>1, <2>2, MoveStep DEF Position, Prompts
<1>15. CASE Gate(p) /\ mem[p] = NoCheckpoint
  <2>1. /\ Goto(p, "choose") /\ UNCHANGED <<mem, localVars>> /\ SharedStays
    BY <1>15 DEF Gate, SharedStays
  <2>2. Keeps(p) /\ pc'[p] = "choose"
          => PositionInv(p)' /\ ReplaceInv(p)' /\ RanInv(p)'
    BY <1>1, <1>2, <1>15, <2>1
       DEF Gate, PositionInv, ReplaceInv, RanInv, In, Keeps, Ended, State,
           SharedStays, countVars, historyVars
  <2> QED BY <2>1, <2>2, MoveStep DEF Position, Prompts
<1>16. CASE Ready(p) /\ mem[p].state = "CONFIG_GENERATED"
  <2> DEFINE next == Resaved(mem[p], "READY_TO_DEPLOY", path[p])
  <2>1. /\ mem[p] # NoCheckpoint /\ path[p] \in Serial
        /\ mem[p].state \in {"CONFIG_GENERATED"}
    BY <1>1, <1>16 DEF Ready, PositionInv, In, Ended
  <2>2. Allowed(mem[p], "READY_TO_DEPLOY")
    BY <1>16, <2>1, Edges DEF Allowed
  <2>3. /\ Successor(mem[p], next) /\ next.state = "READY_TO_DEPLOY"
    BY <1>1, <2>1, <2>2, MoveSucceeds DEF State, Verified, Deployable
  <2>4. /\ Publish(p, mem[p], next, "choose")
        /\ UNCHANGED <<worldVars, countVars, historyVars>>
    BY <1>16 DEF Ready
  <2> HIDE DEF next
  <2>5. ASSUME pc'[p] = "choose", mem'[p] = next, path'[p] = path[p]
        PROVE  PositionInv(p)'
    <3>1. next # NoCheckpoint
      BY <2>3, NoCheckpointAssumption DEF Successor, Good
    <3> QED BY <2>1, <2>3, <2>5, <3>1 DEF PositionInv, In, Ended, State
  <2>6. "choose" \in Position /\ "choose" \notin {"deploy", "succeeded"}
    BY DEF Position, Prompts
  <2> QED BY <2>1, <2>3, <2>4, <2>5, <2>6, PublishStep
<1>17. CASE Ready(p) /\ mem[p].state # "CONFIG_GENERATED"
  <2>1. /\ Goto(p, "choose") /\ UNCHANGED <<mem, localVars>> /\ SharedStays
    BY <1>17 DEF Ready, SharedStays
  <2>2. Keeps(p) /\ pc'[p] = "choose"
          => PositionInv(p)' /\ ReplaceInv(p)' /\ RanInv(p)'
    BY <1>1, <1>2, <1>17, <2>1
       DEF Ready, PositionInv, ReplaceInv, RanInv, In, Keeps, Ended, State,
           SharedStays, countVars, historyVars
  <2> QED BY <2>1, <2>2, MoveStep DEF Position, Prompts
<1>18. pc[p] \in {"await", "verifynow"} \/ ~Await(p)
  BY DEF Await
<1> QED BY <1>3, <1>4, <1>5, <1>6, <1>7, <1>8, <1>9, <1>10, <1>11, <1>12,
           <1>13, <1>14, <1>15, <1>16, <1>17, <1>18

\* Steps that publish a revision as the last act of a run.
LEMMA LastSteps ==
    ASSUME IInv, NEW p \in Process,
           CompileFails(p) \/ RecordComplete(p) \/ RecordFailure(p)
    PROVE  Step(p)
<1>1. /\ PositionInv(p)
      /\ mem[p] # NoCheckpoint
           => /\ Good(mem[p]) /\ mem[p].state \in State
              /\ mem[p].artifact \in Artifact \cup {None}
  BY Holding
<1>2. LocalType(p) /\ ReplaceInv(p) /\ RanInv(p)
  BY DEF IInv, LocalInv
<1>3. CASE CompileFails(p)
  <2> DEFINE next == Resaved(mem[p], "COMPILE_REQUIRED", path[p])
  <2>1. /\ mem[p] # NoCheckpoint /\ path[p] \in Serial
        /\ mem[p].state \in {"HARDWARE_SELECTED", "COMPILE_REQUIRED"}
    BY <1>1, <1>3 DEF CompileFails, PositionInv, In, Ended
  <2>2. Allowed(mem[p], "COMPILE_REQUIRED")
    BY <2>1, Edges DEF Allowed
  <2>3. Successor(mem[p], next)
    BY <1>1, <2>1, <2>2, MoveSucceeds DEF State, Verified, Deployable
  <2>4. PublishLast(p, next) /\ UNCHANGED <<worldVars, countVars, historyVars>>
    BY <1>3 DEF CompileFails
  <2> QED BY <2>1, <2>3, <2>4, PublishLastStep
<1>4. CASE RecordComplete(p)
  <2> DEFINE next == Moved(mem[p], "COMPLETE")
  <2>1. /\ mem[p] # NoCheckpoint /\ path[p] \in Serial
        /\ mem[p].state \in {"DEPLOYING"}
    BY <1>1, <1>4 DEF RecordComplete, PositionInv, In, Ended
  <2>2. Allowed(mem[p], "COMPLETE")
    BY <2>1, Edges DEF Allowed
  <2>3. Successor(mem[p], next)
    BY <1>1, <2>1, <2>2, MoveSucceeds DEF State, Verified, Deployable
  <2>4. PublishLast(p, next) /\ UNCHANGED <<worldVars, countVars, historyVars>>
    BY <1>4 DEF RecordComplete
  <2> QED BY <2>1, <2>3, <2>4, PublishLastStep
<1>5. CASE RecordFailure(p)
  <2> DEFINE next == Moved(mem[p], "READY_TO_DEPLOY")
  <2>1. /\ mem[p] # NoCheckpoint /\ path[p] \in Serial
        /\ mem[p].state \in {"DEPLOYING"}
    BY <1>1, <1>5 DEF RecordFailure, PositionInv, In, Ended
  <2>2. Allowed(mem[p], "READY_TO_DEPLOY")
    BY <2>1, Edges DEF Allowed
  <2>3. Successor(mem[p], next)
    BY <1>1, <2>1, <2>2, MoveSucceeds DEF State, Verified, Deployable
  <2>4. PublishLast(p, next) /\ UNCHANGED <<worldVars, countVars, historyVars>>
    BY <1>5 DEF RecordFailure
  <2> QED BY <2>1, <2>3, <2>4, PublishLastStep
<1> QED BY <1>3, <1>4, <1>5

\* The flash is pending, or the MCU has not come back: AWAITING_FLASH, and the
\* prompt or the end.
LEMMA AwaitingSteps ==
    ASSUME IInv, NEW p \in Process, DeliveryPends(p) \/ McuMissing(p)
    PROVE  Step(p)
<1> DEFINE next == Moved(mem[p], "AWAITING_FLASH")
<1>1. /\ PositionInv(p)
      /\ mem[p] # NoCheckpoint
           => /\ Good(mem[p]) /\ mem[p].state \in State
              /\ mem[p].artifact \in Artifact \cup {None}
  BY Holding
<1>2. LocalType(p) /\ ReplaceInv(p) /\ RanInv(p)
  BY DEF IInv, LocalInv
<1>3. /\ mem[p] # NoCheckpoint /\ path[p] \in Serial
      /\ mem[p].state \in {"ARTIFACT_READY", "VERIFYING_MCU"}
  BY <1>1 DEF DeliveryPends, McuMissing, PositionInv, In, Ended
<1>4. Allowed(mem[p], "AWAITING_FLASH")
  BY <1>3, Edges DEF Allowed
<1>5. Successor(mem[p], next) /\ next.state = "AWAITING_FLASH"
  BY <1>1, <1>3, <1>4, MoveSucceeds DEF State, Verified, Deployable
<1>6. /\ Publish(p, mem[p], next, "wait") \/ PublishLast(p, next)
      /\ UNCHANGED <<worldVars, countVars, historyVars>>
  BY DEF DeliveryPends, McuMissing
<1> HIDE DEF next
<1>7. ASSUME pc'[p] = "wait", mem'[p] = next, path'[p] = path[p]
      PROVE  PositionInv(p)'
  <2>1. next # NoCheckpoint
    BY <1>5, NoCheckpointAssumption DEF Successor, Good
  <2> QED BY <1>3, <1>5, <1>7, <2>1 DEF PositionInv, In, Ended
<1>8. "wait" \in Position /\ "wait" \notin {"deploy", "succeeded"}
  BY DEF Position, Prompts
<1> QED BY <1>3, <1>5, <1>6, <1>7, <1>8, PublishStep, PublishLastStep

\* What is left to show when p holds the revision it has just published.
LEMMA PublishedFine ==
    ASSUME IInv, NEW p \in Process, SharedInv', LineageStep,
           mem'[p] = store', Good(store'), store' # NoCheckpoint,
           initial'[p] = initial[p], output'[p] = output[p],
           pc'[p] \in Position, path'[p] \in Serial, reviewed'[p] \in BOOLEAN
    PROVE  LocalType(p)' /\ CopyInv(p)' /\ ReplaceInv(p)'
<1>1. LocalType(p) /\ CopyInv(p) /\ SharedInv
  BY DEF IInv, LocalInv
<1>2. LocalType(p)'
  BY <1>1 DEF LocalType, Good
<1>3. \/ initial[p] = NoCheckpoint
      \/ initial[p] = store /\ store' = store
      \/ Past(initial[p], store', created')
  BY <1>1, RememberedStays DEF LocalType, CopyInv
<1>4. CopyInv(p)' /\ ReplaceInv(p)'
  BY <1>3 DEF CopyInv, Remembered, ReplaceInv
<1> QED BY <1>2, <1>4

\* The MCU came back: its name is published with the evidence.
LEMMA McuMatchesStep ==
    ASSUME IInv, NEW p \in Process, McuMatches(p)
    PROVE  Step(p)
<1>1. /\ PositionInv(p)
      /\ mem[p] # NoCheckpoint
           => /\ Good(mem[p]) /\ mem[p].state \in State
              /\ mem[p].artifact \in Artifact \cup {None}
  BY Holding
<1>2. LocalType(p) /\ ReplaceInv(p) /\ RanInv(p)
  BY DEF IInv, LocalInv
<1>3. UNCHANGED <<worldVars, countVars, historyVars>>
  BY DEF McuMatches
<1>4. CASE PersistFails(p, mem[p])
  BY <1>3, <1>4, EndStep DEF PersistFails, Finish, Ended, SharedStays
<1>5. ASSUME NEW serial \in Serial,
             Replace(mem[p], Matched(mem[p], serial)),
             mem' = [mem EXCEPT ![p] = Matched(mem[p], serial)],
             path' = [path EXCEPT ![p] = serial],
             Goto(p, IF reviewed[p] THEN "generate" ELSE "review"),
             UNCHANGED <<initial, output, reviewed>>
      PROVE  Step(p)
  <2> DEFINE next == Matched(mem[p], serial)
  <2>1. mem[p] # NoCheckpoint /\ mem[p].state = "VERIFYING_MCU"
    BY <1>1 DEF McuMatches, PositionInv, In
  <2>2. Successor(mem[p], next) /\ next.state = "MCU_VERIFIED"
    BY <1>1, <2>1, MatchSucceeds
  <2>3. store = mem[p] /\ store' = next
    BY <1>5 DEF Replace
  <2>4. /\ Frame(p) /\ mem'[p] = next /\ path'[p] = serial
        /\ pc'[p] \in {"generate", "review"}
        /\ initial'[p] = initial[p] /\ output'[p] = output[p]
        /\ reviewed'[p] \in BOOLEAN
    BY <1>2, <1>5 DEF IInv, FunctionType, Frame, Goto, LocalType
  <2> HIDE DEF next
  <2>5. Good(next) /\ next # NoCheckpoint
    BY <2>2, NoCheckpointAssumption DEF Successor, Good
  <2>6. SharedInv' /\ LineageStep /\ HistoryStep
    BY <1>3, <2>1, <2>2, <2>3, SuccessorShared DEF IInv, historyVars
  <2>7. PositionInv(p)'
    BY <2>2, <2>4, <2>5 DEF PositionInv, In, Ended, State
  <2>8. LocalType(p)' /\ CopyInv(p)' /\ ReplaceInv(p)'
    BY <2>3, <2>4, <2>5, <2>6, PublishedFine DEF Position, Prompts
  <2>9. RanInv(p)'
    BY <2>4 DEF RanInv
  <2> QED BY <2>4, <2>6, <2>7, <2>8, <2>9 DEF Step, LocalInv
<1> QED BY <1>4, <1>5 DEF McuMatches

\* DEPLOYING is published, and the history of the firmware begins again.
LEMMA BeginDeploymentStep ==
    ASSUME IInv, NEW p \in Process, BeginDeployment(p)
    PROVE  Step(p)
<1> DEFINE next == Moved(mem[p], "DEPLOYING")
<1>1. /\ PositionInv(p)
      /\ mem[p] # NoCheckpoint
           => /\ Good(mem[p]) /\ mem[p].state \in State
              /\ mem[p].artifact \in Artifact \cup {None}
  BY Holding
<1>2. LocalType(p) /\ ReplaceInv(p) /\ RanInv(p)
  BY DEF IInv, LocalInv
<1>3. /\ mem[p] # NoCheckpoint /\ path[p] \in Serial
      /\ mem[p].state = "READY_TO_DEPLOY"
  BY <1>1 DEF BeginDeployment, PositionInv, In, Ended
<1>4. Allowed(mem[p], "DEPLOYING")
  BY <1>3, Edges DEF Allowed
<1>5. Successor(mem[p], next) /\ next.state = "DEPLOYING"
  BY <1>1, <1>3, <1>4, MoveSucceeds DEF State, Verified, Deployable
<1>6. /\ Publish(p, mem[p], next, "deploy")
      /\ ran' = IF pc'[p] = "deploy" THEN {firmware} ELSE ran
      /\ UNCHANGED <<worldVars, countVars, built, refused>>
  BY DEF BeginDeployment
<1> HIDE DEF next
<1>7. /\ Frame(p)
      /\ \/ /\ store = mem[p] /\ store' = next
            /\ pc'[p] = "deploy" /\ mem'[p] = next
            /\ initial'[p] = initial[p] /\ path'[p] = path[p]
            /\ output'[p] = output[p] /\ reviewed'[p] = reviewed[p]
         \/ store' = store /\ Cleared(p)
  BY <1>6, PublishEffect DEF IInv
<1>8. CASE store' = store /\ Cleared(p)
  <2>1. ran' = ran
    BY <1>6, <1>8 DEF Cleared, Ended
  <2>2. SharedInv' /\ LineageStep /\ HistoryStep
    BY <1>6, <1>8, <2>1, QuietShared DEF IInv, SharedStays, historyVars
  <2> QED BY <1>7, <1>8, <2>2, ClearedIsFine DEF Step
<1>9. CASE /\ store = mem[p] /\ store' = next
           /\ pc'[p] = "deploy" /\ mem'[p] = next
           /\ initial'[p] = initial[p] /\ path'[p] = path[p]
           /\ output'[p] = output[p] /\ reviewed'[p] = reviewed[p]
  <2>1. Good(next) /\ next # NoCheckpoint
    BY <1>5, NoCheckpointAssumption DEF Successor, Good
  <2>2. ran' = {firmware} /\ firmware' = firmware
    BY <1>6, <1>9 DEF worldVars
  <2>3. SharedInv' /\ LineageStep /\ HistoryStep
    BY <1>3, <1>5, <1>6, <1>9, <2>2, SuccessorShared DEF IInv
  <2>4. PositionInv(p)'
    BY <1>3, <1>5, <1>9, <2>1 DEF PositionInv, In, Ended
  <2>5. LocalType(p)' /\ CopyInv(p)' /\ ReplaceInv(p)'
    BY <1>2, <1>3, <1>9, <2>1, <2>3, PublishedFine
       DEF Position, Prompts, LocalType
  <2>6. RanInv(p)'
    BY <1>9, <2>2 DEF RanInv
  <2> QED BY <1>7, <2>3, <2>4, <2>5, <2>6 DEF Step, LocalInv
<1> QED BY <1>7, <1>8, <1>9

\* The start of a run captures the stored revision.
LEMMA StartStep ==
    ASSUME IInv, NEW p \in Process, Start(p)
    PROVE  Step(p)
<1>1. /\ PositionInv(p)
      /\ mem[p] # NoCheckpoint
           => /\ Good(mem[p]) /\ mem[p].state \in State
              /\ mem[p].artifact \in Artifact \cup {None}
  BY Holding
<1>2. LocalType(p) /\ CopyInv(p) /\ ReplaceInv(p) /\ RanInv(p) /\ SharedInv
  BY DEF IInv, LocalInv
<1>3. /\ Frame(p) /\ pc'[p] = "load" /\ initial'[p] = store
      /\ mem'[p] = mem[p] /\ path'[p] = path[p] /\ output'[p] = output[p]
      /\ reviewed'[p] = reviewed[p] /\ mem[p] = NoCheckpoint
  BY <1>1 DEF Start, Goto, IInv, FunctionType, Frame, PositionInv
<1>4. /\ store' = store /\ created' = created /\ firmware' = firmware
      /\ printer' = printer /\ UNCHANGED historyVars
      /\ runs' = runs + 1 /\ runs < MaxRuns
  BY DEF Start, worldVars
<1>5. SharedInv'
  BY <1>2, <1>4, WorkflowAssumption DEF SharedInv, historyVars
<1>6. LineageStep /\ HistoryStep
  BY <1>4 DEF LineageStep, Lineage!lineage, HistoryStep, historyVars
<1>7. LocalType(p)'
  BY <1>2, <1>3 DEF LocalType, SharedInv, Position, Prompts
<1>8. PositionInv(p)' /\ CopyInv(p)' /\ ReplaceInv(p)' /\ RanInv(p)'
  BY <1>3, <1>4
     DEF PositionInv, CopyInv, ReplaceInv, RanInv, Remembered, In, Ended
<1> QED BY <1>3, <1>5, <1>6, <1>7, <1>8 DEF Step, LocalInv

\* A refused revision may be replaced by the process that refused it.
LEMMA LoadRefusedStep ==
    ASSUME IInv, NEW p \in Process, LoadRefused(p)
    PROVE  Step(p)
<1>1. /\ PositionInv(p)
      /\ mem[p] # NoCheckpoint
           => /\ Good(mem[p]) /\ mem[p].state \in State
              /\ mem[p].artifact \in Artifact \cup {None}
  BY Holding
<1>2. LocalType(p) /\ CopyInv(p) /\ ReplaceInv(p) /\ RanInv(p) /\ SharedInv
  BY DEF IInv, LocalInv
<1>3. /\ Frame(p) /\ Keeps(p) /\ pc'[p] = "wizard" /\ mem[p] = NoCheckpoint
  <2>1. Goto(p, "wizard") /\ UNCHANGED <<mem, localVars>> /\ pc[p] = "load"
    BY DEF LoadRefused
  <2> QED BY <1>1, <2>1, GotoEffect DEF IInv, PositionInv
<1>4. /\ store \in Record /\ refused' = refused \cup {store}
      /\ store' = store /\ UNCHANGED <<worldVars, countVars, built, ran>>
  BY <1>2 DEF LoadRefused, SharedInv
<1>5. SharedInv'
  BY <1>2, <1>4 DEF SharedInv, worldVars, countVars
<1>6. LineageStep /\ HistoryStep
  BY <1>4, SameOperators
     DEF LineageStep, Lineage!Next, Lineage!Refuse, HistoryStep, worldVars,
         countVars
<1>7. LocalType(p)' /\ CopyInv(p)'
  BY <1>2, <1>3, <1>4
     DEF LocalType, CopyInv, Keeps, Position, Prompts, countVars
<1>8. ReplaceInv(p)'
  BY <1>2, <1>3, <1>4 DEF ReplaceInv, CopyInv, Remembered, Keeps, countVars
<1>9. PositionInv(p)' /\ RanInv(p)'
  BY <1>3 DEF PositionInv, RanInv, Keeps, In, Ended
<1> QED BY <1>3, <1>5, <1>6, <1>7, <1>8, <1>9 DEF Step, LocalInv

\* A loaded checkpoint is the stored one.
LEMMA LoadCheckpointStep ==
    ASSUME IInv, NEW p \in Process, LoadCheckpoint(p)
    PROVE  Step(p)
<1>1. /\ PositionInv(p)
      /\ mem[p] # NoCheckpoint
           => /\ Good(mem[p]) /\ mem[p].state \in State
              /\ mem[p].artifact \in Artifact \cup {None}
  BY Holding
<1>2. LocalType(p) /\ CopyInv(p) /\ ReplaceInv(p) /\ RanInv(p) /\ SharedInv
  BY DEF IInv, LocalInv
<1>3. /\ Frame(p) /\ pc'[p] = "menu" /\ mem'[p] = store
      /\ path'[p] = store.saved /\ initial'[p] = initial[p]
      /\ output'[p] = output[p] /\ reviewed'[p] = reviewed[p]
  BY DEF LoadCheckpoint, Goto, IInv, FunctionType, Frame
<1>4. /\ store \in Record /\ store # NoCheckpoint /\ store.saved \in Serial
      /\ store.state \in State \ {"COMPLETE"} /\ Good(store)
  BY <1>2 DEF LoadCheckpoint, SharedInv, Record
<1>5. SharedStays
  BY DEF LoadCheckpoint, SharedStays
<1>6. SharedInv' /\ LineageStep /\ HistoryStep
  BY <1>2, <1>5, QuietShared
<1>7. store' = store /\ created' = created
  BY <1>5 DEF SharedStays, countVars
<1>8. LocalType(p)' /\ CopyInv(p)' /\ ReplaceInv(p)'
  BY <1>2, <1>3, <1>4, <1>7
     DEF LocalType, CopyInv, ReplaceInv, Remembered, Position, Prompts
<1>9. PositionInv(p)' /\ RanInv(p)'
  BY <1>3, <1>4 DEF PositionInv, RanInv, In, Ended
<1> QED BY <1>3, <1>6, <1>8, <1>9 DEF Step, LocalInv

\* The operator discards the revision he has seen.
LEMMA NewWorkflowStep ==
    ASSUME IInv, NEW p \in Process, NewWorkflow(p)
    PROVE  Step(p)
<1>1. /\ PositionInv(p)
      /\ mem[p] # NoCheckpoint
           => /\ Good(mem[p]) /\ mem[p].state \in State
              /\ mem[p].artifact \in Artifact \cup {None}
  BY Holding
<1>2. LocalType(p) /\ CopyInv(p) /\ ReplaceInv(p) /\ RanInv(p) /\ SharedInv
  BY DEF IInv, LocalInv
<1>3. UNCHANGED <<worldVars, countVars, historyVars>>
  BY DEF NewWorkflow
<1>4. CASE End(p, "uncaught") /\ UNCHANGED store
  BY <1>3, <1>4, EndStep DEF Ended, SharedStays
<1>5. CASE /\ Replace(mem[p], NoCheckpoint)
           /\ mem' = [mem EXCEPT ![p] = NoCheckpoint]
           /\ initial' = [initial EXCEPT ![p] = NoCheckpoint]
           /\ path' = [path EXCEPT ![p] = None]
           /\ Goto(p, "wizard")
           /\ UNCHANGED <<output, reviewed>>
  <2>1. /\ Frame(p) /\ pc'[p] = "wizard" /\ mem'[p] = NoCheckpoint
        /\ initial'[p] = NoCheckpoint /\ path'[p] = None
        /\ output'[p] = output[p] /\ reviewed'[p] = reviewed[p]
    BY <1>5 DEF Goto, IInv, FunctionType, Frame
  <2>2. /\ store = mem[p] /\ store \in Record /\ store.state # "COMPLETE"
        /\ store' = NoCheckpoint
    BY <1>1, <1>2, <1>5
       DEF NewWorkflow, Replace, PositionInv, In, SharedInv
  <2>3. SharedInv'
    BY <1>2, <1>3, <2>2 DEF SharedInv, worldVars, countVars, historyVars
  <2>4. LineageStep /\ HistoryStep
    BY <1>3, <2>2, SameOperators
       DEF LineageStep, Lineage!Next, Lineage!Discard, HistoryStep, worldVars,
           countVars, historyVars
  <2>5. LocalType(p)' /\ CopyInv(p)' /\ ReplaceInv(p)'
    BY <1>2, <2>1
       DEF LocalType, CopyInv, ReplaceInv, Remembered, Position, Prompts
  <2>6. PositionInv(p)' /\ RanInv(p)'
    BY <2>1 DEF PositionInv, RanInv, In, Ended
  <2> QED BY <2>1, <2>3, <2>4, <2>5, <2>6 DEF Step, LocalInv
<1> QED BY <1>4, <1>5 DEF NewWorkflow

\* The answers of the wizard name the MCU.
LEMMA WizardStep ==
    ASSUME IInv, NEW p \in Process, Wizard(p)
    PROVE  Step(p)
<1>1. /\ PositionInv(p)
      /\ mem[p] # NoCheckpoint
           => /\ Good(mem[p]) /\ mem[p].state \in State
              /\ mem[p].artifact \in Artifact \cup {None}
  BY Holding
<1>2. LocalType(p) /\ CopyInv(p) /\ ReplaceInv(p) /\ RanInv(p) /\ SharedInv
  BY DEF IInv, LocalInv
<1>3. PICK serial \in Serial : path' = [path EXCEPT ![p] = serial]
  BY DEF Wizard
<1>4. /\ Frame(p) /\ pc[p] = "wizard" /\ pc'[p] = "review"
      /\ path'[p] = serial /\ mem'[p] = mem[p] /\ mem[p] = NoCheckpoint
      /\ initial'[p] = initial[p] /\ output'[p] = output[p]
      /\ reviewed'[p] = reviewed[p]
  BY <1>1, <1>3 DEF Wizard, Goto, IInv, FunctionType, Frame, PositionInv
<1>5. SharedStays
  BY DEF Wizard, SharedStays
<1>6. SharedInv' /\ LineageStep /\ HistoryStep
  BY <1>2, <1>5, QuietShared
<1>7. store' = store /\ created' = created /\ refused' = refused
  BY <1>5 DEF SharedStays, countVars, historyVars
<1>8. LocalType(p)' /\ CopyInv(p)' /\ ReplaceInv(p)'
  BY <1>2, <1>4, <1>7 DEF LocalType, CopyInv, ReplaceInv, Position, Prompts
<1>9. PositionInv(p)' /\ RanInv(p)'
  BY <1>4 DEF PositionInv, RanInv, In, Ended
<1> QED BY <1>4, <1>6, <1>8, <1>9 DEF Step, LocalInv

\* A geometry that is accepted as it is leads to the phase of the checkpoint.
LEMMA ReviewKeepsStep ==
    ASSUME IInv, NEW p \in Process, ReviewKeeps(p)
    PROVE  Step(p)
<1>1. /\ PositionInv(p)
      /\ mem[p] # NoCheckpoint
           => /\ Good(mem[p]) /\ mem[p].state \in State
              /\ mem[p].artifact \in Artifact \cup {None}
  BY Holding
<1>2. LocalType(p) /\ CopyInv(p) /\ ReplaceInv(p) /\ RanInv(p) /\ SharedInv
  BY DEF IInv, LocalInv
<1>3. PICK step : /\ step = IF mem[p] = NoCheckpoint THEN "create"
                            ELSE Phase(mem[p].state)
                  /\ Reviewed(p, step)
  BY DEF ReviewKeeps
<1>4. /\ Frame(p) /\ pc[p] = "review" /\ pc'[p] = step
      /\ path'[p] = path[p] /\ mem'[p] = mem[p]
      /\ initial'[p] = initial[p] /\ output'[p] = output[p]
      /\ reviewed'[p] = TRUE
  BY <1>3 DEF ReviewKeeps, Reviewed, Goto, IInv, FunctionType, Frame
<1>5. SharedStays
  BY DEF ReviewKeeps, SharedStays
<1>6. SharedInv' /\ LineageStep /\ HistoryStep
  BY <1>2, <1>5, QuietShared
<1>7. store' = store /\ created' = created /\ refused' = refused
  BY <1>5 DEF SharedStays, countVars, historyVars
<1>8. step \in {"create", "compile", "await", "generate"}
  BY <1>3 DEF Phase
<1>9. CopyInv(p)' /\ ReplaceInv(p)' /\ RanInv(p)'
  BY <1>2, <1>4, <1>7, <1>8 DEF CopyInv, ReplaceInv, RanInv
<1>10. LocalType(p)'
  BY <1>2, <1>4, <1>8 DEF LocalType, Position, Prompts
<1>11. PositionInv(p)'
  <2>1. path[p] \in Serial
    BY <1>1, <1>4 DEF PositionInv, Ended
  <2>2. mem[p] # NoCheckpoint => mem[p].state \in State \ {"DEPLOYING", "COMPLETE"}
    BY <1>1, <1>4 DEF PositionInv, In
  <2>3. CASE mem[p] = NoCheckpoint
    BY <1>3, <1>4, <2>1, <2>3 DEF PositionInv, In, Ended
  <2>4. CASE mem[p] # NoCheckpoint
    BY <1>3, <1>4, <2>1, <2>2, <2>4 DEF PositionInv, In, Ended, Phase, State
  <2> QED BY <2>3, <2>4
<1> QED BY <1>4, <1>6, <1>9, <1>10, <1>11 DEF Step, LocalInv

\* An edited geometry of a verified workflow.
LEMMA ReviewEditsStep ==
    ASSUME IInv, NEW p \in Process, ReviewEdits(p)
    PROVE  Step(p)
<1> DEFINE next == Resaved(mem[p], "MCU_VERIFIED", path[p])
<1>1. /\ PositionInv(p)
      /\ mem[p] # NoCheckpoint
           => /\ Good(mem[p]) /\ mem[p].state \in State
              /\ mem[p].artifact \in Artifact \cup {None}
  BY Holding
<1>2. LocalType(p) /\ CopyInv(p) /\ ReplaceInv(p) /\ RanInv(p) /\ SharedInv
  BY DEF IInv, LocalInv
<1>3. UNCHANGED <<worldVars, countVars, historyVars>>
  BY DEF ReviewEdits
<1>4. /\ mem[p] # NoCheckpoint /\ mem[p].state = "MCU_VERIFIED"
      /\ pc[p] = "review" /\ path[p] \in Serial
  BY <1>1 DEF ReviewEdits, PositionInv, Ended
<1>5. Allowed(mem[p], "MCU_VERIFIED")
  BY <1>4 DEF Allowed
<1>6. Successor(mem[p], next) /\ next.state = "MCU_VERIFIED"
  BY <1>1, <1>4, <1>5, MoveSucceeds DEF State, Verified
<1>7. \/ /\ Replace(mem[p], next)
         /\ mem' = [mem EXCEPT ![p] = next]
         /\ Reviewed(p, "generate")
         /\ UNCHANGED <<initial, path, output>>
      \/ PersistFails(p, mem[p])
  BY DEF ReviewEdits
<1> HIDE DEF next
<1>8. CASE PersistFails(p, mem[p])
  BY <1>3, <1>8, EndStep DEF PersistFails, Finish, Ended, SharedStays
<1>9. CASE /\ Replace(mem[p], next)
           /\ mem' = [mem EXCEPT ![p] = next]
           /\ Reviewed(p, "generate")
           /\ UNCHANGED <<initial, path, output>>
  <2>1. /\ Frame(p) /\ pc'[p] = "generate" /\ mem'[p] = next
        /\ path'[p] = path[p] /\ initial'[p] = initial[p]
        /\ output'[p] = output[p] /\ reviewed'[p] = TRUE
    BY <1>9 DEF Reviewed, Goto, IInv, FunctionType, Frame
  <2>2. store = mem[p] /\ store' = next
    BY <1>9 DEF Replace
  <2>3. Good(next) /\ next # NoCheckpoint
    BY <1>6, NoCheckpointAssumption DEF Successor, Good
  <2>4. SharedInv' /\ LineageStep /\ HistoryStep
    BY <1>2, <1>3, <1>4, <1>6, <2>2, SuccessorShared DEF historyVars
  <2>5. LocalType(p)' /\ CopyInv(p)' /\ ReplaceInv(p)'
    BY <1>4, <2>1, <2>2, <2>3, <2>4, PublishedFine DEF Position, Prompts
  <2>6. PositionInv(p)' /\ RanInv(p)'
    BY <1>4, <1>6, <2>1, <2>3 DEF PositionInv, RanInv, In, Ended
  <2> QED BY <2>1, <2>4, <2>5, <2>6 DEF Step, LocalInv
<1> QED BY <1>7, <1>8, <1>9

\* A new workflow replaces the revision its process captured at the start, if
\* that is still the stored one; otherwise its id is lost.
LEMMA CreateWorkflowStep ==
    ASSUME IInv, NEW p \in Process, CreateWorkflow(p)
    PROVE  Step(p)
<1> DEFINE next == Fresh(created + 1, path[p])
<1>1. PositionInv(p)
  BY Holding
<1>2. LocalType(p) /\ CopyInv(p) /\ ReplaceInv(p) /\ SharedInv
  BY DEF IInv, LocalInv
<1>3. /\ pc[p] = "create" /\ mem[p] = NoCheckpoint /\ path[p] \in Serial
      /\ created \in Nat
  BY <1>1, <1>2 DEF CreateWorkflow, PositionInv, Ended, SharedInv
<1>4. /\ created' = created + 1
      /\ Publish(p, initial[p], next, "compile")
      /\ UNCHANGED <<worldVars, runs, historyVars>>
  BY DEF CreateWorkflow
<1>5. /\ next \in Record /\ Good(next) /\ next # NoCheckpoint
      /\ next.id = created + 1 /\ next.state = "HARDWARE_SELECTED"
  BY <1>3, FreshFields, NoCheckpointAssumption
<1>6. next = Lineage!Fresh(created', path[p])
  BY <1>4, SameOperators
<1> HIDE DEF next
<1>7. /\ Frame(p)
      /\ \/ /\ store = initial[p] /\ store' = next
            /\ pc'[p] = "compile" /\ mem'[p] = next
            /\ initial'[p] = initial[p] /\ path'[p] = path[p]
            /\ output'[p] = output[p] /\ reviewed'[p] = reviewed[p]
         \/ store' = store /\ Cleared(p)
  BY <1>4, PublishEffect DEF IInv
<1>8. HistoryStep
  BY <1>4 DEF HistoryStep, worldVars, historyVars
<1>9. CASE store' = store /\ Cleared(p)
  <2>1. SharedInv'
    BY <1>2, <1>3, <1>4, <1>9
       DEF SharedInv, worldVars, historyVars, Record
  <2>2. LineageStep
    BY <1>4, <1>9 DEF LineageStep, Lineage!Next, Lineage!Abandon, historyVars
  <2> QED BY <1>7, <1>8, <1>9, <2>1, <2>2, ClearedIsFine DEF Step
<1>10. CASE /\ store = initial[p] /\ store' = next
            /\ pc'[p] = "compile" /\ mem'[p] = next
            /\ initial'[p] = initial[p] /\ path'[p] = path[p]
            /\ output'[p] = output[p] /\ reviewed'[p] = reviewed[p]
  <2>1. SharedInv'
    BY <1>2, <1>3, <1>4, <1>5, <1>10 DEF SharedInv, worldVars, historyVars
  <2>2. Lineage!Replaceable
    <3>1. \/ initial[p] = NoCheckpoint
          \/ initial[p] \in Record /\ ~Past(initial[p], store, created)
      BY <1>2, <1>10, PastIsNotStored DEF LocalType
    <3> QED BY <1>2, <1>3, <1>10, <3>1, SameOperators
            DEF ReplaceInv, Lineage!Replaceable
  <2>3. LineageStep
    BY <1>3, <1>4, <1>6, <1>10, <2>2
       DEF LineageStep, Lineage!Next, Lineage!Create, historyVars
  <2>4. LocalType(p)' /\ CopyInv(p)' /\ ReplaceInv(p)'
    BY <1>2, <1>3, <1>5, <1>10, <2>1, <2>3, PublishedFine
       DEF Position, Prompts, LocalType
  <2>5. PositionInv(p)' /\ RanInv(p)'
    BY <1>3, <1>5, <1>10 DEF PositionInv, RanInv, In, Ended
  <2> QED BY <1>7, <1>8, <2>1, <2>3, <2>4, <2>5 DEF Step, LocalInv
<1> QED BY <1>7, <1>9, <1>10

\* Another firmware on the MCU only adds to the history.
LEMMA RunsEffect ==
    ASSUME SharedInv, NEW f \in Artifact \cup {Foreign}, Runs(f)
    PROVE  /\ firmware' \in Artifact \cup {Foreign}
           /\ ran' \in SUBSET (Artifact \cup {Foreign})
           /\ HistoryStep
BY DEF SharedInv, Runs, HistoryStep

\* A build is remembered by the process that made it; under a board contract
\* it runs before it is published.
LEMMA CompileArtifactStep ==
    ASSUME IInv, NEW p \in Process, CompileArtifact(p)
    PROVE  Step(p)
<1>1. PositionInv(p)
  BY Holding
<1>2. LocalType(p) /\ CopyInv(p) /\ SharedInv
  BY DEF IInv, LocalInv
<1>3. PICK a \in Artifact :
        /\ output' = [output EXCEPT ![p] = a]
        /\ built' = built \cup {a}
        /\ \/ Goto(p, "built") /\ UNCHANGED <<firmware, ran>>
           \/ /\ Goto(p, "flashed")
              /\ Runs(a)
  BY DEF CompileArtifact
<1>4. /\ UNCHANGED <<store, printer, mem, initial, path, reviewed>>
      /\ runs' = runs /\ created' = created /\ refused' = refused
  BY DEF CompileArtifact, countVars
<1>5. /\ Frame(p) /\ pc'[p] \in {"built", "flashed"} /\ output'[p] = a
      /\ mem'[p] = mem[p] /\ initial'[p] = initial[p]
      /\ path'[p] = path[p] /\ reviewed'[p] = reviewed[p]
  BY <1>3, <1>4 DEF IInv, FunctionType, Frame, Goto
<1>6. /\ firmware' \in Artifact \cup {Foreign}
      /\ ran' \in SUBSET (Artifact \cup {Foreign})
      /\ HistoryStep
  BY <1>2, <1>3, RunsEffect DEF SharedInv, HistoryStep
<1>7. SharedInv'
  BY <1>2, <1>3, <1>4, <1>6 DEF SharedInv
<1>8. LineageStep
  BY <1>4 DEF LineageStep, Lineage!lineage
<1>9. /\ mem[p] # NoCheckpoint /\ path[p] \in Serial
      /\ mem[p].state \in {"HARDWARE_SELECTED", "COMPILE_REQUIRED"}
  BY <1>1 DEF CompileArtifact, PositionInv, In, Ended
<1>10. LocalType(p)' /\ CopyInv(p)'
  BY <1>2, <1>4, <1>5 DEF LocalType, CopyInv, Position, Prompts
<1>11. PositionInv(p)' /\ ReplaceInv(p)' /\ RanInv(p)'
  BY <1>5, <1>9, CheckpointAssumption
     DEF PositionInv, ReplaceInv, RanInv, In, Ended
<1> QED BY <1>5, <1>6, <1>7, <1>8, <1>10, <1>11 DEF Step, LocalInv

\* The prepared artifact is flashed.
LEMMA DeliveryFlashesStep ==
    ASSUME IInv, NEW p \in Process, DeliveryFlashes(p)
    PROVE  Step(p)
<1>1. /\ PositionInv(p)
      /\ mem[p] # NoCheckpoint
           => /\ Good(mem[p]) /\ mem[p].state \in State
              /\ mem[p].artifact \in Artifact \cup {None}
  BY Holding
<1>2. LocalType(p) /\ CopyInv(p) /\ SharedInv
  BY DEF IInv, LocalInv
<1>3. /\ mem[p] # NoCheckpoint /\ path[p] \in Serial
      /\ mem[p].state = "ARTIFACT_READY" /\ mem[p].artifact \in Artifact
  BY <1>1 DEF DeliveryFlashes, PositionInv, In, Ended, Good, Built
<1>4. /\ Runs(mem[p].artifact) /\ Goto(p, "autoverify")
      /\ UNCHANGED <<mem, localVars>> /\ UNCHANGED <<store, printer>>
      /\ runs' = runs /\ created' = created /\ built' = built
      /\ refused' = refused
  BY DEF DeliveryFlashes, countVars
<1>5. Frame(p) /\ Keeps(p) /\ pc'[p] = "autoverify"
  BY <1>4, GotoEffect DEF IInv
<1>6. /\ firmware' \in Artifact \cup {Foreign}
      /\ ran' \in SUBSET (Artifact \cup {Foreign})
      /\ HistoryStep
  BY <1>2, <1>3, <1>4, RunsEffect
<1>7. SharedInv'
  BY <1>2, <1>4, <1>6 DEF SharedInv
<1>8. LineageStep
  BY <1>4 DEF LineageStep, Lineage!lineage
<1>9. LocalType(p)' /\ CopyInv(p)'
  BY <1>2, <1>4, <1>5 DEF LocalType, CopyInv, Keeps, Position, Prompts
<1>10. PositionInv(p)' /\ ReplaceInv(p)' /\ RanInv(p)'
  BY <1>3, <1>5 DEF PositionInv, ReplaceInv, RanInv, Keeps, In, Ended
<1> QED BY <1>5, <1>6, <1>7, <1>8, <1>9, <1>10 DEF Step, LocalInv

\* The generation writes the serial the process works with.
LEMMA GenerateStep ==
    ASSUME IInv, NEW p \in Process, Generate(p)
    PROVE  Step(p)
<1>1. PositionInv(p)
  BY Holding
<1>2. LocalType(p) /\ CopyInv(p) /\ SharedInv
  BY DEF IInv, LocalInv
<1>3. /\ printer' = path[p] /\ Goto(p, "gate")
      /\ UNCHANGED <<mem, localVars>>
      /\ UNCHANGED <<store, firmware, countVars, historyVars>>
  BY DEF Generate
<1>4. Frame(p) /\ Keeps(p) /\ pc'[p] = "gate"
  BY <1>3, GotoEffect DEF IInv
<1>5. /\ path[p] \in Serial
      /\ mem[p] # NoCheckpoint
           => mem[p].state \in {"MCU_VERIFIED", "CONFIG_GENERATED",
                                "READY_TO_DEPLOY"}
  BY <1>1 DEF Generate, PositionInv, In, Ended
<1>6. SharedInv'
  BY <1>2, <1>3, <1>5 DEF SharedInv, countVars, historyVars
<1>7. LineageStep /\ HistoryStep
  BY <1>3
     DEF LineageStep, Lineage!lineage, HistoryStep, countVars, historyVars
<1>8. LocalType(p)' /\ CopyInv(p)'
  BY <1>2, <1>3, <1>4
     DEF LocalType, CopyInv, Keeps, Position, Prompts, countVars
<1>9. PositionInv(p)' /\ ReplaceInv(p)' /\ RanInv(p)'
  BY <1>4, <1>5 DEF PositionInv, ReplaceInv, RanInv, Keeps, In, Ended
<1> QED BY <1>4, <1>6, <1>7, <1>8, <1>9 DEF Step, LocalInv

-----------------------------------------------------------------------------
(* The environment, and the whole system.                                  *)

\* What no process does leaves the checkpoint and every process as they are.
LEMMA EnvironmentPreserves ==
    ASSUME IInv, Flash \/ RemoveGenerated
    PROVE  IInv' /\ LineageStep
<1>1. /\ UNCHANGED <<store, pc, mem, initial, path, output, reviewed>>
      /\ runs' = runs /\ created' = created /\ built' = built
      /\ refused' = refused
  BY DEF Flash, RemoveGenerated, localVars, countVars, historyVars
<1>2. SharedInv
  BY DEF IInv
<1>3. \/ firmware' = firmware /\ ran' = ran
      \/ \E f \in Artifact \cup {Foreign} : Runs(f)
  BY <1>2 DEF Flash, RemoveGenerated, historyVars, SharedInv
<1>4. /\ firmware' \in Artifact \cup {Foreign}
      /\ ran' \in SUBSET (Artifact \cup {Foreign})
  BY <1>2, <1>3, RunsEffect DEF SharedInv
<1>5. printer' \in Serial \cup {Absent}
  BY <1>2 DEF Flash, RemoveGenerated, SharedInv
<1>6. SharedInv'
  BY <1>1, <1>2, <1>4, <1>5 DEF SharedInv
<1>7. LineageStep
  BY <1>1 DEF LineageStep, Lineage!lineage
<1>8. ASSUME NEW q \in Process PROVE LocalInv(q)'
  <2>1. /\ LocalType(q) /\ PositionInv(q) /\ CopyInv(q)
        /\ ReplaceInv(q) /\ RanInv(q)
    BY DEF IInv, LocalInv
  <2>2. LocalType(q)' /\ PositionInv(q)' /\ CopyInv(q)' /\ ReplaceInv(q)'
    BY <1>1, <2>1 DEF LocalType, PositionInv, CopyInv, ReplaceInv, In
  <2>3. /\ firmware \in ran => firmware' \in ran'
        /\ \A f : f \in ran => f \in ran'
    BY <1>3 DEF Runs
  <2>4. RanInv(q)'
    BY <1>1, <2>1, <2>3 DEF RanInv
  <2> QED BY <2>2, <2>4 DEF LocalInv
<1>9. FunctionType'
  BY <1>1 DEF IInv, FunctionType
<1> QED BY <1>6, <1>7, <1>8, <1>9 DEF IInv

\* Every action of a process is a step.
LEMMA ProcessStep ==
    ASSUME IInv, NEW p \in Process, Work(p) \/ Operator(p) \/ Crash(p)
    PROVE  Step(p)
<1>1. CASE Work(p)
  BY <1>1, MoveSteps, LoadRefusedStep, LoadCheckpointStep, LastSteps,
     CompileArtifactStep, PublishSteps, AwaitingSteps, DeliveryFlashesStep,
     McuMatchesStep, GenerateStep, EndSteps
     DEF Work
<1>2. CASE Operator(p)
  BY <1>2, StartStep, PublishSteps, MoveSteps, NewWorkflowStep, WizardStep,
     ReviewKeepsStep, ReviewEditsStep, CreateWorkflowStep, EndSteps,
     BeginDeploymentStep
     DEF Operator
<1>3. CASE Crash(p)
  BY <1>3, EndSteps
<1> QED BY <1>1, <1>2, <1>3

\* IInv holds in every initial state.
LEMMA InitImplies == Init => IInv
<1> SUFFICES ASSUME Init PROVE IInv
  OBVIOUS
<1>1. SharedInv
  BY WorkflowAssumption DEF Init, SharedInv
<1>2. FunctionType
  BY DEF Init, FunctionType, Position, Ended
<1>3. ASSUME NEW p \in Process PROVE LocalInv(p)
  <2>1. /\ pc[p] = "off" /\ mem[p] = NoCheckpoint
        /\ initial[p] = NoCheckpoint /\ path[p] = None /\ output[p] = None
        /\ reviewed[p] = FALSE
    BY DEF Init
  <2>2. LocalType(p)
    BY <2>1 DEF LocalType, Position, Ended
  <2>3. PositionInv(p) /\ CopyInv(p) /\ ReplaceInv(p) /\ RanInv(p)
    BY <2>1
       DEF PositionInv, CopyInv, ReplaceInv, RanInv, Remembered, Ended, In
  <2> QED BY <2>2, <2>3 DEF LocalInv
<1> QED BY <1>1, <1>2, <1>3 DEF IInv

\* IInv is inductive, and every step is one of the lineage.
LEMMA NextPreserves == IInv /\ [Next]_vars => IInv' /\ LineageStep
<1> SUFFICES ASSUME IInv, [Next]_vars PROVE IInv' /\ LineageStep
  OBVIOUS
<1>1. ASSUME NEW p \in Process, Work(p) \/ Operator(p) \/ Crash(p)
      PROVE  IInv' /\ LineageStep
  <2>1. Step(p)
    BY <1>1, ProcessStep
  <2> QED BY <2>1, StepPreserves DEF Step
<1>2. CASE Flash \/ RemoveGenerated
  BY <1>2, EnvironmentPreserves
<1>3. CASE UNCHANGED vars
  <2>1. /\ UNCHANGED <<pc, mem, initial, path, output, reviewed>>
        /\ SharedStays
    BY <1>3 DEF vars, localVars, SharedStays
  <2>2. SharedInv' /\ LineageStep
    BY <2>1, QuietShared DEF IInv
  <2>3. FunctionType'
    BY <2>1 DEF IInv, FunctionType
  <2>4. ASSUME NEW q \in Process PROVE LocalInv(q)'
    BY <2>1
       DEF IInv, LocalInv, LocalType, PositionInv, CopyInv, ReplaceInv,
           RanInv, In, SharedStays, worldVars, countVars, historyVars
  <2> QED BY <2>2, <2>3, <2>4 DEF IInv
<1> QED BY <1>1, <1>2, <1>3 DEF Next

-----------------------------------------------------------------------------
(* COMPLETE is recorded for a firmware that ran.                           *)

\* The state in which each operation leaves a record.
LEMMA StatesOf ==
    ASSUME NEW c \in Record, NEW state, NEW serial, NEW a
    PROVE  /\ Moved(c, state).state = state
           /\ Resaved(c, state, serial).state = state
           /\ Compiled(c, a, serial).state = "ARTIFACT_READY"
           /\ Matched(c, serial).state = "MCU_VERIFIED"
           /\ Moved(c, state).artifact = c.artifact
BY DEF Moved, Resaved, Compiled, Matched, Record

\* A publication stores its revision or nothing.
LEMMA PublicationStores ==
    ASSUME NEW p, NEW expected, NEW next, NEW step,
           Publish(p, expected, next, step) \/ PublishLast(p, next)
    PROVE  store' = store \/ store' = next
BY DEF Publish, PublishLast, PersistFails, Replace

\* Only RecordComplete stores a COMPLETE that was not there.
LEMMA OnlyRecordComplete ==
    ASSUME IInv, NEW p \in Process, Work(p) \/ Operator(p) \/ Crash(p),
           ~RecordComplete(p), store' # store, store' # NoCheckpoint
    PROVE  store'.state # "COMPLETE"
<1>1. PositionInv(p) /\ (mem[p] # NoCheckpoint => mem[p] \in Record)
  BY Holding DEF Good
<1>2. CASE CreateWorkflow(p)
  <2>1. store' = Fresh(created + 1, path[p])
    BY <1>2, PublicationStores DEF CreateWorkflow
  <2> QED BY <2>1 DEF Fresh
<1>3. CASE Continue(p) \/ Recompile(p) \/ ReviewEdits(p)
  <2>1. mem[p] \in Record
    BY <1>1, <1>3 DEF Continue, Recompile, ReviewEdits, PositionInv, In
  <2>2. \E state \in {"READY_TO_DEPLOY", "COMPILE_REQUIRED", "MCU_VERIFIED"} :
           store' = Resaved(mem[p], state, path[p])
    BY <1>3, PublicationStores
       DEF Continue, Recompile, ReviewEdits, Replace, PersistFails
  <2> QED BY <2>1, <2>2, StatesOf
<1>4. CASE \/ CompileFails(p) \/ Gate(p) \/ Ready(p)
  <2>1. mem[p] \in Record
    <3>1. CASE Gate(p)
      BY <1>1, <3>1 DEF Gate
    <3>2. CASE CompileFails(p) \/ Ready(p)
      BY <1>1, <3>2 DEF CompileFails, Ready, PositionInv, In
    <3> QED BY <1>4, <3>1, <3>2
  <2>2. \E state \in {"READY_TO_DEPLOY", "COMPILE_REQUIRED",
                      "CONFIG_GENERATED"} :
           store' = Resaved(mem[p], state, path[p])
    BY <1>4, PublicationStores DEF CompileFails, Gate, Ready
  <2> QED BY <2>1, <2>2, StatesOf
<1>5. CASE \/ DeliveryPends(p) \/ AutoVerify(p) \/ Await(p)
           \/ BeginVerification(p) \/ McuMissing(p) \/ RecordFailure(p)
           \/ BeginDeployment(p)
  <2>1. mem[p] \in Record
    BY <1>1, <1>5
       DEF DeliveryPends, AutoVerify, Await, BeginVerification, McuMissing,
           RecordFailure, BeginDeployment, PositionInv, In
  <2>2. \E state \in {"AWAITING_FLASH", "VERIFYING_MCU", "READY_TO_DEPLOY",
                      "DEPLOYING"} :
           store' = Moved(mem[p], state)
    BY <1>5, PublicationStores
       DEF DeliveryPends, AutoVerify, Await, BeginVerification, McuMissing,
           RecordFailure, BeginDeployment
  <2> QED BY <2>1, <2>2 DEF Moved, Record
<1>6. CASE PublishArtifact(p) \/ McuMatches(p)
  <2>1. mem[p] \in Record
    BY <1>1, <1>6 DEF PublishArtifact, McuMatches, PositionInv, In
  <2>2. CASE PublishArtifact(p)
    <3>1. store' = Compiled(mem[p], output[p], path[p])
      BY <2>2, PublicationStores DEF PublishArtifact
    <3> QED BY <2>1, <3>1, StatesOf
  <2>3. CASE McuMatches(p)
    <3>1. \E serial \in Serial : store' = Matched(mem[p], serial)
      BY <2>3 DEF McuMatches, Replace, PersistFails
    <3> QED BY <2>1, <3>1, StatesOf
  <2> QED BY <1>6, <2>2, <2>3
<1>7. CASE NewWorkflow(p)
  BY <1>7 DEF NewWorkflow, Replace
<1>8. CASE \/ LoadNothing(p) \/ LoadRefused(p) \/ LoadCheckpoint(p)
           \/ CompileArtifact(p) \/ DeliveryFlashes(p) \/ Pause(p)
           \/ KeepGenerated(p) \/ Generate(p) \/ GateBlocks(p)
           \/ DeploySucceeds(p) \/ DeployFails(p)
  BY <1>8
     DEF LoadNothing, LoadRefused, LoadCheckpoint, CompileArtifact,
         DeliveryFlashes, Pause, KeepGenerated, Generate, GateBlocks,
         DeploySucceeds, DeployFails
<1>9. CASE \/ Start(p) \/ VerifyNow(p) \/ Wizard(p) \/ ReviewKeeps(p)
           \/ ConfigurationOnly(p) \/ Cancel(p) \/ Interrupt(p)
           \/ FlashClaimed(p) \/ Crash(p)
  BY <1>9
     DEF Start, VerifyNow, Wizard, ReviewKeeps, ConfigurationOnly, Cancel,
         Interrupt, FlashClaimed, Crash
<1> QED BY <1>2, <1>3, <1>4, <1>5, <1>6, <1>7, <1>8, <1>9 DEF Work, Operator

\* A step that stores COMPLETE does so for a firmware that ran.
LEMMA CompleteStep ==
    ASSUME IInv, [Next]_vars, store' # NoCheckpoint, store' # store,
           store'.state = "COMPLETE"
    PROVE  store'.artifact \in ran
<1>1. PICK p \in Process : Work(p) \/ Operator(p) \/ Crash(p)
  BY DEF Next, vars, Flash, RemoveGenerated
<1>2. RecordComplete(p)
  BY <1>1, OnlyRecordComplete
<1>3. /\ pc[p] = "succeeded" /\ store = mem[p]
      /\ store' = Moved(mem[p], "COMPLETE")
  BY <1>2 DEF RecordComplete, PublishLast, PersistFails, Replace
<1>4. mem[p] \in Record /\ RanInv(p)
  BY <1>3, Holding DEF PositionInv, In, Good, IInv, LocalInv
<1>5. store'.artifact = mem[p].artifact
  BY <1>3, <1>4, StatesOf
<1> QED BY <1>3, <1>4, <1>5 DEF RanInv

-----------------------------------------------------------------------------
(* The theorems.                                                           *)

\* IInv holds always.
THEOREM Inductive == Spec => []IInv
<1>1. Init => IInv
  BY InitImplies
<1>2. IInv /\ [Next]_vars => IInv'
  BY NextPreserves
<1> QED BY <1>1, <1>2, PTL DEF Spec

\* The variables keep their types: a checkpoint file, a copy of it and a
\* captured revision are always whole records, whatever the processes do.
THEOREM TypeCorrect == Spec => []TypeOK
<1>1. IInv => TypeOK
  BY DEF IInv, FunctionType, SharedInv, TypeOK
<1> QED BY <1>1, Inductive, PTL

\* Evidence belongs to the build it is stored with, in the file and in every
\* copy: verify_reappeared_mcu renews it and a new artifact leaves the states
\* that rely on it.
THEOREM EvidenceAlways == Spec => []EvidenceIsCurrent
<1>1. IInv => EvidenceIsCurrent
  BY DEF IInv, SharedInv, LocalInv, CopyInv, Good, EvidenceIsCurrent
<1> QED BY <1>1, Inductive, PTL

\* Any number of processes that follow write_checkpoint's comparison and the
\* table of transition_checkpoint implement one history of revisions.
THEOREM LineageImplemented == Spec => FollowsLineage
<1>1. Init => Lineage!Init
  BY DEF Init, Lineage!Init
<1>2. IInv /\ [Next]_vars => [Lineage!Next]_Lineage!lineage
  BY NextPreserves DEF LineageStep
<1> QED BY <1>1, <1>2, Inductive, PTL DEF Spec, FollowsLineage, Lineage!Spec

\* COMPLETE is never published for a firmware that did not run after its
\* deployment became durable: verify_running_firmware is asked after DEPLOYING
\* was stored, and nobody can have started another deployment in between
\* without making the publication of COMPLETE fail.
THEOREM CompleteAlways == Spec => CompleteHasRun
<1>1. IInv /\ [Next]_vars
        => [store' # NoCheckpoint /\ store' # store
              => (store'.state = "COMPLETE" => store'.artifact \in ran)]_vars
  BY CompleteStep
<1> QED BY <1>1, Inductive, PTL DEF Spec, CompleteHasRun
=============================================================================
