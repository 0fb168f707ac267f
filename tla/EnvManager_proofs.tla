------------------------- MODULE EnvManager_proofs -------------------------
(***************************************************************************)
(* Proofs about EnvManager for any set of calls and any selection of        *)
(* failures: its types, and what the lock and the context together keep     *)
(* safe although operations run on after their lock is gone. When the calls *)
(* come one at a time, also what they leave in the cluster.                 *)
(***************************************************************************)
EXTENDS EnvManager, TLAPS

\* The lock and the context: an operation runs only after its call got the lock, and
\* once the call has been told to leave, or has left, the context is cancelled.
LockInv ==
    /\ Lock!Mutex
    /\ \A o \in Ops :
        /\ pc[o] = "idle" <=> phase[o] \in {"out", "trying"}
        /\ phase[o] = "leaving" => cancelled[o]
        /\ phase[o] = "gone" /\ pc[o] \in Running => cancelled[o]

\* The record: there is at most one, every operation that has a record has that one, and
\* an operation about to insert under a live context still sees none.
RecordInv ==
    /\ \A e \in Ops : status[e] # "none" => latest = e
    /\ \A o \in Ops :
        /\ pc[o] = "insert" /\ ~cancelled[o] => latest = None
        /\ pc[o] \in OnRecord \cup OnRow => env[o] = latest

EnvInv == TypeOK /\ LockInv /\ RecordInv /\ NoRowConflict

----------------------------------------------------------------------------

\* The invariant holds initially.
LEMMA InitEnvInv == Init => EnvInv
  BY EnvAssumption
  DEF Init, EnvInv, TypeOK, LockInv, RecordInv, NoRowConflict, Lock!Mutex, Lock!Phases,
      Kind, Status, Running, Searching, OnRecord, OnRow

\* Mutual exclusion of the lock makes the operation that holds a live context unique.
LEMMA OneInCharge == TypeOK /\ LockInv => OneLiveContext
  BY DEF TypeOK, LockInv, OneLiveContext, InCharge, Lock!Mutex, Lock!Phases, Running,
         Searching, OnRecord, OnRow

\* The invariant gives the property on records.
LEMMA AtMostOneRecord == RecordInv => OneRecord
  BY DEF RecordInv, OneRecord

----------------------------------------------------------------------------

\* What a step of lockingOperation leaves alone: the data of the operations.
LEMMA LockStepFrame ==
    ASSUME NEW o \in Ops, LockStep(o)
    PROVE  UNCHANGED <<live, opVars, dbVars>>
  BY DEF LockStep, Call, LockError, Begin, Preempt, Timeout, Return, Crash

\* What a step of an operation leaves alone: the lock and the contexts.
LEMMA OpStepFrame ==
    ASSUME NEW o \in Ops, OpStep(o) \/ TeardownStep(o)
    PROVE  UNCHANGED <<phase, cancelled>>
  BY DEF OpStep, CreateStep, InstallStep, UpdateStep, TeardownStep, Frame, Only,
         GetEnv, MarkAll, Lookup, Reuse, Touch, Insert, Config, ReadRow, Charts, OpFailure,
         CreateNs, WriteEnv, DeleteRow, InsertRow, Install, DeleteReleases, WriteReleases,
         SetSuccess, Cleanup, SetFailure, Decide, ReadReleases, SetUpdating, Upgrade,
         SpawnTeardown, SetDestroyed, TeardownReleases, TeardownNamespace, TeardownRow

\* A step of an operation is one of its own pc, from Running to Running or the end.
LEMMA OpStepPc ==
    ASSUME TypeOK, NEW o \in Ops, OpStep(o)
    PROVE  /\ pc[o] \in Running
           /\ \E label \in Running \cup {"done"} : pc' = [pc EXCEPT ![o] = label]
  <1>1. CASE CreateStep(o)
    BY <1>1 DEF CreateStep, TypeOK, At, Goto, Only, Running, Searching, OnRecord, OnRow, Kind,
                GetEnv, MarkAll, Lookup, Reuse, Touch, Insert, Config, ReadRow, Charts, OpFailure
  <1>2. CASE InstallStep(o)
    BY <1>2 DEF InstallStep, TypeOK, At, Goto, Only, Running, Searching, OnRecord, OnRow,
                CreateNs, WriteEnv, DeleteRow, InsertRow, Install, DeleteReleases,
                WriteReleases, SetSuccess, Cleanup, SetFailure
  <1>3. CASE UpdateStep(o)
    BY <1>3 DEF UpdateStep, TypeOK, At, Goto, Only, Running, Searching, OnRecord, OnRow,
                Decide, ReadReleases, SetUpdating, Upgrade, SpawnTeardown, SetDestroyed
  <1> QED
    BY <1>1, <1>2, <1>3 DEF OpStep

\* A teardown leaves the operations alone.
LEMMA TeardownFrame ==
    ASSUME NEW o \in Ops, TeardownStep(o)
    PROVE  UNCHANGED <<pc, opVars, status, latest>>
  BY DEF TeardownStep, TeardownReleases, TeardownNamespace, TeardownRow, dbVars

----------------------------------------------------------------------------

\* Types are preserved by lockingOperation.
LEMMA LockStepType ==
    ASSUME TypeOK, NEW o \in Ops, LockStep(o)
    PROVE  TypeOK'
  <1> USE LockStepFrame
      DEF TypeOK, opVars, dbVars, Goto, Lock!Phases, Lock!Step, Running, Searching,
          OnRecord, OnRow
  <1>1. CASE Call(o)      BY <1>1 DEF Call, Lock!Request
  <1>2. CASE LockError(o) BY <1>2 DEF LockError, Lock!Refuse
  <1>3. CASE Begin(o)     BY <1>3 DEF Begin, Lock!Enter
  <1>4. CASE Preempt(o)   BY <1>4 DEF Preempt, Lock!Tell
  <1>5. CASE Timeout(o)   BY <1>5 DEF Timeout
  <1>6. CASE Return(o)    BY <1>6 DEF Return, Lock!Leave
  <1>7. CASE Crash(o)     BY <1>7 DEF Crash
  <1> QED
    BY <1>1, <1>2, <1>3, <1>4, <1>5, <1>6, <1>7 DEF LockStep

\* Types are preserved by the deletion of a namespace.
LEMMA TeardownType ==
    ASSUME TypeOK, NEW o \in Ops, TeardownStep(o)
    PROVE  TypeOK'
  BY DEF TypeOK, opVars, dbVars, TeardownStep, TeardownReleases, TeardownNamespace, TeardownRow

\* Types are preserved by what create shares with update and delete.
LEMMA CreateStepType ==
    ASSUME TypeOK, RecordInv, NEW o \in Ops, CreateStep(o)
    PROVE  TypeOK'
  <1> USE EnvAssumption
      DEF TypeOK, At, Goto, Only, Frame, SetStatus, opVars, dbVars,
          Running, Searching, OnRecord, OnRow, Kind, Status
  <1>1. CASE GetEnv(o)
    <2>1. \E b \in BOOLEAN :
            wasSuccess' = wasSuccess \/ wasSuccess' = [wasSuccess EXCEPT ![o] = b]
      BY <1>1, Zenon DEF GetEnv
    <2>2. wasSuccess' \in [Ops -> BOOLEAN]
      BY <2>1
    <2> QED
      BY <1>1, <2>2 DEF GetEnv, Extant
  <1>2. CASE MarkAll(o)    BY <1>2 DEF MarkAll
  <1>3. CASE Lookup(o)     BY <1>3 DEF Lookup
  <1>4. CASE Reuse(o)      BY <1>4 DEF Reuse
  <1>5. CASE Touch(o)      BY <1>5 DEF Touch
  <1>6. CASE Insert(o)     BY <1>6 DEF Insert
  <1>7. CASE Config(o)     BY <1>7 DEF Config
  <1>8. CASE ReadRow(o)    BY <1>8 DEF ReadRow
  <1>9. CASE Charts(o)     BY <1>9 DEF Charts
  <1>10. CASE OpFailure(o) BY <1>10 DEF OpFailure
  <1> QED
    BY <1>1, <1>2, <1>3, <1>4, <1>5, <1>6, <1>7, <1>8, <1>9, <1>10 DEF CreateStep

\* Types are preserved by BuildAndInstallCharts.
LEMMA InstallStepType ==
    ASSUME TypeOK, NEW o \in Ops, InstallStep(o)
    PROVE  TypeOK'
  <1> USE EnvAssumption
      DEF TypeOK, At, Goto, Only, Frame, SetStatus, opVars, dbVars,
          Running, Searching, OnRecord, OnRow, Kind, Status
  <1>1. CASE CreateNs(o)       BY <1>1 DEF CreateNs
  <1>2. CASE WriteEnv(o)       BY <1>2 DEF WriteEnv
  <1>3. CASE DeleteRow(o)      BY <1>3 DEF DeleteRow
  <1>4. CASE InsertRow(o)      BY <1>4 DEF InsertRow
  <1>5. CASE Install(o)        BY <1>5 DEF Install
  <1>6. CASE DeleteReleases(o) BY <1>6 DEF DeleteReleases
  <1>7. CASE WriteReleases(o)  BY <1>7 DEF WriteReleases
  <1>8. CASE SetSuccess(o)     BY <1>8 DEF SetSuccess
  <1>9. CASE Cleanup(o)        BY <1>9 DEF Cleanup
  <1>10. CASE SetFailure(o)    BY <1>10 DEF SetFailure
  <1> QED
    BY <1>1, <1>2, <1>3, <1>4, <1>5, <1>6, <1>7, <1>8, <1>9, <1>10 DEF InstallStep

\* Types are preserved by the rest of update and delete.
LEMMA UpdateStepType ==
    ASSUME TypeOK, NEW o \in Ops, UpdateStep(o)
    PROVE  TypeOK'
  <1> USE EnvAssumption
      DEF TypeOK, At, Goto, Only, Frame, SetStatus, opVars, dbVars,
          Running, Searching, OnRecord, OnRow, Kind, Status
  <1>1. CASE Decide(o)        BY <1>1 DEF Decide
  <1>2. CASE ReadReleases(o)
    <2>1. \E b \in BOOLEAN :
            hasReleases' = hasReleases \/ hasReleases' = [hasReleases EXCEPT ![o] = b]
      BY <1>2, Zenon DEF ReadReleases
    <2>2. hasReleases' \in [Ops -> BOOLEAN]
      BY <2>1
    <2> QED
      BY <1>2, <2>2 DEF ReadReleases
  <1>3. CASE SetUpdating(o)   BY <1>3 DEF SetUpdating
  <1>4. CASE Upgrade(o)       BY <1>4 DEF Upgrade
  <1>5. CASE SpawnTeardown(o) BY <1>5 DEF SpawnTeardown
  <1>6. CASE SetDestroyed(o)  BY <1>6 DEF SetDestroyed
  <1> QED
    BY <1>1, <1>2, <1>3, <1>4, <1>5, <1>6 DEF UpdateStep

----------------------------------------------------------------------------

\* lockingOperation keeps the invariant on locks and contexts.
LEMMA LockStepLockInv ==
    ASSUME TypeOK, LockInv, NEW o \in Ops, LockStep(o)
    PROVE  LockInv'
  <1> USE DEF TypeOK, LockInv, Goto, At, Lock!Mutex, Lock!Step, Lock!Phases,
              Running, Searching, OnRecord, OnRow
  <1>1. CASE Call(o)      BY <1>1 DEF Call, Lock!Request
  <1>2. CASE LockError(o) BY <1>2 DEF LockError, Lock!Refuse
  <1>3. CASE Begin(o)     BY <1>3 DEF Begin, Lock!Enter
  <1>4. CASE Preempt(o)   BY <1>4 DEF Preempt, Lock!Tell
  <1>5. CASE Timeout(o)   BY <1>5 DEF Timeout
  <1>6. CASE Return(o)    BY <1>6 DEF Return, Lock!Leave
  <1>7. CASE Crash(o)     BY <1>7 DEF Crash
  <1> QED
    BY <1>1, <1>2, <1>3, <1>4, <1>5, <1>6, <1>7 DEF LockStep

\* So does the operation itself.
LEMMA OpStepLockInv ==
    ASSUME TypeOK, LockInv, NEW o \in Ops, OpStep(o) \/ TeardownStep(o)
    PROVE  LockInv'
  <1>1. UNCHANGED <<phase, cancelled>>
    BY OpStepFrame
  <1>2. CASE OpStep(o)
    BY <1>1, <1>2, OpStepPc
    DEF TypeOK, LockInv, Lock!Mutex, Running, Searching, OnRecord, OnRow
  <1>3. CASE TeardownStep(o)
    BY <1>1, <1>3, TeardownFrame DEF LockInv, Lock!Mutex
  <1> QED
    BY <1>2, <1>3

----------------------------------------------------------------------------

\* lockingOperation does not touch records and rows, and cancels contexts only.
LEMMA LockStepRecords ==
    ASSUME TypeOK, RecordInv, NoRowConflict, NEW o \in Ops, LockStep(o)
    PROVE  RecordInv' /\ NoRowConflict'
  <1>1. UNCHANGED <<env, status, latest, row>>
    BY LockStepFrame DEF opVars, dbVars
  <1>2. \A p \in Ops : cancelled[p] => cancelled'[p]
    BY DEF TypeOK, LockStep, Call, LockError, Begin, Preempt, Timeout, Return, Crash
  <1>3. \A p \in Ops : pc'[p] = pc[p] \/ pc'[p] \in {"getEnv", "lookup", "done"}
    BY DEF TypeOK, LockStep, Call, LockError, Begin, Preempt, Timeout, Return, Crash, Goto
  <1> QED
    BY <1>1, <1>2, <1>3 DEF RecordInv, NoRowConflict, OnRecord, OnRow

\* A teardown can only remove rows.
LEMMA TeardownRecords ==
    ASSUME TypeOK, RecordInv, NoRowConflict, NEW o \in Ops, TeardownStep(o)
    PROVE  RecordInv' /\ NoRowConflict'
  <1>1. UNCHANGED <<pc, env, status, latest, cancelled>>
    BY TeardownFrame, OpStepFrame DEF opVars
  <1>2. \A e \in Ops : row'[e] = row[e] \/ row'[e] = None
    BY DEF TypeOK, TeardownStep, TeardownReleases, TeardownNamespace, TeardownRow, dbVars
  <1>3. \A p \in Ops : pc[p] = "insertRow" => env[p] \in Ops
    BY DEF TypeOK, OnRecord, OnRow
  <1> QED
    BY <1>1, <1>2, <1>3 DEF RecordInv, NoRowConflict

\* The only step that makes a record is Insert under a live context, when there is none
\* and nobody else runs under a live context.
LEMMA InsertRecord ==
    ASSUME TypeOK, OneLiveContext, RecordInv, NEW o \in Ops, Insert(o)
    PROVE  RecordInv'
  <1> USE DEF TypeOK, Goto, At, Frame, SetStatus, OnRecord, OnRow
  <1>1. CASE cancelled[o]
    BY <1>1 DEF Insert, RecordInv
  <1>2. CASE ~cancelled[o]
    <2>1. latest = None /\ latest' = o
      BY <1>2 DEF Insert, RecordInv
    <2>2. \A p \in Ops \ {o} : ~(pc[p] \in Running /\ ~cancelled[p])
      BY <1>2 DEF Insert, OneLiveContext, InCharge, Running, Searching
    <2>3. \A p \in Ops : pc[p] \notin OnRecord \cup OnRow
      BY <2>1 DEF RecordInv
    <2>4. \A e \in Ops : status[e] = "none"
      BY <2>1, EnvAssumption DEF RecordInv
    <2> QED
      BY <1>2, <2>1, <2>2, <2>3, <2>4 DEF Insert, RecordInv, Running, Searching
  <1> QED
    BY <1>1, <1>2

\* Every other step of an operation leaves the set of records alone.
LEMMA OpStepRecord ==
    ASSUME TypeOK, OneLiveContext, RecordInv, NEW o \in Ops, OpStep(o)
    PROVE  RecordInv'
  <1> USE EnvAssumption
      DEF TypeOK, RecordInv, At, Goto, Only, Frame, SetStatus, opVars, dbVars,
          OnRecord, OnRow
  <1>1. CASE CreateStep(o)
    <2>1. CASE GetEnv(o)     BY <2>1 DEF GetEnv, Extant
    <2>2. CASE MarkAll(o)    BY <2>2 DEF MarkAll
    <2>3. CASE Lookup(o)     BY <2>3 DEF Lookup
    <2>4. CASE Reuse(o)      BY <2>4 DEF Reuse
    <2>5. CASE Touch(o)      BY <2>5 DEF Touch
    <2>6. CASE Insert(o)     BY <2>6, InsertRecord
    <2>7. CASE Config(o)     BY <2>7 DEF Config
    <2>8. CASE ReadRow(o)    BY <2>8 DEF ReadRow
    <2>9. CASE Charts(o)     BY <2>9 DEF Charts
    <2>10. CASE OpFailure(o) BY <2>10 DEF OpFailure
    <2> QED
      BY <1>1, <2>1, <2>2, <2>3, <2>4, <2>5, <2>6, <2>7, <2>8, <2>9, <2>10 DEF CreateStep
  <1>2. CASE InstallStep(o)
    <2>1. CASE CreateNs(o)       BY <2>1 DEF CreateNs
    <2>2. CASE WriteEnv(o)       BY <2>2 DEF WriteEnv
    <2>3. CASE DeleteRow(o)      BY <2>3 DEF DeleteRow
    <2>4. CASE InsertRow(o)      BY <2>4 DEF InsertRow
    <2>5. CASE Install(o)        BY <2>5 DEF Install
    <2>6. CASE DeleteReleases(o) BY <2>6 DEF DeleteReleases
    <2>7. CASE WriteReleases(o)  BY <2>7 DEF WriteReleases
    <2>8. CASE SetSuccess(o)     BY <2>8 DEF SetSuccess
    <2>9. CASE Cleanup(o)        BY <2>9 DEF Cleanup
    <2>10. CASE SetFailure(o)    BY <2>10 DEF SetFailure
    <2> QED
      BY <1>2, <2>1, <2>2, <2>3, <2>4, <2>5, <2>6, <2>7, <2>8, <2>9, <2>10 DEF InstallStep
  <1>3. CASE UpdateStep(o)
    <2>1. CASE Decide(o)        BY <2>1 DEF Decide
    <2>2. CASE ReadReleases(o)  BY <2>2 DEF ReadReleases
    <2>3. CASE SetUpdating(o)   BY <2>3 DEF SetUpdating
    <2>4. CASE Upgrade(o)       BY <2>4 DEF Upgrade
    <2>5. CASE SpawnTeardown(o) BY <2>5 DEF SpawnTeardown
    <2>6. CASE SetDestroyed(o)  BY <2>6 DEF SetDestroyed
    <2> QED
      BY <1>3, <2>1, <2>2, <2>3, <2>4, <2>5, <2>6 DEF UpdateStep
  <1> QED
    BY <1>1, <1>2, <1>3 DEF OpStep

\* Rows are written by WriteEnv's successors only, and by one operation at a time.
LEMMA OpStepRow ==
    ASSUME TypeOK, OneLiveContext, NoRowConflict, NEW o \in Ops, OpStep(o)
    PROVE  NoRowConflict'
  <1> USE EnvAssumption
      DEF TypeOK, NoRowConflict, At, Goto, Only, Frame, opVars, dbVars, OnRecord, OnRow
  <1>1. CASE DeleteRow(o)
    BY <1>1 DEF DeleteRow
  <1>2. CASE InsertRow(o)
    <2>1. CASE cancelled[o] \/ row[env[o]] # None
      BY <1>2, <2>1 DEF InsertRow
    <2>2. CASE ~cancelled[o] /\ row[env[o]] = None
      <3>1. \A p \in Ops \ {o} : ~(pc[p] = "insertRow" /\ ~cancelled[p])
        BY <1>2, <2>2 DEF InsertRow, OneLiveContext, InCharge, Running
      <3> QED
        BY <1>2, <2>2, <3>1 DEF InsertRow
    <2> QED
      BY <2>1, <2>2
  <1>3. CASE WriteEnv(o)
    BY <1>3 DEF WriteEnv
  <1>4. CASE ~(DeleteRow(o) \/ InsertRow(o) \/ WriteEnv(o))
    <2>1. UNCHANGED <<row, cancelled>>
      BY <1>4 DEF OpStep, CreateStep, InstallStep, UpdateStep, GetEnv, MarkAll, Lookup, Reuse,
         Touch, Insert, Config, ReadRow, Charts, OpFailure, CreateNs, Install, DeleteReleases,
         WriteReleases, SetSuccess, Cleanup, SetFailure, Decide, ReadReleases, SetUpdating,
         Upgrade, SpawnTeardown, SetDestroyed
    <2>2. \A p \in Ops : pc'[p] = "insertRow" => pc[p] = "insertRow" /\ env'[p] = env[p]
      BY <1>4 DEF OpStep, CreateStep, InstallStep, UpdateStep, GetEnv, MarkAll, Lookup, Reuse,
         Touch, Insert, Config, ReadRow, Charts, OpFailure, CreateNs, Install, DeleteReleases,
         WriteReleases, SetSuccess, Cleanup, SetFailure, Decide, ReadReleases, SetUpdating,
         Upgrade, SpawnTeardown, SetDestroyed
    <2> QED
      BY <2>1, <2>2
  <1> QED
    BY <1>1, <1>2, <1>3, <1>4

----------------------------------------------------------------------------

\* The invariant is inductive.
LEMMA EnvInvStep == EnvInv /\ [Next]_vars => EnvInv'
  <1> SUFFICES ASSUME EnvInv, [Next]_vars
               PROVE  EnvInv'
    OBVIOUS
  <1>0. OneLiveContext
    BY OneInCharge DEF EnvInv
  <1>1. ASSUME NEW o \in Ops, LockStep(o)
        PROVE  EnvInv'
    BY <1>1, LockStepType, LockStepLockInv, LockStepRecords DEF EnvInv
  <1>2. ASSUME NEW o \in Ops, OpStep(o)
        PROVE  EnvInv'
    <2>1. TypeOK'
      BY <1>2, CreateStepType, InstallStepType, UpdateStepType DEF EnvInv, OpStep
    <2> QED
      BY <1>0, <1>2, <2>1, OpStepLockInv, OpStepRecord, OpStepRow DEF EnvInv
  <1>3. ASSUME NEW o \in Ops, TeardownStep(o)
        PROVE  EnvInv'
    BY <1>3, TeardownType, OpStepLockInv, TeardownRecords DEF EnvInv
  <1>4. CASE UNCHANGED vars
    BY <1>4
    DEF vars, EnvInv, TypeOK, LockInv, RecordInv, NoRowConflict, Lock!Mutex
  <1> QED
    BY <1>1, <1>2, <1>3, <1>4 DEF Next

\* EnvInv holds of every reachable state.
LEMMA EnvInvariant == Spec => []EnvInv
  BY InitEnvInv, EnvInvStep, PTL DEF Spec

\* No step of Create, Update or Delete dereferences a record or a row that it has not
\* found, whatever fails and whatever else runs.
THEOREM EnvTypeCorrect == Spec => []TypeOK
  <1>1. EnvInv => TypeOK
    BY DEF EnvInv
  <1> QED
    BY <1>1, EnvInvariant, PTL

\* For any number of calls, at most one runs under a context that is not cancelled,
\* although lockingOperation releases the lock without waiting for the operation.
THEOREM OneLive == Spec => []OneLiveContext
  <1>1. EnvInv => OneLiveContext
    BY OneInCharge DEF EnvInv
  <1> QED
    BY <1>1, EnvInvariant, PTL

\* For any number of calls, a pull request has at most one environment record.
THEOREM SingleRecord == Spec => []OneRecord
  <1>1. EnvInv => OneRecord
    BY AtMostOneRecord DEF EnvInv
  <1> QED
    BY <1>1, EnvInvariant, PTL

\* For any number of calls, CreateK8sEnv under a live context never meets a row.
THEOREM RowIsFree == Spec => []NoRowConflict
  <1>1. EnvInv => NoRowConflict
    BY DEF EnvInv
  <1> QED
    BY <1>1, EnvInvariant, PTL

----------------------------------------------------------------------------
(* Calls that come one at a time.                                           *)

\* The conditions of SettledSuccess and SettledOwned: calls come one at a time, acyl.yml
\* stays the same, Kubernetes does what it is asked, and no call times out or dies.
OneByOne ==
    /\ ~Overlap /\ ~ConfigChanges
    /\ Failures \cap {"k8s", "timeout", "crash"} = {}

Idle(o) ==
    phase[o] \in {"out", "gone"} /\ pc[o] \in {"idle", "done"} /\ teardown[o] \in {"off", "done"}

\* The namespace of e's row is there, and its releases are those of the row.
Belongs(e) == row[e] \in live /\ releases[e] = row[e]

\* Every namespace is that of the record's row.
Owned == \A n \in live : latest # None /\ n = row[latest]

StatusIn(set) == \A e \in Ops : status[e] \in set

\* What holds between two calls.
Rest ==
    /\ Owned
    /\ StatusIn({"none", "success", "failure", "destroyed"})
    /\ \A e \in Ops : status[e] = "success" => Belongs(e)

\* Update and delete work on a record that was in status Success.
Found(o) ==
    \/ pc[o] \in {"readRow", "updateCharts", "decide", "readReleases"}
    \/ At(o, "config") /\ kind[o] # "create"

\* What holds while o is the only call: until it has a record, ...
SearchStage(o) ==
    /\ pc[o] \in {"lookup", "insert", "reuse", "touch"} => kind[o] = "create"
    /\ pc[o] \in {"idle", "reuse"} \cup Searching => Rest
    /\ At(o, "done") /\ teardown[o] \in {"off", "done"} => Rest

\* ... while it installs, ...
InstallStage(o) ==
    /\ pc[o] \in {"touch", "charts", "createNs", "setFailure", "opFailure", "cleanupOld"}
          \/ At(o, "config") => Owned
    /\ At(o, "writeEnv") => \A n \in live : n = o \/ n = row[env[o]]
    /\ pc[o] \in {"deleteRow", "insertRow", "install", "deleteReleases", "writeReleases",
                  "cleanupNew"} => live \subseteq {o}
    /\ pc[o] \in {"install", "deleteReleases", "writeReleases"} => row[env[o]] = o
    /\ pc[o] \in {"deleteReleases", "writeReleases"} => o \in live
    /\ At(o, "setSuccess") => Owned /\ Belongs(env[o])

\* ... while it upgrades, ...
UpgradeStage(o) ==
    /\ Found(o) => wasSuccess[o]
    /\ Found(o) \/ pc[o] \in {"setUpdating", "upgrade", "spawnTeardown"} =>
          Owned /\ Belongs(env[o])
    /\ pc[o] \in OnRow => oldNs[o] = row[env[o]]

\* ... and while it deletes.
DeleteStage(o) ==
    /\ teardown[o] # "off" => pc[o] \in {"setDestroyed", "done"}
    /\ At(o, "setDestroyed") => Owned
    /\ teardown[o] \in {"releases", "namespace"} => live \subseteq {oldNs[o]}
    /\ teardown[o] = "row" => live = {}
    /\ teardown[o] \notin {"off", "done"} =>
          /\ Owned
          /\ At(o, "done") => StatusIn({"none", "failure", "destroyed"})

Stage(o) == SearchStage(o) /\ InstallStage(o) /\ UpgradeStage(o) /\ DeleteStage(o)

\* One call at a time, with a context that is never cancelled.
SerialInv ==
    /\ \A o \in Ops : ~cancelled[o]
    /\ \A o \in Ops : At(o, "idle") => teardown[o] = "off"
    /\ \A o, p \in Ops : Idle(o) \/ Idle(p) \/ o = p
    /\ \A o \in Ops : ~Idle(o) => Stage(o)
    /\ Settled => Rest

\* Everything that is not o's own is as it was.
LEMMA SerialFrame ==
    ASSUME TypeOK, NEW o \in Ops, LockStep(o) \/ OpStep(o) \/ TeardownStep(o)
    PROVE  \A p \in Ops \ {o} :
              phase'[p] = phase[p] /\ pc'[p] = pc[p] /\ teardown'[p] = teardown[p]
  <1>1. CASE LockStep(o)
    BY <1>1 DEF TypeOK, LockStep, Call, LockError, Begin, Preempt, Timeout, Return, Crash,
                Goto, Lock!Request, Lock!Refuse, Lock!Enter, Lock!Tell, Lock!Leave, Lock!Step
  <1>2. CASE OpStep(o)
    <2>1. UNCHANGED phase /\ \A p \in Ops \ {o} : pc'[p] = pc[p]
      BY <1>2, OpStepFrame, OpStepPc DEF TypeOK
    <2>2. \A p \in Ops \ {o} : teardown'[p] = teardown[p]
      BY <1>2 DEF TypeOK, OpStep, CreateStep, InstallStep, UpdateStep, Frame, Only,
         GetEnv, MarkAll, Lookup, Reuse, Touch, Insert, Config, ReadRow, Charts, OpFailure,
         CreateNs, WriteEnv, DeleteRow, InsertRow, Install, DeleteReleases, WriteReleases,
         SetSuccess, Cleanup, SetFailure, Decide, ReadReleases, SetUpdating, Upgrade,
         SpawnTeardown, SetDestroyed
    <2> QED
      BY <2>1, <2>2
  <1>3. CASE TeardownStep(o)
    <2>1. UNCHANGED <<phase, pc>>
      BY <1>3, OpStepFrame, TeardownFrame
    <2> QED
      BY <1>3, <2>1 DEF TypeOK, TeardownStep, TeardownReleases, TeardownNamespace, TeardownRow
  <1> QED
    BY <1>1, <1>2, <1>3

\* Whoever makes a step is the only call that is not idle.
LEMMA OthersIdle ==
    ASSUME TypeOK, SerialInv, OneByOne, NEW o \in Ops,
           LockStep(o) \/ OpStep(o) \/ TeardownStep(o)
    PROVE  \A p \in Ops \ {o} : Idle(p) /\ Idle(p)'
  <1>1. \A p \in Ops \ {o} : Idle(p)
    <2>1. CASE Call(o)
      BY <2>1 DEF Call, OneByOne, Settled, Idle
    <2>2. CASE LockStep(o) /\ ~Call(o)
      <3>1. phase[o] \notin {"out", "gone"}
        BY <2>2 DEF LockStep, LockError, Begin, Preempt, Timeout, Return, Crash, May, OneByOne,
           Lock!Refuse, Lock!Enter, Lock!Tell, Lock!Leave, Lock!Step
      <3> QED
        BY <3>1 DEF SerialInv, Idle
    <2>3. CASE OpStep(o)
      <3>1. pc[o] \notin {"idle", "done"}
        BY <2>3, OpStepPc DEF Running, Searching, OnRecord, OnRow
      <3> QED
        BY <3>1 DEF SerialInv, Idle
    <2>4. CASE TeardownStep(o)
      <3>1. teardown[o] \notin {"off", "done"}
        BY <2>4 DEF TeardownStep, TeardownReleases, TeardownNamespace, TeardownRow
      <3> QED
        BY <3>1 DEF SerialInv, Idle
    <2> QED
      BY <2>1, <2>2, <2>3, <2>4
  <1> QED
    BY <1>1, SerialFrame DEF Idle

\* The stages of a call that runs alone: until it has fetched its charts, ...
LEMMA CreatingStage ==
    ASSUME TypeOK, RecordInv, OneByOne, NEW o \in Ops, ~cancelled[o], Stage(o), CreateStep(o)
    PROVE  Stage(o)'
  <1> USE EnvAssumption
      DEF TypeOK, RecordInv, OneByOne, At, Goto, Only, Frame, SetStatus, May, opVars, dbVars,
          Searching, OnRecord, OnRow, Stage, SearchStage, InstallStage, UpgradeStage, DeleteStage,
          Rest, Owned, Belongs, StatusIn, Found
  <1>1. CASE GetEnv(o)
    <2>1. /\ pc[o] = "getEnv" /\ Rest /\ teardown[o] = "off"
          /\ UNCHANGED <<oldNs, teardown, cancelled, status, latest, row, releases, live>>
      BY <1>1 DEF GetEnv
    <2>2. ASSUME NEW e \in Extant, env' = [env EXCEPT ![o] = e], pc' = [pc EXCEPT ![o] = "config"],
                 wasSuccess' = [wasSuccess EXCEPT ![o] = (status[e] = "success")]
          PROVE  Stage(o)'
      <3>1. e \in Ops /\ status[e] = "success" /\ Belongs(e)
        BY <2>1, <2>2 DEF Extant
      <3>2. wasSuccess' = [wasSuccess EXCEPT ![o] = TRUE]
        BY <2>2, <3>1
      <3>3. env'[o] = e /\ pc'[o] = "config" /\ wasSuccess'[o]
        BY <2>2, <3>2
      <3> QED
        BY <2>1, <3>1, <3>3
    <2>3. ASSUME NEW label \in {"lookup", "markAll"}, pc' = [pc EXCEPT ![o] = label],
                 label = "lookup" => kind' = [kind EXCEPT ![o] = "create"]
          PROVE  Stage(o)'
      BY <2>1, <2>3
    <2>4. \/ \E e \in Extant : /\ env' = [env EXCEPT ![o] = e]
                              /\ pc' = [pc EXCEPT ![o] = "config"]
                              /\ wasSuccess' = [wasSuccess EXCEPT ![o] = (status[e] = "success")]
          \/ \E label \in {"lookup", "markAll"} :
                /\ pc' = [pc EXCEPT ![o] = label]
                /\ label = "lookup" => kind' = [kind EXCEPT ![o] = "create"]
      BY <1>1, Zenon DEF GetEnv
    <2> QED
      BY <2>2, <2>3, <2>4
  <1>2. CASE MarkAll(o)
    BY <1>2 DEF MarkAll
  <1>3. CASE Lookup(o)
    BY <1>3 DEF Lookup
  <1>4. CASE Reuse(o)
    BY <1>4 DEF Reuse
  <1>5. CASE Touch(o)
    BY <1>5 DEF Touch
  <1>6. CASE Insert(o)
    BY <1>6 DEF Insert
  <1>7. CASE Config(o)
    BY <1>7 DEF Config
  <1>8. CASE ReadRow(o)
    BY <1>8 DEF ReadRow
  <1>9. CASE Charts(o)
    BY <1>9 DEF Charts
  <1>10. CASE OpFailure(o)
    BY <1>10 DEF OpFailure
  <1> QED
    BY <1>1, <1>2, <1>3, <1>4, <1>5, <1>6, <1>7, <1>8, <1>9, <1>10 DEF CreateStep

\* ... while it installs them, ...
LEMMA InstallingStage ==
    ASSUME TypeOK, RecordInv, OneByOne, NEW o \in Ops, ~cancelled[o], Stage(o), InstallStep(o)
    PROVE  Stage(o)'
  <1> USE EnvAssumption
      DEF TypeOK, RecordInv, OneByOne, At, Goto, Only, Frame, SetStatus, May, opVars, dbVars,
          Searching, OnRecord, OnRow, Stage, SearchStage, InstallStage, UpgradeStage, DeleteStage,
          Rest, Owned, Belongs, StatusIn, Found
  <1>1. CASE CreateNs(o)
    BY <1>1 DEF CreateNs
  <1>2. CASE WriteEnv(o)
    BY <1>2 DEF WriteEnv
  <1>3. CASE DeleteRow(o)
    BY <1>3 DEF DeleteRow
  <1>4. CASE InsertRow(o)
    BY <1>4 DEF InsertRow
  <1>5. CASE Install(o)
    BY <1>5 DEF Install
  <1>6. CASE DeleteReleases(o)
    BY <1>6 DEF DeleteReleases
  <1>7. CASE WriteReleases(o)
    BY <1>7 DEF WriteReleases
  <1>8. CASE SetSuccess(o)
    BY <1>8 DEF SetSuccess
  <1>9. CASE Cleanup(o)
    BY <1>9 DEF Cleanup
  <1>10. CASE SetFailure(o)
    BY <1>10 DEF SetFailure
  <1> QED
    BY <1>1, <1>2, <1>3, <1>4, <1>5, <1>6, <1>7, <1>8, <1>9, <1>10 DEF InstallStep

\* ... while it upgrades them, or deletes, ...
LEMMA UpdatingStage ==
    ASSUME TypeOK, RecordInv, OneByOne, NEW o \in Ops, ~cancelled[o], Stage(o), UpdateStep(o)
    PROVE  Stage(o)'
  <1> USE EnvAssumption
      DEF TypeOK, RecordInv, OneByOne, At, Goto, Only, Frame, SetStatus, May, opVars, dbVars,
          Searching, OnRecord, OnRow, Stage, SearchStage, InstallStage, UpgradeStage, DeleteStage,
          Rest, Owned, Belongs, StatusIn, Found
  <1>1. CASE Decide(o)
    BY <1>1 DEF Decide
  <1>2. CASE ReadReleases(o)
    BY <1>2 DEF ReadReleases
  <1>3. CASE SetUpdating(o)
    BY <1>3 DEF SetUpdating
  <1>4. CASE Upgrade(o)
    BY <1>4 DEF Upgrade
  <1>5. CASE SpawnTeardown(o)
    BY <1>5 DEF SpawnTeardown
  <1>6. CASE SetDestroyed(o)
    BY <1>6 DEF SetDestroyed
  <1> QED
    BY <1>1, <1>2, <1>3, <1>4, <1>5, <1>6 DEF UpdateStep

\* ... and while its teardown runs.
LEMMA TeardownStage ==
    ASSUME TypeOK, RecordInv, OneByOne, NEW o \in Ops, ~cancelled[o], Stage(o), TeardownStep(o)
    PROVE  Stage(o)'
  <1> USE EnvAssumption
      DEF TypeOK, RecordInv, OneByOne, At, Goto, Only, Frame, SetStatus, May, opVars, dbVars,
          Searching, OnRecord, OnRow, Stage, SearchStage, InstallStage, UpgradeStage, DeleteStage,
          Rest, Owned, Belongs, StatusIn, Found
  <1>1. CASE TeardownReleases(o)   BY <1>1 DEF TeardownReleases
  <1>2. CASE TeardownNamespace(o)  BY <1>2 DEF TeardownNamespace
  <1>3. CASE TeardownRow(o)        BY <1>3 DEF TeardownRow
  <1> QED
    BY <1>1, <1>2, <1>3 DEF TeardownStep

\* A call that has reached its next stage, with all others idle, keeps the invariant.
LEMMA StageGivesSerial ==
    ASSUME SerialInv, NEW o \in Ops, UNCHANGED cancelled, Stage(o)',
           \A p \in Ops \ {o} : Idle(p) /\ Idle(p)' /\ pc'[p] = pc[p] /\ teardown'[p] = teardown[p],
           pc'[o] # "idle"
    PROVE  SerialInv'
  <1>1. Settled' => pc'[o] = "done" /\ teardown'[o] \in {"off", "done"}
    BY DEF Settled
  <1>2. Settled' => Rest'
    BY <1>1 DEF Stage, SearchStage, At
  <1> QED
    BY <1>2 DEF SerialInv, At

\* lockingOperation keeps it.
LEMMA LockStepSerial ==
    ASSUME OneByOne, EnvInv, SerialInv, NEW o \in Ops, LockStep(o)
    PROVE  SerialInv'
  <1>1. /\ \A p \in Ops \ {o} : Idle(p) /\ Idle(p)'
        /\ \A p \in Ops \ {o} : pc'[p] = pc[p] /\ teardown'[p] = teardown[p]
    BY OthersIdle, SerialFrame DEF EnvInv
  <1>2. ~cancelled[o]
    BY DEF SerialInv
  <1>3. UNCHANGED <<live, kind, env, wasSuccess, oldNs, status, latest, row, releases>>
    BY LockStepFrame DEF opVars, dbVars
  <1>4. CASE Call(o)
    <2>1. /\ UNCHANGED <<cancelled, pc, teardown>> /\ Settled
          /\ phase[o] = "out" /\ phase' = [phase EXCEPT ![o] = "trying"]
      BY <1>4 DEF Call, OneByOne, Lock!Request, Lock!Step
    <2>2. pc[o] = "idle" /\ teardown[o] = "off" /\ Rest
      BY <2>1 DEF EnvInv, LockInv, SerialInv, At
    <2>3. Stage(o)'
      BY <1>3, <2>1, <2>2 DEF Stage, SearchStage, InstallStage, UpgradeStage, DeleteStage, At,
         Searching, OnRow, Found, Rest, Owned, Belongs, StatusIn
    <2>4. ~Settled'
      BY <2>1 DEF Settled, EnvInv, TypeOK
    <2> QED
      BY <1>1, <2>1, <2>3, <2>4 DEF SerialInv, At
  <1>5. CASE LockError(o) \/ Begin(o)
    <2>1. /\ UNCHANGED <<cancelled, teardown>> /\ phase[o] = "trying"
          /\ \E label \in {"done", "lookup", "getEnv"} :
                /\ pc' = [pc EXCEPT ![o] = label]
                /\ label = "lookup" => kind[o] = "create"
      BY <1>5 DEF LockError, Begin, Goto, Lock!Enter, Lock!Refuse, Lock!Step
    <2>2. pc[o] = "idle" /\ teardown[o] = "off" /\ Rest
      <3>1. pc[o] = "idle"
        BY <2>1 DEF EnvInv, LockInv
      <3>2. Stage(o)
        BY <2>1 DEF SerialInv, Idle
      <3> QED
        BY <3>1, <3>2 DEF SerialInv, At, Stage, SearchStage
    <2>3. pc'[o] \in {"done", "lookup", "getEnv"} /\ (pc'[o] = "lookup" => kind[o] = "create")
      BY <2>1 DEF EnvInv, TypeOK
    <2>4. Stage(o)'
      BY <1>3, <2>1, <2>2, <2>3 DEF Stage, SearchStage, InstallStage, UpgradeStage, DeleteStage,
         At, Searching, OnRow, Found, Rest, Owned, Belongs, StatusIn
    <2> QED
      BY <1>1, <2>1, <2>3, <2>4, StageGivesSerial
  <1>6. CASE Preempt(o)
    <2>1. PICK p \in Ops : phase[p] = "trying" /\ phase[o] = "in"
      BY <1>6 DEF Preempt, Lock!Tell, Lock!Step
    <2> QED
      BY <1>1, <2>1 DEF Idle
  <1>7. CASE Return(o)
    <2>1. /\ UNCHANGED <<cancelled, pc, teardown>> /\ pc[o] = "done"
          /\ phase[o] \notin {"out", "gone"}
      BY <1>2, <1>7 DEF Return, At, Lock!Leave, Lock!Step
    <2>2. Stage(o)
      BY <2>1 DEF SerialInv, Idle
    <2>3. Stage(o)'
      BY <1>3, <2>1, <2>2 DEF Stage, SearchStage, InstallStage, UpgradeStage, DeleteStage,
         At, Searching, OnRow, Found, Rest, Owned, Belongs, StatusIn
    <2> QED
      BY <1>1, <2>1, <2>3, StageGivesSerial
  <1> QED
    BY <1>4, <1>5, <1>6, <1>7 DEF LockStep, Timeout, Crash, May, OneByOne

\* The steps of the operation and of its teardown keep it.
LEMMA OpStepSerial ==
    ASSUME OneByOne, EnvInv, SerialInv, NEW o \in Ops, OpStep(o) \/ TeardownStep(o)
    PROVE  SerialInv'
  <1>1. /\ \A p \in Ops \ {o} : Idle(p) /\ Idle(p)'
        /\ \A p \in Ops \ {o} : pc'[p] = pc[p] /\ teardown'[p] = teardown[p]
    BY OthersIdle, SerialFrame DEF EnvInv
  <1>2. UNCHANGED cancelled /\ ~cancelled[o]
    BY OpStepFrame DEF SerialInv
  <1>3. ~Idle(o)
    <2>1. CASE OpStep(o)
      BY <2>1, OpStepPc DEF EnvInv, Idle, Running, Searching, OnRecord, OnRow
    <2>2. CASE TeardownStep(o)
      BY <2>2 DEF Idle, TeardownStep, TeardownReleases, TeardownNamespace, TeardownRow
    <2> QED
      BY <2>1, <2>2
  <1>4. Stage(o)
    BY <1>3 DEF SerialInv
  <1>5. Stage(o)'
    BY <1>2, <1>4, CreatingStage, InstallingStage, UpdatingStage, TeardownStage DEF EnvInv, OpStep
  <1>6. pc'[o] # "idle"
    <2>1. CASE OpStep(o)
      BY <2>1, OpStepPc DEF EnvInv, TypeOK, Running, Searching, OnRecord, OnRow
    <2>2. CASE TeardownStep(o)
      <3>1. pc' = pc /\ teardown[o] # "off"
        BY <2>2, TeardownFrame DEF TeardownStep, TeardownReleases, TeardownNamespace, TeardownRow
      <3> QED
        BY <3>1 DEF SerialInv, At
    <2> QED
      BY <2>1, <2>2
  <1> QED
    BY <1>1, <1>2, <1>5, <1>6, StageGivesSerial

\* SerialInv holds of every reachable state when calls come one at a time.
LEMMA SerialInvariant == ASSUME OneByOne PROVE Spec => []SerialInv
  <1>1. Init => SerialInv
    BY DEF Init, SerialInv, Idle, Rest, Owned, StatusIn, At
  <1>2. EnvInv /\ SerialInv /\ [Next]_vars => SerialInv'
    <2> SUFFICES ASSUME EnvInv, SerialInv, [Next]_vars PROVE SerialInv'
      OBVIOUS
    <2>1. CASE UNCHANGED vars
      BY <2>1 DEF vars, SerialInv, Settled, Stage, SearchStage, InstallStage, UpgradeStage,
         DeleteStage, At, Found, Rest, Owned, Belongs, StatusIn, Idle
    <2>2. CASE Next
      BY <2>2, LockStepSerial, OpStepSerial DEF Next
    <2> QED
      BY <2>1, <2>2
  <1> QED
    BY <1>1, <1>2, EnvInvariant, PTL DEF Spec

\* When calls come one at a time, an environment that is left in status Success has
\* its namespace, its row and its releases, after any number of calls that failed.
THEOREM SuccessBelongs == ASSUME OneByOne PROVE Spec => []SettledSuccess
  <1>1. SerialInv => SettledSuccess
    BY DEF SerialInv, SettledSuccess, Rest, Belongs
  <1> QED
    BY <1>1, SerialInvariant, PTL

\* Under the same conditions no namespace is left without a row.
THEOREM NothingOrphaned == ASSUME OneByOne PROVE Spec => []SettledOwned
  <1>1. TypeOK /\ SerialInv => SettledOwned
    BY DEF TypeOK, SerialInv, SettledOwned, Rest, Owned
  <1> QED
    BY <1>1, SerialInvariant, EnvTypeCorrect, PTL

----------------------------------------------------------------------------

\* Lock!SafeSpec alone: what the calls do with their locks, step by step, is what
\* LockService allows its clients, crashes included.
THEOREM SafeContract == Spec => Lock!SafeSpec
  <1>1. Init => Lock!Init
    BY DEF Init, Lock!Init
  <1>2. TypeOK /\ [Next]_vars => [Lock!Next]_phase
    <2> SUFFICES ASSUME TypeOK, [Next]_vars, phase' # phase
                 PROVE  Lock!Next
      BY DEF Lock!Next
    <2>1. PICK o \in Ops : LockStep(o)
      BY OpStepFrame DEF Next, vars
    <2>2. CASE Crash(o)
      <3>1. phase[o] # "gone"
        BY <2>2 DEF Crash, TypeOK
      <3>2. phase[o] \in {"trying", "in", "leaving"}
        BY <2>2, <3>1 DEF Crash, TypeOK, Lock!Phases
      <3> QED
        BY <2>2, <3>2 DEF Crash, Lock!Next, Lock!Refuse, Lock!Leave, Lock!Step
    <2>3. CASE ~Crash(o)
      BY <2>1, <2>3 DEF LockStep, Call, LockError, Begin, Preempt, Timeout, Return, Lock!Next
    <2> QED
      BY <2>2, <2>3
  <1> QED
    BY <1>1, <1>2, EnvTypeCorrect, PTL DEF Spec, Lock!SafeSpec

=============================================================================
