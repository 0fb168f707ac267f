----------------------------- MODULE EnvManager -----------------------------
(***************************************************************************)
(* The operations of pkg/nitro/env (env.Manager.Create, Update, Delete) on  *)
(* ONE repository and pull request, with the part of ChartInstaller         *)
(* (pkg/nitro/metahelm) that changes state: environment records, the        *)
(* kubernetes_environments and helm_releases rows, and namespaces.          *)
(*                                                                          *)
(* Every element of Ops is one call.  lockingOperation runs it as two       *)
(* goroutines: the one that holds the lock (phase, by LockService) and the  *)
(* one that executes the operation (pc), which goes on when the first has   *)
(* left.  A third, deleteNamespace, outlives both (teardown).  Each step is *)
(* one statement of the database or one call of Kubernetes.  A statement    *)
(* under the operation's context fails once the context is cancelled; the   *)
(* Kubernetes calls and the status writes under a context of their own do   *)
(* not.                                                                     *)
(*                                                                          *)
(* An operation creates at most one record and at most one namespace, so    *)
(* both are named by the operation that created them.  No global limit is   *)
(* configured (GlobalLimit = 0), which makes enforceGlobalLimit a no-op;    *)
(* records are not pruned.                                                  *)
(***************************************************************************)
EXTENDS Naturals, FiniteSets

CONSTANTS
    Ops,            \* the calls of Create, Update and Delete
    None,           \* no record, no namespace
    Failures,       \* what may go wrong, see FailureKinds
    Overlap,        \* webhooks arrive while earlier ones are processed
    ConfigChanges   \* acyl.yml may change between two calls

FailureKinds == {"config", "charts", "install", "k8s", "lock", "timeout", "crash"}

ASSUME EnvAssumption ==
    /\ None \notin Ops
    /\ Failures \subseteq FailureKinds
    /\ Overlap \in BOOLEAN /\ ConfigChanges \in BOOLEAN

VARIABLES
    phase,        \* the lock, as the call sees it (LockService)
    cancelled,    \* the context that lockingOperation gave to the operation
    kind,         \* the operation; an update that finds nothing to update
                  \* becomes a create
    pc,           \* where the operation's own goroutine is
    env,          \* the record it works on
    wasSuccess,   \* status of the record when update read it
    oldNs,        \* namespace of the row that it read
    hasReleases,  \* it found helm_releases rows to upgrade
    teardown,     \* its deleteNamespace goroutine
    status,       \* qa_environments.status
    latest,       \* the record created most recently
    row,          \* kubernetes_environments: namespace of a record
    releases,     \* helm_releases: namespace of a record's releases
    live          \* the namespaces that exist in Kubernetes

opVars == <<kind, env, wasSuccess, oldNs, hasReleases>>
dbVars == <<status, latest, row, releases>>
vars == <<phase, cancelled, kind, pc, env, wasSuccess, oldNs, hasReleases,
          teardown, status, latest, row, releases, live>>

Lock == INSTANCE LockService WITH Clients <- Ops

Kind == {"create", "update", "delete"}
Status == {"none", "spawned", "success", "updating", "failure", "destroyed"}

\* The steps before an operation has a record, on a record, and on the row it read.
Searching == {"getEnv", "lookup", "insert", "markAll"}
OnRecord == {"reuse", "touch", "config", "readRow", "charts", "createNs", "writeEnv",
             "deleteRow", "insertRow", "install", "deleteReleases", "writeReleases",
             "cleanupNew", "setSuccess", "setFailure", "opFailure", "setDestroyed"}
OnRow == {"updateCharts", "decide", "readReleases", "setUpdating", "upgrade",
          "cleanupOld", "spawnTeardown"}
Running == Searching \cup OnRecord \cup OnRow

\* Besides the types: a step that uses a record or the namespace of a row has one
\* (in the code, the pointer it dereferences is not nil).
TypeOK ==
    /\ phase \in [Ops -> Lock!Phases]
    /\ cancelled \in [Ops -> BOOLEAN]
    /\ kind \in [Ops -> Kind]
    /\ pc \in [Ops -> Running \cup {"idle", "done"}]
    /\ env \in [Ops -> Ops \cup {None}]
    /\ wasSuccess \in [Ops -> BOOLEAN]
    /\ oldNs \in [Ops -> Ops \cup {None}]
    /\ hasReleases \in [Ops -> BOOLEAN]
    /\ teardown \in [Ops -> {"off", "releases", "namespace", "row", "done"}]
    /\ status \in [Ops -> Status]
    /\ latest \in Ops \cup {None}
    /\ row \in [Ops -> Ops \cup {None}]
    /\ releases \in [Ops -> Ops \cup {None}]
    /\ live \subseteq Ops
    /\ \A o \in Ops :
        /\ pc[o] \in OnRecord \cup OnRow => env[o] # None
        /\ pc[o] \in OnRow => oldNs[o] # None
        /\ teardown[o] # "off" => env[o] # None /\ oldNs[o] # None

Init ==
    /\ phase = [o \in Ops |-> "out"]
    /\ cancelled = [o \in Ops |-> FALSE]
    /\ kind \in [Ops -> Kind]
    /\ pc = [o \in Ops |-> "idle"]
    /\ env = [o \in Ops |-> None]
    /\ wasSuccess = [o \in Ops |-> FALSE]
    /\ oldNs = [o \in Ops |-> None]
    /\ hasReleases = [o \in Ops |-> FALSE]
    /\ teardown = [o \in Ops |-> "off"]
    /\ status = [o \in Ops |-> "none"]
    /\ latest = None
    /\ row = [o \in Ops |-> None]
    /\ releases = [o \in Ops |-> None]
    /\ live = {}

----------------------------------------------------------------------------
(* What the steps are made of.                                              *)

May(failure) == failure \in Failures

\* Nothing of an earlier call is still going on.
Settled ==
    \A o \in Ops : /\ phase[o] \in {"out", "gone"} /\ pc[o] \in {"idle", "done"}
                   /\ teardown[o] \in {"off", "done"}

\* GetExtantQAEnvironments.
Extant == {e \in Ops : status[e] \notin {"none", "failure", "destroyed"}}

At(o, label) == pc[o] = label
Goto(o, label) == pc' = [pc EXCEPT ![o] = label]

SetStatus(e, s) == status' = [status EXCEPT ![e] = s]

\* A step of the operation's goroutine leaves the lock and the teardowns alone.
Frame == UNCHANGED <<phase, cancelled, teardown>>

\* A step that only moves on.
Only(o, label) ==
    Goto(o, label) /\ UNCHANGED <<opVars, dbVars, live>> /\ Frame

----------------------------------------------------------------------------
(* lockingOperation.                                                        *)

\* The webhook handler or the API calls Create, Update or Delete.
Call(o) ==
    /\ Lock!Request(o)
    /\ Overlap \/ Settled
    /\ UNCHANGED <<cancelled, pc, teardown, live, opVars, dbVars>>

\* Lock returns an error and so does the call.
LockError(o) ==
    /\ phase[o] = "trying" /\ Lock!Refuse(o)
    /\ May("lock") \/ \E p \in Ops \ {o} : phase[p] # "out"
    /\ Goto(o, "done")
    /\ UNCHANGED <<cancelled, teardown, live, opVars, dbVars>>

\* Lock returns: the operation starts in a goroutine of its own.
Begin(o) ==
    /\ Lock!Enter(o)
    /\ Goto(o, IF kind[o] = "create" THEN "lookup" ELSE "getEnv")
    /\ UNCHANGED <<cancelled, teardown, live, opVars, dbVars>>

\* Broken variant: the operation that has to yield keeps its context.
PreemptWithoutCancel(o) ==
    /\ \E p \in Ops : phase[p] = "trying"
    /\ Lock!Tell(o)
    /\ UNCHANGED <<cancelled, pc, teardown, live, opVars, dbVars>>

\* Somebody else wants the lock: the context is cancelled.
Preempt(o) ==
    /\ \E p \in Ops : phase[p] = "trying"
    /\ Lock!Tell(o)
    /\ cancelled' = [cancelled EXCEPT ![o] = TRUE]
    /\ UNCHANGED <<pc, teardown, live, opVars, dbVars>>

\* The timeout of the call, or enforceTimeout, cancels the context.
Timeout(o) ==
    /\ May("timeout") /\ phase[o] = "in" /\ ~cancelled[o]
    /\ cancelled' = [cancelled EXCEPT ![o] = TRUE]
    /\ UNCHANGED <<phase, pc, teardown, live, opVars, dbVars>>

\* Broken variant: the lock is held until the operation has ended.
ReturnWhenDone(o) ==
    /\ At(o, "done")
    /\ Lock!Leave(o)
    /\ UNCHANGED <<cancelled, pc, teardown, live, opVars, dbVars>>

\* lockingOperation returns and releases the lock: the operation has ended, or
\* its context is cancelled, and then nobody waits for it.
Return(o) ==
    /\ At(o, "done") \/ cancelled[o]
    /\ Lock!Leave(o)
    /\ UNCHANGED <<cancelled, pc, teardown, live, opVars, dbVars>>

\* The process dies with everything that the call left running in it.
Crash(o) ==
    /\ May("crash")
    /\ phase[o] # "out"
    /\ phase[o] # "gone" \/ ~At(o, "done") \/ teardown[o] \notin {"off", "done"}
    /\ phase' = [phase EXCEPT ![o] = "gone"]
    /\ Goto(o, "done")
    /\ teardown' = [teardown EXCEPT ![o] = IF @ = "off" THEN @ ELSE "done"]
    /\ UNCHANGED <<cancelled, live, opVars, dbVars>>

----------------------------------------------------------------------------
(* create, and what it shares with update and delete.                       *)

\* getenv: exactly one extant record, or update goes through the create flow and
\* delete marks whatever record there is.
GetEnv(o) ==
    /\ At(o, "getEnv")
    /\ IF cancelled[o] THEN Goto(o, "done") /\ UNCHANGED <<kind, env, wasSuccess>>
       ELSE \/ \E e \in Extant :
                /\ Extant = {e}
                /\ env' = [env EXCEPT ![o] = e]
                /\ wasSuccess' = [wasSuccess EXCEPT ![o] = (status[e] = "success")]
                /\ Goto(o, "config") /\ UNCHANGED kind
            \/ /\ \A e \in Extant : Extant # {e}
               /\ kind[o] = "update"
               /\ kind' = [kind EXCEPT ![o] = "create"]
               /\ Goto(o, "lookup") /\ UNCHANGED <<env, wasSuccess>>
            \/ /\ \A e \in Extant : Extant # {e}
               /\ kind[o] = "delete"
               /\ Goto(o, "markAll") /\ UNCHANGED <<kind, env, wasSuccess>>
    /\ UNCHANGED <<oldNs, hasReleases, dbVars, live>> /\ Frame

\* delete without an extant record: every record of the pull request is marked
\* destroyed, and nothing else happens.  There is at most one (OneRecord).
MarkAll(o) ==
    /\ At(o, "markAll")
    /\ IF cancelled[o] \/ latest = None THEN Goto(o, "done") /\ UNCHANGED env
       ELSE Goto(o, "setDestroyed") /\ env' = [env EXCEPT ![o] = latest]
    /\ UNCHANGED <<kind, wasSuccess, oldNs, hasReleases, dbVars, live>> /\ Frame

\* generateNewEnv: is there a record for the pull request?  The latest is reused.
Lookup(o) ==
    /\ At(o, "lookup")
    /\ IF cancelled[o] THEN Goto(o, "done") /\ UNCHANGED env
       ELSE IF latest = None THEN Goto(o, "insert") /\ UNCHANGED env
       ELSE Goto(o, "reuse") /\ env' = [env EXCEPT ![o] = latest]
    /\ UNCHANGED <<kind, wasSuccess, oldNs, hasReleases, dbVars, live>> /\ Frame

\* The status is written under a context that is never cancelled ...
Reuse(o) ==
    /\ At(o, "reuse") /\ Goto(o, "touch")
    /\ SetStatus(env[o], "spawned")
    /\ UNCHANGED <<latest, row, releases, live, opVars>> /\ Frame

\* ... the rest of the record under the operation's.
Touch(o) == At(o, "touch") /\ Only(o, IF cancelled[o] THEN "done" ELSE "config")

\* Broken variant: the record is inserted whatever became of the context.
InsertAnyway(o) ==
    /\ At(o, "insert") /\ Goto(o, "config")
    /\ SetStatus(o, "spawned")
    /\ env' = [env EXCEPT ![o] = o]
    /\ latest' = o
    /\ UNCHANGED <<kind, wasSuccess, oldNs, hasReleases, row, releases, live>> /\ Frame

\* generateNewEnv: a new record.
Insert(o) ==
    /\ At(o, "insert")
    /\ IF cancelled[o]
       THEN Goto(o, "done") /\ UNCHANGED <<status, env, latest>>
       ELSE /\ Goto(o, "config")
            /\ SetStatus(o, "spawned")
            /\ env' = [env EXCEPT ![o] = o]
            /\ latest' = o
    /\ UNCHANGED <<kind, wasSuccess, oldNs, hasReleases, row, releases, live>> /\ Frame

\* processEnvConfig: acyl.yml is fetched and processed.  delete ignores errors.
Config(o) ==
    /\ At(o, "config")
    /\ \/ ~cancelled[o] /\ Only(o, IF kind[o] = "create" THEN "charts" ELSE "readRow")
       \/ /\ cancelled[o] \/ May("config")
          /\ Only(o, IF kind[o] = "delete" THEN "readRow" ELSE "opFailure")

\* GetK8sEnv in update and delete, and delete's look at its context before it.
ReadRow(o) ==
    /\ At(o, "readRow")
    /\ IF cancelled[o] \/ row[env[o]] = None
       THEN Goto(o, IF kind[o] = "update" THEN "opFailure" ELSE "done") /\ UNCHANGED oldNs
       ELSE /\ oldNs' = [oldNs EXCEPT ![o] = row[env[o]]]
            /\ Goto(o, IF kind[o] = "update" THEN "updateCharts" ELSE "spawnTeardown")
    /\ UNCHANGED <<kind, env, wasSuccess, hasReleases, dbVars, live>> /\ Frame

\* The look at the context and fetchCharts, in create and in update.
Charts(o) ==
    \/ At(o, "charts") /\ ~cancelled[o] /\ Only(o, "createNs")
    \/ At(o, "updateCharts") /\ ~cancelled[o] /\ Only(o, "decide")
    \/ /\ At(o, "charts") \/ At(o, "updateCharts")
       /\ cancelled[o] \/ May("charts")
       /\ Only(o, "opFailure")

\* The deferred function of create and update after an error.
OpFailure(o) ==
    /\ At(o, "opFailure") /\ Goto(o, "done")
    /\ SetStatus(env[o], "failure")
    /\ UNCHANGED <<latest, row, releases, live, opVars>> /\ Frame

----------------------------------------------------------------------------
(* BuildAndInstallCharts.                                                   *)

\* createNamespace: a name of its own, no context.
CreateNs(o) ==
    /\ At(o, "createNs")
    /\ \/ Goto(o, "writeEnv") /\ live' = live \cup {o}
       \/ May("k8s") /\ Goto(o, "opFailure") /\ UNCHANGED live
    /\ UNCHANGED <<opVars, dbVars>> /\ Frame

\* Broken variant: the namespace of the row that exists is not deleted.
WriteEnvOnly(o) ==
    /\ At(o, "writeEnv")
    /\ Only(o, IF cancelled[o] THEN "cleanupNew"
               ELSE IF row[env[o]] = None THEN "insertRow" ELSE "deleteRow")

\* writeK8sEnvironment: the namespace of a row that exists already is deleted
\* first, and an error of that is only logged.
WriteEnv(o) ==
    /\ At(o, "writeEnv")
    /\ \/ cancelled[o] /\ Goto(o, "cleanupNew") /\ UNCHANGED live
       \/ ~cancelled[o] /\ row[env[o]] = None /\ Goto(o, "insertRow") /\ UNCHANGED live
       \/ /\ ~cancelled[o] /\ row[env[o]] # None /\ Goto(o, "deleteRow")
          /\ \/ live' = live \ {row[env[o]]}
             \/ May("k8s") /\ UNCHANGED live
    /\ UNCHANGED <<opVars, dbVars>> /\ Frame

\* Broken variant: the old row stays.
DeleteRowSkipped(o) ==
    At(o, "deleteRow") /\ Only(o, IF cancelled[o] THEN "cleanupNew" ELSE "insertRow")

\* DeleteK8sEnv.
DeleteRow(o) ==
    /\ At(o, "deleteRow")
    /\ IF cancelled[o] THEN Goto(o, "cleanupNew") /\ UNCHANGED row
       ELSE Goto(o, "insertRow") /\ row' = [row EXCEPT ![env[o]] = None]
    /\ UNCHANGED <<opVars, status, latest, releases, live>> /\ Frame

\* CreateK8sEnv: env_name is the primary key.
InsertRow(o) ==
    /\ At(o, "insertRow")
    /\ IF cancelled[o] \/ row[env[o]] # None THEN Goto(o, "cleanupNew") /\ UNCHANGED row
       ELSE Goto(o, "install") /\ row' = [row EXCEPT ![env[o]] = o]
    /\ UNCHANGED <<opVars, status, latest, releases, live>> /\ Frame

\* Image builds, setupNamespace, Tiller and the installation of the charts.
Install(o) ==
    /\ At(o, "install")
    /\ \/ ~cancelled[o] /\ o \in live /\ Only(o, "deleteReleases")
       \/ /\ cancelled[o] \/ o \notin live \/ May("install")
          /\ Only(o, "cleanupNew")

\* writeReleaseNames: DeleteHelmReleasesForEnv ...
DeleteReleases(o) ==
    /\ At(o, "deleteReleases")
    /\ IF cancelled[o] THEN Goto(o, "cleanupNew") /\ UNCHANGED releases
       ELSE Goto(o, "writeReleases") /\ releases' = [releases EXCEPT ![env[o]] = None]
    /\ UNCHANGED <<opVars, status, latest, row, live>> /\ Frame

\* Broken variant: the releases of the old namespace are deleted last.
DeleteReleasesLast(o) ==
    /\ At(o, "writeReleases")
    /\ IF cancelled[o] THEN Goto(o, "cleanupNew") /\ UNCHANGED releases
       ELSE Goto(o, "setSuccess") /\ releases' = [releases EXCEPT ![env[o]] = None]
    /\ UNCHANGED <<opVars, status, latest, row, live>> /\ Frame

\* ... and CreateHelmReleasesForEnv.
WriteReleases(o) ==
    /\ At(o, "writeReleases")
    /\ IF cancelled[o] THEN Goto(o, "cleanupNew") /\ UNCHANGED releases
       ELSE Goto(o, "setSuccess") /\ releases' = [releases EXCEPT ![env[o]] = o]
    /\ UNCHANGED <<opVars, status, latest, row, live>> /\ Frame

\* The deferred functions write the status under a context of their own.
SetSuccess(o) ==
    /\ At(o, "setSuccess") /\ Goto(o, "done")
    /\ SetStatus(env[o], "success")
    /\ UNCHANGED <<opVars, latest, row, releases, live>> /\ Frame

\* cleanUpNamespace after an error, of the new namespace or, when charts were
\* upgraded, of the one that was there; its own error is only logged.
Cleanup(o) ==
    /\ \/ At(o, "cleanupNew") /\ live' = live \ {o}
       \/ At(o, "cleanupOld") /\ live' = live \ {oldNs[o]}
       \/ (At(o, "cleanupNew") \/ At(o, "cleanupOld")) /\ May("k8s") /\ UNCHANGED live
    /\ Goto(o, "setFailure")
    /\ UNCHANGED <<opVars, dbVars>> /\ Frame

SetFailure(o) ==
    /\ At(o, "setFailure") /\ Goto(o, "opFailure")
    /\ SetStatus(env[o], "failure")
    /\ UNCHANGED <<opVars, latest, row, releases, live>> /\ Frame

----------------------------------------------------------------------------
(* The rest of update, BuildAndUpgradeCharts, and the rest of delete.       *)

\* Upgrade in place, when the signature of the configuration is that of the row and
\* the environment was in status Success; otherwise a goroutine starts to delete the
\* old namespace and the charts are installed from scratch.
Decide(o) ==
    /\ At(o, "decide")
    /\ \/ wasSuccess[o] /\ Goto(o, "readReleases") /\ UNCHANGED teardown
       \/ /\ ConfigChanges \/ ~wasSuccess[o]
          /\ teardown' = [teardown EXCEPT ![o] = "releases"]
          /\ Goto(o, "createNs")
    /\ UNCHANGED <<phase, cancelled, live, opVars, dbVars>>

\* GetHelmReleasesForEnv.
ReadReleases(o) ==
    /\ At(o, "readReleases")
    /\ IF cancelled[o] THEN Goto(o, "opFailure") /\ UNCHANGED hasReleases
       ELSE /\ Goto(o, "setUpdating")
            /\ hasReleases' = [hasReleases EXCEPT ![o] = (releases[env[o]] # None)]
    /\ UNCHANGED <<kind, env, wasSuccess, oldNs, dbVars, live>> /\ Frame

SetUpdating(o) ==
    /\ At(o, "setUpdating") /\ Goto(o, "upgrade")
    /\ SetStatus(env[o], "updating")
    /\ UNCHANGED <<opVars, latest, row, releases, live>> /\ Frame

\* Metahelm's Upgrade refuses charts that have no release.
Upgrade(o) ==
    /\ At(o, "upgrade")
    /\ \/ ~cancelled[o] /\ oldNs[o] \in live /\ hasReleases[o] /\ Only(o, "setSuccess")
       \/ /\ cancelled[o] \/ oldNs[o] \notin live \/ ~hasReleases[o] \/ May("install")
          /\ Only(o, "cleanupOld")

\* delete starts its goroutine ...
SpawnTeardown(o) ==
    /\ At(o, "spawnTeardown") /\ Goto(o, "setDestroyed")
    /\ teardown' = [teardown EXCEPT ![o] = "releases"]
    /\ UNCHANGED <<phase, cancelled, live, opVars, dbVars>>

\* ... and marks the record under a context of its own.
SetDestroyed(o) ==
    /\ At(o, "setDestroyed") /\ Goto(o, "done")
    /\ SetStatus(env[o], "destroyed")
    /\ UNCHANGED <<opVars, latest, row, releases, live>> /\ Frame

\* deleteNamespace has a context of its own: the releases of the record ...
TeardownReleases(o) ==
    /\ teardown[o] = "releases"
    /\ teardown' = [teardown EXCEPT ![o] = "namespace"]
    /\ releases' = [releases EXCEPT ![env[o]] = None]
    /\ UNCHANGED <<phase, cancelled, pc, opVars, status, latest, row, live>>

\* ... the namespace, where three errors in a row end it ...
TeardownNamespace(o) ==
    /\ teardown[o] = "namespace"
    /\ \/ /\ live' = live \ {oldNs[o]}
          /\ teardown' = [teardown EXCEPT ![o] = "row"]
       \/ /\ May("k8s")
          /\ teardown' = [teardown EXCEPT ![o] = "done"] /\ UNCHANGED live
    /\ UNCHANGED <<phase, cancelled, pc, opVars, dbVars>>

\* ... and the row, by the name of the environment.
TeardownRow(o) ==
    /\ teardown[o] = "row"
    /\ teardown' = [teardown EXCEPT ![o] = "done"]
    /\ row' = [row EXCEPT ![env[o]] = None]
    /\ UNCHANGED <<phase, cancelled, pc, opVars, status, latest, releases, live>>

----------------------------------------------------------------------------

CreateStep(o) ==
    \/ GetEnv(o) \/ MarkAll(o) \/ Lookup(o) \/ Reuse(o) \/ Touch(o) \/ Insert(o)
    \/ Config(o) \/ ReadRow(o) \/ Charts(o) \/ OpFailure(o)

InstallStep(o) ==
    \/ CreateNs(o) \/ WriteEnv(o) \/ DeleteRow(o) \/ InsertRow(o) \/ Install(o)
    \/ DeleteReleases(o) \/ WriteReleases(o) \/ SetSuccess(o) \/ Cleanup(o) \/ SetFailure(o)

UpdateStep(o) ==
    \/ Decide(o) \/ ReadReleases(o) \/ SetUpdating(o) \/ Upgrade(o)
    \/ SpawnTeardown(o) \/ SetDestroyed(o)

OpStep(o) == CreateStep(o) \/ InstallStep(o) \/ UpdateStep(o)

TeardownStep(o) == TeardownReleases(o) \/ TeardownNamespace(o) \/ TeardownRow(o)

LockStep(o) ==
    Call(o) \/ LockError(o) \/ Begin(o) \/ Preempt(o) \/ Timeout(o) \/ Return(o) \/ Crash(o)

Next == \E o \in Ops : LockStep(o) \/ OpStep(o) \/ TeardownStep(o)

Spec == Init /\ [][Next]_vars

\* What lockingOperation and the locker promise, whatever the operation does: Lock
\* answers, the holder is told when somebody waits, a cancelled call returns.  An
\* operation may hang for ever, so its own steps are not fair.
FairSpec ==
    /\ Spec
    /\ \A o \in Ops :
        /\ WF_vars(Begin(o) \/ LockError(o))
        /\ WF_vars(Preempt(o))
        /\ WF_vars(Return(o))

----------------------------------------------------------------------------
(* Properties.                                                              *)

\* An operation that can still write under its own context.
InCharge(o) == pc[o] \in Running /\ ~cancelled[o]

\* At most one operation on a pull request runs under a context that is not cancelled:
\* one whose lockingOperation has returned may run on, but not unnoticed.
OneLiveContext == \A o, p \in Ops : InCharge(o) /\ InCharge(p) => o = p

\* A pull request never gets a second environment record, however creates, updates that
\* fall back to create, and preemption interleave.
OneRecord == \A e, f \in Ops : status[e] # "none" /\ status[f] # "none" => e = f

\* CreateK8sEnv never meets a row that exists already: writeK8sEnvironment has removed
\* it, and neither a preempted operation nor a teardown puts one there meanwhile.
NoRowConflict ==
    \A o \in Ops : pc[o] = "insertRow" /\ ~cancelled[o] => row[env[o]] = None

\* Once nothing is going on, an environment in status Success has its namespace: update
\* either upgrades it in place or is to "tear down existing env and rebuild from
\* scratch" (env.go:694), so the row, the namespace and the releases belong together.
SettledSuccess ==
    Settled => \A e \in Ops :
        status[e] = "success" => row[e] \in live /\ releases[e] = row[e]

\* Once nothing is going on, every namespace is that of a row, so that a later delete
\* or update finds it.
SettledOwned == Settled => live \subseteq {row[e] : e \in Ops}

\* The calls are clients as LockService wants them: one use of each lock, and whoever is
\* told to leave does release, also when the operation blocks for ever ("it's critical
\* that we protect this goroutine from getting blocked", env.go:236-237).
KeepsLockContract == Lock!Spec

=============================================================================
