------------------------------ MODULE Cluster ------------------------------
(***************************************************************************)
(* What an environment has in Kubernetes besides its charts                 *)
(* (pkg/nitro/metahelm): the namespace and, when its repository is on the   *)
(* list of privileged ones, a ClusterRoleBinding of the service account in  *)
(* it.  The binding is not in the namespace and does not go with it; its    *)
(* name is that of the environment, so that successive namespaces of one    *)
(* environment contend for it.                                              *)
(*                                                                          *)
(* One environment, under the lock of its pull request; what is not: the    *)
(* goroutines of deleteNamespace (pkg/nitro/env), the cleanup job, and a    *)
(* restart with another list.  Each call of Kubernetes or of the database   *)
(* is a step.  The service account, the role and the secrets are in the     *)
(* namespace and are one step.  Errors of the database are left out.        *)
(***************************************************************************)
EXTENDS Naturals, Sequences

CONSTANTS
    NULL,
    Teardowns,      \* goroutines of deleteNamespace
    DeleteTries,    \* of a teardown
    MaxNamespaces,  \* bound: namespaces created
    MaxFaults,      \* bound: failing calls of Kubernetes
    MaxRestarts     \* bound: restarts of the server

VARIABLES
    status,       \* qa_environments.status
    row,          \* kubernetes_environments: namespace and privileged
    namespaces,
    tillers,      \* the namespaces that installer.Install was called for
    crb,          \* the namespace of the subject of the ClusterRoleBinding
    whitelisted,  \* the repository is in k8srepowhitelist of this process
    step, ns, old, \* the operation: its step, its namespace, the row it found
    tear,         \* of a teardown: the row it was started with, its step, its tries
    job,          \* the binding that the cleanup job is about to delete
    disturbed,    \* somebody deleted a row or a binding that is not the one it had read
    leaked,       \* an error of a deletion was ignored
    interrupted,  \* the last rebuild of an environment in status Success was killed
    created, faults, restarts

dbVars == <<status, row>>
opVars == <<step, ns, old>>
history == <<disturbed, leaked, interrupted>>
rest == <<whitelisted, tear, job, created, restarts>>

ClusterInit ==
    /\ status = "none" /\ row = NULL /\ namespaces = {} /\ tillers = {} /\ crb = NULL
    /\ whitelisted \in BOOLEAN
    /\ step = "idle" /\ ns = NULL /\ old = NULL
    /\ tear = [t \in Teardowns |-> NULL] /\ job = NULL
    /\ disturbed = FALSE /\ leaked = FALSE /\ interrupted = FALSE
    /\ created = 0 /\ faults = 0 /\ restarts = 0

Works == UNCHANGED faults
Fails == faults < MaxFaults /\ faults' = faults + 1

From(here, next) == step = here /\ step' = next

----------------------------------------------------------------------------
(* The operations, up to what they do in Kubernetes.                        *)

Extant == {"Spawned", "Updating", "Success"}

StartCreate ==
    /\ From("idle", "namespace") /\ status # "pruned"
    /\ status' = "Spawned"
    /\ UNCHANGED <<row, namespaces, tillers, crb, ns, old, history, faults, rest>>

\* The row that deleteNamespace is started with.
Launch(t) ==
    /\ tear[t] = NULL
    /\ tear' = [tear EXCEPT ![t] = [row |-> row, at |-> "namespace", try |-> 1]]

\* BuildAndUpgradeCharts, when the signature of the configuration has not changed.
StartUpgrade ==
    /\ From("idle", "charts") /\ status = "Success" /\ row # NULL
    /\ status' = "Updating" /\ ns' = row.namespace
    /\ UNCHANGED <<row, namespaces, tillers, crb, old, history, faults, rest>>

StartRebuild(t) ==
    /\ From("idle", "namespace") /\ status \in Extant /\ row # NULL
    /\ Launch(t)
    /\ UNCHANGED <<dbVars, namespaces, tillers, crb, ns, old, history, faults, whitelisted, job,
                   created, restarts>>

\* An update of an environment without a row.
UpdateFails ==
    /\ step = "idle" /\ status \in Extant /\ row = NULL
    /\ status' = "Failure"
    /\ UNCHANGED <<row, namespaces, tillers, crb, opVars, history, faults, rest>>

Destroy(t) ==
    /\ step = "idle" /\ status \in Extant /\ row # NULL
    /\ Launch(t) /\ status' = "Destroyed"
    /\ UNCHANGED <<row, namespaces, tillers, crb, opVars, history, faults, whitelisted, job,
                   created, restarts>>

\* A delete of an environment that is not extant.
DestroyRecord ==
    /\ step = "idle" /\ status = "Failure" /\ status' = "Destroyed"
    /\ UNCHANGED <<row, namespaces, tillers, crb, opVars, history, faults, rest>>

\* An error before there is a namespace.
EarlyError ==
    /\ From("namespace", "idle") /\ status' = "Failure"
    /\ UNCHANGED <<row, namespaces, tillers, crb, ns, old, history, faults, rest>>

----------------------------------------------------------------------------
(* BuildAndInstallCharts.                                                   *)

CreateNamespace ==
    /\ From("namespace", "write") /\ created < MaxNamespaces
    /\ created' = created + 1 /\ ns' = created + 1 /\ namespaces' = namespaces \cup {created + 1}
    /\ UNCHANGED <<dbVars, tillers, crb, old, history, faults, whitelisted, tear, job, restarts>>

\* writeK8sEnvironment.
ReadRow ==
    /\ From("write", IF row = NULL THEN "insert" ELSE "old namespace")
    /\ old' = row
    /\ UNCHANGED <<dbVars, namespaces, tillers, crb, ns, history, faults, rest>>

\* Broken variant: who is privileged is asked of this process, not of the row.
DeleteOldNamespaceByList ==
    /\ \/ /\ From("old namespace", IF whitelisted THEN "old binding" ELSE "old row")
          /\ Works /\ namespaces' = namespaces \ {old.namespace} /\ UNCHANGED leaked
       \/ /\ From("old namespace", "old row")
          /\ Fails /\ leaked' = TRUE /\ UNCHANGED namespaces
    /\ UNCHANGED <<dbVars, tillers, crb, ns, old, disturbed, interrupted, rest>>

\* cleanUpNamespace; whatever it returns, the row is going to be deleted.
DeleteOldNamespace ==
    /\ \/ /\ From("old namespace", IF old.privileged THEN "old binding" ELSE "old row")
          /\ Works /\ namespaces' = namespaces \ {old.namespace} /\ UNCHANGED leaked
       \/ /\ From("old namespace", "old row")
          /\ Fails /\ leaked' = TRUE /\ UNCHANGED namespaces
    /\ UNCHANGED <<dbVars, tillers, crb, ns, old, disturbed, interrupted, rest>>

DeleteOldBinding ==
    /\ From("old binding", "old row")
    /\ \/ Works /\ crb' = NULL /\ UNCHANGED leaked
       \/ Fails /\ leaked' = TRUE /\ UNCHANGED crb
    /\ UNCHANGED <<dbVars, namespaces, tillers, ns, old, disturbed, interrupted, rest>>

DeleteOldRow ==
    /\ From("old row", "insert") /\ row' = NULL
    /\ UNCHANGED <<status, namespaces, tillers, crb, ns, old, history, faults, rest>>

InsertRow ==
    /\ From("insert", "set up")
    /\ row' = [namespace |-> ns, privileged |-> whitelisted]
    /\ UNCHANGED <<status, namespaces, tillers, crb, ns, old, history, faults, rest>>

\* setupNamespace: service account, role and its binding in the namespace.
SetupNamespace ==
    /\ \/ /\ From("set up", IF whitelisted THEN "bind" ELSE "extras") /\ Works
          /\ ns \in namespaces
       \/ From("set up", "fail") /\ Fails
    /\ UNCHANGED <<dbVars, namespaces, tillers, crb, ns, old, history, rest>>

\* The API server refuses a name that is taken.
CreateBinding ==
    /\ \/ From("bind", "extras") /\ crb = NULL /\ crb' = ns /\ Works
       \/ From("bind", "fail") /\ crb # NULL /\ Works /\ UNCHANGED crb
       \/ From("bind", "fail") /\ Fails /\ UNCHANGED crb
    /\ UNCHANGED <<dbVars, namespaces, tillers, ns, old, history, rest>>

\* The role bindings of user groups and the secrets, in the namespace.
SetupExtras ==
    /\ \/ From("extras", "tiller") /\ Works
       \/ From("extras", "fail") /\ Fails
    /\ UNCHANGED <<dbVars, namespaces, tillers, crb, ns, old, history, rest>>

\* The state of the only container of each pod that has the label of Tiller, or NULL
\* when they cannot be listed.
PodLists == {NULL, <<>>, <<"none">>, <<"running">>, <<"waiting">>, <<"backoff">>,
             <<"running", "running">>}

CheckTillerPods(pods) == IF pods = <<"backoff">> THEN "abort" ELSE "retry"

\* A namespace that is gone, or going, has none.
PodsOf(n, installed) == IF n \in namespaces \cap installed THEN PodLists ELSE {NULL, <<>>}

\* What one round of installTiller makes of what it sees.  A deployment whose status is
\* not there yet has as many replicas as it wants.
TillerRound(deployment, pods, client, ping) ==
    CASE deployment = "error" -> "abort"
      [] deployment = "not found" -> "retry"
      [] deployment = "unavailable" -> CheckTillerPods(pods)
      [] deployment = "available" ->
            CASE pods = NULL \/ (pods # NULL /\ Len(pods) # 1) -> "retry"
              [] pods # NULL /\ Len(pods) = 1 /\ ~client -> "abort"
              [] OTHER -> IF ping THEN "address" ELSE "retry"

\* The rounds before the last change nothing; after the last one, or when the context is
\* cancelled, there is an error.
InstallTiller ==
    /\ tillers' = tillers \cup {ns}
    /\ \E deployment \in {"error", "not found", "unavailable", "available"},
          pods \in PodsOf(ns, tillers'), client \in BOOLEAN, ping \in BOOLEAN :
          From("tiller", IF TillerRound(deployment, pods, client, ping) = "address"
                         THEN "charts" ELSE "fail")
    /\ UNCHANGED <<dbVars, namespaces, crb, ns, old, history, faults, rest>>

\* installOrUpgradeCharts: updateTillerAddr wants one pod; the charts may fail.
Charts ==
    /\ \/ \E pods \in PodsOf(ns, tillers) \ {NULL} : Len(pods) = 1 /\ From("charts", "success")
       \/ From("charts", "fail")
    /\ UNCHANGED <<dbVars, namespaces, tillers, crb, ns, old, history, faults, rest>>

Succeed ==
    /\ From("success", "idle") /\ status' = "Success" /\ ns' = NULL /\ old' = NULL
    /\ interrupted' = FALSE
    /\ UNCHANGED <<row, namespaces, tillers, crb, disturbed, leaked, faults, rest>>

\* The deferred cleanUpNamespace, of the namespace of the operation and by the list of
\* this process.
FailNamespace ==
    /\ \/ /\ From("fail", IF whitelisted THEN "unbind" ELSE "failure")
          /\ Works /\ namespaces' = namespaces \ {ns}
       \/ From("fail", "failure") /\ Fails /\ UNCHANGED namespaces
    /\ UNCHANGED <<dbVars, tillers, crb, ns, old, history, rest>>

FailBinding ==
    /\ From("unbind", "failure")
    /\ \/ Works /\ crb' = NULL /\ UNCHANGED leaked
       \/ Fails /\ leaked' = TRUE /\ UNCHANGED crb
    /\ UNCHANGED <<dbVars, namespaces, tillers, ns, old, disturbed, interrupted, rest>>

Fail ==
    /\ From("failure", "idle") /\ status' = "Failure" /\ ns' = NULL /\ old' = NULL
    /\ UNCHANGED <<row, namespaces, tillers, crb, history, faults, rest>>

----------------------------------------------------------------------------
(* deleteNamespace, and DeleteNamespace in it: nobody waits for them.       *)

TearNamespace(t) ==
    /\ tear[t] # NULL /\ tear[t].at = "namespace"
    /\ \/ /\ Works /\ namespaces' = namespaces \ {tear[t].row.namespace}
          /\ tear' = [tear EXCEPT ![t].at = IF tear[t].row.privileged THEN "binding" ELSE "row"]
       \/ /\ Fails /\ UNCHANGED namespaces
          /\ tear' = [tear EXCEPT ![t] = IF tear[t].try = DeleteTries THEN NULL
                                         ELSE [tear[t] EXCEPT !.try = @ + 1]]
    /\ UNCHANGED <<dbVars, tillers, crb, opVars, history, whitelisted, job, created, restarts>>

TearBinding(t) ==
    /\ tear[t] # NULL /\ tear[t].at = "binding"
    /\ tear' = [tear EXCEPT ![t].at = "row"]
    /\ \/ /\ Works /\ crb' = NULL /\ UNCHANGED leaked
          /\ disturbed' = (disturbed \/ crb \notin {NULL, tear[t].row.namespace})
       \/ Fails /\ leaked' = TRUE /\ UNCHANGED <<crb, disturbed>>
    /\ UNCHANGED <<dbVars, namespaces, tillers, opVars, interrupted, whitelisted, job, created,
                   restarts>>

\* By the name of the environment.
TearRow(t) ==
    /\ tear[t] # NULL /\ tear[t].at = "row"
    /\ tear' = [tear EXCEPT ![t] = NULL]
    /\ row' = NULL
    /\ disturbed' = (disturbed \/ (row # NULL /\ row # tear[t].row))
    /\ UNCHANGED <<status, namespaces, tillers, crb, opVars, leaked, interrupted, faults, whitelisted, job,
                   created, restarts>>

----------------------------------------------------------------------------
(* ChartInstaller.Cleanup, in a process of its own.                         *)

Orphaned == {"pruned", "Failure", "Destroyed"}

JobReads ==
    /\ job = NULL /\ crb # NULL /\ status \in Orphaned
    /\ job' = crb
    /\ UNCHANGED <<dbVars, namespaces, tillers, crb, opVars, history, faults, whitelisted, tear,
                   created, restarts>>

\* By the name of the binding, whatever it is by now.
JobDeletes ==
    /\ job # NULL /\ job' = NULL /\ crb' = NULL
    /\ disturbed' = (disturbed \/ crb \notin {NULL, job})
    /\ UNCHANGED <<dbVars, namespaces, tillers, opVars, leaked, interrupted, faults, whitelisted, tear, created,
                   restarts>>

\* A namespace older than any operation, which no row has.
RemoveOrphanedNamespace(n) ==
    /\ n \in namespaces /\ n # ns /\ (row # NULL => row.namespace # n)
    /\ namespaces' = namespaces \ {n}
    /\ UNCHANGED <<dbVars, tillers, crb, opVars, history, faults, rest>>

----------------------------------------------------------------------------
\* The reaper deletes the record, and the row with it, long after.
Prune ==
    /\ step = "idle" /\ status = "Destroyed" /\ \A t \in Teardowns : tear[t] = NULL
    /\ status' = "pruned" /\ row' = NULL
    /\ UNCHANGED <<namespaces, tillers, crb, opVars, history, faults, rest>>

\* The server dies and comes back with the same list or another one.  The status of an
\* environment that was being rebuilt is still Success.
Restart ==
    /\ restarts < MaxRestarts /\ restarts' = restarts + 1
    /\ whitelisted' \in BOOLEAN
    /\ step' = "idle" /\ ns' = NULL /\ old' = NULL
    /\ tear' = [t \in Teardowns |-> NULL]
    /\ interrupted' = (interrupted \/ (step # "idle" /\ status = "Success"))
    /\ UNCHANGED <<dbVars, namespaces, tillers, crb, job, disturbed, leaked, created, faults>>

ClusterNext ==
    \/ StartCreate \/ StartUpgrade \/ UpdateFails \/ DestroyRecord \/ EarlyError
    \/ CreateNamespace \/ ReadRow \/ DeleteOldNamespace \/ DeleteOldBinding \/ DeleteOldRow
    \/ InsertRow \/ SetupNamespace \/ CreateBinding \/ SetupExtras \/ InstallTiller
    \/ Charts \/ Succeed \/ FailNamespace \/ FailBinding \/ Fail
    \/ \E t \in Teardowns : \/ StartRebuild(t) \/ Destroy(t)
                            \/ TearNamespace(t) \/ TearBinding(t) \/ TearRow(t)
    \/ JobReads \/ JobDeletes \/ \E n \in 1..MaxNamespaces : RemoveOrphanedNamespace(n)
    \/ Prune \/ Restart

----------------------------------------------------------------------------
AtRest == step = "idle" /\ job = NULL /\ \A t \in Teardowns : tear[t] = NULL

\* When nothing is going on, the binding can be found for deletion: by a teardown or the
\* next create, which go by the row, or by the cleanup job, which goes by the status.
Removable ==
    AtRest /\ crb # NULL => status \in Orphaned \/ (row # NULL /\ row.privileged)

\* When nothing is going on, a privileged environment that is up has its binding, and it is
\* of its namespace, unless its last rebuild was killed.
Bound ==
    AtRest /\ status = "Success" /\ row # NULL /\ row.privileged /\ ~interrupted
        => crb = row.namespace

\* The name of the binding is free when it is created.
NameIsFree == step = "bind" => crb = NULL

\* Unless the deletion of a binding failed, or a teardown or the cleanup job was so late
\* that it met the next row or binding: however the list of privileged repositories
\* changes, no binding to cluster-admin is forgotten, none is missing, and none is in the
\* way of the next.
BindingsAccountedFor == leaked \/ disturbed \/ (Removable /\ Bound /\ NameIsFree)
=============================================================================
