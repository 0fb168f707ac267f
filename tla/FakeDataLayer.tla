--------------------------- MODULE FakeDataLayer ---------------------------
(***************************************************************************)
(* The data layer in memory (pkg/persistence/fake.go), which nearly all of  *)
(* the tests run on instead of Postgres, and which the local commands       *)
(* `acyl config test ...' keep their environments in between two processes  *)
(* (Save and Load).                                                         *)
(*                                                                          *)
(* Each method holds the lock of the maps while it works, and so is one     *)
(* action.  What returns an error changes nothing.  The queries are         *)
(* operators on the maps; they return pointers to the values of some maps,  *)
(* which is left out, and of GetRunningQAEnvironments the three queries,    *)
(* each with a lock of its own, are one.                                    *)
(***************************************************************************)
EXTENDS Naturals, Sequences, FiniteSets

CONSTANTS NULL, Torn

VARIABLES
    d,           \* environment records, by name
    helm,        \* the slice of releases of an environment
    k8s,         \* rows of Kubernetes environments
    elogs,       \* event logs, by id
    uisessions,  \* by id
    files        \* the state directory: envs.json, helm.json, k8s.json, elogs.json

data == <<d, helm, k8s, elogs, uisessions>>

Init ==
    /\ d = <<>> /\ helm = <<>> /\ k8s = <<>> /\ elogs = <<>> /\ uisessions = <<>>
    /\ files = [i \in 1..4 |-> NULL]

OnlyEnvs == UNCHANGED <<helm, k8s, elogs, uisessions, files>>
OnlyHelm == UNCHANGED <<d, k8s, elogs, uisessions, files>>
OnlyK8s == UNCHANGED <<d, helm, elogs, uisessions, files>>
OnlyLogs == UNCHANGED <<d, helm, k8s, uisessions, files>>
OnlySessions == UNCHANGED <<d, helm, k8s, elogs, files>>

\* m[key] = value
Put(m, key, value) == [k \in DOMAIN m \cup {key} |-> IF k = key THEN value ELSE m[k]]

\* if v, ok := m[key]; ok { v.field = value }
PutField(m, key, field, value) ==
    IF key \in DOMAIN m
    THEN [k \in DOMAIN m |-> IF k = key THEN [m[k] EXCEPT ![field] = value] ELSE m[k]]
    ELSE m

\* delete(m, key) for every key of keys
Drop(m, keys) == [k \in DOMAIN m \ keys |-> m[k]]

----------------------------------------------------------------------------
(* Environment records: the pointer that the caller passes is stored.       *)

CreateQAEnvironment(name, repodata, created) ==
    /\ d' = Put(d, name,
          [status |-> "Spawned", data |-> repodata, created |-> created,
           ref_map |-> NULL, commit_sha_map |-> NULL, amino_service_to_port |-> NULL,
           amino_kubernetes_namespace |-> NULL, amino_environment_id |-> NULL,
           raw_events |-> {}])
    /\ OnlyEnvs

SetField(name, field, value) ==
    d' = PutField(d, name, field, value) /\ OnlyEnvs

SetQAEnvironmentStatus(name, status) == SetField(name, "status", status)
SetQAEnvironmentRepoData(name, rrd) == SetField(name, "data", rrd)
SetQAEnvironmentRefMap(name, map) == SetField(name, "ref_map", map)
SetQAEnvironmentCommitSHAMap(name, map) == SetField(name, "commit_sha_map", map)
SetQAEnvironmentCreated(name, created) == SetField(name, "created", created)
SetAminoEnvironmentID(name, did) == SetField(name, "amino_environment_id", did)
SetAminoServiceToPort(name, ports) == SetField(name, "amino_service_to_port", ports)
SetAminoKubernetesNamespace(name, ns) == SetField(name, "amino_kubernetes_namespace", ns)

AddEvent(name, message) ==
    /\ d' = IF name \in DOMAIN d
            THEN PutField(d, name, "raw_events", d[name].raw_events \cup {message}) ELSE d
    /\ OnlyEnvs

\* Broken variant: the releases stay when the record goes.
DeleteQAEnvironmentAndRow(name) ==
    /\ IF name \in DOMAIN d /\ d[name].status = "Destroyed"
       THEN d' = Drop(d, {name}) /\ k8s' = Drop(k8s, {name})
       ELSE UNCHANGED <<d, k8s>>
    /\ UNCHANGED <<helm, elogs, uisessions, files>>

DeleteQAEnvironment(name) ==
    /\ IF name \in DOMAIN d /\ d[name].status = "Destroyed"
       THEN /\ d' = Drop(d, {name}) /\ k8s' = Drop(k8s, {name}) /\ helm' = Drop(helm, {name})
       ELSE UNCHANGED <<d, k8s, helm>>
    /\ UNCHANGED <<elogs, uisessions, files>>

\* The names of the environments that a loop collects.
Filter(names, P(_)) == {n \in names : P(d[n])}

GetQAEnvironment(name) == DOMAIN d \cap {name}
GetQAEnvironments == DOMAIN d
GetQAEnvironmentsByStatus(status) == Filter(DOMAIN d, LAMBDA e : e.status = status)
GetQAEnvironmentsByRepoAndPR(repo, pr) ==
    Filter(DOMAIN d, LAMBDA e : e.data.repo = repo /\ e.data.pull_request = pr)
GetQAEnvironmentsByRepo(repo) == Filter(DOMAIN d, LAMBDA e : e.data.repo = repo)
GetQAEnvironmentBySourceSHA(sha) == Filter(DOMAIN d, LAMBDA e : e.data.source_sha = sha)
GetQAEnvironmentsBySourceBranch(branch) ==
    Filter(DOMAIN d, LAMBDA e : e.data.source_branch = branch)
GetQAEnvironmentsByUser(user) == Filter(DOMAIN d, LAMBDA e : e.data.username = user)
GetExtantQAEnvironments(repo, pr) ==
    Filter(DOMAIN d, LAMBDA e : /\ e.data.repo = repo /\ e.data.pull_request = pr
                                /\ e.status # "Destroyed" /\ e.status # "Failure")

\* sort.Slice with Created.Before: any order of the names without a later one before an
\* earlier one.
SortedByCreated(names) ==
    {s \in [1..Cardinality(names) -> names] :
        /\ \A n \in names : \E i \in DOMAIN s : s[i] = n
        /\ \A i, j \in DOMAIN s : i < j => ~(d[s[j]].created < d[s[i]].created)}

GetRunningQAEnvironments ==
    SortedByCreated(GetQAEnvironmentsByStatus("Success") \cup
                    GetQAEnvironmentsByStatus("Spawned") \cup
                    GetQAEnvironmentsByStatus("Updating"))

\* The n youngest, however old they are.
GetMostRecent(n) ==
    {S \in SUBSET DOMAIN d :
        /\ Cardinality(S) = IF n > Cardinality(DOMAIN d) THEN Cardinality(DOMAIN d) ELSE n
        /\ \A a \in S, b \in DOMAIN d \ S : d[b].created <= d[a].created}

\* The filters one after the other, as far as they are given.
Search(opts, now) ==
    LET Keep(given, names, P(_)) == {n \in names : given => P(d[n])}
        s1 == Keep(opts.Pr # NULL, DOMAIN d,
                   LAMBDA e : e.data.pull_request = opts.Pr /\ e.data.repo = opts.Repo)
        s2 == Keep(opts.Repo # NULL, s1, LAMBDA e : e.data.repo = opts.Repo)
        s3 == Keep(opts.Repos # {}, s2, LAMBDA e : \E r \in opts.Repos : e.data.repo = r)
        s4 == Keep(opts.SourceSHA # NULL, s3, LAMBDA e : e.data.source_sha = opts.SourceSHA)
        s5 == Keep(opts.SourceBranch # NULL, s4,
                   LAMBDA e : e.data.source_branch = opts.SourceBranch)
        s6 == Keep(opts.User # NULL, s5, LAMBDA e : e.data.username = opts.User)
        s7 == Keep(opts.Status # NULL, s6, LAMBDA e : e.status = opts.Status)
        s8 == Keep(opts.Statuses # {}, s7, LAMBDA e : \E s \in opts.Statuses : e.status = s)
        s9 == Keep(opts.CreatedSince # NULL, s8,
                   LAMBDA e : e.created > now - opts.CreatedSince)
    IN  IF \/ (opts.Pr # NULL \/ opts.TrackingRef # NULL) /\ opts.Repo = NULL
           \/ opts.Repo # NULL /\ opts.Repos # {}
           \/ opts.Status # NULL /\ opts.Statuses # {}
        THEN NULL
        ELSE Keep(opts.TrackingRef # NULL, s9,
                  LAMBDA e : e.data.source_ref = opts.TrackingRef)

----------------------------------------------------------------------------
(* Rows and releases.                                                       *)

CreateK8sEnv(name, row) ==
    /\ k8s' = IF name \in DOMAIN d THEN Put(k8s, name, row) ELSE k8s
    /\ OnlyK8s

DeleteK8sEnv(name) == k8s' = Drop(k8s, {name}) /\ OnlyK8s

UpdateK8sEnvTillerAddr(name, taddr) ==
    k8s' = PutField(k8s, name, "tiller_addr", taddr) /\ OnlyK8s

UpdateK8sEnvConfigSignature(name, signature) ==
    /\ k8s' = PutField(k8s, name, "config_signature", signature)
    /\ OnlyK8s

GetK8sEnv(name) == IF name \in DOMAIN k8s THEN k8s[name] ELSE NULL
GetK8sEnvsByNamespace(ns) == {n \in DOMAIN k8s : k8s[n].namespace = ns}

GetHelmReleasesForEnv(name) == IF name \in DOMAIN helm THEN helm[name] ELSE <<>>

\* The slice replaces the one that is there.
CreateHelmReleasesForEnv(name, releases) ==
    /\ helm' = IF name \in DOMAIN d /\ releases # <<>> THEN Put(helm, name, releases) ELSE helm
    /\ OnlyHelm

UpdateHelmReleaseRevision(name, release, revision) ==
    /\ helm' = IF name \in DOMAIN helm
               THEN Put(helm, name,
                        [i \in DOMAIN helm[name] |->
                            IF helm[name][i].release = release
                            THEN [helm[name][i] EXCEPT !.revision_sha = revision]
                            ELSE helm[name][i]])
               ELSE helm
    /\ OnlyHelm

DeleteHelmReleasesForEnv(name) ==
    helm' = Drop(helm, {name}) /\ OnlyHelm

----------------------------------------------------------------------------
(* Event logs, with an empty status from the start.                         *)

EmptyStatus == [status |-> NULL, k8s_ns |-> NULL, rendered_status |-> NULL,
                ref_map |-> NULL, tree |-> <<>>]

CreateEventLog(id, delivery, repo, pr) ==
    /\ elogs' = Put(elogs, id, [env_name |-> NULL, delivery |-> delivery, repo |-> repo,
                                pull_request |-> pr, log |-> <<>>, status |-> EmptyStatus])
    /\ OnlyLogs

AppendToEventLog(id, line) ==
    /\ elogs' = IF id \in DOMAIN elogs
                THEN PutField(elogs, id, "log", Append(elogs[id].log, line)) ELSE elogs
    /\ OnlyLogs

SetEventLogEnvName(id, name) ==
    elogs' = PutField(elogs, id, "env_name", name) /\ OnlyLogs

LogsWith(P(_)) == {i \in DOMAIN elogs : P(elogs[i])}

GetEventLogByID(id) == DOMAIN elogs \cap {id}
\* One of these; the zero value when there is none.
GetEventLogByDeliveryID(delivery) == LogsWith(LAMBDA e : e.delivery = delivery)
GetEventLogsByEnvName(name) == LogsWith(LAMBDA e : e.env_name = name)
GetEventLogsWithStatusByEnvName(name) == GetEventLogsByEnvName(name)
GetEventLogsByRepoAndPR(repo, pr) == LogsWith(LAMBDA e : e.repo = repo /\ e.pull_request = pr)

DeleteEventLog(id) == elogs' = Drop(elogs, {id}) /\ OnlyLogs
DeleteEventLogsByEnvName(name) ==
    elogs' = Drop(elogs, GetEventLogsByEnvName(name)) /\ OnlyLogs
DeleteEventLogsByRepoAndPR(repo, pr) ==
    /\ elogs' = Drop(elogs, GetEventLogsByRepoAndPR(repo, pr))
    /\ OnlyLogs

GetEventStatus(id) == IF id \in DOMAIN elogs THEN elogs[id].status ELSE NULL

SetEventStatus(id, document) ==
    elogs' = PutField(elogs, id, "status", document) /\ OnlyLogs

SetStatusField(id, field, value) ==
    /\ elogs' = IF id \in DOMAIN elogs
                THEN PutField(elogs, id, "status", [elogs[id].status EXCEPT ![field] = value])
                ELSE elogs
    /\ OnlyLogs

SetEventStatusConfig(id, map) == SetStatusField(id, "ref_map", map)
SetEventStatusConfigK8sNS(id, ns) == SetStatusField(id, "k8s_ns", ns)
SetEventStatusRenderedStatus(id, rendered) == SetStatusField(id, "rendered_status", rendered)
SetEventStatusTree(id, tree) == SetStatusField(id, "tree", tree)
SetEventStatusCompleted(id, status) == SetStatusField(id, "status", status)
SetEventStatusFailed(id) == SetStatusField(id, "status", "failed")

\* tn, ok := Tree[node]; tn.part = value; Tree[node] = tn: an error without the node.
SetTreeNode(id, node, part, value) ==
    /\ elogs' = IF id \in DOMAIN elogs /\ node \in DOMAIN elogs[id].status.tree
                THEN PutField(elogs, id, "status",
                        [elogs[id].status EXCEPT
                            !.tree = PutField(@, node, part, value)])
                ELSE elogs
    /\ OnlyLogs

SetEventStatusImageStarted(id, node) == SetTreeNode(id, node, "image", "started")
SetEventStatusImageCompleted(id, node, err) ==
    SetTreeNode(id, node, "image", IF err THEN "failed" ELSE "built")
SetEventStatusChartStarted(id, node, status) == SetTreeNode(id, node, "chart", status)
SetEventStatusChartCompleted(id, node, status) == SetTreeNode(id, node, "chart", status)

----------------------------------------------------------------------------
(* Sessions of the user interface: the next id is the number of sessions.   *)

CreateUISession(route, state, expires) ==
    /\ uisessions' = Put(uisessions, Cardinality(DOMAIN uisessions) + 1,
          [target_route |-> route, state |-> state, expires |-> expires,
           github_user |-> NULL, authenticated |-> FALSE, token |-> NULL])
    /\ OnlySessions

UpdateUISession(id, user, token, authenticated) ==
    /\ uisessions' =
          IF id \in DOMAIN uisessions
          THEN Put(uisessions, id,
                   [uisessions[id] EXCEPT !.github_user = user, !.token = token,
                                          !.authenticated = authenticated])
          ELSE uisessions
    /\ OnlySessions

DeleteUISession(id) == uisessions' = Drop(uisessions, {id}) /\ OnlySessions

GetUISession(id) == IF id \in DOMAIN uisessions THEN uisessions[id] ELSE NULL

DeleteExpiredUISessions(now) ==
    /\ uisessions' = Drop(uisessions, {i \in DOMAIN uisessions : uisessions[i].expires < now})
    /\ OnlySessions

----------------------------------------------------------------------------
(* Between two processes of `acyl config test': each file is truncated and  *)
(* then written, in this order, and sessions are not saved.  What JSON does *)
(* to the values of these columns is nothing.                               *)

\* Broken variant: the records are written last.
SaveRecordsLast(written, torn) ==
    /\ files' = [i \in 1..4 |-> IF (IF i = 1 THEN 4 ELSE i - 1) <= written
                                THEN <<d, helm, k8s, elogs>>[i] ELSE files[i]]
    /\ UNCHANGED data

\* A Save that ends, by an error or with the process, after `written' files, and with
\* the next one truncated or not.
Save(written, torn) ==
    /\ files' = [i \in 1..4 |-> IF i <= written THEN <<d, helm, k8s, elogs>>[i]
                                ELSE IF torn /\ i = written + 1 THEN Torn ELSE files[i]]
    /\ UNCHANGED data

\* The layer of a new process: empty when there are no files, otherwise what Load finds
\* in them.  With a file missing or torn the command ends at once.
Load ==
    /\ \/ /\ \A i \in 1..4 : files[i] = NULL
          /\ d' = <<>> /\ helm' = <<>> /\ k8s' = <<>> /\ elogs' = <<>>
       \/ /\ \A i \in 1..4 : files[i] \notin {NULL, Torn}
          /\ d' = files[1] /\ helm' = files[2] /\ k8s' = files[3] /\ elogs' = files[4]
    /\ uisessions' = <<>> /\ UNCHANGED files
=============================================================================
