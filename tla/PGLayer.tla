------------------------------ MODULE PGLayer ------------------------------
(***************************************************************************)
(* The data layer of the server: the tables of Postgres and the statements  *)
(* of PGLayer on them (pkg/persistence/{pg,k8s_envs,helm,eventlogs,         *)
(* uisessions}.go, with the keys of migrations/).                           *)
(*                                                                          *)
(* Each write is one statement or one transaction, and so one action here;  *)
(* SetQAEnvironmentStatus is two statements, and atomic here.  A write that *)
(* Postgres refuses, or a filter that no row satisfies, changes nothing.    *)
(* The queries are operators on the tables.  A table is a function from the *)
(* primary key to the row.  Of repository data, the columns that the        *)
(* queries select by are kept; messages are kept without their times.       *)
(***************************************************************************)
EXTENDS Naturals, Sequences, FiniteSets

CONSTANT NULL

VARIABLES
    qa_environments, kubernetes_environments, helm_releases, event_logs, ui_sessions,
    sequence     \* the sequence of ui_sessions.id

tables == <<qa_environments, kubernetes_environments, helm_releases, event_logs,
            ui_sessions, sequence>>

Init ==
    /\ qa_environments = <<>> /\ kubernetes_environments = <<>>
    /\ helm_releases = <<>> /\ event_logs = <<>> /\ ui_sessions = <<>>
    /\ sequence = 0

OnlyEnvironments == UNCHANGED <<kubernetes_environments, helm_releases, event_logs,
                                ui_sessions, sequence>>
OnlyK8s == UNCHANGED <<qa_environments, helm_releases, event_logs, ui_sessions, sequence>>
OnlyReleases == UNCHANGED <<qa_environments, kubernetes_environments, event_logs,
                            ui_sessions, sequence>>
OnlyLogs == UNCHANGED <<qa_environments, kubernetes_environments, helm_releases,
                        ui_sessions, sequence>>
OnlySessions == UNCHANGED <<qa_environments, kubernetes_environments, helm_releases,
                            event_logs>>

\* INSERT INTO table, refused when the primary key is taken.
Insert(table, key, row) ==
    IF key \in DOMAIN table THEN table
    ELSE [k \in DOMAIN table \cup {key} |-> IF k = key THEN row ELSE table[k]]

\* UPDATE table SET column = value WHERE the primary key is key.
Update(table, key, column, value) ==
    [k \in DOMAIN table |->
        IF k = key THEN [table[k] EXCEPT ![column] = value] ELSE table[k]]

\* DELETE FROM table WHERE the primary key is in keys.
Delete(table, keys) == [k \in DOMAIN table \ keys |-> table[k]]

----------------------------------------------------------------------------
(* qa_environments.  `marks' are the messages that PGLayer itself puts in   *)
(* raw_events, `raw_events' those of AddEvent.                              *)

CreateQAEnvironment(name, data, created) ==
    /\ qa_environments' = Insert(qa_environments, name,
          [status |-> "Spawned", data |-> data, created |-> created,
           ref_map |-> NULL, commit_sha_map |-> NULL, amino_service_to_port |-> NULL,
           amino_kubernetes_namespace |-> NULL, amino_environment_id |-> NULL,
           raw_events |-> {}, marks |-> {"spawned"}, event_ids |-> {}])
    /\ OnlyEnvironments

SetColumn(name, column, value) ==
    qa_environments' = Update(qa_environments, name, column, value) /\ OnlyEnvironments

SetQAEnvironmentStatus(name, status) ==
    /\ qa_environments' =
          [n \in DOMAIN qa_environments |->
              IF n = name THEN [qa_environments[n] EXCEPT !.status = status,
                                                          !.marks = @ \cup {status}]
              ELSE qa_environments[n]]
    /\ OnlyEnvironments

\* All of the repository data but source_ref.
SetQAEnvironmentRepoData(name, data) ==
    /\ qa_environments' =
          [n \in DOMAIN qa_environments |->
              IF n = name
              THEN [qa_environments[n] EXCEPT
                      !.data = [data EXCEPT !.source_ref =
                                    qa_environments[n].data.source_ref]]
              ELSE qa_environments[n]]
    /\ OnlyEnvironments

SetQAEnvironmentRefMap(name, map) == SetColumn(name, "ref_map", map)
SetQAEnvironmentCommitSHAMap(name, map) == SetColumn(name, "commit_sha_map", map)
SetQAEnvironmentCreated(name, created) == SetColumn(name, "created", created)
SetAminoEnvironmentID(name, did) == SetColumn(name, "amino_environment_id", did)
SetAminoServiceToPort(name, ports) == SetColumn(name, "amino_service_to_port", ports)
SetAminoKubernetesNamespace(name, ns) == SetColumn(name, "amino_kubernetes_namespace", ns)

AddEvent(name, message) ==
    /\ qa_environments' =
          [n \in DOMAIN qa_environments |->
              IF n = name THEN [qa_environments[n] EXCEPT !.raw_events = @ \cup {message}]
              ELSE qa_environments[n]]
    /\ OnlyEnvironments

IsDestroyed(name) ==
    name \in DOMAIN qa_environments /\ qa_environments[name].status = "Destroyed"

\* One transaction: the rows and releases go with the record, and nothing goes when
\* the record is not Destroyed.
DeleteQAEnvironment(name) ==
    /\ IF IsDestroyed(name)
       THEN /\ kubernetes_environments' = Delete(kubernetes_environments, {name})
            /\ helm_releases' = Delete(helm_releases, {name})
            /\ qa_environments' = Delete(qa_environments, {name})
       ELSE UNCHANGED <<kubernetes_environments, helm_releases, qa_environments>>
    /\ UNCHANGED <<event_logs, ui_sessions, sequence>>

\* The names of the rows of a SELECT.
Select(P(_)) == {n \in DOMAIN qa_environments : P(qa_environments[n])}

GetQAEnvironment(name) == Select(LAMBDA r : TRUE) \cap {name}
GetQAEnvironments == Select(LAMBDA r : TRUE)
GetQAEnvironmentsByStatus(status) == Select(LAMBDA r : r.status = status)
GetQAEnvironmentsByRepoAndPR(repo, pr) ==
    Select(LAMBDA r : r.data.repo = repo /\ r.data.pull_request = pr)
GetQAEnvironmentsByRepo(repo) == Select(LAMBDA r : r.data.repo = repo)
\* The query returns the first row, whichever that is.
GetQAEnvironmentBySourceSHA(sha) == Select(LAMBDA r : r.data.source_sha = sha)
GetQAEnvironmentsBySourceBranch(branch) == Select(LAMBDA r : r.data.source_branch = branch)
GetQAEnvironmentsByUser(user) == Select(LAMBDA r : r.data.username = user)
GetExtantQAEnvironments(repo, pr) ==
    Select(LAMBDA r : /\ r.data.repo = repo /\ r.data.pull_request = pr
                      /\ r.status # "Destroyed" /\ r.status # "Failure")

\* The names in ascending order of creation, in any order that does not contradict it.
InOrderOfCreation(names) ==
    {s \in [1..Cardinality(names) -> names] :
        \A i, j \in 1..Cardinality(names) :
            i < j => /\ s[i] # s[j]
                     /\ qa_environments[s[i]].created <= qa_environments[s[j]].created}

GetRunningQAEnvironments ==
    InOrderOfCreation(Select(LAMBDA r : \/ r.status = "Spawned"
                                        \/ r.status = "Success"
                                        \/ r.status = "Updating"))

\* Of n days, in the units of the timestamps.
GetMostRecent(n, now) == Select(LAMBDA r : r.created >= now - n)

\* The parameters of a search, with NULL or {} where none is given.
SearchRefused(opts) ==
    \/ opts.Pr # NULL /\ opts.Repo = NULL
    \/ opts.TrackingRef # NULL /\ opts.Repo = NULL
    \/ opts.Repo # NULL /\ opts.Repos # {}
    \/ opts.Status # NULL /\ opts.Statuses # {}

Given(option, value) == option = NULL \/ value = option
GivenSome(options, value) == options = {} \/ value \in options

\* Without any condition the statement ends in WHERE.
NoCondition(opts) ==
    /\ opts.Pr = NULL /\ opts.Repo = NULL /\ opts.Repos = {} /\ opts.SourceSHA = NULL
    /\ opts.SourceBranch = NULL /\ opts.User = NULL /\ opts.Status = NULL
    /\ opts.Statuses = {} /\ opts.CreatedSince = NULL /\ opts.TrackingRef = NULL

Search(opts, now) ==
    IF SearchRefused(opts) \/ NoCondition(opts) THEN NULL
    ELSE Select(LAMBDA r :
            /\ Given(opts.Pr, r.data.pull_request)
            /\ Given(opts.Repo, r.data.repo) /\ GivenSome(opts.Repos, r.data.repo)
            /\ Given(opts.SourceSHA, r.data.source_sha)
            /\ Given(opts.SourceBranch, r.data.source_branch)
            /\ Given(opts.User, r.data.username)
            /\ Given(opts.Status, r.status) /\ GivenSome(opts.Statuses, r.status)
            /\ opts.CreatedSince = NULL \/ r.created >= now - opts.CreatedSince
            /\ Given(opts.TrackingRef, r.data.source_ref))

----------------------------------------------------------------------------
(* kubernetes_environments and helm_releases, which refer to a record.      *)

CreateK8sEnv(name, row) ==
    /\ kubernetes_environments' = IF name \in DOMAIN qa_environments
                                  THEN Insert(kubernetes_environments, name, row)
                                  ELSE kubernetes_environments
    /\ OnlyK8s

DeleteK8sEnv(name) ==
    kubernetes_environments' = Delete(kubernetes_environments, {name}) /\ OnlyK8s

UpdateK8sEnvTillerAddr(name, taddr) ==
    /\ kubernetes_environments' = Update(kubernetes_environments, name, "tiller_addr", taddr)
    /\ OnlyK8s

UpdateK8sEnvConfigSignature(name, signature) ==
    /\ kubernetes_environments' =
          Update(kubernetes_environments, name, "config_signature", signature)
    /\ OnlyK8s

GetK8sEnv(name) ==
    IF name \in DOMAIN kubernetes_environments THEN kubernetes_environments[name] ELSE NULL

GetK8sEnvsByNamespace(ns) ==
    {n \in DOMAIN kubernetes_environments : kubernetes_environments[n].namespace = ns}

\* The releases of an environment.
GetHelmReleasesForEnv(name) ==
    IF name \in DOMAIN helm_releases THEN helm_releases[name] ELSE <<>>

\* The rows are added to those that are there.
CreateHelmReleasesForEnv(name, releases) ==
    /\ helm_releases' =
          IF name \in DOMAIN qa_environments
          THEN [n \in DOMAIN helm_releases \cup {name} |->
                   IF n = name THEN GetHelmReleasesForEnv(name) \o releases
                   ELSE helm_releases[n]]
          ELSE helm_releases
    /\ OnlyReleases

UpdateHelmReleaseRevision(name, release, revision) ==
    /\ helm_releases' =
          [n \in DOMAIN helm_releases |->
              [i \in DOMAIN helm_releases[n] |->
                  IF n = name /\ helm_releases[n][i].release = release
                  THEN [helm_releases[n][i] EXCEPT !.revision_sha = revision]
                  ELSE helm_releases[n][i]]]
    /\ OnlyReleases

DeleteHelmReleasesForEnv(name) == helm_releases' = Delete(helm_releases, {name}) /\ OnlyReleases

----------------------------------------------------------------------------
(* event_logs.  The column status is NULL until SetEventStatus.  jsonb_set  *)
(* and || are strict: on NULL, or through a node that the tree does not     *)
(* have, they make the column NULL.  `completed' is set with the status.    *)

CreateEventLog(id, delivery, repo, pr) ==
    /\ event_logs' = Insert(event_logs, id,
          [env_name |-> NULL, delivery |-> delivery, repo |-> repo, pull_request |-> pr,
           log |-> <<>>, status |-> NULL])
    /\ OnlyLogs

AppendToEventLog(id, line) ==
    /\ event_logs' = [i \in DOMAIN event_logs |->
                         IF i = id THEN [event_logs[i] EXCEPT !.log = Append(@, line)]
                         ELSE event_logs[i]]
    /\ OnlyLogs

\* One transaction: the log gets the name of the environment, and the environment one
\* more event.
SetEventLogEnvName(id, name) ==
    /\ event_logs' = Update(event_logs, id, "env_name", name)
    /\ qa_environments' =
          [n \in DOMAIN qa_environments |->
              IF n = name THEN [qa_environments[n] EXCEPT !.event_ids = @ \cup {id}]
              ELSE qa_environments[n]]
    /\ UNCHANGED <<kubernetes_environments, helm_releases, ui_sessions, sequence>>

\* The ids of the logs that a WHERE clause selects.
LogsWhere(P(_)) == {i \in DOMAIN event_logs : P(event_logs[i])}

GetEventLogByID(id) == LogsWhere(LAMBDA r : TRUE) \cap {id}
GetEventLogByDeliveryID(delivery) == LogsWhere(LAMBDA r : r.delivery = delivery)
\* By the ids that the record of the environment has.
GetEventLogsByEnvName(name) ==
    IF name \in DOMAIN qa_environments
    THEN qa_environments[name].event_ids \cap DOMAIN event_logs ELSE {}
\* By the name that the log has, which is the last one it was given.
GetEventLogsWithStatusByEnvName(name) == LogsWhere(LAMBDA r : r.env_name = name)
GetEventLogsByRepoAndPR(repo, pr) ==
    LogsWhere(LAMBDA r : r.repo = repo /\ r.pull_request = pr)

DeleteEventLog(id) == event_logs' = Delete(event_logs, {id}) /\ OnlyLogs
DeleteEventLogsByEnvName(name) ==
    event_logs' = Delete(event_logs, GetEventLogsWithStatusByEnvName(name)) /\ OnlyLogs
DeleteEventLogsByRepoAndPR(repo, pr) ==
    event_logs' = Delete(event_logs, GetEventLogsByRepoAndPR(repo, pr)) /\ OnlyLogs

GetEventStatus(id) == IF id \in DOMAIN event_logs THEN event_logs[id].status ELSE NULL

SetEventStatus(id, document) ==
    event_logs' = Update(event_logs, id, "status", document) /\ OnlyLogs

\* jsonb_set of a member of the configuration.
SetConfig(id, member, value) ==
    /\ event_logs' =
          [i \in DOMAIN event_logs |->
              IF i = id /\ event_logs[i].status # NULL
              THEN [event_logs[i] EXCEPT !.status = [@ EXCEPT ![member] = value]]
              ELSE event_logs[i]]
    /\ OnlyLogs

SetEventStatusConfig(id, map) == SetConfig(id, "ref_map", map)
SetEventStatusConfigK8sNS(id, ns) == SetConfig(id, "k8s_ns", ns)
SetEventStatusRenderedStatus(id, rendered) == SetConfig(id, "rendered_status", rendered)
SetEventStatusTree(id, tree) == SetConfig(id, "tree", tree)
SetEventStatusCompleted(id, status) == SetConfig(id, "status", status)
SetEventStatusFailed(id) == SetConfig(id, "status", "failed")

\* jsonb_set of the image or the chart of a node of the tree.
WithNode(document, node, part, value) ==
    IF node \in DOMAIN document.tree THEN [document EXCEPT !.tree[node][part] = value] ELSE NULL

SetNode(id, node, part, value) ==
    /\ event_logs' =
          [i \in DOMAIN event_logs |->
              IF i = id /\ event_logs[i].status # NULL
              THEN [event_logs[i] EXCEPT !.status = WithNode(@, node, part, value)]
              ELSE event_logs[i]]
    /\ OnlyLogs

SetEventStatusImageStarted(id, node) == SetNode(id, node, "image", "started")
SetEventStatusImageCompleted(id, node, err) ==
    SetNode(id, node, "image", IF err THEN "failed" ELSE "built")
SetEventStatusChartStarted(id, node, status) == SetNode(id, node, "chart", status)
SetEventStatusChartCompleted(id, node, status) == SetNode(id, node, "chart", status)

----------------------------------------------------------------------------
(* ui_sessions, whose ids come from a sequence and are never used again.    *)

CreateUISession(route, state, expires) ==
    /\ sequence' = sequence + 1
    /\ ui_sessions' = Insert(ui_sessions, sequence + 1,
          [target_route |-> route, state |-> state, expires |-> expires,
           github_user |-> NULL, authenticated |-> FALSE, token |-> NULL])
    /\ OnlySessions

UpdateUISession(id, user, token, authenticated) ==
    /\ ui_sessions' =
          [i \in DOMAIN ui_sessions |->
              IF i = id THEN [ui_sessions[i] EXCEPT !.github_user = user, !.token = token,
                                                    !.authenticated = authenticated]
              ELSE ui_sessions[i]]
    /\ OnlySessions /\ UNCHANGED sequence

DeleteUISession(id) ==
    ui_sessions' = Delete(ui_sessions, {id}) /\ OnlySessions /\ UNCHANGED sequence

GetUISession(id) == IF id \in DOMAIN ui_sessions THEN ui_sessions[id] ELSE NULL

DeleteExpiredUISessions(now) ==
    /\ ui_sessions' = Delete(ui_sessions,
                             {i \in DOMAIN ui_sessions : ui_sessions[i].expires < now})
    /\ OnlySessions /\ UNCHANGED sequence
=============================================================================
