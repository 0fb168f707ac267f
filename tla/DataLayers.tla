---------------------------- MODULE DataLayers -----------------------------
(***************************************************************************)
(* The data layer of the server (PGLayer) and the one that its tests and    *)
(* the local commands run on (FakeDataLayer), driven by the same sequence   *)
(* of calls: whatever the calls were, a query has the same answer.          *)
(*                                                                          *)
(* The guards of the calls are what the callers ensure: names of records    *)
(* and ids of logs are new (namegen, uuid), the source_ref of a pull        *)
(* request does not change, a row is inserted when there is none            *)
(* (EnvManager's NoRowConflict), releases after the old ones were deleted,  *)
(* a log gets the name of an environment that has its record, the nodes of  *)
(* a status are those of its tree, and no session is created after one was  *)
(* deleted (the layer in memory would use its id again).                    *)
(***************************************************************************)
EXTENDS Naturals, Sequences, FiniteSets

CONSTANTS
    NULL, Torn,
    Names,      \* of environments
    EventIDs,   \* of event logs
    RepoData,   \* repository data of pull requests
    Statuses,
    Times,      \* of creation and expiry
    Now,
    Values,     \* of the columns that nobody searches by
    Slices,     \* slices of releases
    Searches,   \* parameters of searches
    DayCounts,  \* that GetMostRecent is asked for
    DayLength,  \* in the units of Times
    Trees,      \* of a status
    MaxSessions \* bound: sessions created

Nodes == UNION {DOMAIN t : t \in Trees}

\* Repository data are records, releases sequences, and an environment is never created at
\* the very instant that a search starts from, which the layers do not treat alike.
ASSUME LayersAssumption ==
    /\ NULL \notin Names
    /\ Times \subseteq Nat /\ Now \in Nat /\ DayCounts \subseteq Nat /\ DayLength \in Nat
    /\ \A r \in RepoData : r = [k \in DOMAIN r |-> r[k]]
    /\ \A s \in Slices : s # <<>> /\ s \in Seq({s[i] : i \in DOMAIN s})
    /\ \A o \in Searches : o.CreatedSince # NULL =>
          o.CreatedSince \in Nat /\ Now - o.CreatedSince \notin Times

VARIABLES
    qa_environments, kubernetes_environments, helm_releases, event_logs, ui_sessions,
    sequence, d, helm, k8s, elogs, uisessions, files,
    group       \* the part of the server that this behaviour is about

PG == INSTANCE PGLayer
Fake == INSTANCE FakeDataLayer

tables == <<qa_environments, kubernetes_environments, helm_releases, event_logs,
            ui_sessions, sequence>>
layersVars == <<tables, d, helm, k8s, elogs, uisessions, files, group>>

Groups == {"records", "columns", "rows", "logs", "status", "tree", "sessions", "local"}

LayersInit == PG!Init /\ Fake!Init

----------------------------------------------------------------------------
(* The calls.                                                               *)

\* Bound: the data of environments where it does not matter.
Default == [data |-> CHOOSE r \in RepoData : TRUE, created |-> CHOOSE t \in Times : TRUE]

Create ==
    \E n \in Names, r \in RepoData, t \in Times :
        /\ n \notin DOMAIN d
        /\ group \in {"logs", "rows", "columns"} => r = Default.data /\ t = Default.created
        /\ PG!CreateQAEnvironment(n, r, t) /\ Fake!CreateQAEnvironment(n, r, t)

SetStatus ==
    \E n \in Names, s \in Statuses :
        PG!SetQAEnvironmentStatus(n, s) /\ Fake!SetQAEnvironmentStatus(n, s)

SetRepoData ==
    \E n \in Names, r \in RepoData :
        /\ n \in DOMAIN d => d[n].data.source_ref = r.source_ref
        /\ PG!SetQAEnvironmentRepoData(n, r) /\ Fake!SetQAEnvironmentRepoData(n, r)

SetCreated ==
    \E n \in Names, t \in Times :
        PG!SetQAEnvironmentCreated(n, t) /\ Fake!SetQAEnvironmentCreated(n, t)

DeleteRecord ==
    \E n \in Names : PG!DeleteQAEnvironment(n) /\ Fake!DeleteQAEnvironment(n)

SetColumns ==
    \E n \in Names, v \in Values :
        \/ PG!SetQAEnvironmentRefMap(n, v) /\ Fake!SetQAEnvironmentRefMap(n, v)
        \/ PG!SetQAEnvironmentCommitSHAMap(n, v) /\ Fake!SetQAEnvironmentCommitSHAMap(n, v)
        \/ PG!SetAminoEnvironmentID(n, v) /\ Fake!SetAminoEnvironmentID(n, v)
        \/ PG!SetAminoServiceToPort(n, v) /\ Fake!SetAminoServiceToPort(n, v)
        \/ PG!SetAminoKubernetesNamespace(n, v) /\ Fake!SetAminoKubernetesNamespace(n, v)
        \/ PG!AddEvent(n, v) /\ Fake!AddEvent(n, v)

RowOf(ns) == [namespace |-> ns, tiller_addr |-> NULL, config_signature |-> NULL]

Rows ==
    \E n \in Names, v \in Values :
        \/ /\ n \notin DOMAIN k8s
           /\ PG!CreateK8sEnv(n, RowOf(v)) /\ Fake!CreateK8sEnv(n, RowOf(v))
        \/ PG!UpdateK8sEnvTillerAddr(n, v) /\ Fake!UpdateK8sEnvTillerAddr(n, v)
        \/ PG!UpdateK8sEnvConfigSignature(n, v) /\ Fake!UpdateK8sEnvConfigSignature(n, v)

DeleteRow == \E n \in Names : PG!DeleteK8sEnv(n) /\ Fake!DeleteK8sEnv(n)

Releases ==
    \E n \in Names :
        \/ \E s \in Slices :
              /\ n \notin DOMAIN helm
              /\ PG!CreateHelmReleasesForEnv(n, s) /\ Fake!CreateHelmReleasesForEnv(n, s)
        \/ \E s \in Slices, v \in Values :
              /\ PG!UpdateHelmReleaseRevision(n, s[1].release, v)
              /\ Fake!UpdateHelmReleaseRevision(n, s[1].release, v)
        \/ PG!DeleteHelmReleasesForEnv(n) /\ Fake!DeleteHelmReleasesForEnv(n)

NewLog ==
    \E id \in EventIDs, r \in RepoData :
        /\ id \notin DOMAIN elogs
        /\ group # "logs" => r = Default.data
        /\ PG!CreateEventLog(id, r.source_sha, r.repo, r.pull_request)
        /\ Fake!CreateEventLog(id, r.source_sha, r.repo, r.pull_request)

Logs ==
    \E id \in EventIDs, r \in RepoData :
        \/ /\ id \in DOMAIN elogs => elogs[id].log = <<>>
           /\ PG!AppendToEventLog(id, r.source_sha) /\ Fake!AppendToEventLog(id, r.source_sha)
        \/ PG!DeleteEventLog(id) /\ Fake!DeleteEventLog(id)
        \/ /\ PG!DeleteEventLogsByRepoAndPR(r.repo, r.pull_request)
           /\ Fake!DeleteEventLogsByRepoAndPR(r.repo, r.pull_request)

NameLogs ==
    \E n \in Names :
        \/ \E id \in EventIDs : /\ n \in DOMAIN d
                              /\ PG!SetEventLogEnvName(id, n)
                              /\ Fake!SetEventLogEnvName(id, n)
        \/ PG!DeleteEventLogsByEnvName(n) /\ Fake!DeleteEventLogsByEnvName(n)

NewStatus == [status |-> "pending", k8s_ns |-> NULL, rendered_status |-> NULL,
              ref_map |-> NULL, tree |-> <<>>]

Document ==
    \E id \in EventIDs :
        PG!SetEventStatus(id, NewStatus) /\ Fake!SetEventStatus(id, NewStatus)

Status ==
    \E id \in EventIDs, v \in Values :
        \/ PG!SetEventStatusConfig(id, v) /\ Fake!SetEventStatusConfig(id, v)
        \/ PG!SetEventStatusConfigK8sNS(id, v) /\ Fake!SetEventStatusConfigK8sNS(id, v)
        \/ PG!SetEventStatusRenderedStatus(id, v) /\ Fake!SetEventStatusRenderedStatus(id, v)
        \/ PG!SetEventStatusCompleted(id, "done") /\ Fake!SetEventStatusCompleted(id, "done")
        \/ PG!SetEventStatusFailed(id) /\ Fake!SetEventStatusFailed(id)

Tree ==
    \E id \in EventIDs, t \in Trees :
        PG!SetEventStatusTree(id, t) /\ Fake!SetEventStatusTree(id, t)

NodeStatus ==
    \E id \in EventIDs, n \in Nodes :
        /\ id \in DOMAIN elogs => n \in DOMAIN elogs[id].status.tree
        /\ \/ PG!SetEventStatusImageStarted(id, n) /\ Fake!SetEventStatusImageStarted(id, n)
           \/ \E err \in BOOLEAN : /\ PG!SetEventStatusImageCompleted(id, n, err)
                                   /\ Fake!SetEventStatusImageCompleted(id, n, err)
           \/ /\ PG!SetEventStatusChartStarted(id, n, "installing")
              /\ Fake!SetEventStatusChartStarted(id, n, "installing")
           \/ \E s \in {"done", "failed"} : /\ PG!SetEventStatusChartCompleted(id, n, s)
                                            /\ Fake!SetEventStatusChartCompleted(id, n, s)

Sessions ==
    \/ \E v \in Values, t \in Times :
          /\ sequence < MaxSessions
          /\ DOMAIN uisessions = 1..sequence
          /\ PG!CreateUISession(v, v, t) /\ Fake!CreateUISession(v, v, t)
    \/ \E id \in 1..MaxSessions, v \in Values, b \in BOOLEAN :
          PG!UpdateUISession(id, v, v, b) /\ Fake!UpdateUISession(id, v, v, b)
    \/ \E id \in 1..MaxSessions : PG!DeleteUISession(id) /\ Fake!DeleteUISession(id)
    \/ PG!DeleteExpiredUISessions(Now) /\ Fake!DeleteExpiredUISessions(Now)

\* The local commands: only the layer in memory is there.
Local ==
    /\ \/ \E n \in Names, r \in RepoData, t \in Times :
             n \notin DOMAIN d /\ Fake!CreateQAEnvironment(n, r, t)
       \/ \E n \in Names, v \in Values : Fake!CreateK8sEnv(n, RowOf(v))
       \/ \E n \in Names : Fake!DeleteK8sEnv(n) \/ Fake!DeleteHelmReleasesForEnv(n)
       \/ \E n \in Names, s \in Slices : Fake!CreateHelmReleasesForEnv(n, s)
       \/ \E written \in 0..4, torn \in BOOLEAN : Fake!Save(written, torn)
       \/ Fake!Load
    /\ UNCHANGED tables

LayersNext ==
    /\ \/ group \in {"records", "columns", "rows", "logs"} /\ Create
       \/ group \in {"records", "rows"} /\ (SetStatus \/ DeleteRecord)
       \/ group = "records" /\ (SetRepoData \/ SetCreated)
       \/ group = "columns" /\ SetColumns
       \/ group = "rows" /\ (Rows \/ DeleteRow \/ Releases)
       \/ group \in {"logs", "status", "tree"} /\ NewLog
       \/ group = "logs" /\ (Logs \/ NameLogs)
       \/ group \in {"status", "tree"} /\ Document
       \/ group = "status" /\ Status
       \/ group = "tree" /\ (Tree \/ NodeStatus)
       \/ group = "sessions" /\ Sessions
       \/ group = "local" /\ Local
    /\ UNCHANGED group

----------------------------------------------------------------------------
(* What the tests rely on.                                                  *)

\* The columns that both layers have are equal.
SameRecords ==
    /\ PG!GetQAEnvironments = Fake!GetQAEnvironments
    /\ \A n \in Names : PG!GetQAEnvironment(n) = Fake!GetQAEnvironment(n)
    /\ \A n \in DOMAIN d : \A c \in DOMAIN d[n] : d[n][c] = qa_environments[n][c]

\* The queries find the same environments, in the same order where there is one.
SameSelections ==
    /\ \A s \in Statuses :
          PG!GetQAEnvironmentsByStatus(s) = Fake!GetQAEnvironmentsByStatus(s)
    /\ \A r \in RepoData :
          /\ PG!GetQAEnvironmentsByRepoAndPR(r.repo, r.pull_request)
                = Fake!GetQAEnvironmentsByRepoAndPR(r.repo, r.pull_request)
          /\ PG!GetExtantQAEnvironments(r.repo, r.pull_request)
                = Fake!GetExtantQAEnvironments(r.repo, r.pull_request)
          /\ PG!GetQAEnvironmentsByRepo(r.repo) = Fake!GetQAEnvironmentsByRepo(r.repo)
          /\ PG!GetQAEnvironmentBySourceSHA(r.source_sha)
                = Fake!GetQAEnvironmentBySourceSHA(r.source_sha)
          /\ PG!GetQAEnvironmentsBySourceBranch(r.source_branch)
                = Fake!GetQAEnvironmentsBySourceBranch(r.source_branch)
          /\ PG!GetQAEnvironmentsByUser(r.username)
                = Fake!GetQAEnvironmentsByUser(r.username)
    /\ PG!GetRunningQAEnvironments = Fake!GetRunningQAEnvironments
    /\ \A o \in Searches : ~PG!NoCondition(o) => PG!Search(o, Now) = Fake!Search(o, Now)

\* Two queries differ.  Of n, Postgres takes the environments of the last n days and the
\* layer in memory the n youngest: they agree just when there are n of the last n days, or
\* fewer than n and none older.  A search without a condition, which a request with empty
\* parameters makes, is an error of Postgres and finds everything in memory.
KnownDifferences ==
    /\ \A n \in DayCounts :
          LET recent == PG!GetMostRecent(n * DayLength, Now)
          IN  recent \in Fake!GetMostRecent(n) <=>
                 \/ Cardinality(recent) = n
                 \/ Cardinality(recent) < n /\ recent = DOMAIN d
    /\ \A o \in Searches :
          PG!NoCondition(o) => PG!Search(o, Now) = NULL /\ Fake!Search(o, Now) = DOMAIN d

\* The same of rows and releases.
SameRows ==
    /\ \A n \in Names : /\ PG!GetK8sEnv(n) = Fake!GetK8sEnv(n)
                       /\ PG!GetHelmReleasesForEnv(n) = Fake!GetHelmReleasesForEnv(n)
    /\ \A v \in Values : PG!GetK8sEnvsByNamespace(v) = Fake!GetK8sEnvsByNamespace(v)

\* The same of event logs, but that Postgres also finds the logs that an environment has
\* lost to another one, and that a status is there only once it has been set.
SameLogs ==
    /\ \A id \in EventIDs :
          /\ PG!GetEventLogByID(id) = Fake!GetEventLogByID(id)
          /\ PG!GetEventStatus(id) # NULL => PG!GetEventStatus(id) = Fake!GetEventStatus(id)
    /\ \A id \in DOMAIN elogs : \A c \in DOMAIN elogs[id] \ {"status"} :
          elogs[id][c] = event_logs[id][c]
    /\ \A r \in RepoData :
          /\ PG!GetEventLogByDeliveryID(r.source_sha)
                = Fake!GetEventLogByDeliveryID(r.source_sha)
          /\ PG!GetEventLogsByRepoAndPR(r.repo, r.pull_request)
                = Fake!GetEventLogsByRepoAndPR(r.repo, r.pull_request)
    /\ \A n \in Names :
          /\ PG!GetEventLogsWithStatusByEnvName(n) = Fake!GetEventLogsWithStatusByEnvName(n)
          /\ n \in DOMAIN d => Fake!GetEventLogsByEnvName(n) \subseteq PG!GetEventLogsByEnvName(n)

SameSessions == \A id \in 1..MaxSessions : PG!GetUISession(id) = Fake!GetUISession(id)

\* Tests with the layer in memory see what the server would see with Postgres: after any
\* calls that the callers can make, every query that the code uses answers the same, but
\* for GetMostRecent and a search without a condition, which differ as described.
AnswersAgree ==
    group \in Groups \ {"local"} =>
        /\ SameRecords /\ SameRows /\ SameLogs /\ SameSessions
        /\ group = "records" => SameSelections /\ KnownDifferences

\* What the foreign keys ensure in Postgres holds in memory too, also after a local
\* command that was killed while it saved its state: a row or a release has its record,
\* so that a later command can find the namespace.
RowsHaveRecords ==
    /\ DOMAIN k8s \cup DOMAIN helm \subseteq DOMAIN d
    /\ DOMAIN kubernetes_environments \cup DOMAIN helm_releases \subseteq DOMAIN qa_environments

\* The layer in memory stands in for Postgres: in one process by its answers, across
\* processes by the files it saves.
SameAnswers == AnswersAgree /\ RowsHaveRecords
=============================================================================
