------------------------------- MODULE Server -------------------------------
(***************************************************************************)
(* The parts of the server that meet the operations on environments in the  *)
(* database and in Kubernetes only: the data layer (DataLayers), the login  *)
(* of the user interface (Login), what the API answers (Reads), what starts *)
(* an operation (Intake), the namespaces and bindings that operations leave *)
(* (Cluster), and the end of the process (Shutdown).  They do not wait for  *)
(* each other, so each behaviour is one of a single part.                   *)
(***************************************************************************)
EXTENDS DataLayers

CONSTANTS
    Tabs, Polling, CookieMaxAge, LoginSessions, MaxTime, MaxFailures,   \* of Login
    Webhooks, Destroys, Rebuilds,                                       \* of Shutdown
    Teardowns, DeleteTries, MaxNamespaces, MaxFaults, MaxRestarts,      \* of Cluster
    Events, MaxOthers, MaxErrors,                                       \* of Intake
    User, Databases, Repos, Queries, Histories, Days, ApiNow, MaxChanges \* of Reads

ASSUME LoginAssumption ==
    /\ Tabs # {} /\ Polling \subseteq Tabs
    /\ CookieMaxAge \in Nat /\ LoginSessions \in Nat /\ MaxTime \in Nat /\ MaxFailures \in Nat

\* NULL is neither the id of a session or of a namespace, nor a row.
ASSUME NullAssumption ==
    /\ NULL \notin Nat
    /\ NULL \notin [target_route : Tabs, state : Nat, expires : Nat,
                    github_user : {NULL, "user"}, authenticated : BOOLEAN,
                    token : {NULL, "token"}]
    /\ NULL \notin [namespace : Nat, privileged : BOOLEAN]

\* Events that are not of a pull request have no head commit.
ASSUME IntakeAssumption ==
    /\ \A e \in Events : e.sha => e.type = "pull_request"
    /\ \A e \in Events : e.acyl \in {"found", "missing", "malformed"}
    /\ NULL \notin {"create", "update", "destroy", "pull_request"}
    /\ NULL \notin {200, 202, 400, 403, 500}
    /\ NULL \notin [delivery : {e.delivery : e \in Events} \cup {NULL}, stub : BOOLEAN]

\* A parameter that is given has a value.
ASSUME QueriesAssumption ==
    /\ \A q \in Queries : \A p \in DOMAIN q : q[p] # <<>> /\ q[p][1] # NULL
    /\ \A days \in Days : days > 0 => days \in Nat
    /\ NULL # "pending"

VARIABLES
    cookie, pc, sid, own, doomed, failures, now,                        \* of Login
    req, op, stopped, waited, counted,                                  \* of Shutdown
    status, row, namespaces, tillers, crb, whitelisted, step, ns, old, tear, job,
    disturbed, leaked, interrupted, created, faults, restarts,          \* of Cluster
    event, at, log, started, answer, outages, env, asked, lock, others, \* of Intake
    query, replies, perms, living, listed, page, events, moved, changes, errors \* of Reads

UI == INSTANCE Login WITH MaxSessions <- LoginSessions
Main == INSTANCE Shutdown
Kube == INSTANCE Cluster
Hooks == INSTANCE Intake
Api == INSTANCE Reads WITH Now <- ApiNow

\* A row has its record, which is a foreign key, and a record the event that created it.
ASSUME DatabasesAssumption ==
    \A db \in Databases :
        /\ DOMAIN db.kubernetes_environments \subseteq DOMAIN db.qa_environments
        /\ \A names \in SUBSET DOMAIN db.qa_environments : names # NULL
        /\ \A n \in DOMAIN db.qa_environments :
              /\ {"status", "data"} \subseteq DOMAIN db.qa_environments[n]
              /\ db.qa_environments[n].data.repo \in Repos
              /\ db.qa_environments[n].status
                    \in {"Spawned", "Success", "Failure", "Destroyed", "Updating"}
              /\ \E id \in DOMAIN db.event_logs : db.event_logs[id].env_name = n
        /\ \A id \in DOMAIN db.event_logs :
              /\ "status" \in DOMAIN db.event_logs[id]
              /\ db.event_logs[id].status # NULL => Api!Shown(db.event_logs[id].status) # NULL

memory == <<d, helm, k8s, elogs, uisessions, files>>
browserVars == <<cookie, pc, sid, own, doomed, failures, now>>
processVars == <<req, op, stopped, waited, counted>>
clusterVars == <<status, row, namespaces, tillers, crb, whitelisted, step, ns, old, tear, job,
                 disturbed, leaked, interrupted, created, faults, restarts>>
eventVars == <<event, at, log, started, answer, outages>>
rebuildVars == <<env, asked, lock, others>>
searchVars == <<query, replies>>
pageVars == <<perms, living, listed, page, events, moved, changes, errors>>
vars == <<tables, memory, group, browserVars, processVars, clusterVars, eventVars, rebuildVars,
          searchVars, pageVars>>

SomeEvent == CHOOSE e \in Events : TRUE

\* What varies initially in one part has one value in the behaviours of the others.
Init ==
    /\ \/ /\ LayersInit
          /\ group \in Groups \cup {"login", "shutdown", "cluster", "events", "rebuild"}
       \/ Api!DatabaseInit /\ Fake!Init /\ group \in {"search", "pages"}
    /\ UI!BrowserInit /\ Main!ServerInit
    /\ Kube!ClusterInit /\ (group # "cluster" => ~whitelisted)
    /\ Hooks!IntakeInit /\ (group # "events" => event = SomeEvent)
    /\ Hooks!RebuildInit
    /\ Api!RequestsInit /\ (group # "pages" => perms = [r \in Repos |-> "pull"])

Next ==
    \/ /\ LayersNext
       /\ UNCHANGED <<browserVars, processVars, clusterVars, eventVars, rebuildVars, searchVars,
                      pageVars>>
    \/ /\ group = "login" /\ UI!LoginNext
       /\ UNCHANGED <<memory, group, processVars, clusterVars, eventVars, rebuildVars,
                      searchVars, pageVars>>
    \/ /\ group = "shutdown" /\ Main!ServerNext
       /\ UNCHANGED <<tables, memory, group, browserVars, clusterVars, eventVars, rebuildVars,
                      searchVars, pageVars>>
    \/ /\ group = "cluster" /\ Kube!ClusterNext
       /\ UNCHANGED <<tables, memory, group, browserVars, processVars, eventVars, rebuildVars,
                      searchVars, pageVars>>
    \/ /\ group = "events" /\ Hooks!IntakeNext
       /\ UNCHANGED <<tables, memory, group, browserVars, processVars, clusterVars, rebuildVars,
                      searchVars, pageVars>>
    \/ /\ group = "rebuild" /\ Hooks!RebuildNext
       /\ UNCHANGED <<tables, memory, group, browserVars, processVars, clusterVars, eventVars,
                      searchVars, pageVars>>
    \/ /\ \/ group = "search" /\ Api!SearchEnvs
          \/ group = "pages" /\ Api!PagesNext
       /\ UNCHANGED <<memory, group, browserVars, processVars, clusterVars, eventVars,
                      rebuildVars>>

Spec == Init /\ [][Next]_vars

\* Of a browser whose tabs log in, not all logins fail for what the other tabs did.
NotAllRejected == UI!NotAllRejected

\* The process does not end under an operation that main waits for.
OperationsFinish == Main!OperationsFinish

\* No binding of a privileged environment is forgotten, missing, or in the way.
BindingsAccountedFor == Kube!BindingsAccountedFor

\* Both routes of GitHub start what the event asks for, and answer accordingly; a full
\* rebuild gives the user another namespace.
RequestsKept == Hooks!RequestsKept

\* The versions of the API, its lists and the pages of the interface do not contradict
\* each other.
ReadsAgree == group \in {"search", "pages"} => Api!ReadsAgree
=============================================================================
