------------------------------- MODULE Reads -------------------------------
(***************************************************************************)
(* What the HTTP API answers to those who only ask: the searches and lists  *)
(* of its three versions (pkg/api/api_v{0,1,2}.go), and the calls and the   *)
(* page of the user interface about one environment or one event, which     *)
(* look at the database, at GitHub and at Kubernetes one after the other    *)
(* while operations go on.                                                  *)
(*                                                                          *)
(* The requests have a valid API key, or an authenticated session of User.  *)
(* The request for a rebuild is here up to the point where it is accepted.  *)
(* Times are in half hours.  Of an environment in a response its name is    *)
(* kept, of an event its id.  A query is a function from the names of its   *)
(* parameters to the sequences of their values.                             *)
(***************************************************************************)
EXTENDS PGLayer

CONSTANTS
    User,
    Databases,   \* initial tables: environments, rows, event logs
    Repos,
    Queries, Histories, Days,
    Now,
    MaxChanges,  \* bound: what operations and GitHub change
    MaxErrors    \* bound: failing calls of GitHub and Kubernetes

VARIABLES
    query,    \* of a search
    replies,  \* of each version, to that search
    perms,    \* of User on GitHub, by repository
    living,   \* namespaces that are there, and the state of the pod in each
    listed,   \* the environments on the list in the interface: all that User may see
    page,     \* a request about one environment or event: its step and what it has read
    events,   \* the events that the latest details have listed
    moved,    \* since the list: permissions or records
    changes, errors

searchVars == <<query, replies>>
pageVars == <<perms, living, listed, page, events, moved, changes, errors>>

Permissions == {"none", "pull", "push"}
Pods == {"running", "pending"}
Versions == {"v0", "v1", "v2"}

\* linked: there was a link to it; offered: its page has offered a rebuild; blamed: a call
\* of GitHub or Kubernetes or a parameter was at fault.
Idle == [kind |-> NULL, name |-> NULL, at |-> "none", repo |-> NULL, row |-> NULL, code |-> 0,
         linked |-> FALSE, offered |-> FALSE, blamed |-> FALSE]

DatabaseInit ==
    /\ \E db \in Databases :
          /\ qa_environments = db.qa_environments
          /\ kubernetes_environments = db.kubernetes_environments
          /\ event_logs = db.event_logs
    /\ helm_releases = <<>> /\ ui_sessions = <<>> /\ sequence = 0

RequestsInit ==
    /\ query = NULL /\ replies = NULL
    /\ perms \in [Repos -> Permissions]
    /\ living = [ns \in {kubernetes_environments[n].namespace :
                            n \in DOMAIN kubernetes_environments} |-> "running"]
    /\ listed = {} /\ page = Idle /\ events = {}
    /\ moved = FALSE /\ changes = 0 /\ errors = 0

----------------------------------------------------------------------------
(* Searches.                                                                *)

NoOptions == [Pr |-> NULL, Repo |-> NULL, Repos |-> {}, SourceSHA |-> NULL,
              SourceBranch |-> NULL, User |-> NULL, Status |-> NULL, Statuses |-> {},
              CreatedSince |-> NULL, TrackingRef |-> NULL]
Find(opts) == Search(opts, Now)

\* EnvironmentStatusFromString, which does not look at the case.
StatusOf(text) ==
    CASE text \in {"spawned", "Spawned"} -> "Spawned"
      [] text \in {"success", "Success"} -> "Success"
      [] text \in {"failure", "Failure"} -> "Failure"
      [] text \in {"destroyed", "Destroyed"} -> "Destroyed"
      [] text \in {"updating", "Updating"} -> "Updating"
      [] OTHER -> NULL

\* strconv.Atoi, of a number from 1.
NumberOf(text) == IF text = "1" THEN 1 ELSE NULL

Has(q, parameter) == parameter \in DOMAIN q

\* Broken variant: the number of a pull request is enough.
BadParametersButPR(v, q) ==
    \/ Has(q, "status") /\ q["status"][1] = "destroyed" /\ Cardinality(DOMAIN q) = 1
    \/ v = "v2" /\ Has(q, "tracking_ref") /\ ~Has(q, "repo")
    \/ DOMAIN q = {}

\* The parameters before their values; the destroyed environments are too many to be
\* listed alone, if they are asked for in small letters.
BadParameters(v, q) ==
    \/ Has(q, "pr") /\ ~Has(q, "repo")
    \/ Has(q, "status") /\ q["status"][1] = "destroyed" /\ Cardinality(DOMAIN q) = 1
    \/ v = "v2" /\ Has(q, "tracking_ref") /\ ~Has(q, "repo")
    \/ DOMAIN q = {}

BadValues(q) ==
    \/ \E p \in DOMAIN q : Len(q[p]) # 1
    \/ Has(q, "pr") /\ NumberOf(q["pr"][1]) = NULL
    \/ Has(q, "status") /\ StatusOf(q["status"][1]) = NULL

\* An empty value is none; a parameter that the version does not know is ignored.
Value(q, parameter) ==
    IF Has(q, parameter) /\ q[parameter][1] # "" THEN q[parameter][1] ELSE NULL

OptionsOf(v, q) ==
    [NoOptions EXCEPT
        !.Pr = IF Has(q, "pr") THEN NumberOf(q["pr"][1]) ELSE NULL,
        !.Repo = Value(q, "repo"),
        !.SourceSHA = Value(q, "source_sha"),
        !.SourceBranch = Value(q, "source_branch"),
        !.User = Value(q, "user"),
        !.Status = IF Has(q, "status") THEN StatusOf(q["status"][1]) ELSE NULL,
        !.TrackingRef = IF v = "v2" THEN Value(q, "tracking_ref") ELSE NULL]

\* When the data layer refuses, an empty list follows the error.
SearchReply(v, q) ==
    IF BadParameters(v, q) \/ BadValues(q) THEN [code |-> 400, body |-> {}]
    ELSE LET found == Find(OptionsOf(v, q))
         IN  IF found = NULL THEN [code |-> 500, body |-> {}]
             ELSE [code |-> 200, body |-> found]

SearchEnvs ==
    /\ query = NULL
    /\ \E q \in Queries :
          query' = q /\ replies' = [v \in Versions |-> SearchReply(v, q)]
    /\ UNCHANGED <<tables, pageVars>>

----------------------------------------------------------------------------
(* Lists.                                                                   *)

Day == 48

\* The old list has all names; the recent ones are without the destroyed unless these
\* are asked for.
EnvList == GetQAEnvironments
EnvRecent(days, destroyed) ==
    {n \in GetMostRecent(Day * days, Now) :
        destroyed \/ qa_environments[n].status # "Destroyed"}

Visible == {r \in Repos : perms[r] \in {"pull", "push"}}
Writable == {r \in Repos : perms[r] = "push"}

\* The interval is one of whole hours, and none when it is not positive.
Since(history) ==
    LET given == IF history = NULL THEN 7 * Day ELSE history
    IN  IF given > 0 THEN 2 * (given \div 2) ELSE NULL

\* An empty list of repositories is no condition.
UserEnvs(all, history, destroyed) ==
    Find([NoOptions EXCEPT
            !.User = IF all THEN NULL ELSE User,
            !.Repos = IF all THEN Visible ELSE {},
            !.Statuses = {"Success", "Spawned", "Updating", "Failure"}
                            \cup (IF destroyed THEN {"Destroyed"} ELSE {}),
            !.CreatedSince = Since(history)])

ListEnvs ==
    /\ page.at \in {"none", "answered"} /\ page' = Idle
    /\ \E all, destroyed \in BOOLEAN, history \in Histories :
          listed' = IF all /\ Visible # {} THEN UserEnvs(all, history, destroyed) ELSE {}
    /\ moved' = FALSE /\ events' = {}
    /\ UNCHANGED <<tables, searchVars, perms, living, changes, errors>>

----------------------------------------------------------------------------
(* What is asked of one environment.                                        *)

Kinds == {"api", "page", "detail", "pods", "containers", "log", "rebuild"}

Only(steps) == page.at \in steps
Goto(p) == page' = p
OnlyPage == UNCHANGED <<tables, searchVars, perms, living, listed, moved, changes, events, errors>>

Answered(code) == Goto([page EXCEPT !.at = "answered", !.code = code])

Open(kind, name) ==
    /\ Only({"none", "answered"})
    /\ LET again == page.name = name
       IN  Goto([Idle EXCEPT !.kind = kind, !.name = name, !.at = "record",
                             !.linked = name \in listed \/ (again /\ page.linked),
                             !.offered = again /\ page.offered])
    /\ listed' = {} /\ events' = {}
    /\ UNCHANGED <<tables, searchVars, perms, living, moved, changes, errors>>

\* With an API key that is all there is to ask.
ReadRecord ==
    /\ Only({"record"})
    /\ CASE GetQAEnvironment(page.name) = {} -> Answered(404)
         [] GetQAEnvironment(page.name) # {} /\ page.kind = "api" -> Answered(200)
         [] OTHER -> Goto([page EXCEPT !.at = "permissions",
                                       !.repo = qa_environments[page.name].data.repo])
    /\ OnlyPage

\* A failing call of GitHub or Kubernetes.
OutsideFails ==
    /\ Only({"permissions", "actions", "kubernetes"})
    /\ errors < MaxErrors /\ errors' = errors + 1
    /\ Goto([page EXCEPT !.at = "answered", !.code = 500, !.blamed = TRUE])
    /\ UNCHANGED <<tables, searchVars, perms, living, listed, moved, changes, events>>

\* Who may only look is denied a rebuild; the page redirects whom it denies.
CheckPermissions ==
    /\ Only({"permissions"})
    /\ CASE page.repo \notin (IF page.kind = "rebuild" THEN Writable ELSE Visible) ->
              Answered(IF page.kind = "page" THEN 302 ELSE 403)
         [] OTHER -> Goto([page EXCEPT !.at = IF page.kind = "page" THEN "actions" ELSE "row"])
    /\ OnlyPage

\* The page asks GitHub again before it offers a rebuild.
RenderActions ==
    /\ Only({"actions"})
    /\ Goto([page EXCEPT !.at = "answered", !.code = 200, !.offered = page.repo \in Writable])
    /\ OnlyPage

RowOf(kind) == page.at = "row" /\ page.kind = kind
Row == GetK8sEnv(page.name)
WithRow(next) == Goto([page EXCEPT !.at = next, !.row = Row])

\* Details are there without a row too.
UserEnvDetail == RowOf("detail") /\ WithRow("events") /\ OnlyPage

\* Without a row there are no pods, and no containers.
UserEnvNamePods ==
    /\ RowOf("pods") /\ OnlyPage
    /\ IF Row = NULL THEN Answered(200) ELSE WithRow("kubernetes")

UserEnvPodContainers ==
    /\ RowOf("containers") /\ OnlyPage
    /\ IF Row = NULL THEN Answered(200) ELSE WithRow("kubernetes")

\* The number of lines is looked at when there is a row.
UserEnvPodLogs ==
    /\ RowOf("log") /\ OnlyPage
    /\ \/ Row = NULL /\ Answered(412)
       \/ Row # NULL /\ WithRow("kubernetes")
       \/ Row # NULL /\ Answered(400)
       \/ /\ Row # NULL
          /\ Goto([page EXCEPT !.at = "answered", !.code = 500, !.blamed = TRUE])

\* What follows is Intake's.
UserEnvActionsRebuild ==
    /\ RowOf("rebuild") /\ OnlyPage
    /\ Answered(IF Row = NULL THEN 404 ELSE 201)

PodState ==
    IF page.row.namespace \in DOMAIN living THEN living[page.row.namespace] ELSE NULL

\* A namespace that is gone has no pods.  A pod that has no container status yet ends the
\* handler with a panic: the connection is closed without an answer, 0.
GetPodList ==
    /\ Only({"kubernetes"}) /\ page.kind = "pods" /\ OnlyPage
    /\ Answered(IF PodState = "pending" THEN 0 ELSE 200)

PodIsThere ==
    IF PodState # NULL THEN Answered(200)
    ELSE Goto([page EXCEPT !.at = "answered", !.code = 500, !.blamed = TRUE])

GetPodContainers ==
    Only({"kubernetes"}) /\ page.kind = "containers" /\ OnlyPage /\ PodIsThere

GetPodLogs == Only({"kubernetes"}) /\ page.kind = "log" /\ OnlyPage /\ PodIsThere

\* An environment without events is an error.
ReadEvents ==
    /\ Only({"events"})
    /\ LET ids == GetEventLogsWithStatusByEnvName(page.name)
       IN  IF ids = {} THEN Answered(500) /\ UNCHANGED events
           ELSE Answered(200) /\ events' = ids
    /\ UNCHANGED <<tables, searchVars, perms, living, listed, moved, changes, errors>>

----------------------------------------------------------------------------
(* What is asked of one event.                                              *)

EventKinds == {"status", "page of the status", "lines", "event log"}

\* A node without an image has none in the response.
NodeShown(node) == [node EXCEPT !.image = IF @ = "none" THEN NULL ELSE @]
Shown(document) == [document EXCEPT !.tree = [n \in DOMAIN @ |-> NodeShown(@[n])]]
StatusShown(id) == IF GetEventStatus(id) = NULL THEN NULL ELSE Shown(GetEventStatus(id))

\* The lines want the key of the log, which only the page of the event has.
EventAnswer(kind, id, key) ==
    CASE kind = "status" -> IF StatusShown(id) = NULL THEN 404 ELSE 200
      [] kind = "lines" /\ key = "malformed" -> 401
      [] GetEventLogByID(id) = {} -> 404
      [] kind = "lines" /\ key = "other" -> 401
      [] OTHER -> 200

AskEvent ==
    /\ Only({"answered"})
    /\ \E kind \in EventKinds, id \in events, key \in {"right", "other", "malformed"} :
          Goto([Idle EXCEPT !.kind = kind, !.name = id, !.at = "answered",
                            !.code = EventAnswer(kind, id, key), !.blamed = key # "right"])
    /\ OnlyPage

----------------------------------------------------------------------------
(* Meanwhile.                                                               *)

Changes ==
    /\ changes < MaxChanges /\ changes' = changes + 1
    /\ UNCHANGED <<searchVars, listed, page, events, errors>>

DeleteRow(n) == DeleteK8sEnv(n) /\ UNCHANGED <<perms, living, moved>> /\ Changes

NamespaceGoes(ns) ==
    /\ ns \in DOMAIN living
    /\ living' = [x \in DOMAIN living \ {ns} |-> living[x]]
    /\ UNCHANGED <<tables, perms, moved>> /\ Changes

PodStarts(ns) ==
    /\ ns \in DOMAIN living /\ living' = [living EXCEPT ![ns] = "pending"]
    /\ UNCHANGED <<tables, perms, moved>> /\ Changes

Destroyed(n) ==
    SetQAEnvironmentStatus(n, "Destroyed") /\ UNCHANGED <<perms, living, moved>> /\ Changes

Pruned(n) ==
    /\ IsDestroyed(n) /\ DeleteQAEnvironment(n)
    /\ moved' = TRUE /\ UNCHANGED <<perms, living>> /\ Changes

\* An event log is pruned after a month; a nested Delete gives the one of a create to the
\* environment that it destroys.
LogGoes(id) == DeleteEventLog(id) /\ UNCHANGED <<perms, living, moved>> /\ Changes
LogMoves(id, n) == SetEventLogEnvName(id, n) /\ UNCHANGED <<perms, living, moved>> /\ Changes

GitHubChanges ==
    /\ \E r \in Repos, p \in Permissions : p # perms[r] /\ perms' = [perms EXCEPT ![r] = p]
    /\ moved' = TRUE /\ UNCHANGED <<tables, living>> /\ Changes

PagesNext ==
    \/ ListEnvs
    \/ \E kind \in Kinds, n \in DOMAIN qa_environments : Open(kind, n)
    \/ ReadRecord \/ OutsideFails \/ CheckPermissions \/ RenderActions
    \/ UserEnvDetail \/ UserEnvNamePods \/ UserEnvPodContainers \/ UserEnvPodLogs
    \/ UserEnvActionsRebuild \/ GetPodList \/ GetPodContainers \/ GetPodLogs
    \/ ReadEvents \/ AskEvent
    \/ \E n \in DOMAIN qa_environments :
          DeleteRow(n) \/ Destroyed(n) \/ Pruned(n) \/ \E id \in DOMAIN event_logs : LogMoves(id, n)
    \/ \E ns \in DOMAIN living : NamespaceGoes(ns) \/ PodStarts(ns)
    \/ \E id \in DOMAIN event_logs : LogGoes(id)
    \/ GitHubChanges

----------------------------------------------------------------------------
\* The three versions answer a search alike, but for the parameter that only the last one
\* has; and what passes the checks of the handler is a search for the data layer too,
\* unless a value is empty or no parameter is known.
SearchesAgree ==
    query # NULL =>
        /\ replies["v0"] = replies["v1"]
        /\ ~Has(query, "tracking_ref") => replies["v2"] = replies["v1"]
        /\ \A v \in Versions :
              replies[v].code = 500 =>
                  \/ Has(query, "repo") /\ query["repo"][1] = ""
                  \/ OptionsOf(v, query) = NoOptions

\* The lists agree: the recent environments of v1 are those that somebody who sees all
\* repositories is shown for as many days (zero is no interval there), and all of them are
\* in the old list.
ListsAgree ==
    \A days \in Days, destroyed \in BOOLEAN :
        /\ Visible = Repos /\ days > 0 =>
              UserEnvs(TRUE, Day * days, destroyed) = EnvRecent(days, destroyed)
        /\ EnvRecent(days, destroyed) \subseteq EnvList

\* A link of the interface leads somewhere: an environment on the list of all that the
\* user may see opens, and the rebuild that its page offers is not forbidden, as long as
\* neither the record nor the permissions have changed; no answer is an error unless
\* GitHub, Kubernetes or the events fail; and an event in the details can be read unless
\* it is gone, or its status has not been written.
LinksLead ==
    page.at = "answered" =>
        /\ page.linked /\ ~moved =>
              page.code \notin {302} \cup (IF page.kind = "rebuild" THEN {} ELSE {403, 404})
        /\ page.offered /\ ~moved /\ page.kind = "rebuild" => page.code # 403
        /\ page.code = 500 => page.blamed \/ changes > 0
        /\ page.code = 0 => page.kind = "pods" /\ changes > 0
        /\ page.kind \in EventKinds /\ page.name \in DOMAIN event_logs =>
              /\ page.code = 401 => page.kind = "lines" /\ page.blamed
              /\ page.code = 404 => page.kind = "status" /\ GetEventStatus(page.name) = NULL

\* What is read is consistent: over versions, lists and pages.
ReadsAgree == SearchesAgree /\ ListsAgree /\ LinksLead
=============================================================================
