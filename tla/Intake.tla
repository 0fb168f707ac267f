------------------------------- MODULE Intake -------------------------------
(***************************************************************************)
(* What makes the server start an operation: an event of GitHub, which      *)
(* comes by one of two routes, the webhook set up by hand                   *)
(* (legacyGithubWebhookHandler, pkg/ghevent) or that of the GitHub app      *)
(* (pkg/ghapp), both ending in processWebhook; and a full rebuild asked for *)
(* in the user interface (userEnvActionsRebuildHandler).                    *)
(*                                                                          *)
(* The same event is sent by both routes here, each with the calls of       *)
(* GitHub that it makes.  What an answer says besides its status is left    *)
(* out.  The second part is one environment: the handler of a rebuild reads *)
(* before the lock of the pull request what the operation works with under  *)
(* it, while other operations change the environment.                       *)
(***************************************************************************)
EXTENDS Naturals, FiniteSets

CONSTANTS
    NULL,
    Events,       \* of GitHub
    MaxErrors,    \* bound: failing calls of GitHub
    MaxOthers     \* bound: operations besides that of the rebuild

Routes == {"legacy", "app"}

VARIABLES
    event,    \* the event
    at,       \* of a route: what its handler does next
    log,      \* of a route: the event log that it has created
    started,  \* of a route: the operation that it has started
    answer,   \* of a route: the status of its response
    outages,
    env,      \* the environment: its status, row and the latest namespace
    asked,    \* the request for a full rebuild: its step, what it has read
    lock,     \* the operation that has the lock: what it has read
    others

intakeVars == <<event, at, log, started, answer, outages>>
rebuildVars == <<env, asked, lock, others>>

\* supportedActions of ghevent, and the names that processWebhook knows them by; the app
\* is given the same names.
OperationOf(action) ==
    CASE action \in {"opened", "reopened"} -> "create"
      [] action = "synchronize" -> "update"
      [] action = "closed" -> "destroy"
Supported == {"opened", "reopened", "synchronize", "closed"}

IntakeInit ==
    /\ event \in Events
    /\ at = [r \in Routes |-> "received"] /\ log = [r \in Routes |-> NULL]
    /\ started = [r \in Routes |-> NULL] /\ answer = [r \in Routes |-> NULL]
    /\ outages = 0

Answer(r, status) ==
    /\ answer' = [answer EXCEPT ![r] = status] /\ at' = [at EXCEPT ![r] = "answered"]

Goto(r, step) == at' = [at EXCEPT ![r] = step] /\ UNCHANGED answer

\* Logger.Init; there is no status yet.
CreateLog(r, delivery) == log' = [log EXCEPT ![r] = [delivery |-> delivery, stub |-> FALSE]]

\* GetFileContents of acyl.yml at the head commit may also fail for another reason.
Fetch(outcome) ==
    \/ outcome = event.acyl /\ UNCHANGED outages
    \/ outcome = "error" /\ outages < MaxErrors /\ outages' = outages + 1

----------------------------------------------------------------------------
(* The route that was set up by hand: GitHubEventWebhook.New.               *)

\* A missing header and a wrong signature are forbidden; an invalid delivery id is
\* ignored.  The log is there before anything is known of the event, and an event is one
\* of a pull request when it has an action: others have no head commit.
LegacyReceive ==
    /\ at["legacy"] = "received"
    /\ LET delivery == IF event.delivery = "bad" THEN NULL ELSE event.delivery
           Log == CreateLog("legacy", delivery)
       IN  \/ ~event.signed /\ Answer("legacy", 403) /\ UNCHANGED log
           \/ event.signed /\ ~event.json /\ Answer("legacy", 400) /\ UNCHANGED log
           \/ /\ event.signed /\ event.json /\ Log
              /\ CASE event.action \notin Supported -> Answer("legacy", 202)
                   [] event.action \in Supported /\ ~event.sha -> Answer("legacy", 400)
                   [] OTHER -> Goto("legacy", "relevant?")
    /\ UNCHANGED <<event, started, outages>>

\* getRelevantType and checkRelevancyPR, then the checks of the handler.
CheckRelevancy ==
    /\ at["legacy"] = "relevant?"
    /\ \E outcome \in {"found", "missing", "malformed", "error"} :
          /\ Fetch(outcome)
          /\ CASE outcome # "found" -> Answer("legacy", 400)
               [] outcome = "found" /\ ~event.targeted -> Answer("legacy", 202)
               [] outcome = "found" /\ event.targeted /\ ~event.branch -> Answer("legacy", 500)
               [] OTHER -> Goto("legacy", "process")
    /\ UNCHANGED <<event, log, started>>

----------------------------------------------------------------------------
(* The GitHub app: the dispatcher, then prEventHandler.Handle.              *)

\* Whatever Handle sets as its response, the answer to an error is 500.  Of other events
\* "check" are check_run and check_suite, whose handler does nothing, and ping, which the
\* dispatcher answers as if it had a handler; the rest have none.  Nobody parses them.
AppReceive ==
    /\ at["app"] = "received"
    /\ \/ /\ \/ ~event.signed \/ event.type = NULL
             \/ event.type = "pull_request" /\ ~event.json
          /\ Answer("app", 500) /\ UNCHANGED log
       \/ /\ event.signed /\ event.type = "check"
          /\ Answer("app", 200) /\ UNCHANGED log
       \/ /\ event.signed /\ event.type = "other"
          /\ Answer("app", 202) /\ UNCHANGED log
       \/ /\ event.signed /\ event.json /\ event.type = "pull_request"
          /\ \/ event.delivery = "bad" /\ Answer("app", 500) /\ UNCHANGED log
             \/ /\ event.delivery # "bad" /\ (event.fork \/ event.action \notin Supported)
                /\ Answer("app", 200) /\ UNCHANGED log
             \/ /\ event.delivery # "bad" /\ ~event.fork /\ event.action \in Supported
                /\ CreateLog("app", event.delivery) /\ Goto("app", "process")
    /\ UNCHANGED <<event, started, outages>>

----------------------------------------------------------------------------
(* processWebhook, with its own look at acyl.yml; it does not parse it.     *)

SetStub(r) ==
    /\ at[r] = "process" /\ Goto(r, "fetch")
    /\ log' = [log EXCEPT ![r].stub = TRUE]
    /\ UNCHANGED <<event, started, outages>>

\* A repository without acyl.yml is a dependency of others: the event is ignored.
ProcessWebhook(r) ==
    /\ at[r] = "fetch"
    /\ \E outcome \in {"found", "missing", "malformed", "error"} :
          /\ Fetch(outcome)
          /\ CASE outcome = "error" -> Answer(r, 500) /\ UNCHANGED started
               [] outcome = "missing" -> Answer(r, 202) /\ UNCHANGED started
               [] OTHER -> /\ started' = [started EXCEPT ![r] = OperationOf(event.action)]
                           /\ Answer(r, 202)
    /\ UNCHANGED <<event, log>>

IntakeNext ==
    \/ LegacyReceive \/ CheckRelevancy \/ AppReceive
    \/ \E r \in Routes : SetStub(r) \/ ProcessWebhook(r)

----------------------------------------------------------------------------
(* The rebuild.  A namespace is its number; a signature is that of the      *)
(* configuration, or zero.                                                  *)

RebuildInit ==
    /\ env = [status |-> "Success", row |-> [namespace |-> 1, sig |-> "config"], latest |-> 1]
    /\ asked = [at |-> "client", saw |-> NULL] /\ lock = NULL /\ others = 0

\* The record and its row are read; the user must be able to write to the repository.
AskRebuild ==
    /\ asked.at = "client"
    /\ \/ env.row # NULL /\ asked' = [at |-> "log", saw |-> env.row.namespace]
       \/ asked' = [asked EXCEPT !.at = "refused"]
    /\ UNCHANGED <<env, lock, others>>

\* full=true: the signature in the row, if there is one still, is reset.
ResetSignature ==
    /\ asked.at = "log" /\ asked' = [asked EXCEPT !.at = "accepted"]
    /\ env' = IF env.row = NULL THEN env ELSE [env EXCEPT !.row.sig = "zero"]
    /\ UNCHANGED <<lock, others>>

Take(who) ==
    /\ lock = NULL
    /\ lock' = [who |-> who, at |-> "read", inPlace |-> FALSE]

\* The Update that the handler has started takes the lock after the operations that are
\* waiting; another operation preempts it or has its turn before.
RebuildLocks ==
    /\ asked.at = "accepted" /\ asked' = [asked EXCEPT !.at = "running"]
    /\ Take("rebuild") /\ UNCHANGED <<env, others>>

OtherLocks ==
    /\ others < MaxOthers /\ others' = others + 1
    /\ Take("other") /\ UNCHANGED <<env, asked>>

Extant == {"Updating", "Success"}

Ends(status) ==
    /\ env' = [env EXCEPT !.status = status]
    /\ lock' = NULL
    /\ asked' = IF lock.who = "rebuild"
                THEN [asked EXCEPT !.at = IF status = "Success" THEN "done" ELSE "failed"]
                ELSE asked
    /\ UNCHANGED others

\* Broken variant: an environment that is up is upgraded whatever its signature is.
UpdateTrustsStatus ==
    /\ lock # NULL /\ lock.at = "read"
    /\ \/ /\ env.status \in Extant /\ env.row # NULL
          /\ lock' = [lock EXCEPT !.at = "install", !.inPlace = env.status = "Success"]
          /\ UNCHANGED <<env, asked, others>>
       \/ env.status \in Extant /\ env.row = NULL /\ Ends("Failure")
       \/ /\ env.status \notin Extant
          /\ lock' = [lock EXCEPT !.at = "install", !.inPlace = FALSE]
          /\ UNCHANGED <<env, asked, others>>

\* update reads the record and the row: the charts are upgraded in place when the
\* signature is that of the configuration.
UpdateReads ==
    /\ lock # NULL /\ lock.at = "read"
    /\ \/ /\ env.status \in Extant /\ env.row # NULL
          /\ lock' = [lock EXCEPT !.at = "install",
                        !.inPlace = env.row.sig = "config" /\ env.status = "Success"]
          /\ UNCHANGED <<env, asked, others>>
       \/ env.status \in Extant /\ env.row = NULL /\ Ends("Failure")
       \/ /\ env.status \notin Extant
          /\ lock' = [lock EXCEPT !.at = "install", !.inPlace = FALSE]
          /\ UNCHANGED <<env, asked, others>>

\* The row of a new namespace has the signature of the configuration.
WriteRow ==
    /\ lock # NULL /\ lock.at = "install" /\ ~lock.inPlace
    /\ lock' = [lock EXCEPT !.at = "charts"]
    /\ env' = [env EXCEPT !.row = [namespace |-> env.latest + 1, sig |-> "config"],
                          !.latest = @ + 1]
    /\ UNCHANGED <<asked, others>>

Installed ==
    /\ lock # NULL
    /\ lock.at = "charts" \/ (lock.at = "install" /\ lock.inPlace)
    /\ Ends("Success") \/ Ends("Failure")

\* The other operation is a delete: the row goes, sooner or later.
Deleted ==
    /\ lock # NULL /\ lock.who = "other" /\ lock.at = "read" /\ env.status \in Extant
    /\ Ends("Destroyed")

TornDown ==
    /\ env.status = "Destroyed" /\ env.row # NULL
    /\ env' = [env EXCEPT !.row = NULL]
    /\ UNCHANGED <<asked, lock, others>>

RebuildNext ==
    \/ AskRebuild \/ ResetSignature \/ RebuildLocks \/ OtherLocks \/ UpdateReads
    \/ WriteRow \/ Installed \/ Deleted \/ TornDown

----------------------------------------------------------------------------
Answered == \A r \in Routes : at[r] = "answered"

\* GitHub is told the truth: what was refused has started nothing, what has started is
\* logged under its delivery and shows a status, and is what the action asks for.
AnswersTell ==
    \A r \in Routes :
        /\ started[r] # NULL =>
              /\ event.signed /\ event.type = "pull_request"
              /\ log[r] # NULL /\ log[r].stub
              /\ started[r] = CASE event.action = "closed" -> "destroy"
                                [] event.action = "synchronize" -> "update"
                                [] OTHER -> "create"
        /\ answer[r] \in {400, 403, 500} => started[r] = NULL
        /\ at[r] = "answered" <=> answer[r] # NULL

\* Both routes do the same, unless GitHub fails in one of them only, or the event is one
\* that a route alone looks at: forks and delivery ids, the target branches, and what
\* acyl.yml says.
RoutesAgree ==
    Answered /\ outages = 0 /\ ~event.fork /\ event.delivery # "bad" /\ event.targeted
             /\ event.sha /\ event.branch /\ event.acyl # "malformed"
        => started["legacy"] = started["app"]

\* A full rebuild that succeeds has left the namespace that the user saw, if the
\* environment still has one, whoever else worked on it in between.
FullRebuildRebuilds ==
    asked.at = "done" /\ env.row # NULL => env.row.namespace # asked.saw

\* Whatever makes an operation start has been answered for what it is.
RequestsKept == AnswersTell /\ RoutesAgree /\ FullRebuildRebuilds
=============================================================================
