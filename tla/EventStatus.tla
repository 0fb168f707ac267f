---------------------------- MODULE EventStatus ----------------------------
(***************************************************************************)
(* The status document of ONE event (event_logs.status, a JSON value that   *)
(* the UI shows while a webhook is processed) and everything that writes    *)
(* it: the webhook handler, lockingOperation, the goroutine that waits for  *)
(* a preemption, the operation (create, update or delete), the image builds *)
(* and the charts of the installation (pkg/eventlogger/status.go, with the  *)
(* SQL of pkg/persistence/eventlogs.go).                                    *)
(*                                                                          *)
(* None of the writers locks the document or looks at the context: each     *)
(* statement is atomic and succeeds, whoever has been cancelled.  jsonb_set *)
(* and || are strict: a path through a node that the tree does not have     *)
(* makes the whole column NULL.  Timestamps are left out: `completed' is    *)
(* set with a final status and with nothing else.                           *)
(***************************************************************************)
EXTENDS Naturals, FiniteSets

CONSTANTS
    Nodes,       \* the charts of the operation: application and dependencies
    Built,       \* those whose image is built
    OtherNodes,  \* the charts of an environment that the global limit destroys
    Null         \* the column is NULL

NodeStatus == [image : {"none", "started", "built", "failed"},
               chart : {"waiting", "working", "done", "failed"}]

Trees == UNION {[S -> NodeStatus] : S \in {{}, Nodes, OtherNodes}}

Document == [type : {"unknown", "create", "update", "destroy"},
             status : {"pending", "done", "failed"},
             rendered : {"none", "pending", "success", "failure"},
             tree : Trees]

ASSUME EventAssumption ==
    /\ IsFiniteSet(Nodes) /\ Nodes # {} /\ Built \subseteq Nodes
    /\ Null \notin Document

VARIABLES
    doc,        \* event_logs.status
    kind,       \* the operation that the event asks for
    webhook,    \* a webhook, or the rebuild of the API
    caller,     \* lockingOperation: the goroutine that called Create, Update, Delete
    watcher,    \* its goroutine that waits for a preemption
    preempted,  \* the lock has been preempted
    cancelled,  \* the context of the operation
    op,         \* the goroutine of the operation
    failed,     \* the error of the operation
    extant,     \* getenv found the environment (delete)
    limited,    \* the global limit made the create destroy another environment
    image,      \* the goroutine of each image build
    chart,      \* the goroutine of each chart
    seen        \* what lockingOperation returned, for the properties

opVars == <<op, failed, extant, limited>>
lockVars == <<caller, watcher, preempted, cancelled, seen>>
nodeVars == <<image, chart>>
vars == <<doc, kind, webhook, caller, watcher, preempted, cancelled, op, failed,
          extant, limited, image, chart, seen>>

OpSteps == {"getenv", "generate", "new", "config", "started", "commit", "charts",
            "limit", "limitNew", "limitConfig", "limitEnd", "install", "walk",
            "render", "finish", "unknown", "unknownEnd"}

TypeOK ==
    /\ doc \in Document \cup {Null}
    /\ kind \in {"create", "update", "delete"} /\ webhook \in BOOLEAN
    /\ caller \in {"received", "lock", "select", "fail", "leave", "returned"}
    /\ watcher \in {"off", "watching", "preempting"}
    /\ preempted \in BOOLEAN /\ cancelled \in BOOLEAN
    /\ op \in OpSteps \cup {"idle", "ended"}
    /\ failed \in BOOLEAN /\ extant \in BOOLEAN /\ limited \in BOOLEAN
    /\ image \in [Nodes -> {"idle", "begin", "building", "built", "failed"}]
    /\ chart \in [Nodes -> {"idle", "asking", "helm", "health", "ok", "failed"}]
    /\ seen \in {"nothing", "ok", "error", "cancelled"}

Init ==
    /\ doc = Null
    /\ kind \in {"create", "update", "delete"} /\ webhook \in BOOLEAN
    /\ webhook \/ kind = "update"
    /\ caller = "received" /\ watcher = "off"
    /\ preempted = FALSE /\ cancelled = FALSE
    /\ op = "idle" /\ failed = FALSE /\ extant = TRUE /\ limited = FALSE
    /\ image = [n \in Nodes |-> "idle"]
    /\ chart = [n \in Nodes |-> "idle"]
    /\ seen = "nothing"

----------------------------------------------------------------------------
(* The statements.                                                          *)

\* The initial tree of a configuration with these charts.
NewTree(S) == [n \in S |-> [image |-> "none", chart |-> "waiting"]]

\* An update of the document: a row without status stays without.
Write(document) == doc' = IF doc = Null THEN Null ELSE document

SetNewStatus(t) ==
    doc' = [type |-> t, status |-> "pending", rendered |-> "none", tree |-> NewTree({})]

SetInitialStatus(S) == Write([doc EXCEPT !.tree = NewTree(S)])

SetCompletedStatus(s) == Write([doc EXCEPT !.status = s])
SetFailedStatus == SetCompletedStatus("failed")
SetRenderedStatus(s) == Write([doc EXCEPT !.rendered = s])

\* An update of node n of the tree: without the node, the column becomes NULL.
WriteNode(n, document) ==
    doc' = IF doc = Null THEN Null ELSE IF n \in DOMAIN doc.tree THEN document ELSE Null

SetImage(n, value) == WriteNode(n, [doc EXCEPT !.tree[n].image = value])
SetChart(n, value) == WriteNode(n, [doc EXCEPT !.tree[n].chart = value])

----------------------------------------------------------------------------
(* The webhook handler and lockingOperation.                                *)

\* processWebhook writes the stub and looks for acyl.yml: without it the event is
\* ignored.  The rebuild of the API calls Update at once.
Receive ==
    /\ caller = "received"
    /\ IF webhook
       THEN SetNewStatus("unknown") /\ caller' \in {"lock", "returned"}
       ELSE caller' = "lock" /\ UNCHANGED doc
    /\ UNCHANGED <<kind, webhook, watcher, preempted, cancelled, seen, opVars, nodeVars>>

\* The lock is acquired and the two goroutines start, or Lock fails and nothing is
\* written.
Locked ==
    /\ caller = "lock"
    /\ \/ /\ caller' = "select" /\ watcher' = "watching"
          /\ op' = IF kind = "create" THEN "generate" ELSE "getenv"
          /\ UNCHANGED seen
       \/ caller' = "returned" /\ seen' = "error" /\ UNCHANGED <<watcher, op>>
    /\ UNCHANGED <<doc, kind, webhook, preempted, cancelled, failed, extant, limited, nodeVars>>

\* Another event wants the lock.
Preempt ==
    /\ watcher = "watching" /\ ~preempted
    /\ preempted' = TRUE
    /\ UNCHANGED <<doc, kind, webhook, caller, watcher, cancelled, seen, opVars, nodeVars>>

\* The timeout of the operation or of the webhook.
Timeout ==
    /\ caller = "select" /\ ~cancelled
    /\ cancelled' = TRUE
    /\ UNCHANGED <<doc, kind, webhook, caller, watcher, preempted, seen, opVars, nodeVars>>

\* The goroutine that waits hears of the preemption and marks the event as failed...
WatcherMarks ==
    /\ watcher = "watching" /\ preempted
    /\ watcher' = "preempting" /\ SetCompletedStatus("failed")
    /\ UNCHANGED <<kind, webhook, caller, preempted, cancelled, seen, opVars, nodeVars>>

\* ...and then, or when lockingOperation has left, cancels the context.
WatcherCancels ==
    /\ \/ watcher = "preempting"
       \/ watcher = "watching" /\ caller = "returned"
    /\ watcher' = "off" /\ cancelled' = TRUE
    /\ UNCHANGED <<doc, kind, webhook, caller, preempted, seen, opVars, nodeVars>>

\* The select over the result of the operation and the end of the context.
Select ==
    /\ caller = "select"
    /\ \/ /\ op = "ended"
          /\ seen' = IF failed THEN "error" ELSE "ok"
       \/ cancelled /\ seen' = "cancelled"
    /\ caller' = IF seen' = "ok" THEN "leave" ELSE "fail"
    /\ UNCHANGED <<doc, kind, webhook, watcher, preempted, cancelled, opVars, nodeVars>>

\* Broken variant: it is left to the operation to record its error.
FailQuietly ==
    /\ caller = "fail" /\ caller' = "leave"
    /\ UNCHANGED <<doc, kind, webhook, watcher, preempted, cancelled, seen, opVars, nodeVars>>

\* An error is recorded.
Fail ==
    /\ caller = "fail" /\ caller' = "leave"
    /\ SetFailedStatus
    /\ UNCHANGED <<kind, webhook, watcher, preempted, cancelled, seen, opVars, nodeVars>>

\* The deferred calls: the watcher is stopped, the lock released, the context cancelled.
Leave ==
    /\ caller = "leave" /\ caller' = "returned"
    /\ cancelled' = TRUE
    /\ UNCHANGED <<doc, kind, webhook, watcher, preempted, seen, opVars, nodeVars>>

----------------------------------------------------------------------------
(* The operation.                                                           *)

At(label) == op = label
Goto(label) == op' = label

\* The error of the operation; create and update first report it to GitHub.
Error ==
    /\ failed' = TRUE
    /\ Goto(IF kind = "delete" THEN "finish" ELSE "render")
    /\ UNCHANGED <<extant, limited>>

Continue(label) == Goto(label) /\ UNCHANGED <<failed, extant, limited>>

\* A step of the operation leaves the lock alone.
Frame == UNCHANGED <<webhook, lockVars, nodeVars>>

\* getenv.  An update without exactly one extant environment becomes a create; with an
\* error of the database it ends at once.  A delete goes on to mark what it finds.
GetEnv ==
    /\ At("getenv")
    /\ \/ Continue("new") /\ UNCHANGED <<doc, kind>>
       \/ kind = "update" /\ kind' = "create" /\ Continue("generate") /\ UNCHANGED doc
       \/ /\ kind = "update" /\ SetCompletedStatus("failed")
          /\ failed' = TRUE /\ Goto("ended") /\ UNCHANGED <<kind, extant, limited>>
       \/ /\ kind = "delete" /\ extant' = FALSE /\ failed' \in BOOLEAN
          /\ Goto("unknown") /\ UNCHANGED <<doc, kind, limited>>
    /\ Frame

\* generateNewEnv.  Its errors are not recorded by create.
Generate ==
    /\ At("generate")
    /\ \/ Continue("new")
       \/ failed' = TRUE /\ Goto("ended") /\ UNCHANGED <<extant, limited>>
    /\ UNCHANGED <<doc, kind>> /\ Frame

\* SetNewStatus replaces the stub, whatever has been written since.
New ==
    /\ At("new")
    /\ SetNewStatus(IF kind = "delete" THEN "destroy" ELSE kind)
    /\ Continue("config") /\ UNCHANGED kind /\ Frame

\* Broken variant: the tree is set up while the charts are installed.
ConfigLater ==
    /\ At("config")
    /\ Continue("started") /\ UNCHANGED doc
    /\ UNCHANGED kind /\ Frame

\* processEnvConfig and SetInitialStatus.  A delete goes on after an error, with the
\* tree if the configuration had been read.
ProcessConfig ==
    /\ At("config")
    /\ \/ SetInitialStatus(Nodes) /\ Continue("started")
       \/ kind # "delete" /\ Error /\ UNCHANGED doc
       \/ kind = "delete" /\ Continue("started") /\ UNCHANGED doc
    /\ UNCHANGED kind /\ Frame

\* The context is looked at, and update and delete need the row of the namespace.  A
\* delete has nothing more to do than to start the teardown and mark the record.
Started ==
    /\ At("started")
    /\ \/ ~cancelled /\ Continue(IF kind = "delete" THEN "finish" ELSE "commit")
       \/ (cancelled \/ kind # "create") /\ Error
    /\ UNCHANGED <<doc, kind>> /\ Frame

\* setGithubCommitStatus(pending); a template that does not render is only logged.
Commit ==
    /\ At("commit") /\ Continue("charts")
    /\ SetRenderedStatus("pending") \/ UNCHANGED doc
    /\ UNCHANGED kind /\ Frame

FetchCharts ==
    /\ At("charts")
    /\ Error \/ Continue(IF kind = "create" THEN "limit" ELSE "install")
    /\ UNCHANGED <<doc, kind>> /\ Frame

\* enforceGlobalLimit of a create.
Limit ==
    /\ At("limit")
    /\ \/ Continue("install") \/ Error
       \/ limited' = TRUE /\ Goto("limitNew") /\ UNCHANGED <<failed, extant>>
    /\ UNCHANGED <<doc, kind>> /\ Frame

\* The Delete that it calls has the event logger of the create: it starts the status
\* anew, unless its lock fails...
LimitNew ==
    /\ At("limitNew")
    /\ \/ SetNewStatus("destroy") /\ Continue("limitConfig")
       \/ UNCHANGED doc /\ Continue("install")
    /\ UNCHANGED kind /\ Frame

\* ...with the tree of the environment that it destroys...
LimitConfig ==
    /\ At("limitConfig") /\ Continue("limitEnd")
    /\ SetInitialStatus(OtherNodes) \/ UNCHANGED doc
    /\ UNCHANGED kind /\ Frame

\* ...and completes it.  The create goes on, or destroys one more.
LimitEnd ==
    /\ At("limitEnd")
    /\ SetCompletedStatus("done") \/ SetCompletedStatus("failed")
    /\ \/ ~cancelled /\ (Continue("install") \/ Continue("limitNew"))
       \/ cancelled /\ Error
    /\ UNCHANGED kind /\ Frame

\* The namespace is prepared, the builds are started and the walk begins.
Install ==
    /\ At("install")
    /\ \/ Error /\ UNCHANGED image
       \/ Continue("walk") /\ image' = [n \in Nodes |-> IF n \in Built THEN "begin" ELSE "idle"]
    /\ UNCHANGED <<doc, kind, webhook, lockVars, chart>>

Launched == {n \in Nodes : chart[n] # "idle"}
Ended(n) == chart[n] \in {"ok", "failed"}

\* Broken variant: the walk waits for no chart.
WalkReturnsAtOnce ==
    /\ At("walk") /\ Launched = Nodes
    /\ Continue("render") \/ Error
    /\ UNCHANGED <<doc, kind>> /\ Frame

\* installOrUpgradeCharts returns: every chart is installed; or the charts launched have
\* ended and one has failed; or the context was cancelled before a chart was launched.
WalkReturns ==
    /\ At("walk")
    /\ \/ (\A n \in Nodes : chart[n] = "ok") /\ Continue("render")
       \/ (\A n \in Launched : Ended(n)) /\ Error
       \/ cancelled /\ Launched # Nodes /\ Error
    /\ UNCHANGED <<doc, kind>> /\ Frame

\* The deferred function of create and update: the commit status...
Render ==
    /\ At("render") /\ Continue("finish")
    /\ SetRenderedStatus(IF failed THEN "failure" ELSE "success") \/ UNCHANGED doc
    /\ UNCHANGED kind /\ Frame

\* ...and the outcome.  For delete, it is all that is deferred.  A delete may fail to
\* mark the record.
Finish ==
    /\ At("finish") /\ Goto("ended") /\ UNCHANGED <<extant, limited>>
    /\ failed' = TRUE \/ (~failed /\ failed' = FALSE)
    /\ failed' = failed \/ kind = "delete"
    /\ SetCompletedStatus(IF failed' THEN "failed" ELSE "done")
    /\ UNCHANGED kind /\ Frame

\* A delete that did not find its environment: a new status, and done when it returns,
\* with or without an error.
Unknown ==
    /\ At("unknown") /\ SetNewStatus("destroy") /\ Continue("unknownEnd")
    /\ UNCHANGED kind /\ Frame

UnknownEnd ==
    /\ At("unknownEnd") /\ SetCompletedStatus("done") /\ Continue("ended")
    /\ UNCHANGED kind /\ Frame

OpStep ==
    \/ GetEnv \/ Generate \/ New \/ ProcessConfig \/ Started \/ Commit \/ FetchCharts
    \/ Limit \/ LimitNew \/ LimitConfig \/ LimitEnd
    \/ Install \/ WalkReturns \/ Render \/ Finish \/ Unknown \/ UnknownEnd

----------------------------------------------------------------------------
(* The goroutines of the installation, which may outlive it.                *)

SetOf(n, state) == chart' = [chart EXCEPT ![n] = state] /\ UNCHANGED image
NodeFrame == UNCHANGED <<kind, webhook, lockVars, opVars>>

\* buildimage.  A build that is stopped counts as built.
ImageBegins(n) ==
    /\ image[n] = "begin" /\ image' = [image EXCEPT ![n] = "building"]
    /\ SetImage(n, "started")
    /\ UNCHANGED chart /\ NodeFrame

ImageEnds(n) ==
    /\ image[n] = "building"
    /\ \E outcome \in {"built", "failed"} :
          image' = [image EXCEPT ![n] = outcome] /\ SetImage(n, outcome)
    /\ UNCHANGED chart /\ NodeFrame

\* The walk launches the goroutine of a chart, in an order of its own (ChartInstaller).
Launch(n) ==
    /\ At("walk") /\ chart[n] = "idle" /\ ~cancelled
    /\ \A m \in Built : image[m] # "begin"
    /\ SetOf(n, "asking") /\ UNCHANGED doc /\ NodeFrame

\* imageReady: the chart starts when its image is built, and fails with it or when the
\* deadline of the walk is over, which the document does not show.
ChartStarts(n) ==
    /\ chart[n] = "asking"
    /\ \/ image[n] \in {"idle", "built"} /\ SetOf(n, "helm") /\ SetChart(n, "working")
       \/ (image[n] = "failed" \/ cancelled) /\ SetOf(n, "failed") /\ UNCHANGED doc
    /\ NodeFrame

\* Helm returns and completedCB records the outcome; an upgrade may fail before it.
ChartEnds(n) ==
    /\ chart[n] = "helm"
    /\ \/ SetOf(n, "health") /\ SetChart(n, "done")
       \/ SetOf(n, "failed") /\ SetChart(n, "failed")
       \/ SetOf(n, "failed") /\ UNCHANGED doc
    /\ NodeFrame

\* Broken variant: a chart that does not become healthy is installed again.
HealthyOrAgain(n) ==
    /\ chart[n] = "health"
    /\ SetOf(n, "ok") \/ SetOf(n, "asking")
    /\ UNCHANGED doc /\ NodeFrame

\* waitForChart, which the document does not show either.
Healthy(n) ==
    /\ chart[n] = "health"
    /\ SetOf(n, "ok") \/ SetOf(n, "failed")
    /\ UNCHANGED doc /\ NodeFrame

ChartStep(n) == ChartStarts(n) \/ ChartEnds(n) \/ Healthy(n)

----------------------------------------------------------------------------

CallerStep == Receive \/ Locked \/ Select \/ Fail \/ Leave
WatcherStep == WatcherMarks \/ WatcherCancels

Next ==
    \/ CallerStep \/ WatcherStep \/ Preempt \/ Timeout \/ OpStep
    \/ \E n \in Nodes : ImageBegins(n) \/ ImageEnds(n) \/ Launch(n) \/ ChartStep(n)

Spec == Init /\ [][Next]_vars

\* Goroutines run, every operation has a timeout, and the calls of Helm have theirs.  A
\* build may hang, and nobody need preempt the event.
FairSpec ==
    /\ Spec
    /\ WF_vars(CallerStep) /\ WF_vars(WatcherStep) /\ WF_vars(Timeout) /\ WF_vars(OpStep)
    /\ \A n \in Nodes : WF_vars(ImageBegins(n)) /\ WF_vars(Launch(n)) /\ WF_vars(ChartStep(n))

----------------------------------------------------------------------------
(* Properties.  Without `limited': enforceGlobalLimit destroys an           *)
(* environment under the event of the one that it makes room for.           *)

Quiet == caller = "returned" /\ watcher = "off" /\ op \in {"idle", "ended"}

\* No writer makes the document NULL, whatever the order of the operation, its builds,
\* its charts and those who give it up: every update names a node of the tree that
\* SetInitialStatus set up, and finds a document.
NeverErased == [][doc # Null /\ ~limited' => doc' # Null]_vars

\* What the tree has shown as over, a built image or an installed or failed chart, no
\* later statement of another goroutine takes back.
ProgressKept ==
    [][doc # Null /\ doc' # Null /\ ~limited' =>
        \A n \in DOMAIN doc.tree :
            /\ n \in DOMAIN doc'.tree
            /\ doc.tree[n].image \in {"built", "failed"} =>
                  doc'.tree[n].image = doc.tree[n].image
            /\ doc.tree[n].chart \in {"done", "failed"} =>
                  doc'.tree[n].chart = doc.tree[n].chart]_vars

\* When everybody has finished, an event that nobody interrupted shows what the caller
\* was told: done if and only if the operation succeeded.
OutcomeShown ==
    Quiet /\ ~limited /\ doc # Null /\ ~preempted =>
        /\ seen = "ok" => doc.status = "done"
        /\ seen = "error" /\ op = "ended" => doc.status = "failed"

\* A create or an update that ends as done, even after it was preempted or timed out, has
\* installed every chart from a built image, and the document says so node by node.
DoneIsComplete ==
    (Quiet /\ ~limited /\ doc # Null /\ kind # "delete") =>
        (doc.status = "done" =>
            /\ DOMAIN doc.tree = Nodes /\ ~failed
            /\ \A n \in Nodes :
                  /\ doc.tree[n].chart = "done"
                  /\ doc.tree[n].image = IF n \in Built THEN "built" ELSE "none")

\* An event whose operation got the lock does not stay pending: it ends with a final
\* status, whichever of the writers comes last.
EventEnds ==
    (caller = "select") ~> [](Quiet => doc = Null \/ doc.status # "pending")

=============================================================================
