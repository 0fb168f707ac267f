--------------------------- MODULE ChartInstaller ---------------------------
(***************************************************************************)
(* One run of ChartInstaller.installOrUpgradeCharts (pkg/nitro/metahelm)    *)
(* with the batch of image builds it waits for (ImageBuilder.StartBuilds,   *)
(* pkg/nitro/images) and the walk over the graph of charts that does the    *)
(* work (vendored metahelm and its dag package).                            *)
(*                                                                          *)
(* Goroutines: one per image build; the caller, which walks the graph level *)
(* by level, dependencies first; and one per chart of the level, which asks *)
(* the callback imageReady until the image is there, calls Helm and polls   *)
(* the deployment.  Three deadlines end them: the context of the operation, *)
(* the 30 minutes of install and upgrade, and metahelm's own 60 minutes.    *)
(***************************************************************************)
EXTENDS Integers, FiniteSets

CONSTANTS
    Charts,     \* the application and its dependencies
    Built,      \* those with a repository, whose image is built
    LateStart   \* the goroutines of StartBuilds may begin after the walk has

ASSUME ChartAssumption ==
    /\ IsFiniteSet(Charts) /\ Charts # {}
    /\ Built \subseteq Charts
    /\ LateStart \in BOOLEAN

VARIABLES
    deps,       \* the charts that each chart requires
    level,      \* length of the longest path to it from a root of the graph
    build,      \* the outcome of its build, as the batch records it
    images,     \* the charts whose image is in the registry
    stage,      \* where the walk is
    at,         \* the level that it has reached, the highest first
    chart,      \* the goroutine of each chart
    released,   \* the charts that Helm was asked to install or upgrade
    builderr,   \* imageReady has seen the error of a build
    opDone,     \* the context of the operation is cancelled
    walkDone,   \* the context of the walk is cancelled
    expired,    \* metahelm's 60 minutes are over
    outcome     \* what installOrUpgradeCharts returned

graphVars == <<deps, level>>
buildVars == <<build, images>>
walkVars == <<stage, at>>
ctxVars == <<opDone, walkDone, expired>>
vars == <<deps, level, build, images, stage, at, chart, released, builderr,
          opDone, walkDone, expired, outcome>>

Ended == {"done", "failed"}
Outcome == {"none", "success", "buildError", "error"}

TypeOK ==
    /\ deps \in [Charts -> SUBSET Charts]
    /\ level \in [Charts -> Nat]
    /\ build \in [Charts -> {"none", "spawned", "running", "ok", "failed"}]
    /\ images \subseteq Charts
    /\ stage \in {"start", "launch", "ok", "error"}
    /\ at \in Nat
    /\ chart \in [Charts -> {"idle", "asking", "sleeping", "helm", "calling", "health"}
                                \cup Ended]
    /\ released \subseteq Charts
    /\ builderr \in BOOLEAN
    /\ opDone \in BOOLEAN /\ walkDone \in BOOLEAN /\ expired \in BOOLEAN
    /\ outcome \in Outcome

----------------------------------------------------------------------------
(* The graph.                                                               *)

Dependents(c) == {p \in Charts : c \in deps[p]}

\* calcLevels.  A synthetic root over several roots only adds an empty level.  A graph
\* with a cycle, which Build rejects, has no such function.
LongestPath ==
    \A c \in Charts :
        /\ \A p \in Dependents(c) : level[p] < level[c]
        /\ level[c] = 0 \/ \E p \in Dependents(c) : level[c] = level[p] + 1

Init ==
    /\ deps \in [Charts -> SUBSET Charts]
    /\ level \in [Charts -> 0..Cardinality(Charts) - 1]
    /\ LongestPath
    /\ build = [c \in Charts |-> IF c \in Built THEN "spawned" ELSE "none"]
    /\ images = {}
    /\ stage = "start"
    /\ at \in {level[c] : c \in Charts} /\ \A c \in Charts : level[c] <= at
    /\ chart = [c \in Charts |-> "idle"]
    /\ released = {}
    /\ builderr = FALSE
    /\ opDone = FALSE /\ walkDone = FALSE /\ expired = FALSE
    /\ outcome = "none"

SetBuild(c, state) == build' = [build EXCEPT ![c] = state]
SetChart(c, state) == chart' = [chart EXCEPT ![c] = state]

\* The contexts of the builds end with the operation's, and by Stop when the charts are
\* installed or have failed.
BuildsCancelled == opDone \/ outcome # "none"

----------------------------------------------------------------------------
(* The image builds.                                                        *)

\* The goroutine of a build records that it has started.
BuildBegins(c) ==
    /\ build[c] = "spawned" /\ SetBuild(c, "running")
    /\ UNCHANGED <<graphVars, images, walkVars, chart, released, builderr, ctxVars, outcome>>

\* BuildImage returns and its outcome is recorded.  Furan's error for a cancelled build
\* is suppressed, so it counts as built.
BuildEnds(c) ==
    /\ build[c] = "running"
    /\ \/ SetBuild(c, "ok") /\ images' = images \cup {c}
       \/ SetBuild(c, "failed") /\ UNCHANGED images
       \/ BuildsCancelled /\ SetBuild(c, "ok") /\ UNCHANGED images
    /\ UNCHANGED <<graphVars, walkVars, chart, released, builderr, ctxVars, outcome>>

----------------------------------------------------------------------------
(* The walk.                                                                *)

\* The namespace and Tiller are set up while the builds begin, and the walk starts.
Start ==
    /\ stage = "start"
    /\ \/ /\ LateStart \/ \A c \in Charts : build[c] # "spawned"
          /\ stage' = "launch"
       \/ stage' = "error"
    /\ UNCHANGED <<graphVars, buildVars, at, chart, released, builderr, ctxVars, outcome>>

\* Walk looks at its context and starts the goroutine of a chart of the level.
Launch(c) ==
    /\ stage = "launch" /\ level[c] = at /\ chart[c] = "idle" /\ ~walkDone
    /\ SetChart(c, "asking")
    /\ UNCHANGED <<graphVars, buildVars, walkVars, released, builderr, ctxVars, outcome>>

\* Its context is cancelled: it returns, and waits for none that it has started.
WalkCancelled ==
    /\ stage = "launch" /\ walkDone
    /\ \E c \in Charts : level[c] = at /\ chart[c] = "idle"
    /\ stage' = "error"
    /\ UNCHANGED <<graphVars, buildVars, at, chart, released, builderr, ctxVars, outcome>>

\* Broken variant: the next level starts when this one is launched.
NextLevelAtOnce ==
    /\ stage = "launch"
    /\ \A c \in Charts : level[c] = at => chart[c] # "idle"
    /\ IF \E c \in Charts : chart[c] = "failed" THEN stage' = "error" /\ UNCHANGED at
       ELSE IF at = 0 THEN stage' = "ok" /\ UNCHANGED at
       ELSE at' = at - 1 /\ UNCHANGED stage
    /\ UNCHANGED <<graphVars, buildVars, chart, released, builderr, ctxVars, outcome>>

\* Wait returns when every goroutine of the level has ended: with the first error, or
\* the next level follows.
LevelDone ==
    /\ stage = "launch"
    /\ \A c \in Charts : level[c] = at => chart[c] \in Ended
    /\ IF \E c \in Charts : chart[c] = "failed" THEN stage' = "error" /\ UNCHANGED at
       ELSE IF at = 0 THEN stage' = "ok" /\ UNCHANGED at
       ELSE at' = at - 1 /\ UNCHANGED stage
    /\ UNCHANGED <<graphVars, buildVars, chart, released, builderr, ctxVars, outcome>>

\* Broken variant: an error of the walk is not passed on.
ReturnIgnoresError ==
    /\ stage \in {"ok", "error"} /\ outcome = "none"
    /\ outcome' = "success"
    /\ walkDone' = TRUE
    /\ UNCHANGED <<graphVars, buildVars, walkVars, chart, released, builderr, opDone, expired>>

\* install or upgrade returns: the releases are written under the context of the walk,
\* which is cancelled on the way out, the builds are stopped, the error of a build is
\* preferred to that of the walk, and after an error the namespace is deleted.
Return ==
    /\ stage \in {"ok", "error"} /\ outcome = "none"
    /\ \/ stage = "ok" /\ ~walkDone /\ outcome' = "success"
       \/ outcome' = IF builderr THEN "buildError" ELSE "error"
    /\ walkDone' = TRUE
    /\ UNCHANGED <<graphVars, buildVars, walkVars, chart, released, builderr, opDone, expired>>

----------------------------------------------------------------------------
(* The goroutine of a chart.                                                *)

\* Broken variant: the image counts as ready once its build has started.
AskOnce(c) ==
    /\ chart[c] = "asking"
    /\ IF build[c] = "failed" THEN SetChart(c, "failed") /\ builderr' = TRUE
       ELSE SetChart(c, "helm") /\ UNCHANGED builderr
    /\ UNCHANGED <<graphVars, buildVars, walkVars, released, ctxVars, outcome>>

\* The callback imageReady.  A build that has not started counts as no build.
Ask(c) ==
    /\ chart[c] = "asking"
    /\ \/ build[c] \in {"none", "spawned", "ok"} /\ SetChart(c, "helm") /\ UNCHANGED builderr
       \/ build[c] = "failed" /\ SetChart(c, "failed") /\ builderr' = TRUE
       \/ build[c] = "running" /\ SetChart(c, "sleeping") /\ UNCHANGED builderr
    /\ UNCHANGED <<graphVars, buildVars, walkVars, released, ctxVars, outcome>>

\* Broken variant: the deadline is not looked at.
WakeForever(c) ==
    /\ chart[c] = "sleeping"
    /\ SetChart(c, "asking")
    /\ UNCHANGED <<graphVars, buildVars, walkVars, released, builderr, ctxVars, outcome>>

\* It looks at metahelm's deadline and asks again; the context is not looked at.
Wake(c) ==
    /\ chart[c] = "sleeping"
    /\ SetChart(c, IF expired THEN "failed" ELSE "asking")
    /\ UNCHANGED <<graphVars, buildVars, walkVars, released, builderr, ctxVars, outcome>>

\* Broken variant: Helm is called without the context.
HelmCallAnyway(c) ==
    /\ chart[c] = "helm"
    /\ SetChart(c, "calling") /\ released' = released \cup {c}
    /\ UNCHANGED <<graphVars, buildVars, walkVars, builderr, ctxVars, outcome>>

\* Helm is called under the context of the walk; an upgrade first asks whether the
\* release exists, which may fail.
HelmCall(c) ==
    /\ chart[c] = "helm"
    /\ \/ ~walkDone /\ SetChart(c, "calling") /\ released' = released \cup {c}
       \/ SetChart(c, "failed") /\ UNCHANGED released
    /\ UNCHANGED <<graphVars, buildVars, walkVars, builderr, ctxVars, outcome>>

\* The call returns, and then waitForChart, which only its own timeout ends.
HelmReturns(c) ==
    /\ \/ chart[c] = "calling" /\ SetChart(c, "health")
       \/ chart[c] = "health" /\ SetChart(c, "done")
       \/ chart[c] \in {"calling", "health"} /\ SetChart(c, "failed")
    /\ UNCHANGED <<graphVars, buildVars, walkVars, released, builderr, ctxVars, outcome>>

----------------------------------------------------------------------------
(* The deadlines.                                                           *)

\* The operation is preempted, times out or ends.
Cancel ==
    /\ ~opDone
    /\ opDone' = TRUE /\ walkDone' = TRUE
    /\ UNCHANGED <<graphVars, buildVars, walkVars, chart, released, builderr, expired, outcome>>

\* The 30 minutes of install and upgrade.
WalkTimeout ==
    /\ stage # "start" /\ ~walkDone
    /\ walkDone' = TRUE
    /\ UNCHANGED <<graphVars, buildVars, walkVars, chart, released, builderr, opDone,
                   expired, outcome>>

\* The 60 minutes of metahelm, which began with the walk.
Expire ==
    /\ stage # "start" /\ walkDone /\ ~expired
    /\ expired' = TRUE
    /\ UNCHANGED <<graphVars, buildVars, walkVars, chart, released, builderr, opDone,
                   walkDone, outcome>>

----------------------------------------------------------------------------

ChartStep(c) == Ask(c) \/ Wake(c) \/ HelmCall(c) \/ HelmReturns(c)

WalkStep ==
    \/ Start \/ WalkCancelled \/ LevelDone \/ Return
    \/ \E c \in Charts : Launch(c)

Next ==
    \/ WalkStep \/ Cancel \/ WalkTimeout \/ Expire
    \/ \E c \in Charts : BuildBegins(c) \/ BuildEnds(c) \/ ChartStep(c)

Spec == Init /\ [][Next]_vars

\* Goroutines run and time passes; calls of Helm and polls of a deployment have their
\* own timeouts.  A build may hang for ever.
FairSpec ==
    /\ Spec
    /\ WF_vars(WalkStep) /\ WF_vars(WalkTimeout) /\ WF_vars(Expire)
    /\ \A c \in Charts : WF_vars(BuildBegins(c)) /\ WF_vars(ChartStep(c))

----------------------------------------------------------------------------
(* Properties.                                                              *)

\* No chart is handed to Helm before every chart that it requires is installed and
\* healthy, whatever the shape of the graph and the order of the goroutines: the levels
\* of calcLevels and the Wait between them have to add up to the order of the graph.
DependenciesFirst ==
    \A c \in released : \A d \in deps[c] : chart[d] = "done"

\* No chart is handed to Helm before the image that is built for it is in the registry;
\* a build that was cancelled, and recorded as successful, is no exception.
ImageFirst == released \cap Built \subseteq images

\* Success means that every chart is installed and healthy and every image is built.
SuccessIsComplete ==
    outcome = "success" =>
        /\ \A c \in Charts : chart[c] = "done"
        /\ Built \subseteq images

\* After installOrUpgradeCharts has returned, and while its caller deletes the namespace
\* or marks the environment, no goroutine left behind hands a chart to Helm any more.
NoLateRelease == [][outcome # "none" => released' = released]_vars

\* The installation comes to its end with all its goroutines, even when a build hangs.
AllEnd ==
    <>[](outcome # "none" /\ \A c \in Charts : chart[c] \in {"idle"} \cup Ended)

=============================================================================
