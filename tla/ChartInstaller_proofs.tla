----------------------- MODULE ChartInstaller_proofs -----------------------
(***************************************************************************)
(* Proofs about ChartInstaller for any finite set of charts, any graph      *)
(* without a cycle and any set of builds.  About images they assume that    *)
(* the goroutines of StartBuilds have begun before the walk (PromptBuilds). *)
(***************************************************************************)
EXTENDS ChartInstaller, FiniteSetTheorems, TLAPS

PromptBuilds == LateStart = FALSE

\* The walk: what is above its level is installed, what is below has not begun.
WalkInv ==
    /\ \A c \in Charts : \A d \in deps[c] : level[c] < level[d]
    /\ stage = "start" => \A c \in Charts : level[c] <= at /\ chart[c] = "idle"
    /\ stage = "launch" =>
        \A c \in Charts : /\ level[c] > at => chart[c] = "done"
                          /\ level[c] < at => chart[c] = "idle"
    /\ stage = "ok" => \A c \in Charts : chart[c] = "done"

\* The charts: one that has begun has all that it requires, and Helm knows those that
\* have got so far and no others.
OrderInv ==
    /\ \A c \in Charts : chart[c] # "idle" => \A d \in deps[c] : chart[d] = "done"
    /\ \A c \in released : chart[c] \in {"calling", "health"} \cup Ended
    /\ \A c \in Charts : chart[c] \in {"calling", "health", "done"} => c \in released

\* The contexts: the walk's ends with the operation's and when its result is returned.
ContextInv ==
    /\ opDone \/ outcome # "none" => walkDone
    /\ outcome = "success" => stage = "ok"

\* The images, when the builds begin in time: a chart goes on only if its image is there
\* or if no call of Helm can succeed any more.
ImageInv ==
    /\ stage = "launch" => \A c \in Charts : build[c] # "spawned"
    /\ \A c \in Charts : chart[c] # "idle" => build[c] # "spawned"
    /\ \A c \in Built :
        /\ build[c] # "none"
        /\ chart[c] = "helm" => build[c] = "ok"
        /\ build[c] = "ok" => c \in images \/ walkDone
        /\ c \in released => c \in images

ChartInv == TypeOK /\ WalkInv /\ OrderInv /\ ContextInv

----------------------------------------------------------------------------

\* The invariants hold initially: a dependency lies on a higher level than its dependents.
LEMMA InitChartInv == Init => ChartInv /\ ImageInv
  <1> SUFFICES ASSUME Init PROVE ChartInv /\ ImageInv
    OBVIOUS
  <1>1. level \in [Charts -> Nat] /\ at \in Nat
    BY ChartAssumption, FS_CardinalityType DEF Init
  <1>2. TypeOK
    BY <1>1 DEF Init, TypeOK, Ended, Outcome
  <1>3. WalkInv
    BY <1>1 DEF Init, WalkInv, LongestPath, Dependents
  <1>4. OrderInv /\ ContextInv /\ ImageInv
    BY ChartAssumption DEF Init, OrderInv, ContextInv, ImageInv
  <1> QED
    BY <1>2, <1>3, <1>4 DEF ChartInv

\* What the steps of a chart's own goroutine do: it is neither idle nor at its end.
LEMMA ChartStepFrame ==
    ASSUME TypeOK, NEW c \in Charts, ChartStep(c)
    PROVE  /\ chart[c] \notin {"idle"} \cup Ended
           /\ \E s \in {"asking", "sleeping", "helm", "calling", "health"} \cup Ended :
                    chart' = [chart EXCEPT ![c] = s]
           /\ UNCHANGED <<graphVars, buildVars, walkVars, ctxVars, outcome>>
  <1> USE DEF TypeOK, SetChart, Ended
  <1>1. CASE Ask(c)         BY <1>1 DEF Ask
  <1>2. CASE Wake(c)        BY <1>2 DEF Wake
  <1>3. CASE HelmCall(c)    BY <1>3 DEF HelmCall
  <1>4. CASE HelmReturns(c) BY <1>4 DEF HelmReturns
  <1> QED
    BY <1>1, <1>2, <1>3, <1>4 DEF ChartStep

----------------------------------------------------------------------------

\* Every step preserves the types.
LEMMA TypeStep == ASSUME TypeOK, [Next]_vars PROVE TypeOK'
  <1> USE DEF TypeOK, Ended, Outcome, graphVars, buildVars, walkVars, ctxVars, SetBuild, SetChart
  <1>1. CASE UNCHANGED vars
    BY <1>1 DEF vars
  <1>2. CASE WalkStep
    <2>1. CASE Start \/ WalkCancelled
      BY <2>1 DEF Start, WalkCancelled
    <2>2. CASE LevelDone
      BY <2>2 DEF LevelDone
    <2>3. CASE Return
      BY <2>3 DEF Return
    <2>4. ASSUME NEW c \in Charts, Launch(c)
          PROVE  TypeOK'
      BY <2>4 DEF Launch
    <2> QED
      BY <1>2, <2>1, <2>2, <2>3, <2>4 DEF WalkStep
  <1>3. CASE Cancel \/ WalkTimeout \/ Expire
    BY <1>3 DEF Cancel, WalkTimeout, Expire
  <1>4. ASSUME NEW c \in Charts, BuildBegins(c) \/ BuildEnds(c)
        PROVE  TypeOK'
    BY <1>4 DEF BuildBegins, BuildEnds
  <1>5. ASSUME NEW c \in Charts, ChartStep(c)
        PROVE  TypeOK'
    BY <1>5 DEF ChartStep, Ask, Wake, HelmCall, HelmReturns
  <1> QED
    BY <1>1, <1>2, <1>3, <1>4, <1>5 DEF Next

\* Every step preserves the order of the walk.
LEMMA WalkInvStep == ASSUME TypeOK, WalkInv, [Next]_vars PROVE WalkInv'
  <1> USE DEF TypeOK, WalkInv, graphVars, walkVars, SetChart
  <1>1. CASE UNCHANGED vars
    BY <1>1 DEF vars
  <1>2. CASE WalkStep
    <2>1. CASE Start
      BY <2>1 DEF Start
    <2>2. CASE WalkCancelled
      BY <2>2 DEF WalkCancelled
    <2>3. CASE LevelDone
      BY <2>3 DEF LevelDone, Ended
    <2>4. CASE Return
      BY <2>4 DEF Return
    <2>5. ASSUME NEW c \in Charts, Launch(c)
          PROVE  WalkInv'
      BY <2>5 DEF Launch
    <2> QED
      BY <1>2, <2>1, <2>2, <2>3, <2>4, <2>5 DEF WalkStep
  <1>3. CASE Cancel \/ WalkTimeout \/ Expire
    BY <1>3 DEF Cancel, WalkTimeout, Expire
  <1>4. ASSUME NEW c \in Charts, BuildBegins(c) \/ BuildEnds(c)
        PROVE  WalkInv'
    BY <1>4 DEF BuildBegins, BuildEnds
  <1>5. ASSUME NEW c \in Charts, ChartStep(c)
        PROVE  WalkInv'
    BY <1>5, ChartStepFrame DEF Ended
  <1> QED
    BY <1>1, <1>2, <1>3, <1>4, <1>5 DEF Next

\* Every step preserves the order of the charts: one is launched when those that it
\* requires, which lie on higher levels, are installed.
LEMMA OrderInvStep == ASSUME TypeOK, WalkInv, OrderInv, [Next]_vars PROVE OrderInv'
  <1> USE DEF TypeOK, OrderInv, graphVars, walkVars, SetChart, Ended
  <1>1. CASE UNCHANGED vars
    BY <1>1 DEF vars
  <1>2. CASE WalkStep
    <2>1. CASE Start \/ WalkCancelled \/ LevelDone \/ Return
      BY <2>1 DEF Start, WalkCancelled, LevelDone, Return
    <2>2. ASSUME NEW c \in Charts, Launch(c)
          PROVE  OrderInv'
      <3>1. \A d \in deps[c] : chart[d] = "done"
        BY <2>2 DEF Launch, WalkInv
      <3> QED
        BY <2>2, <3>1 DEF Launch
    <2> QED
      BY <1>2, <2>1, <2>2 DEF WalkStep
  <1>3. CASE Cancel \/ WalkTimeout \/ Expire
    BY <1>3 DEF Cancel, WalkTimeout, Expire
  <1>4. ASSUME NEW c \in Charts, BuildBegins(c) \/ BuildEnds(c)
        PROVE  OrderInv'
    BY <1>4 DEF BuildBegins, BuildEnds
  <1>5. ASSUME NEW c \in Charts, ChartStep(c)
        PROVE  OrderInv'
    BY <1>5 DEF ChartStep, Ask, Wake, HelmCall, HelmReturns
  <1> QED
    BY <1>1, <1>2, <1>3, <1>4, <1>5 DEF Next

\* Every step preserves the relation of the contexts to the outcome.
LEMMA ContextInvStep == ASSUME TypeOK, ContextInv, [Next]_vars PROVE ContextInv'
  <1> USE DEF TypeOK, ContextInv, walkVars, ctxVars, Outcome
  <1>1. CASE UNCHANGED vars
    BY <1>1 DEF vars
  <1>2. CASE WalkStep
    BY <1>2 DEF WalkStep, Start, WalkCancelled, LevelDone, Return, Launch
  <1>3. CASE Cancel \/ WalkTimeout \/ Expire
    BY <1>3 DEF Cancel, WalkTimeout, Expire
  <1>4. ASSUME NEW c \in Charts, BuildBegins(c) \/ BuildEnds(c)
        PROVE  ContextInv'
    BY <1>4 DEF BuildBegins, BuildEnds
  <1>5. ASSUME NEW c \in Charts, ChartStep(c)
        PROVE  ContextInv'
    BY <1>5, ChartStepFrame
  <1> QED
    BY <1>1, <1>2, <1>3, <1>4, <1>5 DEF Next

\* When the builds begin in time, every step preserves what is known of the images.
LEMMA ImageInvStep ==
    ASSUME PromptBuilds, TypeOK, WalkInv, ContextInv, ImageInv, [Next]_vars
    PROVE  ImageInv'
  <1> USE ChartAssumption
      DEF TypeOK, ImageInv, buildVars, walkVars, ctxVars, SetBuild, SetChart
  <1>1. CASE UNCHANGED vars
    BY <1>1 DEF vars
  <1>2. CASE WalkStep
    BY <1>2 DEF WalkStep, Start, WalkCancelled, LevelDone, Return, Launch, PromptBuilds
  <1>3. CASE Cancel \/ WalkTimeout \/ Expire
    BY <1>3 DEF Cancel, WalkTimeout, Expire
  <1>4. ASSUME NEW c \in Charts, BuildBegins(c)
        PROVE  ImageInv'
    BY <1>4 DEF BuildBegins
  <1>5. ASSUME NEW c \in Charts, BuildEnds(c)
        PROVE  ImageInv'
    BY <1>5 DEF BuildEnds, BuildsCancelled, ContextInv
  <1>6. ASSUME NEW c \in Charts, ChartStep(c)
        PROVE  ImageInv'
    <2>1. CASE Ask(c)
      BY <2>1 DEF Ask
    <2>2. CASE Wake(c)
      BY <2>2 DEF Wake
    <2>3. CASE HelmCall(c)
      BY <2>3 DEF HelmCall
    <2>4. CASE HelmReturns(c)
      BY <2>4 DEF HelmReturns
    <2> QED
      BY <1>6, <2>1, <2>2, <2>3, <2>4 DEF ChartStep
  <1> QED
    BY <1>1, <1>2, <1>3, <1>4, <1>5, <1>6 DEF Next

----------------------------------------------------------------------------

\* The inductive invariant of every run of the installation.
THEOREM ChartInvariant == Spec => []ChartInv
  <1>1. Init => ChartInv
    BY InitChartInv
  <1>2. ChartInv /\ [Next]_vars => ChartInv'
    BY TypeStep, WalkInvStep, OrderInvStep, ContextInvStep DEF ChartInv
  <1> QED
    BY <1>1, <1>2, PTL DEF Spec

\* The types of the variables: the walk never leaves the levels of the graph.
THEOREM ChartTypeCorrect == Spec => []TypeOK
  <1>1. ChartInv => TypeOK
    BY DEF ChartInv
  <1> QED
    BY <1>1, ChartInvariant, PTL

\* No chart reaches Helm before the charts that it requires are installed and healthy.
THEOREM DependenciesComeFirst == Spec => []DependenciesFirst
  <1>1. ChartInv => DependenciesFirst
    BY DEF ChartInv, TypeOK, OrderInv, DependenciesFirst, Ended
  <1> QED
    BY <1>1, ChartInvariant, PTL

\* After the result is returned no goroutine left behind reaches Helm.
THEOREM NoReleaseAfterReturn == Spec => NoLateRelease
  <1>1. ChartInv /\ [Next]_vars => [outcome # "none" => released' = released]_vars
    <2> SUFFICES ASSUME ChartInv, Next, outcome # "none"
                 PROVE  released' = released
      OBVIOUS
    <2>1. walkDone
      BY DEF ChartInv, ContextInv
    <2> QED
      BY <2>1 DEF Next, WalkStep, Start, WalkCancelled, LevelDone, Return, Launch, Cancel,
                  WalkTimeout, Expire, BuildBegins, BuildEnds, ChartStep, Ask, Wake,
                  HelmCall, HelmReturns
  <1> QED
    BY <1>1, ChartInvariant, PTL DEF Spec, NoLateRelease

\* The inductive invariant about images, when the builds begin in time.
THEOREM ImagesInvariant == ASSUME PromptBuilds PROVE Spec => [](ChartInv /\ ImageInv)
  <1>1. Init => ChartInv /\ ImageInv
    BY InitChartInv
  <1>2. ChartInv /\ ImageInv /\ [Next]_vars => (ChartInv /\ ImageInv)'
    BY PromptBuilds, TypeStep, WalkInvStep, OrderInvStep, ContextInvStep, ImageInvStep
       DEF ChartInv
  <1> QED
    BY <1>1, <1>2, PTL DEF Spec

\* No chart reaches Helm before the image that is built for it is in the registry.
THEOREM ImagesComeFirst == ASSUME PromptBuilds PROVE Spec => []ImageFirst
  <1>1. ImageInv => ImageFirst
    BY DEF ImageInv, ImageFirst
  <1> QED
    BY <1>1, ImagesInvariant, PromptBuilds, PTL

\* Success means that every chart is installed and every image is built.
THEOREM SuccessComplete == ASSUME PromptBuilds PROVE Spec => []SuccessIsComplete
  <1>1. ChartInv /\ ImageInv => SuccessIsComplete
    BY ChartAssumption
       DEF ChartInv, ImageInv, WalkInv, OrderInv, ContextInv, SuccessIsComplete
  <1> QED
    BY <1>1, ImagesInvariant, PromptBuilds, PTL

=============================================================================
