------------------------------ MODULE Metadata ------------------------------
(* DataGetter.Get (pkg/nitro/meta) turns the acyl.yml of the triggering      *)
(* repository and of the repositories it depends on, and the branches these  *)
(* have, into one configuration: the list of everything to install, each     *)
(* with a unique name, a commit and what it requires.  FetchCharts is then   *)
(* called for that configuration (module ChartFetch).                        *)
(*                                                                           *)
(* Get walks over the dependencies of dependencies with processDep, which    *)
(* calls itself and GitHub.  The calls that are under way are a stack here,  *)
(* and what they do with one dependency is a step.                           *)
(*                                                                           *)
(* A name is a sequence: prefixing it with the name of a repository is       *)
(* concatenation.  A commit is the branch it is the head of, the commit of   *)
(* the pull request, or an override.                                         *)
EXTENDS ChartFetch, Sequences, SequencesExt

CONSTANTS
    Worlds,     \* what GitHub may answer: see WellFormed
    App,        \* the triggering repository
    None        \* a field that is not there

Source == "source"      \* the branches of the pull request
Base   == "base"

VARIABLES
    world,          \* what GitHub answers
    config,         \* what Get returned
    calls,          \* the loop of Get, and the calls of processDep, the innermost last
    repomap,        \* the repositories that have been used
    transitiveDeps, \* what was found below the list that is being processed
    list,           \* which of the two of the triggering repository that is
    directDeps      \* the first of them, when it has been processed

getVars == <<calls, repomap, transitiveDeps, list, directDeps>>
vars == <<fetchVars, world, config, getVars>>

(***************************************************************************)
(* A world gives for every repository                                      *)
(*   yaml[repo]      the direct and env dependencies of its acyl.yml, or   *)
(*                   None when that is missing, malformed or version 1     *)
(*   branches[repo]  its branches                                          *)
(* and                                                                     *)
(*   overrides       the repositories in RepoRefOverrides                  *)
(*                                                                         *)
(* A dependency that acyl.yml declares is a record with fields             *)
(*   kind      "repo", "path" (chart_path), "repoPath" (chart_repo_path)   *)
(*             or "bad" (none of these, or several)                        *)
(*   repo      its repository, or None                                     *)
(*   name      its name, which is the chart's when acyl.yml has none       *)
(*   requires, match (branch matching is not disabled), default (branch)   *)
(* to which Get adds ref, branch and parent.  No name that is declared     *)
(* looks like one that Get makes of a repository's and a declared one, and *)
(* GetName tells the repositories apart.                                   *)
(***************************************************************************)
Fields == {"kind", "repo", "name", "requires", "match", "default", "ref", "branch", "parent"}

WellFormed(w) ==
    /\ App \in DOMAIN w.yaml
    /\ \A r \in DOMAIN w.yaml : None \notin w.branches[r]
    /\ \A r \in DOMAIN w.yaml : w.yaml[r] # None =>
          \A ds \in {w.yaml[r].direct, w.yaml[r].env} :
              /\ ds \in Seq(ToSet(ds))
              /\ \A i \in DOMAIN ds :
                    /\ DOMAIN ds[i] = Fields /\ ds[i].match \in BOOLEAN
                    /\ ds[i].kind = "repo" => ds[i].repo \in DOMAIN w.yaml
                    /\ ds[i].name = <<ds[i].name[1]>>
                    /\ ds[i].requires \in Seq(ToSet(ds[i].requires))

ASSUME WorldsAssumption == \A w \in Worlds : WellFormed(w)

Failed == [ok |-> FALSE]

\* None is no configuration.
ASSUME NoneAssumption == None # Failed

-----------------------------------------------------------------------------
(* Branch matching *)

\* Of the branches wanted, the first that is there, or None
FirstOf(wanted, branches) ==
    LET there == {i \in DOMAIN wanted : wanted[i] \in branches}
    IN  IF there = {} THEN None ELSE wanted[CHOOSE i \in there : \A j \in there : i <= j]

\* Broken variant: the default branch is preferred to the source branch.
PreferDefault(match, default, branches) ==
    FirstOf(IF match THEN <<default, Source, Base>> ELSE <<default>>, branches)

\* GetRefForRepo
GetRefForRepo(match, default, branches) ==
    FirstOf(IF match THEN <<Source, default, Base>> ELSE <<default>>, branches)

\* getRefForRepoDependency: the base branch stands for a default that is not
\* declared, and an override replaces the commit but not the branch.
BranchOf(d) ==
    GetRefForRepo(d.match, IF d.default = None THEN Base ELSE d.default, world.branches[d.repo])

AtBranch(d) ==
    [d EXCEPT !.branch = BranchOf(d),
              !.ref = IF d.repo \in world.overrides THEN "override" ELSE BranchOf(d)]

-----------------------------------------------------------------------------
(* The calls *)

\* What is below a dependency: its deps so far, under their new names, and when these are
\* complete, the old names (of renames) that have still to be replaced in their requirements.
Invoke(d) == [dep |-> d, deps |-> <<>>, renames |-> {}]

\* The loop of Get is one on behalf of the application.
Application == [repo |-> App, ref |-> "pull request", branch |-> Source]

Current == calls[Len(calls)]

\* What a call goes through
Declared(call) ==
    IF call.dep.repo = App /\ list = "env" THEN world.yaml[App].env
                                           ELSE world.yaml[call.dep.repo].direct

Pending(call) == Len(call.deps) < Len(Declared(call))
Upcoming(call) == Declared(call)[Len(call.deps) + 1]

\* GetName(repo) + "-" + name
Prefixed(repo, name) == <<repo>> \o name

\* After processDep of a dependency d, for the one that declares it
Add(call, d) ==
    LET name == Prefixed(call.dep.repo, d.name)
    IN  IF call.dep.repo = App THEN [call EXCEPT !.deps = Append(@, d)]
        ELSE [dep     |-> [call.dep EXCEPT !.requires = Append(@, name)],
              deps    |-> Append(call.deps, [d EXCEPT !.name = name, !.parent = call.dep.name]),
              renames |-> call.renames \cup {d.name}]

\* Broken variant: siblings keep requiring the names of before.
KeepRequires(ds, old, new) == ds

\* renameRequires, for one pair of names
Renamed(ds, old, new) ==
    [i \in DOMAIN ds |->
        [ds[i] EXCEPT !.requires =
            [j \in DOMAIN @ |-> IF @[j] = old THEN new ELSE @[j]]]]

\* renameRequires for the next of a call's renames
Replacing(call, old) ==
    [call EXCEPT !.deps = Renamed(@, old, Prefixed(call.dep.repo, old)), !.renames = @ \ {old}]

\* The chart of a chart_path is in the repository of the parent, at its commit.
AtParent(d, parent) ==
    IF d.kind = "path"
    THEN [d EXCEPT !.ref = parent.ref, !.branch = parent.branch]
    ELSE d

Refused(d) ==
    \/ /\ d.kind = "repo"
       /\ d.repo \in repomap \/ BranchOf(d) = None \/ world.yaml[d.repo] = None
    \/ d.kind \in {"path", "repoPath"} /\ (~d.match \/ d.default # None)
    \/ d.kind \notin {"repo", "path", "repoPath"}

NamesOf(ds) == {ds[i].name : i \in DOMAIN ds}

\* Broken variant: the requirements of the environment's list are not checked.
ValidateDirect(direct, env) ==
    /\ IsInjective([i \in DOMAIN (direct \o env) |-> (direct \o env)[i].name])
    /\ \A i \in DOMAIN direct : ToSet(direct[i].requires) \subseteq NamesOf(direct)

\* DependencyDeclaration.ValidateNames
ValidateNames(direct, env) ==
    LET all == direct \o env
    IN  /\ IsInjective([i \in DOMAIN all |-> all[i].name])
        /\ \A i, j \in DOMAIN all :
              all[i].kind = "repo" /\ all[j].kind = "repo" /\ all[i].repo = all[j].repo => i = j
        /\ \A i \in DOMAIN direct : ToSet(direct[i].requires) \subseteq NamesOf(direct)
        /\ \A i \in DOMAIN env : ToSet(env[i].requires) \subseteq NamesOf(all)

-----------------------------------------------------------------------------
(* The steps of Get *)

NoCalls ==
    /\ calls = <<>> /\ repomap = {} /\ transitiveDeps = <<>> /\ list = "direct" /\ directDeps = <<>>

Returns(result) ==
    /\ config' = result
    /\ calls' = <<>> /\ repomap' = {} /\ transitiveDeps' = <<>> /\ list' = "direct"
    /\ directDeps' = <<>>

\* processEnvConfig calls Get, which gets the acyl.yml of the triggering repository.
Begin ==
    /\ config = None /\ calls = <<>>
    /\ IF world.yaml[App] = None THEN Returns(Failed)
       ELSE /\ calls' = <<Invoke(Application)>> /\ repomap' = {App}
            /\ UNCHANGED <<config, transitiveDeps, list, directDeps>>

Walking == config = None /\ calls # <<>>

\* processDep looks at the context; the calls of GitHub fail when it is cancelled or else.
Fails ==
    /\ Walking /\ Pending(Current) /\ Returns(Failed)

Refuse ==
    /\ Walking /\ Pending(Current) /\ Refused(Upcoming(Current)) /\ Returns(Failed)

\* The branches and the acyl.yml of a repository
ProcessRepo ==
    /\ Walking /\ Pending(Current)
    /\ LET d == Upcoming(Current)
       IN  /\ d.kind = "repo" /\ ~Refused(d)
           /\ calls' = Append(calls, Invoke(AtBranch(d)))
           /\ repomap' = repomap \cup {d.repo}
    /\ UNCHANGED <<config, transitiveDeps, list, directDeps>>

\* A chart_path or a chart_repo_path
ProcessChart ==
    /\ Walking /\ Pending(Current)
    /\ LET d == Upcoming(Current)
       IN  /\ d.kind # "repo" /\ ~Refused(d)
           /\ calls' = [calls EXCEPT ![Len(calls)] = Add(@, AtParent(d, @.dep))]
    /\ UNCHANGED <<config, repomap, transitiveDeps, list, directDeps>>

\* for old, new := range renames, which is in any order
Rename ==
    /\ Walking /\ ~Pending(Current)
    /\ \E old \in Current.renames :
          calls' = [calls EXCEPT ![Len(calls)] = Replacing(@, old)]
    /\ UNCHANGED <<config, repomap, transitiveDeps, list, directDeps>>

\* processDep of a repository returns.
Return ==
    /\ Walking /\ ~Pending(Current) /\ Current.renames = {} /\ Len(calls) > 1
    /\ transitiveDeps' = transitiveDeps \o Current.deps
    /\ calls' = [k \in 1..(Len(calls) - 1) |->
                    IF k = Len(calls) - 1 THEN Add(calls[k], Current.dep) ELSE calls[k]]
    /\ UNCHANGED <<config, repomap, list, directDeps>>

\* The dependencies of the first list are followed by what was found below them,
EndDirect ==
    /\ Walking /\ ~Pending(Current) /\ Len(calls) = 1 /\ list = "direct"
    /\ directDeps' = Current.deps \o transitiveDeps /\ transitiveDeps' = <<>>
    /\ list' = "env" /\ calls' = <<Invoke(Application)>>
    /\ UNCHANGED <<config, repomap>>

\* and so are those of the second.
EndEnv ==
    /\ Walking /\ ~Pending(Current) /\ Len(calls) = 1 /\ list = "env"
    /\ LET env == Current.deps \o transitiveDeps
       IN  Returns(IF ValidateNames(directDeps, env)
                   THEN [ok |-> TRUE, direct |-> directDeps, env |-> env]
                   ELSE Failed)

Get ==
    \/ Begin \/ Fails \/ Refuse \/ ProcessRepo \/ ProcessChart \/ Rename \/ Return
    \/ EndDirect \/ EndEnv

-----------------------------------------------------------------------------
(* The installation *)

\* GenerateCharts: the charts of the environment, the application last, which
\* requires them all.  It refuses a chart without a ref and a requirement that
\* is not there.
GenerateCharts(c) ==
    LET deps   == c.direct \o c.env
        charts == [i \in DOMAIN deps |->
                      [title |-> deps[i].name, requires |-> ToSet(deps[i].requires)]]
    IN  IF \E i \in DOMAIN deps :
               deps[i].ref = None \/ ~(ToSet(deps[i].requires) \subseteq NamesOf(deps))
        THEN Failed
        ELSE [ok |-> TRUE,
              charts |-> Append(charts, [title |-> <<App>>, requires |-> NamesOf(deps)])]

\* ObjectGraph.populate of the vendored dag, over the offsets of the charts: of two charts
\* with one title the last is required.  Nothing may require itself, in one step or several:
\* of any charts, one requires none of them.
Populates(charts) ==
    LET offset(t) == CHOOSE i \in DOMAIN charts :
                        charts[i].title = t /\ \A j \in DOMAIN charts :
                                                  charts[j].title = t => j <= i
        below == [i \in DOMAIN charts |-> {offset(t) : t \in charts[i].requires}]
    IN  \A S \in (SUBSET DOMAIN charts) \ {{}} : \E i \in S : below[i] \cap S = {}

-----------------------------------------------------------------------------
(* The behaviour *)

Init == /\ world \in Worlds
        /\ config = None
        /\ NoCalls
        /\ Idle

\* fetchCharts, which does not need the world or the configuration any more
StartFetch ==
    /\ pc = "idle"
    /\ config # None
    /\ config.ok
    /\ LET n == Len(config.direct \o config.env)
       IN  n <= MaxDeps /\ \E ds \in SUBSET (1..n) : Call(n, ds)
    /\ world' = None
    /\ config' = Failed
    /\ UNCHANGED getVars

Step ==
    \/ Get /\ UNCHANGED <<fetchVars, world>>
    \/ StartFetch
    \/ Fetching /\ UNCHANGED <<world, config, getVars>>

MetadataSpec == Init /\ [][Step]_vars /\ Fairness

-----------------------------------------------------------------------------
(* Properties *)

Got == config # None /\ config.ok

AllDeps == config.direct \o config.env

\* An acyl.yml whose lists refer to names declared in them (env also to direct), not in a
\* circle, and without one that is the application's.
WellDeclared(yaml) ==
    LET Ordered(ds, known) ==
            /\ \A i \in DOMAIN ds : ToSet(ds[i].requires) \subseteq NamesOf(ds) \cup known
            /\ IsInjective([i \in DOMAIN ds |-> ds[i].name])
            /\ Populates([i \in DOMAIN ds |->
                    [title |-> ds[i].name, requires |-> ToSet(ds[i].requires) \ known]])
    IN  /\ Ordered(yaml.direct, {}) /\ Ordered(yaml.env, NamesOf(yaml.direct))
        /\ <<App>> \notin NamesOf(yaml.direct \o yaml.env)

\* What Get accepts can be installed: GenerateCharts refuses it only for a
\* chart_repo_path without a ref, a repository is there once, however many
\* lists name it, and never the triggering repository again
\* (doc/acyl-v2.yml:95-99).  And unless an acyl.yml requires something in a
\* circle, or what it does not declare, or calls a dependency as the
\* application is called, each chart has a title of its own and they can be
\* ordered, renamed as they are: ChartInstaller gets an acyclic graph.
Installable ==
    Got =>
      LET noRef == \E i \in DOMAIN AllDeps : AllDeps[i].ref = None
          made  == GenerateCharts(config)
          repos == {i \in DOMAIN AllDeps : AllDeps[i].kind = "repo"}
          wellDeclared == \A r \in {App} \cup {AllDeps[i].repo : i \in repos} :
                              WellDeclared(world.yaml[r])
      IN  /\ made.ok <=> ~noRef
          /\ made.ok /\ wellDeclared =>
                /\ IsInjective([i \in DOMAIN made.charts |-> made.charts[i].title])
                /\ Populates(made.charts)
          /\ IsInjective([i \in repos |-> AllDeps[i].repo])
          /\ \A i \in repos : AllDeps[i].repo # App

\* The direct dependencies of every repository in the configuration are in it
\* too, under names that begin with the repository's; the repository requires
\* them, and what one of them requires among its siblings is required under
\* the new name, so that the order of installation that the acyl.yml of the
\* repository asks for is kept.  Those one level below the triggering
\* repository's list name their parent (deeper ones have the name it had
\* before it was prefixed itself).
TransitivesRequired ==
    Got =>
      \A i \in DOMAIN AllDeps :
        LET d == AllDeps[i] IN
        d.kind = "repo" =>
          LET declared == world.yaml[d.repo].direct
              siblings == NamesOf(declared)
          IN  \A j \in DOMAIN declared :
                \E k \in DOMAIN AllDeps :
                  LET kid == AllDeps[k] IN
                  /\ kid.name = Prefixed(d.repo, declared[j].name)
                  /\ kid.name \in ToSet(d.requires)
                  /\ \A r \in ToSet(declared[j].requires) \cap siblings :
                        Prefixed(d.repo, r) \in ToSet(kid.requires)
                  /\ Len(d.name) = 1 => kid.parent = d.name

\* Every repository is used at one commit, of a branch that exists: the source
\* branch of the pull request when the repository has it and matching is not
\* disabled, else the default branch it has.  The charts a repository gives by
\* path come from that same commit, never from another branch of it.
RefsMatch ==
    Got =>
      \A i \in DOMAIN AllDeps :
        LET d == AllDeps[i]
            branches == world.branches[d.repo]
        IN
        d.kind = "repo" =>
          /\ d.branch \in branches
          /\ d.match /\ Source \in branches => d.branch = Source
          /\ ~(d.match /\ Source \in branches) /\ d.default \in branches
                => d.branch = d.default
          /\ d.repo \in world.overrides \/ d.ref = d.branch
          /\ \A k \in DOMAIN AllDeps :
                LET kid == AllDeps[k] IN
                kid.kind = "path" /\ kid.name[1] = d.repo /\ Len(kid.name) = 2
                    => kid.ref = d.ref
=============================================================================
