------------------------------- MODULE Fleet -------------------------------
(***************************************************************************)
(* The environments of several pull requests and what keeps their number    *)
(* and their remains in check: enforceGlobalLimit, run by each create under *)
(* its own lock (pkg/nitro/env), the reaper (pkg/reap), and the cleanup     *)
(* job, which prunes old records (pkg/persistence/cleanup.go) and deletes   *)
(* orphaned namespaces (ChartInstaller.Cleanup).                            *)
(*                                                                          *)
(* A pull request has at most one record.  The agents are the pull          *)
(* requests, each with the create that its webhooks ask for, and the        *)
(* reaper; every agent runs at most one Delete at a time, of any pull       *)
(* request, under the lock of that one.  Locks are preempted as LockService *)
(* says: the holder's context is cancelled when another agent waits, or a   *)
(* create has taken too long.  lockingOperation then returns and releases   *)
(* the lock at once (the same step here), and the goroutine it leaves goes  *)
(* on with what does not depend on the context: the late work.  A Delete    *)
(* is one step when the lock is free, and leaves the teardown of namespace  *)
(* and row to a goroutine that has no lock; so only a create holds one from *)
(* step to step.  A few calls in a row are one step too where only their    *)
(* failures are seen from outside: the namespace and the row of a teardown, *)
(* what becomes of an old namespace and row when a new row is written.      *)
(*                                                                          *)
(* EnvManager has the operations on one pull request step by step.  One age *)
(* stands for the reaper's hour and month and for the weeks of the cleanup  *)
(* job.  Goroutines at the same step of the same work count as one.  A      *)
(* record that replaces a pruned one has its name again, so that work left   *)
(* behind finds more to change than under the fresh names of the program.   *)
(***************************************************************************)
EXTENDS Naturals, Sequences, FiniteSets

CONSTANTS
    Prs,          \* pull requests
    Reaper, None,
    GlobalLimit,
    MaxCreates,   \* bound: webhooks that ask for a create
    MaxFaults     \* bound: crashes of the server, and deletions that fail

ASSUME FleetAssumption ==
    /\ IsFiniteSet(Prs) /\ Reaper \notin Prs
    /\ None \notin Prs \cup {Reaper} \cup (Prs \X (1..2))
    /\ GlobalLimit \in Nat \ {0}
    /\ MaxCreates \in Nat /\ MaxFaults \in Nat

Agents == Prs \cup {Reaper}
Namespaces == Prs \X (1..2)

VARIABLES
    status,     \* qa_environments.status
    younger,    \* the records with a later creation timestamp than that of a record
    old,        \* the records whose timestamp is beyond the age
    row,        \* kubernetes_environments: the namespace of a record
    live,       \* the namespaces in Kubernetes
    pc,         \* the create of a pull request
    newNs,      \* the namespace it has created
    target,     \* the pull request whose lock an agent waits for, to destroy it
    todo,       \* the pull requests that the agent has still to look at
    late,       \* what the goroutines of abandoned operations have still to do
    teardowns,  \* the goroutines of deleteNamespace
    disturbed,  \* history: the pull requests to whose latest row or status Success a
                \* goroutine without the lock has put its hand
    phase,      \* what the reaper is doing
    orphan,     \* a namespace that the cleanup job has found without a row
    creates, faults

recVars == <<status, younger, old, row, live>>
createVars == <<pc, newNs>>
bgVars == <<late, teardowns, disturbed>>
boundVars == <<creates, faults>>
vars == <<status, younger, old, row, live, pc, newNs, target, todo, late, teardowns,
          disturbed, phase, orphan, creates, faults>>

Status == {"none", "spawned", "success", "failure", "destroyed"}
Running == {"spawned", "success"}
Phases == <<"prune", "stuck", "closed", "limit">>

\* Statuses still to be written, and namespaces to be deleted: the create's own before it
\* writes Failure, or that of an old row.
LateWork == [pr : Prs, do : Status \ {"none"}, ns : {None}]
            \cup [pr : Prs, do : {"failure", "old"}, ns : Namespaces]
Teardowns == [pr : Prs, ns : Namespaces]

TypeOK ==
    /\ status \in [Prs -> Status]
    /\ younger \in [Prs -> SUBSET Prs]
    /\ \A p \in Prs : \A q \in younger[p] : p \notin younger[q]
    /\ old \subseteq Prs
    /\ row \in [Prs -> Namespaces \cup {None}]
    /\ live \subseteq Namespaces
    /\ pc \in [Prs -> {"idle", "lock", "touch", "limit", "kill", "row", "install"}]
    /\ newNs \in [Prs -> Namespaces \cup {None}]
    /\ target \in [Agents -> Prs \cup {None}]
    /\ todo \in [Agents -> SUBSET Prs]
    /\ late \subseteq LateWork /\ teardowns \subseteq Teardowns /\ disturbed \subseteq Prs
    /\ \E i \in 1..Len(Phases) : phase = Phases[i]
    /\ orphan \in Namespaces \cup {None}
    /\ creates \in 0..MaxCreates
    /\ faults \in 0..MaxFaults

Init ==
    /\ status = [p \in Prs |-> "none"] /\ younger = [p \in Prs |-> {}] /\ old = {}
    /\ row = [p \in Prs |-> None] /\ live = {}
    /\ pc = [p \in Prs |-> "idle"] /\ newNs = [p \in Prs |-> None]
    /\ target = [a \in Agents |-> None]
    /\ todo = [a \in Agents |-> {}]
    /\ late = {} /\ teardowns = {} /\ disturbed = {}
    /\ phase = "limit" /\ orphan = None
    /\ creates = 0 /\ faults = 0

----------------------------------------------------------------------------
(* Records and namespaces.                                                  *)

Records == {p \in Prs : status[p] # "none"}

\* The record gets the present time as its creation timestamp.
Stamp(p) ==
    /\ younger' = [q \in Prs |-> IF q = p THEN {}
                                ELSE IF q \in Records THEN younger[q] \cup {p} ELSE {}]
    /\ old' = old \ {p}

\* SetQAEnvironmentStatus changes nothing when the record is gone.
SetStatus(p, s) == status' = [status EXCEPT ![p] = IF @ = "none" THEN @ ELSE s]

\* Broken variant: the row stays when its record goes.
ForgetRecord(S) ==
    /\ status' = [p \in Prs |-> IF p \in S THEN "none" ELSE status[p]]
    /\ younger' = [p \in Prs |-> IF p \in S THEN {} ELSE younger[p] \ S]
    /\ old' = old \ S
    /\ UNCHANGED row

\* The record and the rows that refer to it are deleted.
Forget(S) ==
    /\ status' = [p \in Prs |-> IF p \in S THEN "none" ELSE status[p]]
    /\ row' = [p \in Prs |-> IF p \in S THEN None ELSE row[p]]
    /\ younger' = [p \in Prs |-> IF p \in S THEN {} ELSE younger[p] \ S]
    /\ old' = old \ S

\* cleanUpNamespace, which may fail.
CleanUp(n) ==
    \/ live' = live \ {n} /\ UNCHANGED faults
    \/ faults < MaxFaults /\ faults' = faults + 1 /\ UNCHANGED live

\* GetRunningQAEnvironments
RunningEnvs == {p \in Prs : status[p] \in Running}

\* Broken variant: the environment that is being created is not counted.
ExcessButOne == {p \in RunningEnvs : Cardinality(younger[p] \cap RunningEnvs) > GlobalLimit}

\* The oldest, as many as there are too many.
Excess == {p \in RunningEnvs : Cardinality(younger[p] \cap RunningEnvs) >= GlobalLimit}

----------------------------------------------------------------------------
(* The locks.                                                               *)

Locked(p) == pc[p] \notin {"idle", "lock"}

Waiters(p) == {a \in Agents : target[a] = p} \cup {q \in {p} : pc[q] = "lock"}

\* The holder of a lock that somebody waits for is told: the watcher of its
\* lockingOperation cancels the context.
Preempted(p) == Locked(p) /\ Waiters(p) # {}

----------------------------------------------------------------------------
(* Delete, run by a create or by the reaper.                                *)

DeleteBegins(a, p) ==
    /\ target[a] = None /\ p \in todo[a]
    /\ a = Reaper => phase # "prune"
    /\ target' = [target EXCEPT ![a] = p]
    /\ todo' = [todo EXCEPT ![a] = @ \ {p}]
    /\ UNCHANGED <<recVars, createVars, bgVars, phase, orphan, boundVars>>

DeleteReturns(a) == target' = [target EXCEPT ![a] = None]

\* Another agent that waits for the lock preempts this one.  The error is only logged.
DeleteGivesUp(a) ==
    /\ target[a] # None /\ Waiters(target[a]) # {a}
    /\ DeleteReturns(a)
    /\ UNCHANGED <<recVars, createVars, todo, bgVars, phase, orphan, boundVars>>

\* delete, and what is left of it when the context is cancelled, because another agent
\* waits for the lock or the create that has called it takes too long.  A record that is
\* not extant is only marked; an extant one without a row is an error.  A row is handed to
\* a goroutine, and the status is written with a context of its own.
Delete(a) ==
    /\ target[a] # None /\ ~Locked(target[a])
    /\ LET p == target[a] IN
       /\ ~(status[p] \in Running /\ row[p] = None)
       /\ teardowns' = teardowns \cup
             {t \in Teardowns : status[p] \in Running /\ t = [pr |-> p, ns |-> row[p]]}
       /\ \/ SetStatus(p, "destroyed") /\ UNCHANGED late
          \/ /\ a \in Prs \/ Waiters(p) # {a}
             /\ late' = late \cup {[pr |-> p, do |-> "destroyed", ns |-> None]}
             /\ UNCHANGED status
    /\ DeleteReturns(a)
    /\ UNCHANGED <<younger, old, row, live, createVars, todo, disturbed, phase, orphan,
                   boundVars>>

\* It fails: there is no row, or the context is cancelled before it is read.
DeleteFails(a) ==
    /\ target[a] # None /\ ~Locked(target[a])
    /\ LET p == target[a] IN
       (status[p] \in Running /\ row[p] = None) \/ a \in Prs \/ Waiters(p) # {a}
    /\ DeleteReturns(a)
    /\ UNCHANGED <<recVars, createVars, todo, bgVars, phase, orphan, boundVars>>

DeleteStep(a) ==
    DeleteGivesUp(a) \/ Delete(a) \/ DeleteFails(a) \/ \E p \in Prs : DeleteBegins(a, p)

\* deleteNamespace, in a goroutine with ten minutes of its own: the namespace it was given,
\* unless all three tries fail, and then the row that has the name of the environment,
\* unless the process or the database fails.
TeardownStep(t) ==
    /\ t \in teardowns
    /\ teardowns' = teardowns \ {t}
    /\ \/ /\ live' = live \ {t.ns} /\ row' = [row EXCEPT ![t.pr] = None]
          /\ disturbed' = disturbed \cup {p \in {t.pr} : row[p] # None}
          /\ UNCHANGED faults
       \/ /\ faults < MaxFaults /\ faults' = faults + 1
          /\ live' \in {live, live \ {t.ns}}
          /\ disturbed' = disturbed \cup {p \in {t.pr} : row[p] \notin live' \cup {None}}
          /\ UNCHANGED row
    /\ UNCHANGED <<status, younger, old, createVars, target, todo, late, phase,
                   orphan, creates>>

----------------------------------------------------------------------------
(* Create of a pull request.                                                *)

\* A webhook asks for a create.
Webhook(p) ==
    /\ pc[p] = "idle" /\ creates < MaxCreates
    /\ creates' = creates + 1
    /\ pc' = [pc EXCEPT ![p] = "lock"]
    /\ UNCHANGED <<recVars, newNs, target, todo, bgVars, phase, orphan, faults>>

Goto(p, l) == pc' = [pc EXCEPT ![p] = l]

\* lockingOperation returns and releases the lock.
Return(p) ==
    /\ Goto(p, "idle")
    /\ newNs' = [newNs EXCEPT ![p] = None]
    /\ todo' = [todo EXCEPT ![p] = {}]
    /\ UNCHANGED <<teardowns, disturbed, phase, orphan, creates>>

\* Another agent that waits for the lock preempts this one, before it has the lock or after
\* it has found a record, whose status is then still set.
CreateGivesUp(p) ==
    /\ pc[p] = "lock" /\ Waiters(p) # {p}
    /\ \/ UNCHANGED late
       \/ /\ status[p] # "none"
          /\ late' = late \cup {[pr |-> p, do |-> "spawned", ns |-> None]}
    /\ Return(p)
    /\ UNCHANGED <<recVars, target, faults>>

\* What the goroutine of a cancelled create may still have to do.  One that has still to
\* create its namespace, which needs no context, is one that has just done so.
LeftOf(p) ==
    CASE pc[p] = "touch" -> {{}}
      [] pc[p] \in {"limit", "kill"} -> {{[pr |-> p, do |-> "failure", ns |-> None]}}
      [] pc[p] = "row" ->
            {{[pr |-> p, do |-> "failure", ns |-> newNs[p]]} \cup O :
                O \in SUBSET [pr : {p}, do : {"old"}, ns : {row[p]} \ {None}]}
      [] pc[p] = "install" ->
            {{[pr |-> p, do |-> "failure", ns |-> newNs[p]]},
             {[pr |-> p, do |-> "success", ns |-> None]}}

\* Broken variant: lockingOperation waits for the function that it runs.
AbandonAtEnd(p) ==
    /\ Preempted(p) \/ pc[p] \in {"limit", "kill", "row", "install"}
    /\ target[p] = None
    /\ \E W \in LeftOf(p) : late' = late \cup W
    /\ Return(p)
    /\ UNCHANGED <<recVars, target, faults>>

\* The create is preempted, or enforceTimeout ends it, which starts when it has a record.
\* lockingOperation does not wait for the function it runs, and a Delete of it that waits
\* for a lock has lost its context too.
Abandon(p) ==
    /\ Preempted(p) \/ pc[p] \in {"limit", "kill", "row", "install"}
    /\ \E W \in LeftOf(p) : late' = late \cup W
    /\ target' = [target EXCEPT ![p] = None]
    /\ Return(p)
    /\ UNCHANGED <<recVars, faults>>

\* The lock is free.  generateNewEnv inserts a record, or finds one and sets its status.
Lookup(p) ==
    /\ pc[p] = "lock"
    /\ status' = [status EXCEPT ![p] = "spawned"]
    /\ IF status[p] = "none"
       THEN Stamp(p) /\ Goto(p, "limit")
       ELSE UNCHANGED <<younger, old>> /\ Goto(p, "touch")
    /\ UNCHANGED <<row, live, newNs, target, todo, bgVars, phase, orphan, boundVars>>

\* The process ends, and its goroutines with it.
ServerDown ==
    /\ pc' = [p \in Prs |-> "idle"] /\ newNs' = [p \in Prs |-> None]
    /\ target' = [a \in Agents |-> None]
    /\ todo' = [a \in Agents |-> {}] /\ phase' = "limit"
    /\ late' = {} /\ teardowns' = {}
    /\ UNCHANGED <<recVars, disturbed, orphan, creates>>

\* The record may have been pruned since the lookup: create then uses a nil environment.
UsesNil(p) ==
    /\ pc[p] = "touch" /\ status[p] = "none"
    /\ ServerDown /\ UNCHANGED faults

\* Its data and its creation timestamp.
Touch(p) ==
    /\ pc[p] = "touch" /\ status[p] # "none"
    /\ Stamp(p) /\ Goto(p, "limit")
    /\ UNCHANGED <<status, row, live, newNs, target, todo, bgVars,
                   phase, orphan, boundVars>>

\* create fails before it has a namespace: a bad configuration or a failing Kubernetes.
Fail(p) ==
    /\ pc[p] = "limit" \/ (pc[p] = "kill" /\ target[p] = None /\ todo[p] = {})
    /\ SetStatus(p, "failure")
    /\ Return(p)
    /\ UNCHANGED <<younger, old, row, live, target, late, faults>>

FreshNames(p) ==
    {n \in {p} \X (1..2) : n \notin live \cup {row[p], orphan}
                                  \cup {t.ns : t \in teardowns} \cup {w.ns : w \in late}}

\* createNamespace.  Which fresh name it is makes no difference.
CreateNamespace(p) ==
    /\ FreshNames(p) # {}
    /\ \E n \in Namespaces :
          /\ n = CHOOSE m \in FreshNames(p) : TRUE
          /\ live' = live \cup {n} /\ newNs' = [newNs EXCEPT ![p] = n]
    /\ Goto(p, "row")

\* enforceGlobalLimit reads the running environments, without a lock.
Limit(p) ==
    /\ pc[p] = "limit"
    /\ \/ /\ Excess = {} /\ CreateNamespace(p)
          /\ UNCHANGED todo
       \/ /\ Excess # {} /\ todo' = [todo EXCEPT ![p] = Excess] /\ Goto(p, "kill")
          /\ UNCHANGED <<live, newNs>>
    /\ UNCHANGED <<status, younger, old, row, target, bgVars, phase, orphan, boundVars>>

Killed(p) ==
    /\ pc[p] = "kill" /\ target[p] = None /\ todo[p] = {}
    /\ CreateNamespace(p)
    /\ UNCHANGED <<status, younger, old, row, target, todo, bgVars, phase, orphan, boundVars>>

\* writeK8sEnvironment: the namespace of an old row is deleted, as far as possible.  A row
\* needs its record.
WriteRow(p) ==
    /\ pc[p] = "row"
    /\ \/ /\ status[p] = "none"
          /\ CleanUp(newNs[p]) /\ Return(p)
          /\ UNCHANGED <<status, younger, old, row, target, late>>
       \/ /\ status[p] # "none"
          /\ IF row[p] = None THEN UNCHANGED <<live, faults>> ELSE CleanUp(row[p])
          /\ row' = [row EXCEPT ![p] = newNs[p]]
          /\ disturbed' = disturbed \ {q \in {p} : status[p] # "success"}
          /\ Goto(p, "install")
          /\ UNCHANGED <<status, younger, old, newNs, target, todo,
                         late, teardowns, phase, orphan, creates>>

\* The rest of BuildAndInstallCharts and of create.
Install(p) ==
    /\ pc[p] = "install"
    /\ \/ SetStatus(p, "success") /\ UNCHANGED <<live, faults>>
       \/ SetStatus(p, "failure") /\ CleanUp(newNs[p])
    /\ Return(p)
    /\ UNCHANGED <<younger, old, row, target, late>>

CreateStep(p) ==
    \/ CreateGivesUp(p) \/ Lookup(p) \/ UsesNil(p) \/ Touch(p) \/ Fail(p) \/ Limit(p)
    \/ Killed(p) \/ WriteRow(p) \/ Install(p) \/ Abandon(p)

----------------------------------------------------------------------------
(* The goroutines of abandoned operations.                                  *)

\* A namespace that is deleted first may stay.
LateStep(w) ==
    /\ w \in late
    /\ late' = late \ {w}
    /\ IF w.ns = None THEN UNCHANGED <<live, faults>> ELSE CleanUp(w.ns)
    /\ IF w.do = "old" THEN UNCHANGED status ELSE SetStatus(w.pr, w.do)
    /\ disturbed' = disturbed \cup {p \in {w.pr} : w.do = "success"}
    /\ UNCHANGED <<younger, old, row, createVars, target, todo, teardowns, phase,
                   orphan, creates>>

----------------------------------------------------------------------------
(* The reaper.                                                              *)

\* The environments that a phase looks at, read from the database when it begins.
Listed(ph) ==
    CASE ph = "prune"  -> {p \in old : status[p] = "destroyed"}
      [] ph = "stuck"  -> {p \in old : status[p] \in {"spawned", "failure"}}
      [] ph = "closed" -> {p \in Prs : status[p] \notin {"none", "destroyed"}}
      [] ph = "limit"  -> Excess

\* The phases that come before the i-th when the last one was the k-th.
Between(k, i) == IF k < i THEN (k + 1)..(i - 1) ELSE (1..Len(Phases)) \ (i..k)

\* Reap runs its phases in turn, again and again.  One that finds nothing leaves no trace.
NextPhase ==
    /\ todo[Reaper] = {} /\ target[Reaper] = None
    /\ \E k, i \in 1..Len(Phases) :
          /\ phase = Phases[k]
          /\ Listed(Phases[i]) # {}
          /\ \A j \in Between(k, i) : Listed(Phases[j]) = {}
          /\ phase' = Phases[i]
          /\ todo' = [todo EXCEPT ![Reaper] = Listed(Phases[i])]
    /\ UNCHANGED <<recVars, createVars, target, bgVars, orphan, boundVars>>

ReaperIsDoneWith(p) == todo' = [todo EXCEPT ![Reaper] = @ \ {p}]

\* Broken variant: DeleteQAEnvironment does not look at the status.
PruneListed(p) ==
    /\ phase = "prune" /\ p \in todo[Reaper]
    /\ Forget({p})
    /\ ReaperIsDoneWith(p)
    /\ UNCHANGED <<live, createVars, target, bgVars, phase, orphan, boundVars>>

\* DeleteQAEnvironment deletes nothing when the environment is no longer destroyed.
PruneRecord(p) ==
    /\ phase = "prune" /\ p \in todo[Reaper]
    /\ IF status[p] = "destroyed"
       THEN Forget({p}) ELSE UNCHANGED <<status, row, younger, old>>
    /\ ReaperIsDoneWith(p)
    /\ UNCHANGED <<live, createVars, target, bgVars, phase, orphan, boundVars>>

\* GitHub says that the pull request is open: the environment stays.
SkipOpen(p) ==
    /\ phase = "closed" /\ p \in todo[Reaper]
    /\ ReaperIsDoneWith(p)
    /\ UNCHANGED <<recVars, createVars, target, bgVars, phase, orphan, boundVars>>

ReaperStep == NextPhase \/ \E p \in Prs : PruneRecord(p) \/ SkipOpen(p)

----------------------------------------------------------------------------
(* The cleanup job, a process of its own.                                   *)

PruneDestroyedEnvRecords ==
    LET S == {p \in old : status[p] \in {"destroyed", "failure"}} IN
    /\ S # {}
    /\ Forget(S)
    /\ UNCHANGED <<live, createVars, target, todo, bgVars,
                   phase, orphan, boundVars>>

Rows == {row[p] : p \in Prs}

\* Broken variant: the age of a namespace does not count.
CheckAnyNamespace(n) ==
    /\ orphan = None
    /\ n \in live /\ n \notin Rows
    /\ orphan' = n
    /\ UNCHANGED <<recVars, createVars, target, todo, bgVars,
                   phase, boundVars>>

\* removeOrphanedNamespaces: a namespace that is old enough, and no row has it.  A create
\* takes less than the age, so its new namespace is not.
CheckOrphan(n) ==
    /\ orphan = None
    /\ n \in live /\ n \notin {newNs[p] : p \in Prs}
    /\ n \notin Rows
    /\ orphan' = n
    /\ UNCHANGED <<recVars, createVars, target, todo, bgVars,
                   phase, boundVars>>

DeleteOrphan ==
    /\ orphan # None
    /\ live' = live \ {orphan} /\ orphan' = None
    /\ UNCHANGED <<status, younger, old, row, createVars, target, todo, bgVars,
                   phase, boundVars>>

----------------------------------------------------------------------------
(* Time and faults.                                                         *)

\* The operation timeout is shorter than the age: no create is running that has stamped
\* the record.  Nobody asks for the age of an environment that is up.
Age(p) ==
    /\ status[p] \notin {"none", "success"} /\ p \notin old
    /\ pc[p] \in {"idle", "lock", "touch"}
    /\ old' = old \cup {p}
    /\ UNCHANGED <<status, younger, row, live, createVars, target, todo, bgVars, phase,
                   orphan, boundVars>>

Crash ==
    /\ faults < MaxFaults /\ faults' = faults + 1
    /\ ServerDown

Next ==
    \/ \E p \in Prs : Webhook(p) \/ CreateStep(p) \/ Age(p)
    \/ \E a \in Agents : DeleteStep(a)
    \/ (\E w \in late : LateStep(w)) \/ \E t \in teardowns : TeardownStep(t)
    \/ ReaperStep
    \/ PruneDestroyedEnvRecords \/ DeleteOrphan \/ \E n \in Namespaces : CheckOrphan(n)
    \/ Crash

Spec == Init /\ [][Next]_vars

\* What can be done is done: operations take their steps, time passes, the goroutines and
\* the cleanup job do their work.  The reaper runs again and again.
Work ==
    \/ \E p \in Prs : CreateStep(p) \/ DeleteStep(p) \/ Age(p)
    \/ (\E w \in late : LateStep(w)) \/ \E t \in teardowns : TeardownStep(t)
    \/ PruneDestroyedEnvRecords \/ DeleteOrphan \/ \E n \in Namespaces : CheckOrphan(n)

Fairness == WF_vars(Work) /\ WF_vars(ReaperStep \/ DeleteStep(Reaper))

FairSpec == Spec /\ Fairness

----------------------------------------------------------------------------
(* Properties.                                                              *)

\* An environment that is running changes, and its record is deleted, only under the lock
\* of its pull request, although the reaper and the cleanup job take no such lock; or by
\* the goroutine of an operation that had the lock.
ChangedUnderLock ==
    [][\A p \in Prs :
          status[p] \in Running /\ <<status[p], row[p]>>' # <<status[p], row[p]>>
             => \/ Locked(p) \/ Locked(p)' \/ \E a \in Agents : target[a] = p /\ target'[a] = None
                \/ \E w \in late \ late' : w.pr = p
                \/ \E t \in teardowns \ teardowns' : t.pr = p]_vars

\* The number of environments that are up may exceed the limit, since a create goes on
\* when a Delete of enforceGlobalLimit fails, and a crash loses it; but not for good.  An
\* environment whose row a late teardown has taken cannot be deleted and is not counted.
OverLimit == Cardinality({p \in Prs : status[p] = "success" /\ row[p] # None}) > GlobalLimit
LimitRestored == []<>~OverLimit

\* Neither the reaper, nor the cleanup job, nor a create of another pull request takes the
\* namespace from an environment that is up: reuse of a record and a new creation between
\* their reading and their deletion included.  Only the goroutine of an operation on the
\* same pull request may: a teardown that deletes the row of a later create, or one that
\* writes Success after another operation has begun.
UpHasNamespace ==
    \A p \in Prs : status[p] = "success" => row[p] \in live \/ p \in disturbed

\* A namespace is in use when it belongs to an environment that is not known to be over,
\* or to a create that has not ended.
InUse(n) == \E p \in Prs : newNs[p] = n \/ (row[p] = n /\ status[p] = "success")

\* What operations, their failures and crashes leave behind is removed in the end: failed
\* deletions, work cut off by a crash, and rows and statuses written late included.
Leftovers == {n \in live : ~InUse(n)}
LeftoversGo == []<>(Leftovers = {})

\* A create returns, whoever it and the Delete that it runs wait for: two creates that
\* destroy each other's environment do not block each other.
CreatesReturn == []<>(\A p \in Prs : pc[p] = "idle")
=============================================================================
