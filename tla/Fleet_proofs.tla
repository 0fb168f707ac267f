---------------------------- MODULE Fleet_proofs ----------------------------
(* No namespace is taken from an environment that is up, and only who has    *)
(* the lock of a pull request, or had it, changes its environment: for any   *)
(* set of pull requests, any limit and any number of creates and faults.     *)
EXTENDS Fleet, TLAPS

\* TypeOK in parts: the database, the agents, the namespaces and goroutines, the rest
RecTypes ==
    /\ status \in [Prs -> Status]
    /\ younger \in [Prs -> SUBSET Prs]
    /\ old \subseteq Prs
    /\ live \subseteq Namespaces

AgentTypes ==
    /\ pc \in [Prs -> {"idle", "lock", "touch", "limit", "kill", "row", "install"}]
    /\ target \in [Agents -> Prs \cup {None}]
    /\ todo \in [Agents -> SUBSET Prs]

NsTypes ==
    /\ row \in [Prs -> Namespaces \cup {None}]
    /\ newNs \in [Prs -> Namespaces \cup {None}]
    /\ late \subseteq LateWork /\ teardowns \subseteq Teardowns /\ disturbed \subseteq Prs
    /\ orphan \in Namespaces \cup {None}

OtherTypes ==
    /\ \E i \in 1..Len(Phases) : phase = Phases[i]
    /\ creates \in 0..MaxCreates
    /\ faults \in 0..MaxFaults

\* The creation timestamps are in an order.
Ordered == \A p \in Prs : \A q \in younger[p] : p \notin younger[q]

\* The namespaces of a pull request are its own.
Own(p) == ({p} \X (1..2)) \cup {None}

OwnInv ==
    /\ \A p \in Prs : row[p] \in Own(p) /\ newNs[p] \in Own(p)
    /\ \A w \in late : w.ns \in Own(w.pr)
    /\ \A t \in teardowns : t.ns \in Own(t.pr)

\* The namespace of a create is there, and nobody is about to delete it.
NewInv ==
    \A p \in Prs :
        /\ newNs[p] # None => /\ pc[p] \in {"row", "install"} /\ newNs[p] \in live
                              /\ newNs[p] # orphan
                              /\ \A w \in late : w.ns # newNs[p]
                              /\ \A t \in teardowns : t.ns # newNs[p]
        /\ pc[p] \in {"row", "install"} => newNs[p] # None
        /\ pc[p] = "row" => newNs[p] # row[p]

\* So is that of an environment that is up, unless a goroutine without the lock has put
\* its hand to the row or the status.
RowInv ==
    \A p \in Prs :
        /\ orphan # None => orphan # row[p]
        /\ status[p] = "success" /\ Locked(p) => p \in disturbed
        /\ pc[p] = "install" /\ status[p] # "none" /\ p \notin disturbed => row[p] = newNs[p]
        /\ status[p] = "success" /\ p \notin disturbed =>
              row[p] \in live /\ \A w \in late : w.ns # row[p]

\* ChangedUnderLock, of a step
Guarded ==
    \A p \in Prs :
        status[p] \in Running /\ <<status[p], row[p]>>' # <<status[p], row[p]>>
           => \/ Locked(p) \/ Locked(p)' \/ \E a \in Agents : target[a] = p /\ target'[a] = None
              \/ \E w \in late \ late' : w.pr = p
              \/ \E t \in teardowns \ teardowns' : t.pr = p

\* The inductive invariant
Inv ==
    /\ RecTypes /\ AgentTypes /\ NsTypes /\ OtherTypes /\ Ordered
    /\ OwnInv /\ NewInv /\ RowInv

-----------------------------------------------------------------------------
\* What a phase of the reaper lists are pull requests.
LEMMA PhaseType ==
    ASSUME NEW i \in 1..Len(Phases)
    PROVE  Phases[i] \in {"prune", "stuck", "closed", "limit"}
BY DEF Phases

LEMMA ListedType ==
    ASSUME RecTypes, NEW i \in 1..Len(Phases)
    PROVE  Listed(Phases[i]) \subseteq Prs
<1>1. Excess \subseteq Prs
  BY DEF Excess, RunningEnvs
<1> QED BY <1>1, PhaseType DEF Listed, RecTypes

\* What a cancelled create leaves: for pull request p, with a namespace of its own or that
\* of the old row.
LEMMA LeftOfType ==
    ASSUME AgentTypes, NsTypes, NEW p \in Prs, Locked(p), NEW W \in LeftOf(p)
    PROVE  /\ W \subseteq LateWork
           /\ \A w \in W : /\ w.pr = p
                           /\ w.ns \in {None, newNs[p], row[p]}
                           /\ w.ns = None \/ w.ns = newNs[p] \/ pc[p] = "row"
<1>1. CASE pc[p] = "touch"
  BY <1>1 DEF LeftOf
<1>2. CASE pc[p] \in {"limit", "kill"}
  BY <1>2 DEF LeftOf, LateWork, Status
<1>3. CASE pc[p] = "row"
  <2>1. PICK O \in SUBSET [pr : {p}, do : {"old"}, ns : {row[p]} \ {None}] :
           W = {[pr |-> p, do |-> "failure", ns |-> newNs[p]]} \cup O
    BY <1>3 DEF LeftOf
  <2>2. [pr |-> p, do |-> "failure", ns |-> newNs[p]] \in LateWork
    BY DEF LateWork, Status, NsTypes
  <2>3. O \subseteq LateWork
    BY <2>1 DEF LateWork, NsTypes
  <2> QED BY <1>3, <2>1, <2>2, <2>3
<1>4. CASE pc[p] = "install"
  <2>1. \/ W = {[pr |-> p, do |-> "failure", ns |-> newNs[p]]}
        \/ W = {[pr |-> p, do |-> "success", ns |-> None]}
    BY <1>4 DEF LeftOf
  <2> QED BY <1>4, <2>1 DEF LateWork, Status, NsTypes
<1> QED BY <1>1, <1>2, <1>3, <1>4 DEF Locked, AgentTypes

\* What an abandoned create does to the goroutines.
LEMMA AbandonLeaves ==
    ASSUME AgentTypes, NsTypes, NEW p \in Prs, Abandon(p)
    PROVE  /\ Locked(p)
           /\ \E W \in LeftOf(p) : late' = late \cup W
           /\ pc' = [pc EXCEPT ![p] = "idle"] /\ newNs' = [newNs EXCEPT ![p] = None]
           /\ UNCHANGED <<status, row, live, teardowns, disturbed, orphan>>
BY DEF Abandon, Preempted, Locked, Return, Goto, recVars

\* What the goroutines have to do is one of the things that LateWork has.
LEMMA LateWorkType ==
    ASSUME NEW w \in LateWork
    PROVE  /\ w.pr \in Prs /\ w.ns \in Namespaces \cup {None}
           /\ w.do # "old" => w.do \in Status
BY DEF LateWork, Status

LEMMA StatusWork ==
    ASSUME NEW p \in Prs, NEW s \in Status \ {"none"}
    PROVE  [pr |-> p, do |-> s, ns |-> None] \in LateWork
BY DEF LateWork

\* The records and the namespaces of Kubernetes keep their types.
LEMMA RecTypesKept ==
    ASSUME RecTypes, AgentTypes, NsTypes, [Next]_vars
    PROVE  RecTypes'
<1>1. ASSUME NEW p \in Prs, Webhook(p)
      PROVE  RecTypes'
  BY <1>1 DEF RecTypes, Status, Namespaces, Webhook, recVars, bgVars
<1>2. ASSUME NEW p \in Prs, CreateGivesUp(p)
      PROVE  RecTypes'
  BY <1>2 DEF RecTypes, Status, Namespaces, CreateGivesUp, Return, Goto, recVars
<1>3. ASSUME NEW p \in Prs, Lookup(p)
      PROVE  RecTypes'
  BY <1>3 DEF RecTypes, Status, Namespaces, Lookup, Stamp, Records, Goto, bgVars,
     boundVars
<1>4. ASSUME NEW p \in Prs, UsesNil(p)
      PROVE  RecTypes'
  BY <1>4 DEF RecTypes, Status, Namespaces, UsesNil, ServerDown, recVars
<1>5. ASSUME NEW p \in Prs, Touch(p)
      PROVE  RecTypes'
  BY <1>5 DEF RecTypes, Status, Namespaces, Touch, Stamp, Records, Goto, bgVars,
     boundVars
<1>6. ASSUME NEW p \in Prs, Fail(p)
      PROVE  RecTypes'
  BY <1>6 DEF RecTypes, Status, Namespaces, Fail, SetStatus, Return, Goto
<1>7. ASSUME NEW p \in Prs, Limit(p)
      PROVE  RecTypes'
  BY <1>7 DEF RecTypes, Status, Namespaces, Limit, CreateNamespace, FreshNames,
     Goto, bgVars, boundVars
<1>8. ASSUME NEW p \in Prs, Killed(p)
      PROVE  RecTypes'
  BY <1>8 DEF RecTypes, Status, Namespaces, Killed, CreateNamespace, FreshNames,
     Goto, bgVars, boundVars
<1>9. ASSUME NEW p \in Prs, WriteRow(p)
      PROVE  RecTypes'
  BY <1>9 DEF RecTypes, Status, Namespaces, WriteRow, CleanUp, Return, Goto
<1>10. ASSUME NEW p \in Prs, Install(p)
      PROVE  RecTypes'
  BY <1>10 DEF RecTypes, Status, Namespaces, Install, CleanUp, SetStatus, Return,
     Goto
<1>11. ASSUME NEW p \in Prs, Abandon(p)
      PROVE  RecTypes'
  BY <1>11 DEF RecTypes, Status, Namespaces, Abandon, LeftOf, Return, Goto,
     recVars
<1>12. ASSUME NEW p \in Prs, Age(p)
      PROVE  RecTypes'
  BY <1>12 DEF RecTypes, Status, Namespaces, Age, createVars, bgVars, boundVars
<1>13. ASSUME NEW a \in Agents, NEW p \in Prs, DeleteBegins(a, p)
      PROVE  RecTypes'
  BY <1>13 DEF RecTypes, Status, Namespaces, DeleteBegins, recVars, createVars,
     bgVars, boundVars
<1>14. ASSUME NEW a \in Agents, DeleteGivesUp(a)
      PROVE  RecTypes'
  BY <1>14 DEF RecTypes, Status, Namespaces, DeleteGivesUp, DeleteReturns,
     recVars, createVars, bgVars, boundVars
<1>15. ASSUME NEW a \in Agents, Delete(a)
      PROVE  RecTypes'
  BY <1>15 DEF RecTypes, Status, Namespaces, Delete, DeleteReturns, SetStatus,
     createVars, boundVars
<1>16. ASSUME NEW a \in Agents, DeleteFails(a)
      PROVE  RecTypes'
  BY <1>16 DEF RecTypes, Status, Namespaces, DeleteFails, DeleteReturns, recVars,
     createVars, bgVars, boundVars
<1>17. ASSUME NEW w \in late, LateStep(w)
      PROVE  RecTypes'
  <2>1. w.pr \in Prs /\ (w.do # "old" => w.do \in Status)
    BY LateWorkType DEF NsTypes
  <2>2. status' \in [Prs -> Status]
    BY <1>17, <2>1 DEF LateStep, SetStatus, RecTypes
  <2> QED BY <1>17, <2>2 DEF RecTypes, LateStep, CleanUp
<1>18. ASSUME NEW t \in teardowns, TeardownStep(t)
      PROVE  RecTypes'
  BY <1>18 DEF RecTypes, Status, Namespaces, TeardownStep, createVars
<1>19. CASE NextPhase
  BY <1>19 DEF RecTypes, Status, Namespaces, NextPhase, recVars, createVars,
     bgVars, boundVars
<1>20. ASSUME NEW p \in Prs, PruneRecord(p)
      PROVE  RecTypes'
  BY <1>20 DEF RecTypes, Status, Namespaces, PruneRecord, Forget,
     ReaperIsDoneWith, createVars, bgVars, boundVars
<1>21. ASSUME NEW p \in Prs, SkipOpen(p)
      PROVE  RecTypes'
  BY <1>21 DEF RecTypes, Status, Namespaces, SkipOpen, ReaperIsDoneWith, recVars,
     createVars, bgVars, boundVars
<1>22. CASE PruneDestroyedEnvRecords
  BY <1>22 DEF RecTypes, Status, Namespaces, PruneDestroyedEnvRecords, Forget,
     createVars, bgVars, boundVars
<1>23. ASSUME NEW n \in Namespaces, CheckOrphan(n)
      PROVE  RecTypes'
  BY <1>23 DEF RecTypes, Status, Namespaces, CheckOrphan, Rows, recVars,
     createVars, bgVars, boundVars
<1>24. CASE DeleteOrphan
  BY <1>24 DEF RecTypes, Status, Namespaces, DeleteOrphan, createVars, bgVars,
     boundVars
<1>25. CASE Crash
  BY <1>25 DEF RecTypes, Status, Namespaces, Crash, ServerDown, recVars
<1>26. CASE UNCHANGED vars
  BY <1>26 DEF RecTypes, Status, Namespaces, vars
<1> QED BY <1>1, <1>2, <1>3, <1>4, <1>5, <1>6, <1>7, <1>8, <1>9, <1>10, <1>11,
   <1>12, <1>13, <1>14, <1>15, <1>16, <1>17, <1>18, <1>19, <1>20, <1>21, <1>22,
   <1>23, <1>24, <1>25, <1>26 DEF Next, CreateStep, DeleteStep, ReaperStep

\* The creates and the Deletes keep their types.
LEMMA AgentTypesKept ==
    ASSUME RecTypes, AgentTypes, [Next]_vars
    PROVE  AgentTypes'
<1>1. ASSUME NEW p \in Prs, Webhook(p)
      PROVE  AgentTypes'
  BY <1>1 DEF AgentTypes, Agents, Webhook, recVars, bgVars
<1>2. ASSUME NEW p \in Prs, CreateGivesUp(p)
      PROVE  AgentTypes'
  BY <1>2 DEF AgentTypes, Agents, CreateGivesUp, Return, Goto, recVars
<1>3. ASSUME NEW p \in Prs, Lookup(p)
      PROVE  AgentTypes'
  BY <1>3 DEF AgentTypes, Agents, Lookup, Stamp, Records, Goto, bgVars, boundVars
<1>4. ASSUME NEW p \in Prs, UsesNil(p)
      PROVE  AgentTypes'
  BY <1>4 DEF AgentTypes, Agents, UsesNil, ServerDown, recVars
<1>5. ASSUME NEW p \in Prs, Touch(p)
      PROVE  AgentTypes'
  BY <1>5 DEF AgentTypes, Agents, Touch, Stamp, Records, Goto, bgVars, boundVars
<1>6. ASSUME NEW p \in Prs, Fail(p)
      PROVE  AgentTypes'
  BY <1>6 DEF AgentTypes, Agents, Fail, SetStatus, Return, Goto
<1>7. ASSUME NEW p \in Prs, Limit(p)
      PROVE  AgentTypes'
  <2>1. Excess \subseteq Prs
    BY DEF Excess, RunningEnvs
  <2> QED BY <1>7, <2>1 DEF AgentTypes, Agents, Limit, CreateNamespace, Goto
<1>8. ASSUME NEW p \in Prs, Killed(p)
      PROVE  AgentTypes'
  BY <1>8 DEF AgentTypes, Agents, Killed, CreateNamespace, FreshNames, Goto,
     bgVars, boundVars
<1>9. ASSUME NEW p \in Prs, WriteRow(p)
      PROVE  AgentTypes'
  BY <1>9 DEF AgentTypes, Agents, WriteRow, CleanUp, Return, Goto
<1>10. ASSUME NEW p \in Prs, Install(p)
      PROVE  AgentTypes'
  BY <1>10 DEF AgentTypes, Agents, Install, CleanUp, SetStatus, Return, Goto
<1>11. ASSUME NEW p \in Prs, Abandon(p)
      PROVE  AgentTypes'
  BY <1>11 DEF AgentTypes, Agents, Abandon, LeftOf, Return, Goto, recVars
<1>12. ASSUME NEW p \in Prs, Age(p)
      PROVE  AgentTypes'
  BY <1>12 DEF AgentTypes, Agents, Age, createVars, bgVars, boundVars
<1>13. ASSUME NEW a \in Agents, NEW p \in Prs, DeleteBegins(a, p)
      PROVE  AgentTypes'
  BY <1>13 DEF AgentTypes, Agents, DeleteBegins, recVars, createVars, bgVars,
     boundVars
<1>14. ASSUME NEW a \in Agents, DeleteGivesUp(a)
      PROVE  AgentTypes'
  BY <1>14 DEF AgentTypes, Agents, DeleteGivesUp, DeleteReturns, recVars,
     createVars, bgVars, boundVars
<1>15. ASSUME NEW a \in Agents, Delete(a)
      PROVE  AgentTypes'
  BY <1>15 DEF AgentTypes, Agents, Delete, DeleteReturns, SetStatus, createVars,
     boundVars
<1>16. ASSUME NEW a \in Agents, DeleteFails(a)
      PROVE  AgentTypes'
  BY <1>16 DEF AgentTypes, Agents, DeleteFails, DeleteReturns, recVars,
     createVars, bgVars, boundVars
<1>17. ASSUME NEW w \in late, LateStep(w)
      PROVE  AgentTypes'
  BY <1>17 DEF AgentTypes, Agents, LateStep, CleanUp, SetStatus, createVars
<1>18. ASSUME NEW t \in teardowns, TeardownStep(t)
      PROVE  AgentTypes'
  BY <1>18 DEF AgentTypes, Agents, TeardownStep, createVars
<1>19. CASE NextPhase
  <2>1. PICK i \in 1..Len(Phases) : todo' = [todo EXCEPT ![Reaper] = Listed(Phases[i])]
    BY <1>19 DEF NextPhase
  <2> QED BY <1>19, <2>1, ListedType DEF AgentTypes, NextPhase, createVars
<1>20. ASSUME NEW p \in Prs, PruneRecord(p)
      PROVE  AgentTypes'
  BY <1>20 DEF AgentTypes, Agents, PruneRecord, Forget, ReaperIsDoneWith,
     createVars, bgVars, boundVars
<1>21. ASSUME NEW p \in Prs, SkipOpen(p)
      PROVE  AgentTypes'
  BY <1>21 DEF AgentTypes, Agents, SkipOpen, ReaperIsDoneWith, recVars,
     createVars, bgVars, boundVars
<1>22. CASE PruneDestroyedEnvRecords
  BY <1>22 DEF AgentTypes, Agents, PruneDestroyedEnvRecords, Forget, createVars,
     bgVars, boundVars
<1>23. ASSUME NEW n \in Namespaces, CheckOrphan(n)
      PROVE  AgentTypes'
  BY <1>23 DEF AgentTypes, Agents, CheckOrphan, Rows, recVars, createVars, bgVars,
     boundVars
<1>24. CASE DeleteOrphan
  BY <1>24 DEF AgentTypes, Agents, DeleteOrphan, createVars, bgVars, boundVars
<1>25. CASE Crash
  BY <1>25 DEF AgentTypes, Agents, Crash, ServerDown, recVars
<1>26. CASE UNCHANGED vars
  BY <1>26 DEF AgentTypes, Agents, vars
<1> QED BY <1>1, <1>2, <1>3, <1>4, <1>5, <1>6, <1>7, <1>8, <1>9, <1>10, <1>11,
   <1>12, <1>13, <1>14, <1>15, <1>16, <1>17, <1>18, <1>19, <1>20, <1>21, <1>22,
   <1>23, <1>24, <1>25, <1>26 DEF Next, CreateStep, DeleteStep, ReaperStep

\* The namespaces and the goroutines keep their types.
LEMMA NsTypesKept ==
    ASSUME RecTypes, AgentTypes, NsTypes, [Next]_vars
    PROVE  NsTypes'
<1>1. ASSUME NEW p \in Prs, Webhook(p)
      PROVE  NsTypes'
  BY <1>1 DEF NsTypes, Namespaces, Webhook, recVars, bgVars
<1>2. ASSUME NEW p \in Prs, CreateGivesUp(p)
      PROVE  NsTypes'
  <2>1. [pr |-> p, do |-> "spawned", ns |-> None] \in LateWork
    BY StatusWork DEF Status
  <2>2. late' \subseteq LateWork
    BY <1>2, <2>1 DEF CreateGivesUp, NsTypes
  <2> QED BY <1>2, <2>2 DEF NsTypes, CreateGivesUp, Return, recVars
<1>3. ASSUME NEW p \in Prs, Lookup(p)
      PROVE  NsTypes'
  BY <1>3 DEF NsTypes, Namespaces, Lookup, Stamp, Records, Goto, bgVars, boundVars
<1>4. ASSUME NEW p \in Prs, UsesNil(p)
      PROVE  NsTypes'
  BY <1>4 DEF NsTypes, Namespaces, UsesNil, ServerDown, recVars
<1>5. ASSUME NEW p \in Prs, Touch(p)
      PROVE  NsTypes'
  BY <1>5 DEF NsTypes, Namespaces, Touch, Stamp, Records, Goto, bgVars, boundVars
<1>6. ASSUME NEW p \in Prs, Fail(p)
      PROVE  NsTypes'
  BY <1>6 DEF NsTypes, Namespaces, Fail, SetStatus, Return, Goto
<1>7. ASSUME NEW p \in Prs, Limit(p)
      PROVE  NsTypes'
  BY <1>7 DEF NsTypes, Namespaces, Limit, CreateNamespace, FreshNames, Goto,
     bgVars, boundVars
<1>8. ASSUME NEW p \in Prs, Killed(p)
      PROVE  NsTypes'
  BY <1>8 DEF NsTypes, Namespaces, Killed, CreateNamespace, FreshNames, Goto,
     bgVars, boundVars
<1>9. ASSUME NEW p \in Prs, WriteRow(p)
      PROVE  NsTypes'
  BY <1>9 DEF NsTypes, Namespaces, WriteRow, CleanUp, Return, Goto
<1>10. ASSUME NEW p \in Prs, Install(p)
      PROVE  NsTypes'
  BY <1>10 DEF NsTypes, Namespaces, Install, CleanUp, SetStatus, Return, Goto
<1>11. ASSUME NEW p \in Prs, Abandon(p)
      PROVE  NsTypes'
  <2>1. late' \subseteq LateWork
    BY <1>11, AbandonLeaves, LeftOfType DEF NsTypes
  <2> QED BY <1>11, <2>1, AbandonLeaves DEF NsTypes
<1>12. ASSUME NEW p \in Prs, Age(p)
      PROVE  NsTypes'
  BY <1>12 DEF NsTypes, Namespaces, Age, createVars, bgVars, boundVars
<1>13. ASSUME NEW a \in Agents, NEW p \in Prs, DeleteBegins(a, p)
      PROVE  NsTypes'
  BY <1>13 DEF NsTypes, Namespaces, DeleteBegins, recVars, createVars, bgVars,
     boundVars
<1>14. ASSUME NEW a \in Agents, DeleteGivesUp(a)
      PROVE  NsTypes'
  BY <1>14 DEF NsTypes, Namespaces, DeleteGivesUp, DeleteReturns, recVars,
     createVars, bgVars, boundVars
<1>15. ASSUME NEW a \in Agents, Delete(a)
      PROVE  NsTypes'
  <2> DEFINE p == target[a]
  <2>1. [pr |-> p, do |-> "destroyed", ns |-> None] \in LateWork
    BY <1>15, StatusWork DEF Delete, AgentTypes, Status
  <2>2. late' \subseteq LateWork
    BY <1>15, <2>1 DEF Delete, NsTypes
  <2>3. teardowns' \subseteq Teardowns
    BY <1>15 DEF Delete, NsTypes
  <2> QED BY <1>15, <2>2, <2>3 DEF NsTypes, Delete, createVars
<1>16. ASSUME NEW a \in Agents, DeleteFails(a)
      PROVE  NsTypes'
  BY <1>16 DEF NsTypes, Namespaces, DeleteFails, DeleteReturns, recVars,
     createVars, bgVars, boundVars
<1>17. ASSUME NEW w \in late, LateStep(w)
      PROVE  NsTypes'
  <2>1. w.pr \in Prs
    BY LateWorkType DEF NsTypes
  <2> QED BY <1>17, <2>1 DEF NsTypes, LateStep, createVars
<1>18. ASSUME NEW t \in teardowns, TeardownStep(t)
      PROVE  NsTypes'
  <2>1. t.pr \in Prs
    BY DEF NsTypes, Teardowns
  <2> QED BY <1>18, <2>1 DEF NsTypes, TeardownStep, createVars
<1>19. CASE NextPhase
  BY <1>19 DEF NsTypes, Namespaces, NextPhase, recVars, createVars, bgVars,
     boundVars
<1>20. ASSUME NEW p \in Prs, PruneRecord(p)
      PROVE  NsTypes'
  BY <1>20 DEF NsTypes, Namespaces, PruneRecord, Forget, ReaperIsDoneWith,
     createVars, bgVars, boundVars
<1>21. ASSUME NEW p \in Prs, SkipOpen(p)
      PROVE  NsTypes'
  BY <1>21 DEF NsTypes, Namespaces, SkipOpen, ReaperIsDoneWith, recVars,
     createVars, bgVars, boundVars
<1>22. CASE PruneDestroyedEnvRecords
  BY <1>22 DEF NsTypes, Namespaces, PruneDestroyedEnvRecords, Forget, createVars,
     bgVars, boundVars
<1>23. ASSUME NEW n \in Namespaces, CheckOrphan(n)
      PROVE  NsTypes'
  BY <1>23 DEF NsTypes, Namespaces, CheckOrphan, Rows, recVars, createVars,
     bgVars, boundVars
<1>24. CASE DeleteOrphan
  BY <1>24 DEF NsTypes, Namespaces, DeleteOrphan, createVars, bgVars, boundVars
<1>25. CASE Crash
  BY <1>25 DEF NsTypes, Namespaces, Crash, ServerDown, recVars
<1>26. CASE UNCHANGED vars
  BY <1>26 DEF NsTypes, Namespaces, vars
<1> QED BY <1>1, <1>2, <1>3, <1>4, <1>5, <1>6, <1>7, <1>8, <1>9, <1>10, <1>11,
   <1>12, <1>13, <1>14, <1>15, <1>16, <1>17, <1>18, <1>19, <1>20, <1>21, <1>22,
   <1>23, <1>24, <1>25, <1>26 DEF Next, CreateStep, DeleteStep, ReaperStep

\* The bounds are kept, and the reaper is in one of its phases.
LEMMA OtherTypesKept ==
    ASSUME OtherTypes, [Next]_vars
    PROVE  OtherTypes'
<1>1. ASSUME NEW p \in Prs, Webhook(p)
      PROVE  OtherTypes'
  BY <1>1, FleetAssumption DEF OtherTypes, Webhook, recVars, bgVars
<1>2. ASSUME NEW p \in Prs, CreateGivesUp(p)
      PROVE  OtherTypes'
  BY <1>2, FleetAssumption DEF OtherTypes, CreateGivesUp, Return, Goto, recVars
<1>3. ASSUME NEW p \in Prs, Lookup(p)
      PROVE  OtherTypes'
  BY <1>3, FleetAssumption DEF OtherTypes, Lookup, Stamp, Records, Goto, bgVars,
     boundVars
<1>4. ASSUME NEW p \in Prs, UsesNil(p)
      PROVE  OtherTypes'
  <2>1. "limit" = Phases[4] /\ 4 \in 1..Len(Phases)
    BY DEF Phases
  <2> QED BY <1>4, <2>1 DEF OtherTypes, UsesNil, ServerDown
<1>5. ASSUME NEW p \in Prs, Touch(p)
      PROVE  OtherTypes'
  BY <1>5, FleetAssumption DEF OtherTypes, Touch, Stamp, Records, Goto, bgVars,
     boundVars
<1>6. ASSUME NEW p \in Prs, Fail(p)
      PROVE  OtherTypes'
  BY <1>6, FleetAssumption DEF OtherTypes, Fail, SetStatus, Return, Goto
<1>7. ASSUME NEW p \in Prs, Limit(p)
      PROVE  OtherTypes'
  BY <1>7, FleetAssumption DEF OtherTypes, Limit, CreateNamespace, FreshNames,
     Goto, bgVars, boundVars
<1>8. ASSUME NEW p \in Prs, Killed(p)
      PROVE  OtherTypes'
  BY <1>8, FleetAssumption DEF OtherTypes, Killed, CreateNamespace, FreshNames,
     Goto, bgVars, boundVars
<1>9. ASSUME NEW p \in Prs, WriteRow(p)
      PROVE  OtherTypes'
  BY <1>9, FleetAssumption DEF OtherTypes, WriteRow, CleanUp, Return, Goto
<1>10. ASSUME NEW p \in Prs, Install(p)
      PROVE  OtherTypes'
  BY <1>10, FleetAssumption DEF OtherTypes, Install, CleanUp, SetStatus, Return,
     Goto
<1>11. ASSUME NEW p \in Prs, Abandon(p)
      PROVE  OtherTypes'
  BY <1>11, FleetAssumption DEF OtherTypes, Abandon, LeftOf, Return, Goto, recVars
<1>12. ASSUME NEW p \in Prs, Age(p)
      PROVE  OtherTypes'
  BY <1>12, FleetAssumption DEF OtherTypes, Age, createVars, bgVars, boundVars
<1>13. ASSUME NEW a \in Agents, NEW p \in Prs, DeleteBegins(a, p)
      PROVE  OtherTypes'
  BY <1>13, FleetAssumption DEF OtherTypes, DeleteBegins, recVars, createVars,
     bgVars, boundVars
<1>14. ASSUME NEW a \in Agents, DeleteGivesUp(a)
      PROVE  OtherTypes'
  BY <1>14, FleetAssumption DEF OtherTypes, DeleteGivesUp, DeleteReturns, recVars,
     createVars, bgVars, boundVars
<1>15. ASSUME NEW a \in Agents, Delete(a)
      PROVE  OtherTypes'
  BY <1>15, FleetAssumption DEF OtherTypes, Delete, DeleteReturns, SetStatus,
     createVars, boundVars
<1>16. ASSUME NEW a \in Agents, DeleteFails(a)
      PROVE  OtherTypes'
  BY <1>16, FleetAssumption DEF OtherTypes, DeleteFails, DeleteReturns, recVars,
     createVars, bgVars, boundVars
<1>17. ASSUME NEW w \in late, LateStep(w)
      PROVE  OtherTypes'
  BY <1>17, FleetAssumption DEF OtherTypes, LateStep, CleanUp, SetStatus,
     createVars
<1>18. ASSUME NEW t \in teardowns, TeardownStep(t)
      PROVE  OtherTypes'
  BY <1>18, FleetAssumption DEF OtherTypes, TeardownStep, createVars
<1>19. CASE NextPhase
  BY <1>19, FleetAssumption DEF OtherTypes, NextPhase, recVars, createVars,
     bgVars, boundVars
<1>20. ASSUME NEW p \in Prs, PruneRecord(p)
      PROVE  OtherTypes'
  BY <1>20, FleetAssumption DEF OtherTypes, PruneRecord, Forget, ReaperIsDoneWith,
     createVars, bgVars, boundVars
<1>21. ASSUME NEW p \in Prs, SkipOpen(p)
      PROVE  OtherTypes'
  BY <1>21, FleetAssumption DEF OtherTypes, SkipOpen, ReaperIsDoneWith, recVars,
     createVars, bgVars, boundVars
<1>22. CASE PruneDestroyedEnvRecords
  BY <1>22, FleetAssumption DEF OtherTypes, PruneDestroyedEnvRecords, Forget,
     createVars, bgVars, boundVars
<1>23. ASSUME NEW n \in Namespaces, CheckOrphan(n)
      PROVE  OtherTypes'
  BY <1>23, FleetAssumption DEF OtherTypes, CheckOrphan, Rows, recVars,
     createVars, bgVars, boundVars
<1>24. CASE DeleteOrphan
  BY <1>24, FleetAssumption DEF OtherTypes, DeleteOrphan, createVars, bgVars,
     boundVars
<1>25. CASE Crash
  <2>1. "limit" = Phases[4] /\ 4 \in 1..Len(Phases)
    BY DEF Phases
  <2> QED BY <1>25, <2>1, FleetAssumption DEF OtherTypes, Crash, ServerDown
<1>26. CASE UNCHANGED vars
  BY <1>26, FleetAssumption DEF OtherTypes, vars
<1> QED BY <1>1, <1>2, <1>3, <1>4, <1>5, <1>6, <1>7, <1>8, <1>9, <1>10, <1>11,
   <1>12, <1>13, <1>14, <1>15, <1>16, <1>17, <1>18, <1>19, <1>20, <1>21, <1>22,
   <1>23, <1>24, <1>25, <1>26 DEF Next, CreateStep, DeleteStep, ReaperStep

\* The creation timestamps stay in an order.
LEMMA OrderKept ==
    ASSUME RecTypes, Ordered, [Next]_vars
    PROVE  Ordered'
<1>1. ASSUME NEW p \in Prs, Webhook(p)
      PROVE  Ordered'
  BY <1>1 DEF RecTypes, Ordered, Webhook, recVars, bgVars
<1>2. ASSUME NEW p \in Prs, CreateGivesUp(p)
      PROVE  Ordered'
  BY <1>2 DEF RecTypes, Ordered, CreateGivesUp, Return, Goto, recVars
<1>3. ASSUME NEW p \in Prs, Lookup(p)
      PROVE  Ordered'
  BY <1>3 DEF RecTypes, Ordered, Lookup, Stamp, Records, Goto, bgVars, boundVars
<1>4. ASSUME NEW p \in Prs, UsesNil(p)
      PROVE  Ordered'
  BY <1>4 DEF RecTypes, Ordered, UsesNil, ServerDown, recVars
<1>5. ASSUME NEW p \in Prs, Touch(p)
      PROVE  Ordered'
  BY <1>5 DEF RecTypes, Ordered, Touch, Stamp, Records, Goto, bgVars, boundVars
<1>6. ASSUME NEW p \in Prs, Fail(p)
      PROVE  Ordered'
  BY <1>6 DEF RecTypes, Ordered, Fail, SetStatus, Return, Goto
<1>7. ASSUME NEW p \in Prs, Limit(p)
      PROVE  Ordered'
  BY <1>7 DEF RecTypes, Ordered, Limit, CreateNamespace, FreshNames, Goto, bgVars,
     boundVars
<1>8. ASSUME NEW p \in Prs, Killed(p)
      PROVE  Ordered'
  BY <1>8 DEF RecTypes, Ordered, Killed, CreateNamespace, FreshNames, Goto,
     bgVars, boundVars
<1>9. ASSUME NEW p \in Prs, WriteRow(p)
      PROVE  Ordered'
  BY <1>9 DEF RecTypes, Ordered, WriteRow, CleanUp, Return, Goto
<1>10. ASSUME NEW p \in Prs, Install(p)
      PROVE  Ordered'
  BY <1>10 DEF RecTypes, Ordered, Install, CleanUp, SetStatus, Return, Goto
<1>11. ASSUME NEW p \in Prs, Abandon(p)
      PROVE  Ordered'
  BY <1>11 DEF RecTypes, Ordered, Abandon, LeftOf, Return, Goto, recVars
<1>12. ASSUME NEW p \in Prs, Age(p)
      PROVE  Ordered'
  BY <1>12 DEF RecTypes, Ordered, Age, createVars, bgVars, boundVars
<1>13. ASSUME NEW a \in Agents, NEW p \in Prs, DeleteBegins(a, p)
      PROVE  Ordered'
  BY <1>13 DEF RecTypes, Ordered, DeleteBegins, recVars, createVars, bgVars,
     boundVars
<1>14. ASSUME NEW a \in Agents, DeleteGivesUp(a)
      PROVE  Ordered'
  BY <1>14 DEF RecTypes, Ordered, DeleteGivesUp, DeleteReturns, recVars,
     createVars, bgVars, boundVars
<1>15. ASSUME NEW a \in Agents, Delete(a)
      PROVE  Ordered'
  BY <1>15 DEF RecTypes, Ordered, Delete, DeleteReturns, SetStatus, createVars,
     boundVars
<1>16. ASSUME NEW a \in Agents, DeleteFails(a)
      PROVE  Ordered'
  BY <1>16 DEF RecTypes, Ordered, DeleteFails, DeleteReturns, recVars, createVars,
     bgVars, boundVars
<1>17. ASSUME NEW w \in late, LateStep(w)
      PROVE  Ordered'
  BY <1>17 DEF RecTypes, Ordered, LateStep, CleanUp, SetStatus, createVars
<1>18. ASSUME NEW t \in teardowns, TeardownStep(t)
      PROVE  Ordered'
  BY <1>18 DEF RecTypes, Ordered, TeardownStep, createVars
<1>19. CASE NextPhase
  BY <1>19 DEF RecTypes, Ordered, NextPhase, recVars, createVars, bgVars,
     boundVars
<1>20. ASSUME NEW p \in Prs, PruneRecord(p)
      PROVE  Ordered'
  BY <1>20 DEF RecTypes, Ordered, PruneRecord, Forget, ReaperIsDoneWith,
     createVars, bgVars, boundVars
<1>21. ASSUME NEW p \in Prs, SkipOpen(p)
      PROVE  Ordered'
  BY <1>21 DEF RecTypes, Ordered, SkipOpen, ReaperIsDoneWith, recVars, createVars,
     bgVars, boundVars
<1>22. CASE PruneDestroyedEnvRecords
  BY <1>22 DEF RecTypes, Ordered, PruneDestroyedEnvRecords, Forget, createVars,
     bgVars, boundVars
<1>23. ASSUME NEW n \in Namespaces, CheckOrphan(n)
      PROVE  Ordered'
  BY <1>23 DEF RecTypes, Ordered, CheckOrphan, Rows, recVars, createVars, bgVars,
     boundVars
<1>24. CASE DeleteOrphan
  BY <1>24 DEF RecTypes, Ordered, DeleteOrphan, createVars, bgVars, boundVars
<1>25. CASE Crash
  BY <1>25 DEF RecTypes, Ordered, Crash, ServerDown, recVars
<1>26. CASE UNCHANGED vars
  BY <1>26 DEF RecTypes, Ordered, vars
<1> QED BY <1>1, <1>2, <1>3, <1>4, <1>5, <1>6, <1>7, <1>8, <1>9, <1>10, <1>11,
   <1>12, <1>13, <1>14, <1>15, <1>16, <1>17, <1>18, <1>19, <1>20, <1>21, <1>22,
   <1>23, <1>24, <1>25, <1>26 DEF Next, CreateStep, DeleteStep, ReaperStep

\* Every namespace that is named for a pull request is one of its own.
LEMMA OwnKept ==
    ASSUME AgentTypes, NsTypes, RecTypes, OwnInv, [Next]_vars
    PROVE  OwnInv'
<1>1. ASSUME NEW p \in Prs, Webhook(p)
      PROVE  OwnInv'
  BY <1>1, FleetAssumption DEF AgentTypes, NsTypes, OwnInv, Own, Webhook, recVars,
     bgVars
<1>2. ASSUME NEW p \in Prs, CreateGivesUp(p)
      PROVE  OwnInv'
  BY <1>2, FleetAssumption DEF AgentTypes, NsTypes, OwnInv, Own, CreateGivesUp,
     Return, Goto, recVars
<1>3. ASSUME NEW p \in Prs, Lookup(p)
      PROVE  OwnInv'
  BY <1>3, FleetAssumption DEF AgentTypes, NsTypes, OwnInv, Own, Lookup, Stamp,
     Records, Goto, bgVars, boundVars
<1>4. ASSUME NEW p \in Prs, UsesNil(p)
      PROVE  OwnInv'
  BY <1>4, FleetAssumption DEF AgentTypes, NsTypes, OwnInv, Own, UsesNil,
     ServerDown, recVars
<1>5. ASSUME NEW p \in Prs, Touch(p)
      PROVE  OwnInv'
  BY <1>5, FleetAssumption DEF AgentTypes, NsTypes, OwnInv, Own, Touch, Stamp,
     Records, Goto, bgVars, boundVars
<1>6. ASSUME NEW p \in Prs, Fail(p)
      PROVE  OwnInv'
  BY <1>6, FleetAssumption DEF AgentTypes, NsTypes, OwnInv, Own, Fail, SetStatus,
     Return, Goto
<1>7. ASSUME NEW p \in Prs, Limit(p)
      PROVE  OwnInv'
  BY <1>7, FleetAssumption DEF AgentTypes, NsTypes, OwnInv, Own, Limit,
     CreateNamespace, FreshNames, Goto, bgVars, boundVars
<1>8. ASSUME NEW p \in Prs, Killed(p)
      PROVE  OwnInv'
  BY <1>8, FleetAssumption DEF AgentTypes, NsTypes, OwnInv, Own, Killed,
     CreateNamespace, FreshNames, Goto, bgVars, boundVars
<1>9. ASSUME NEW p \in Prs, WriteRow(p)
      PROVE  OwnInv'
  BY <1>9, FleetAssumption DEF AgentTypes, NsTypes, OwnInv, Own, WriteRow,
     CleanUp, Return, Goto
<1>10. ASSUME NEW p \in Prs, Install(p)
      PROVE  OwnInv'
  BY <1>10, FleetAssumption DEF AgentTypes, NsTypes, OwnInv, Own, Install,
     CleanUp, SetStatus, Return, Goto
<1>11. ASSUME NEW p \in Prs, Abandon(p)
      PROVE  OwnInv'
  <2>1. PICK W \in LeftOf(p) : late' = late \cup W
    BY <1>11, AbandonLeaves
  <2>2. \A w \in W : w.pr = p /\ w.ns \in Own(p)
    BY <1>11, AbandonLeaves, LeftOfType DEF OwnInv, Own
  <2> QED BY <1>11, <2>1, <2>2, AbandonLeaves DEF OwnInv, Own, NsTypes
<1>12. ASSUME NEW p \in Prs, Age(p)
      PROVE  OwnInv'
  BY <1>12, FleetAssumption DEF AgentTypes, NsTypes, OwnInv, Own, Age, createVars,
     bgVars, boundVars
<1>13. ASSUME NEW a \in Agents, NEW p \in Prs, DeleteBegins(a, p)
      PROVE  OwnInv'
  BY <1>13, FleetAssumption DEF AgentTypes, NsTypes, OwnInv, Own, DeleteBegins,
     recVars, createVars, bgVars, boundVars
<1>14. ASSUME NEW a \in Agents, DeleteGivesUp(a)
      PROVE  OwnInv'
  BY <1>14, FleetAssumption DEF AgentTypes, NsTypes, OwnInv, Own, DeleteGivesUp,
     DeleteReturns, recVars, createVars, bgVars, boundVars
<1>15. ASSUME NEW a \in Agents, Delete(a)
      PROVE  OwnInv'
  BY <1>15, FleetAssumption DEF AgentTypes, NsTypes, OwnInv, Own, Delete,
     DeleteReturns, SetStatus, createVars, boundVars
<1>16. ASSUME NEW a \in Agents, DeleteFails(a)
      PROVE  OwnInv'
  BY <1>16, FleetAssumption DEF AgentTypes, NsTypes, OwnInv, Own, DeleteFails,
     DeleteReturns, recVars, createVars, bgVars, boundVars
<1>17. ASSUME NEW w \in late, LateStep(w)
      PROVE  OwnInv'
  BY <1>17, FleetAssumption DEF AgentTypes, NsTypes, OwnInv, Own, LateStep,
     CleanUp, SetStatus, createVars
<1>18. ASSUME NEW t \in teardowns, TeardownStep(t)
      PROVE  OwnInv'
  BY <1>18, FleetAssumption DEF AgentTypes, NsTypes, OwnInv, Own, TeardownStep,
     createVars
<1>19. CASE NextPhase
  BY <1>19, FleetAssumption DEF AgentTypes, NsTypes, OwnInv, Own, NextPhase,
     recVars, createVars, bgVars, boundVars
<1>20. ASSUME NEW p \in Prs, PruneRecord(p)
      PROVE  OwnInv'
  BY <1>20, FleetAssumption DEF AgentTypes, NsTypes, OwnInv, Own, PruneRecord,
     Forget, ReaperIsDoneWith, createVars, bgVars, boundVars
<1>21. ASSUME NEW p \in Prs, SkipOpen(p)
      PROVE  OwnInv'
  BY <1>21, FleetAssumption DEF AgentTypes, NsTypes, OwnInv, Own, SkipOpen,
     ReaperIsDoneWith, recVars, createVars, bgVars, boundVars
<1>22. CASE PruneDestroyedEnvRecords
  BY <1>22, FleetAssumption DEF AgentTypes, NsTypes, OwnInv, Own,
     PruneDestroyedEnvRecords, Forget, createVars, bgVars, boundVars
<1>23. ASSUME NEW n \in Namespaces, CheckOrphan(n)
      PROVE  OwnInv'
  BY <1>23, FleetAssumption DEF AgentTypes, NsTypes, OwnInv, Own, CheckOrphan,
     Rows, recVars, createVars, bgVars, boundVars
<1>24. CASE DeleteOrphan
  BY <1>24, FleetAssumption DEF AgentTypes, NsTypes, OwnInv, Own, DeleteOrphan,
     createVars, bgVars, boundVars
<1>25. CASE Crash
  BY <1>25, FleetAssumption DEF AgentTypes, NsTypes, OwnInv, Own, Crash,
     ServerDown, recVars
<1>26. CASE UNCHANGED vars
  BY <1>26, FleetAssumption DEF AgentTypes, NsTypes, OwnInv, Own, vars
<1> QED BY <1>1, <1>2, <1>3, <1>4, <1>5, <1>6, <1>7, <1>8, <1>9, <1>10, <1>11,
   <1>12, <1>13, <1>14, <1>15, <1>16, <1>17, <1>18, <1>19, <1>20, <1>21, <1>22,
   <1>23, <1>24, <1>25, <1>26 DEF Next, CreateStep, DeleteStep, ReaperStep

\* The new namespace of a create stays, until the create has ended.
LEMMA NewKept ==
    ASSUME AgentTypes, NsTypes, RecTypes, OwnInv, NewInv, [Next]_vars
    PROVE  NewInv'
<1>1. ASSUME NEW p \in Prs, Webhook(p)
      PROVE  NewInv'
  BY <1>1, FleetAssumption DEF AgentTypes, NsTypes, RecTypes, OwnInv, Own, NewInv,
     Namespaces, Webhook, recVars, bgVars
<1>2. ASSUME NEW p \in Prs, CreateGivesUp(p)
      PROVE  NewInv'
  BY <1>2, FleetAssumption DEF AgentTypes, NsTypes, RecTypes, OwnInv, Own, NewInv,
     Namespaces, CreateGivesUp, Return, Goto, recVars
<1>3. ASSUME NEW p \in Prs, Lookup(p)
      PROVE  NewInv'
  BY <1>3, FleetAssumption DEF AgentTypes, NsTypes, RecTypes, OwnInv, Own, NewInv,
     Namespaces, Lookup, Stamp, Records, Goto, bgVars, boundVars
<1>4. ASSUME NEW p \in Prs, UsesNil(p)
      PROVE  NewInv'
  BY <1>4, FleetAssumption DEF AgentTypes, NsTypes, RecTypes, OwnInv, Own, NewInv,
     Namespaces, UsesNil, ServerDown, recVars
<1>5. ASSUME NEW p \in Prs, Touch(p)
      PROVE  NewInv'
  BY <1>5, FleetAssumption DEF AgentTypes, NsTypes, RecTypes, OwnInv, Own, NewInv,
     Namespaces, Touch, Stamp, Records, Goto, bgVars, boundVars
<1>6. ASSUME NEW p \in Prs, Fail(p)
      PROVE  NewInv'
  BY <1>6, FleetAssumption DEF AgentTypes, NsTypes, RecTypes, OwnInv, Own, NewInv,
     Namespaces, Fail, SetStatus, Return, Goto
<1>7. ASSUME NEW p \in Prs, Limit(p)
      PROVE  NewInv'
  BY <1>7, FleetAssumption DEF AgentTypes, NsTypes, RecTypes, OwnInv, Own, NewInv,
     Namespaces, Limit, CreateNamespace, FreshNames, Goto, bgVars, boundVars
<1>8. ASSUME NEW p \in Prs, Killed(p)
      PROVE  NewInv'
  BY <1>8, FleetAssumption DEF AgentTypes, NsTypes, RecTypes, OwnInv, Own, NewInv,
     Namespaces, Killed, CreateNamespace, FreshNames, Goto, bgVars, boundVars
<1>9. ASSUME NEW p \in Prs, WriteRow(p)
      PROVE  NewInv'
  BY <1>9, FleetAssumption DEF AgentTypes, NsTypes, RecTypes, OwnInv, Own, NewInv,
     Namespaces, WriteRow, CleanUp, Return, Goto
<1>10. ASSUME NEW p \in Prs, Install(p)
      PROVE  NewInv'
  BY <1>10, FleetAssumption DEF AgentTypes, NsTypes, RecTypes, OwnInv, Own,
     NewInv, Namespaces, Install, CleanUp, SetStatus, Return, Goto
<1>11. ASSUME NEW p \in Prs, Abandon(p)
      PROVE  NewInv'
  <2>1. PICK W \in LeftOf(p) : late' = late \cup W
    BY <1>11, AbandonLeaves
  <2>2. \A w \in W : w.ns \in Own(p)
    BY <1>11, AbandonLeaves, LeftOfType DEF OwnInv, Own
  <2>3. ASSUME NEW q \in Prs \ {p}, newNs[q] # None
        PROVE  \A w \in W : w.ns # newNs[q]
    BY <2>2, <2>3 DEF OwnInv, Own
  <2> QED BY <1>11, <2>1, <2>3, AbandonLeaves DEF NewInv, NsTypes, AgentTypes
<1>12. ASSUME NEW p \in Prs, Age(p)
      PROVE  NewInv'
  BY <1>12, FleetAssumption DEF AgentTypes, NsTypes, RecTypes, OwnInv, Own,
     NewInv, Namespaces, Age, createVars, bgVars, boundVars
<1>13. ASSUME NEW a \in Agents, NEW p \in Prs, DeleteBegins(a, p)
      PROVE  NewInv'
  BY <1>13, FleetAssumption DEF AgentTypes, NsTypes, RecTypes, OwnInv, Own,
     NewInv, Namespaces, DeleteBegins, recVars, createVars, bgVars, boundVars
<1>14. ASSUME NEW a \in Agents, DeleteGivesUp(a)
      PROVE  NewInv'
  BY <1>14, FleetAssumption DEF AgentTypes, NsTypes, RecTypes, OwnInv, Own,
     NewInv, Namespaces, DeleteGivesUp, DeleteReturns, recVars, createVars,
     bgVars, boundVars
<1>15. ASSUME NEW a \in Agents, Delete(a)
      PROVE  NewInv'
  <2> DEFINE p == target[a]
  <2>1. /\ p \in Prs /\ newNs[p] = None
    BY <1>15, FleetAssumption DEF Delete, AgentTypes, NewInv, Locked
  <2>2. \A w \in late' : w \in late \/ w.ns = None
    BY <1>15 DEF Delete
  <2>3. \A t \in teardowns' : t \in teardowns \/ t.ns = row[p]
    BY <1>15 DEF Delete
  <2>4. ASSUME NEW q \in Prs, newNs[q] # None
        PROVE  row[p] # newNs[q]
    BY <2>1, <2>4 DEF OwnInv, Own
  <2> QED BY <1>15, <2>1, <2>2, <2>3, <2>4 DEF NewInv, Delete, createVars
<1>16. ASSUME NEW a \in Agents, DeleteFails(a)
      PROVE  NewInv'
  BY <1>16, FleetAssumption DEF AgentTypes, NsTypes, RecTypes, OwnInv, Own,
     NewInv, Namespaces, DeleteFails, DeleteReturns, recVars, createVars, bgVars,
     boundVars
<1>17. ASSUME NEW w \in late, LateStep(w)
      PROVE  NewInv'
  BY <1>17, FleetAssumption DEF AgentTypes, NsTypes, RecTypes, OwnInv, Own,
     NewInv, Namespaces, LateStep, CleanUp, SetStatus, createVars
<1>18. ASSUME NEW t \in teardowns, TeardownStep(t)
      PROVE  NewInv'
  BY <1>18, FleetAssumption DEF AgentTypes, NsTypes, RecTypes, OwnInv, Own,
     NewInv, Namespaces, TeardownStep, createVars
<1>19. CASE NextPhase
  BY <1>19, FleetAssumption DEF AgentTypes, NsTypes, RecTypes, OwnInv, Own,
     NewInv, Namespaces, NextPhase, recVars, createVars, bgVars, boundVars
<1>20. ASSUME NEW p \in Prs, PruneRecord(p)
      PROVE  NewInv'
  BY <1>20, FleetAssumption DEF AgentTypes, NsTypes, RecTypes, OwnInv, Own,
     NewInv, Namespaces, PruneRecord, Forget, ReaperIsDoneWith, createVars,
     bgVars, boundVars
<1>21. ASSUME NEW p \in Prs, SkipOpen(p)
      PROVE  NewInv'
  BY <1>21, FleetAssumption DEF AgentTypes, NsTypes, RecTypes, OwnInv, Own,
     NewInv, Namespaces, SkipOpen, ReaperIsDoneWith, recVars, createVars, bgVars,
     boundVars
<1>22. CASE PruneDestroyedEnvRecords
  BY <1>22, FleetAssumption DEF AgentTypes, NsTypes, RecTypes, OwnInv, Own,
     NewInv, Namespaces, PruneDestroyedEnvRecords, Forget, createVars, bgVars,
     boundVars
<1>23. ASSUME NEW n \in Namespaces, CheckOrphan(n)
      PROVE  NewInv'
  BY <1>23, FleetAssumption DEF AgentTypes, NsTypes, RecTypes, OwnInv, Own,
     NewInv, Namespaces, CheckOrphan, Rows, recVars, createVars, bgVars, boundVars
<1>24. CASE DeleteOrphan
  BY <1>24, FleetAssumption DEF AgentTypes, NsTypes, RecTypes, OwnInv, Own,
     NewInv, Namespaces, DeleteOrphan, createVars, bgVars, boundVars
<1>25. CASE Crash
  BY <1>25, FleetAssumption DEF AgentTypes, NsTypes, RecTypes, OwnInv, Own,
     NewInv, Namespaces, Crash, ServerDown, recVars
<1>26. CASE UNCHANGED vars
  BY <1>26, FleetAssumption DEF AgentTypes, NsTypes, RecTypes, OwnInv, Own,
     NewInv, Namespaces, vars
<1> QED BY <1>1, <1>2, <1>3, <1>4, <1>5, <1>6, <1>7, <1>8, <1>9, <1>10, <1>11,
   <1>12, <1>13, <1>14, <1>15, <1>16, <1>17, <1>18, <1>19, <1>20, <1>21, <1>22,
   <1>23, <1>24, <1>25, <1>26 DEF Next, CreateStep, DeleteStep, ReaperStep

\* The namespace of an environment that is up stays.
LEMMA RowKept ==
    ASSUME AgentTypes, NsTypes, RecTypes, OwnInv, NewInv, RowInv, [Next]_vars
    PROVE  RowInv'
<1>1. ASSUME NEW p \in Prs, Webhook(p)
      PROVE  RowInv'
  BY <1>1, FleetAssumption DEF AgentTypes, NsTypes, RecTypes, OwnInv, Own, NewInv,
     RowInv, Locked, Namespaces, Webhook, recVars, bgVars
<1>2. ASSUME NEW p \in Prs, CreateGivesUp(p)
      PROVE  RowInv'
  BY <1>2, FleetAssumption DEF AgentTypes, NsTypes, RecTypes, OwnInv, Own, NewInv,
     RowInv, Locked, Namespaces, CreateGivesUp, Return, Goto, recVars
<1>3. ASSUME NEW p \in Prs, Lookup(p)
      PROVE  RowInv'
  BY <1>3, FleetAssumption DEF AgentTypes, NsTypes, RecTypes, OwnInv, Own, NewInv,
     RowInv, Locked, Namespaces, Lookup, Stamp, Records, Goto, bgVars, boundVars
<1>4. ASSUME NEW p \in Prs, UsesNil(p)
      PROVE  RowInv'
  BY <1>4, FleetAssumption DEF AgentTypes, NsTypes, RecTypes, OwnInv, Own, NewInv,
     RowInv, Locked, Namespaces, UsesNil, ServerDown, recVars
<1>5. ASSUME NEW p \in Prs, Touch(p)
      PROVE  RowInv'
  BY <1>5, FleetAssumption DEF AgentTypes, NsTypes, RecTypes, OwnInv, Own, NewInv,
     RowInv, Locked, Namespaces, Touch, Stamp, Records, Goto, bgVars, boundVars
<1>6. ASSUME NEW p \in Prs, Fail(p)
      PROVE  RowInv'
  BY <1>6, FleetAssumption DEF AgentTypes, NsTypes, RecTypes, OwnInv, Own, NewInv,
     RowInv, Locked, Namespaces, Fail, SetStatus, Return, Goto
<1>7. ASSUME NEW p \in Prs, Limit(p)
      PROVE  RowInv'
  BY <1>7, FleetAssumption DEF AgentTypes, NsTypes, RecTypes, OwnInv, Own, NewInv,
     RowInv, Locked, Namespaces, Limit, CreateNamespace, FreshNames, Goto, bgVars,
     boundVars
<1>8. ASSUME NEW p \in Prs, Killed(p)
      PROVE  RowInv'
  BY <1>8, FleetAssumption DEF AgentTypes, NsTypes, RecTypes, OwnInv, Own, NewInv,
     RowInv, Locked, Namespaces, Killed, CreateNamespace, FreshNames, Goto,
     bgVars, boundVars
<1>9. ASSUME NEW p \in Prs, WriteRow(p)
      PROVE  RowInv'
  BY <1>9, FleetAssumption DEF AgentTypes, NsTypes, RecTypes, OwnInv, Own, NewInv,
     RowInv, Locked, Namespaces, WriteRow, CleanUp, Return, Goto
<1>10. ASSUME NEW p \in Prs, Install(p)
      PROVE  RowInv'
  BY <1>10, FleetAssumption DEF AgentTypes, NsTypes, RecTypes, OwnInv, Own,
     NewInv, RowInv, Locked, Namespaces, Install, CleanUp, SetStatus, Return, Goto
<1>11. ASSUME NEW p \in Prs, Abandon(p)
      PROVE  RowInv'
  <2>1. PICK W \in LeftOf(p) : late' = late \cup W
    BY <1>11, AbandonLeaves
  <2>2. \A w \in W : w.ns \in Own(p)
    BY <1>11, AbandonLeaves, LeftOfType DEF OwnInv, Own
  <2>3. status[p] = "success" => p \in disturbed
    BY <1>11, AbandonLeaves DEF RowInv
  <2>4. ASSUME NEW q \in Prs \ {p}, row[q] \in live
        PROVE  \A w \in W : w.ns # row[q]
    BY <2>2, <2>4, FleetAssumption DEF OwnInv, Own, RecTypes, Namespaces
  <2> QED BY <1>11, <2>1, <2>3, <2>4, AbandonLeaves DEF RowInv, Locked, NsTypes, AgentTypes
<1>12. ASSUME NEW p \in Prs, Age(p)
      PROVE  RowInv'
  BY <1>12, FleetAssumption DEF AgentTypes, NsTypes, RecTypes, OwnInv, Own,
     NewInv, RowInv, Locked, Namespaces, Age, createVars, bgVars, boundVars
<1>13. ASSUME NEW a \in Agents, NEW p \in Prs, DeleteBegins(a, p)
      PROVE  RowInv'
  BY <1>13, FleetAssumption DEF AgentTypes, NsTypes, RecTypes, OwnInv, Own,
     NewInv, RowInv, Locked, Namespaces, DeleteBegins, recVars, createVars,
     bgVars, boundVars
<1>14. ASSUME NEW a \in Agents, DeleteGivesUp(a)
      PROVE  RowInv'
  BY <1>14, FleetAssumption DEF AgentTypes, NsTypes, RecTypes, OwnInv, Own,
     NewInv, RowInv, Locked, Namespaces, DeleteGivesUp, DeleteReturns, recVars,
     createVars, bgVars, boundVars
<1>15. ASSUME NEW a \in Agents, Delete(a)
      PROVE  RowInv'
  BY <1>15, FleetAssumption DEF AgentTypes, NsTypes, RecTypes, OwnInv, Own,
     NewInv, RowInv, Locked, Namespaces, Delete, DeleteReturns, SetStatus,
     createVars, boundVars
<1>16. ASSUME NEW a \in Agents, DeleteFails(a)
      PROVE  RowInv'
  BY <1>16, FleetAssumption DEF AgentTypes, NsTypes, RecTypes, OwnInv, Own,
     NewInv, RowInv, Locked, Namespaces, DeleteFails, DeleteReturns, recVars,
     createVars, bgVars, boundVars
<1>17. ASSUME NEW w \in late, LateStep(w)
      PROVE  RowInv'
  BY <1>17, FleetAssumption DEF AgentTypes, NsTypes, RecTypes, OwnInv, Own,
     NewInv, RowInv, Locked, Namespaces, LateStep, CleanUp, SetStatus, createVars
<1>18. ASSUME NEW t \in teardowns, TeardownStep(t)
      PROVE  RowInv'
  BY <1>18, FleetAssumption DEF AgentTypes, NsTypes, RecTypes, OwnInv, Own,
     NewInv, RowInv, Locked, Namespaces, TeardownStep, createVars
<1>19. CASE NextPhase
  BY <1>19, FleetAssumption DEF AgentTypes, NsTypes, RecTypes, OwnInv, Own,
     NewInv, RowInv, Locked, Namespaces, NextPhase, recVars, createVars, bgVars,
     boundVars
<1>20. ASSUME NEW p \in Prs, PruneRecord(p)
      PROVE  RowInv'
  BY <1>20, FleetAssumption DEF AgentTypes, NsTypes, RecTypes, OwnInv, Own,
     NewInv, RowInv, Locked, Namespaces, PruneRecord, Forget, ReaperIsDoneWith,
     createVars, bgVars, boundVars
<1>21. ASSUME NEW p \in Prs, SkipOpen(p)
      PROVE  RowInv'
  BY <1>21, FleetAssumption DEF AgentTypes, NsTypes, RecTypes, OwnInv, Own,
     NewInv, RowInv, Locked, Namespaces, SkipOpen, ReaperIsDoneWith, recVars,
     createVars, bgVars, boundVars
<1>22. CASE PruneDestroyedEnvRecords
  BY <1>22, FleetAssumption DEF AgentTypes, NsTypes, RecTypes, OwnInv, Own,
     NewInv, RowInv, Locked, Namespaces, PruneDestroyedEnvRecords, Forget,
     createVars, bgVars, boundVars
<1>23. ASSUME NEW n \in Namespaces, CheckOrphan(n)
      PROVE  RowInv'
  BY <1>23, FleetAssumption DEF AgentTypes, NsTypes, RecTypes, OwnInv, Own,
     NewInv, RowInv, Locked, Namespaces, CheckOrphan, Rows, recVars, createVars,
     bgVars, boundVars
<1>24. CASE DeleteOrphan
  BY <1>24, FleetAssumption DEF AgentTypes, NsTypes, RecTypes, OwnInv, Own,
     NewInv, RowInv, Locked, Namespaces, DeleteOrphan, createVars, bgVars,
     boundVars
<1>25. CASE Crash
  BY <1>25, FleetAssumption DEF AgentTypes, NsTypes, RecTypes, OwnInv, Own,
     NewInv, RowInv, Locked, Namespaces, Crash, ServerDown, recVars
<1>26. CASE UNCHANGED vars
  BY <1>26, FleetAssumption DEF AgentTypes, NsTypes, RecTypes, OwnInv, Own,
     NewInv, RowInv, Locked, Namespaces, vars
<1> QED BY <1>1, <1>2, <1>3, <1>4, <1>5, <1>6, <1>7, <1>8, <1>9, <1>10, <1>11,
   <1>12, <1>13, <1>14, <1>15, <1>16, <1>17, <1>18, <1>19, <1>20, <1>21, <1>22,
   <1>23, <1>24, <1>25, <1>26 DEF Next, CreateStep, DeleteStep, ReaperStep

\* What ChangedUnderLock asks of a step
LEMMA UnderLock ==
    ASSUME RecTypes, AgentTypes, NsTypes, [Next]_vars
    PROVE  Guarded
<1>1. ASSUME NEW p \in Prs, Webhook(p)
      PROVE  Guarded
  BY <1>1, FleetAssumption DEF RecTypes, AgentTypes, NsTypes, Running, Guarded,
     Locked, Webhook, recVars, bgVars
<1>2. ASSUME NEW p \in Prs, CreateGivesUp(p)
      PROVE  Guarded
  BY <1>2, FleetAssumption DEF RecTypes, AgentTypes, NsTypes, Running, Guarded,
     Locked, CreateGivesUp, Return, Goto, recVars
<1>3. ASSUME NEW p \in Prs, Lookup(p)
      PROVE  Guarded
  BY <1>3, FleetAssumption DEF RecTypes, AgentTypes, NsTypes, Running, Guarded,
     Locked, Lookup, Stamp, Records, Goto, bgVars, boundVars
<1>4. ASSUME NEW p \in Prs, UsesNil(p)
      PROVE  Guarded
  BY <1>4, FleetAssumption DEF RecTypes, AgentTypes, NsTypes, Running, Guarded,
     Locked, UsesNil, ServerDown, recVars
<1>5. ASSUME NEW p \in Prs, Touch(p)
      PROVE  Guarded
  BY <1>5, FleetAssumption DEF RecTypes, AgentTypes, NsTypes, Running, Guarded,
     Locked, Touch, Stamp, Records, Goto, bgVars, boundVars
<1>6. ASSUME NEW p \in Prs, Fail(p)
      PROVE  Guarded
  BY <1>6, FleetAssumption DEF RecTypes, AgentTypes, NsTypes, Running, Guarded,
     Locked, Fail, SetStatus, Return, Goto
<1>7. ASSUME NEW p \in Prs, Limit(p)
      PROVE  Guarded
  BY <1>7, FleetAssumption DEF RecTypes, AgentTypes, NsTypes, Running, Guarded,
     Locked, Limit, CreateNamespace, FreshNames, Goto, bgVars, boundVars
<1>8. ASSUME NEW p \in Prs, Killed(p)
      PROVE  Guarded
  BY <1>8, FleetAssumption DEF RecTypes, AgentTypes, NsTypes, Running, Guarded,
     Locked, Killed, CreateNamespace, FreshNames, Goto, bgVars, boundVars
<1>9. ASSUME NEW p \in Prs, WriteRow(p)
      PROVE  Guarded
  BY <1>9, FleetAssumption DEF RecTypes, AgentTypes, NsTypes, Running, Guarded,
     Locked, WriteRow, CleanUp, Return, Goto
<1>10. ASSUME NEW p \in Prs, Install(p)
      PROVE  Guarded
  BY <1>10, FleetAssumption DEF RecTypes, AgentTypes, NsTypes, Running, Guarded,
     Locked, Install, CleanUp, SetStatus, Return, Goto
<1>11. ASSUME NEW p \in Prs, Abandon(p)
      PROVE  Guarded
  BY <1>11, FleetAssumption DEF RecTypes, AgentTypes, NsTypes, Running, Guarded,
     Locked, Abandon, LeftOf, Return, Goto, recVars
<1>12. ASSUME NEW p \in Prs, Age(p)
      PROVE  Guarded
  BY <1>12, FleetAssumption DEF RecTypes, AgentTypes, NsTypes, Running, Guarded,
     Locked, Age, createVars, bgVars, boundVars
<1>13. ASSUME NEW a \in Agents, NEW p \in Prs, DeleteBegins(a, p)
      PROVE  Guarded
  BY <1>13, FleetAssumption DEF RecTypes, AgentTypes, NsTypes, Running, Guarded,
     Locked, DeleteBegins, recVars, createVars, bgVars, boundVars
<1>14. ASSUME NEW a \in Agents, DeleteGivesUp(a)
      PROVE  Guarded
  BY <1>14, FleetAssumption DEF RecTypes, AgentTypes, NsTypes, Running, Guarded,
     Locked, DeleteGivesUp, DeleteReturns, recVars, createVars, bgVars, boundVars
<1>15. ASSUME NEW a \in Agents, Delete(a)
      PROVE  Guarded
  BY <1>15, FleetAssumption DEF RecTypes, AgentTypes, NsTypes, Running, Guarded,
     Locked, Delete, DeleteReturns, SetStatus, createVars, boundVars
<1>16. ASSUME NEW a \in Agents, DeleteFails(a)
      PROVE  Guarded
  BY <1>16, FleetAssumption DEF RecTypes, AgentTypes, NsTypes, Running, Guarded,
     Locked, DeleteFails, DeleteReturns, recVars, createVars, bgVars, boundVars
<1>17. ASSUME NEW w \in late, LateStep(w)
      PROVE  Guarded
  BY <1>17, FleetAssumption DEF RecTypes, AgentTypes, NsTypes, Running, Guarded,
     Locked, LateStep, CleanUp, SetStatus, createVars
<1>18. ASSUME NEW t \in teardowns, TeardownStep(t)
      PROVE  Guarded
  BY <1>18, FleetAssumption DEF RecTypes, AgentTypes, NsTypes, Running, Guarded,
     Locked, TeardownStep, createVars
<1>19. CASE NextPhase
  BY <1>19, FleetAssumption DEF RecTypes, AgentTypes, NsTypes, Running, Guarded,
     Locked, NextPhase, recVars, createVars, bgVars, boundVars
<1>20. ASSUME NEW p \in Prs, PruneRecord(p)
      PROVE  Guarded
  BY <1>20, FleetAssumption DEF RecTypes, AgentTypes, NsTypes, Running, Guarded,
     Locked, PruneRecord, Forget, ReaperIsDoneWith, createVars, bgVars, boundVars
<1>21. ASSUME NEW p \in Prs, SkipOpen(p)
      PROVE  Guarded
  BY <1>21, FleetAssumption DEF RecTypes, AgentTypes, NsTypes, Running, Guarded,
     Locked, SkipOpen, ReaperIsDoneWith, recVars, createVars, bgVars, boundVars
<1>22. CASE PruneDestroyedEnvRecords
  BY <1>22, FleetAssumption DEF RecTypes, AgentTypes, NsTypes, Running, Guarded,
     Locked, PruneDestroyedEnvRecords, Forget, createVars, bgVars, boundVars
<1>23. ASSUME NEW n \in Namespaces, CheckOrphan(n)
      PROVE  Guarded
  BY <1>23, FleetAssumption DEF RecTypes, AgentTypes, NsTypes, Running, Guarded,
     Locked, CheckOrphan, Rows, recVars, createVars, bgVars, boundVars
<1>24. CASE DeleteOrphan
  BY <1>24, FleetAssumption DEF RecTypes, AgentTypes, NsTypes, Running, Guarded,
     Locked, DeleteOrphan, createVars, bgVars, boundVars
<1>25. CASE Crash
  BY <1>25, FleetAssumption DEF RecTypes, AgentTypes, NsTypes, Running, Guarded,
     Locked, Crash, ServerDown, recVars
<1>26. CASE UNCHANGED vars
  BY <1>26, FleetAssumption DEF RecTypes, AgentTypes, NsTypes, Running, Guarded,
     Locked, vars
<1> QED BY <1>1, <1>2, <1>3, <1>4, <1>5, <1>6, <1>7, <1>8, <1>9, <1>10, <1>11,
   <1>12, <1>13, <1>14, <1>15, <1>16, <1>17, <1>18, <1>19, <1>20, <1>21, <1>22,
   <1>23, <1>24, <1>25, <1>26 DEF Next, CreateStep, DeleteStep, ReaperStep

-----------------------------------------------------------------------------
(* The theorems *)

LEMMA InvInit == Init => Inv
<1> SUFFICES ASSUME Init PROVE Inv
  OBVIOUS
<1>1. RecTypes /\ AgentTypes /\ NsTypes /\ Ordered
  BY FleetAssumption DEF Init, RecTypes, AgentTypes, NsTypes, Ordered, Status, Agents
<1>2. OtherTypes
  BY FleetAssumption DEF Init, OtherTypes, Phases
<1>3. OwnInv /\ NewInv /\ RowInv
  BY DEF Init, OwnInv, NewInv, RowInv, Own, Locked
<1> QED BY <1>1, <1>2, <1>3 DEF Inv

LEMMA InvNext == Inv /\ [Next]_vars => Inv'
BY RecTypesKept, AgentTypesKept, NsTypesKept, OtherTypesKept, OrderKept, OwnKept, NewKept,
   RowKept DEF Inv

THEOREM InvHolds == Spec => []Inv
BY InvInit, InvNext, PTL DEF Spec

\* The records, the agents, the namespaces and the goroutines keep their types.
THEOREM TypeCorrect == Spec => []TypeOK
<1>1. Inv => TypeOK
  BY DEF Inv, RecTypes, AgentTypes, NsTypes, OtherTypes, Ordered, TypeOK
<1> QED BY <1>1, InvHolds, PTL

\* No namespace is taken from an environment that is up by the reaper, the cleanup job or
\* a create of another pull request; only a goroutine that an operation on the same pull
\* request has left without its lock may do that.
THEOREM UpKeepsNamespace == Spec => []UpHasNamespace
<1>1. Inv => UpHasNamespace
  BY DEF Inv, RowInv, UpHasNamespace
<1> QED BY <1>1, InvHolds, PTL

\* A running environment changes only under the lock of its pull request, or by a
\* goroutine that an operation with that lock has left behind.
THEOREM LockProtects == Spec => ChangedUnderLock
<1>1. Inv /\ [Next]_vars => Guarded
  BY UnderLock DEF Inv
<1> QED BY <1>1, InvHolds, PTL DEF Spec, ChangedUnderLock, Guarded
=============================================================================
