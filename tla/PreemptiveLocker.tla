-------------------------- MODULE PreemptiveLocker --------------------------
(***************************************************************************)
(* The distributed lock of pkg/locker for ONE key (one repository and pull  *)
(* request): PreemptiveLocker (locker.go) over PostgresLock                 *)
(* (postgres_lock.go).  Every element of Lockers is one single-use lock     *)
(* object.  It has two goroutines that matter: its caller's, which runs     *)
(* Lock, the operation and Release, and handleEvents, which Lock starts.    *)
(* Postgres is seen through the session each object takes from the pool     *)
(* (conn), the advisory lock (owner, holds) and the LISTEN connection       *)
(* (listener, inbox).                                                       *)
(*                                                                          *)
(* Time is discrete.  Timers count down; a Tick is possible only when no    *)
(* step that takes no time is pending (Urgent), which is the assumption     *)
(* that scheduling and the SQL statements that do not block take much less  *)
(* than a unit (5 seconds under the default durations).                     *)
(***************************************************************************)
EXTENDS Integers, Sequences, FiniteSets

CONSTANTS
    Lockers,            \* the lock objects created for the key
    Direct,             \* those used as the reaper does: PreemptableLock alone,
                        \* the channel ignored and the context never cancelled
    LockTimeout,        \* conf.lockTimeout
    LockDelay,          \* conf.lockDelay
    PreemptionTimeout,  \* conf.preemptionTimeout
    MaxLockDuration,    \* conf.maxLockDuration
    UnlockTimeout,      \* the 5 seconds of Unlock's own context
    KeepAlivePeriod,    \* longest time to the ping that finds a dead session
    Faults,             \* what may go wrong in this instance, see FaultKinds
    MaxFaults,          \* bound on the number of faults of a behaviour
    NoOne,              \* owner: no session holds the advisory lock
    Pool                \* owner: an idle pooled session still holds it

\* Payloads of the notification channel that are not a lock object's own:
\* the nil a pq.Listener sends after reconnecting or closing, and a payload
\* that does not unmarshal.
Nil == "nil"
Junk == "junk"

FaultKinds == {"crash", "session", "listener", "unlock", "db", "junk"}

ASSUME LockerAssumption ==
    /\ Direct \subseteq Lockers
    /\ NoOne \notin Lockers /\ Pool \notin Lockers /\ NoOne # Pool
    /\ Nil \notin Lockers /\ Junk \notin Lockers
    /\ Faults \subseteq FaultKinds
    /\ LockTimeout \in Nat \ {0} /\ LockDelay \in Nat
    /\ PreemptionTimeout \in Nat /\ MaxLockDuration \in Nat
    /\ UnlockTimeout \in Nat /\ KeepAlivePeriod \in Nat /\ MaxFaults \in Nat

VARIABLES
    caller,    \* where each lock object's caller is
    timer,     \* the caller's running timeout: lockTimeout, then lockDelay
    handler,   \* the handleEvents goroutine
    hTimer,    \* its timeout: maxLockDuration, then preemptionTimeout, then 5s
    keep,      \* the keepalive goroutine, postgresSessionController.run
    pingIn,    \* longest time until its next ping of a dead session
    conn,      \* the sql.Conn of the lock object
    listener,  \* the pq.Listener
    inbox,     \* what listener.Notify delivers to handleEvents
    owner,     \* whose session holds the advisory lock
    ahead,     \* who was waiting for it already when l began to wait
    holds,     \* how many times that session took it (it is reentrant)
    faults     \* number of faults so far

callerVars == <<caller, timer, ahead>>
handlerVars == <<handler, hTimer>>
keepVars == <<keep, pingIn>>
listenerVars == <<listener, inbox>>
lockVars == <<owner, holds>>
vars == <<caller, timer, handler, hTimer, keep, pingIn, conn, listener, inbox,
          owner, ahead, holds, faults>>

Payload == Lockers \cup {Nil, Junk}

CallerState == {"idle", "new", "notified", "listening", "waiting", "delay", "yield",
                "held", "told", "failed", "preempted", "released", "crashed"}
HandlerState == {"off", "select", "sending", "unlocking", "deaf", "done"}

TypeOK ==
    /\ caller \in [Lockers -> CallerState]
    /\ timer \in [Lockers -> Nat]
    /\ handler \in [Lockers -> HandlerState]
    /\ hTimer \in [Lockers -> Nat]
    /\ keep \in [Lockers -> {"off", "run", "reported"}]
    /\ pingIn \in [Lockers -> Nat]
    /\ conn \in [Lockers -> {"none", "open", "lost", "closed"}]
    /\ listener \in [Lockers -> {"off", "up", "down", "closed"}]
    /\ inbox \in [Lockers -> Seq(Payload)]
    /\ owner \in Lockers \cup {NoOne, Pool}
    /\ ahead \in [Lockers -> SUBSET Lockers]
    /\ holds \in Nat
    /\ faults \in Nat

Init ==
    /\ caller = [l \in Lockers |-> "idle"]
    /\ timer = [l \in Lockers |-> 0]
    /\ handler = [l \in Lockers |-> "off"]
    /\ hTimer = [l \in Lockers |-> 0]
    /\ keep = [l \in Lockers |-> "off"]
    /\ pingIn = [l \in Lockers |-> 0]
    /\ conn = [l \in Lockers |-> "none"]
    /\ listener = [l \in Lockers |-> "off"]
    /\ inbox = [l \in Lockers |-> <<>>]
    /\ owner = NoOne
    /\ ahead = [l \in Lockers |-> {}]
    /\ holds = 0
    /\ faults = 0

----------------------------------------------------------------------------
(* What the steps are made of.                                              *)

\* Env.Manager.lockingOperation cancels the context it gave to Lock when the
\* operation ends, when Lock fails and when it is told to yield.  The reaper
\* never cancels its own.
CtxCancelled(l) ==
    /\ l \notin Direct
    /\ caller[l] \in {"told", "failed", "preempted", "released"}

\* Who reads the channel that Lock created: PreemptiveLocker.Lock during the
\* lock delay, and a caller that watches it while it works.
Receiving(l) == caller[l] = "delay" \/ (caller[l] = "held" /\ l \notin Direct)

\* A statement of l is in progress, so its sql.Conn is busy.
ConnBusy(l) == caller[l] = "waiting"

\* l's session is in the wait queue of the advisory lock.
Queued(l) == caller[l] = "waiting" /\ conn[l] = "open"

\* Postgres can grant the advisory lock to l's session: it has it already, or
\* it is free and l is the first in the queue.
Grantable(l) ==
    /\ Queued(l)
    /\ \/ owner = l
       \/ owner = NoOne /\ \A m \in ahead[l] : ~Queued(m)

GoTo(l, state) == caller' = [caller EXCEPT ![l] = state]

StopWaiting(l, state) ==
    /\ GoTo(l, state)
    /\ timer' = [timer EXCEPT ![l] = 0]
    /\ ahead' = [ahead EXCEPT ![l] = {}]

HandlerTo(l, state, timeout) ==
    /\ handler' = [handler EXCEPT ![l] = state]
    /\ hTimer' = [hTimer EXCEPT ![l] = timeout]

Fault(kind) ==
    /\ kind \in Faults
    /\ faults < MaxFaults
    /\ faults' = faults + 1

\* l's session ends: Postgres releases whatever it holds.
SessionEnds(l) ==
    IF owner = l THEN owner' = NoOne /\ holds' = 0 ELSE UNCHANGED lockVars

\* A session that still holds the lock `left` times goes back to the pool of
\* sql.DB, which keeps it open or, when two connections are idle already,
\* closes it.
BackToPool(left) ==
    IF left = 0
    THEN owner' = NoOne /\ holds' = 0
    ELSE \/ owner' = Pool /\ holds' = left
         \/ owner' = NoOne /\ holds' = 0

\* PostgresLock.Unlock and the destroy it defers: pg_advisory_unlock, which
\* is cancelled when its 5 seconds are over (~ok), then the listener and the
\* sql.Conn are closed.  On a closed sql.Conn it does nothing.
Unlock(l, ok) ==
    /\ conn' = [conn EXCEPT ![l] = IF @ = "none" THEN @ ELSE "closed"]
    /\ IF owner = l
       THEN BackToPool(IF ok THEN holds - 1 ELSE holds)
       ELSE UNCHANGED lockVars
    /\ listener' = [listener EXCEPT ![l] = IF @ = "off" THEN @ ELSE "closed"]
    /\ inbox' = [inbox EXCEPT ![l] =
                    IF listener[l] \in {"up", "down"} THEN Append(@, Nil) ELSE @]

----------------------------------------------------------------------------
(* The caller: PreemptiveLocker.Lock, the operation, Release.               *)

\* The context is live, the object unused, LockKey and New succeed: a session
\* comes from the pool and its keepalive goroutine starts.  The pool may hand
\* out the idle session that still holds the lock.
NewLock(l) ==
    /\ caller[l] = "idle"
    /\ GoTo(l, "new")
    /\ conn' = [conn EXCEPT ![l] = "open"]
    /\ keep' = [keep EXCEPT ![l] = "run"]
    /\ \/ UNCHANGED owner
       \/ owner = Pool /\ owner' = l
    /\ UNCHANGED <<timer, ahead, handlerVars, pingIn, listenerVars, holds, faults>>

\* NOTIFY on the key's channel reaches every session that is listening now.
Notify(l) ==
    /\ caller[l] = "new" /\ l \notin Direct /\ conn[l] = "open"
    /\ GoTo(l, "notified")
    /\ inbox' = [m \in Lockers |->
                    IF listener[m] = "up" THEN Append(inbox[m], l) ELSE inbox[m]]
    /\ UNCHANGED <<timer, ahead, handlerVars, keepVars, conn, listener, lockVars, faults>>

\* LISTEN on the key's channel and start handleEvents.
Listen(l) ==
    /\ caller[l] = (IF l \in Direct THEN "new" ELSE "notified")
    /\ GoTo(l, "listening")
    /\ listener' = [listener EXCEPT ![l] = "up"]
    /\ HandlerTo(l, "select", MaxLockDuration)
    /\ UNCHANGED <<timer, ahead, keepVars, conn, inbox, lockVars, faults>>

\* Issue pg_advisory_lock under lockTimeout.
StartWait(l) ==
    /\ caller[l] = "listening"
    /\ GoTo(l, "waiting")
    /\ timer' = [timer EXCEPT ![l] = LockTimeout]
    /\ ahead' = [ahead EXCEPT ![l] = {m \in Lockers : Queued(m)}]
    /\ UNCHANGED <<handlerVars, keepVars, conn, listenerVars, lockVars, faults>>

\* NOTIFY fails on a session that is gone: Lock returns the error.
NotifyFails(l) ==
    /\ caller[l] = "new" /\ l \notin Direct /\ conn[l] = "lost"
    /\ GoTo(l, "failed")
    /\ UNCHANGED <<timer, handlerVars, keepVars, conn, listenerVars, lockVars,
                   ahead, faults>>

\* The context was cancelled before the call, or LockKey, New, NOTIFY or
\* LISTEN failed: Lock returns the error, and nothing is unlocked.
CallFails(l) ==
    /\ caller[l] \in {"idle", "new", "notified"}
    /\ Fault("db")
    /\ GoTo(l, "failed")
    /\ UNCHANGED <<timer, ahead, handlerVars, keepVars, conn, listenerVars, lockVars>>

\* Broken variant: Lock returns as soon as the advisory lock is granted.
GrantWithoutDelay(l) ==
    /\ Grantable(l)
    /\ owner' = l
    /\ holds' = holds + 1
    /\ ahead' = [ahead EXCEPT ![l] = {}]
    /\ GoTo(l, IF l \in Direct THEN "held" ELSE "delay")
    /\ timer' = [timer EXCEPT ![l] = 0]
    /\ UNCHANGED <<handlerVars, keepVars, conn, listenerVars, faults>>

\* pg_advisory_lock returns.  A PreemptiveLocker then waits for lockDelay; the
\* reaper goes straight to work.
Grant(l) ==
    /\ Grantable(l)
    /\ owner' = l
    /\ holds' = holds + 1
    /\ ahead' = [ahead EXCEPT ![l] = {}]
    /\ GoTo(l, IF l \in Direct THEN "held" ELSE "delay")
    /\ timer' = [timer EXCEPT ![l] = IF l \in Direct THEN 0 ELSE LockDelay]
    /\ UNCHANGED <<handlerVars, keepVars, conn, listenerVars, faults>>

\* Broken variant: the error of a dead session is swallowed.
LockIgnoresError(l) ==
    /\ caller[l] = "waiting" /\ conn[l] = "open"
    /\ timer[l] = 0
    /\ StopWaiting(l, "failed")
    /\ UNCHANGED <<handlerVars, keepVars, conn, listenerVars, lockVars, faults>>

\* pg_advisory_lock fails: lockTimeout cancelled it, or the session is gone.
\* Lock returns the error and does not unlock.
LockFails(l) ==
    /\ caller[l] = "waiting"
    /\ timer[l] = 0 \/ conn[l] # "open"
    /\ StopWaiting(l, "failed")
    /\ UNCHANGED <<handlerVars, keepVars, conn, listenerVars, lockVars, faults>>

\* The select of PreemptiveLocker.Lock takes the notification.
PreemptedInDelay(l) ==
    /\ caller[l] = "delay" /\ handler[l] = "sending"
    /\ StopWaiting(l, "yield")
    /\ HandlerTo(l, "done", 0)
    /\ UNCHANGED <<keepVars, conn, listenerVars, lockVars, faults>>

\* The select of PreemptiveLocker.Lock takes the end of lockDelay.
DelayElapsed(l) ==
    /\ caller[l] = "delay" /\ timer[l] = 0
    /\ GoTo(l, "held")
    /\ UNCHANGED <<timer, ahead, handlerVars, keepVars, conn, listenerVars, lockVars, faults>>

\* The goroutine of lockingOperation reads the channel and cancels the context.
Receive(l) ==
    /\ caller[l] = "held" /\ l \notin Direct /\ handler[l] = "sending"
    /\ GoTo(l, "told")
    /\ HandlerTo(l, "done", 0)
    /\ UNCHANGED <<timer, ahead, keepVars, conn, listenerVars, lockVars, faults>>

\* Broken variant: a lock object preempted in the delay does not unlock.
ReleaseUnlessPreempted(l) ==
    /\ caller[l] \in {"yield", "told", "held"}
    /\ GoTo(l, IF caller[l] = "yield" THEN "preempted" ELSE "released")
    /\ IF caller[l] = "yield"
       THEN UNCHANGED <<conn, listenerVars, lockVars, faults>>
       ELSE Unlock(l, TRUE) /\ UNCHANGED faults
    /\ UNCHANGED <<timer, ahead, handlerVars, keepVars>>

\* The caller unlocks: it was preempted in the delay, it was told to yield,
\* or its operation is over.
Release(l) ==
    /\ caller[l] \in {"yield", "told", "held"}
    /\ GoTo(l, IF caller[l] = "yield" THEN "preempted" ELSE "released")
    /\ \/ Unlock(l, TRUE) /\ UNCHANGED faults
       \/ Unlock(l, FALSE) /\ Fault("unlock")
    /\ UNCHANGED <<timer, ahead, handlerVars, keepVars>>

----------------------------------------------------------------------------
(* The handleEvents goroutine and its handleNotification.                   *)

\* listener.Notify delivers.  nil ends the goroutine ("deaf"), its own identifier
\* is ignored, any other payload starts handleNotification.
HandleNotify(l) ==
    /\ handler[l] = "select" /\ inbox[l] # <<>>
    /\ inbox' = [inbox EXCEPT ![l] = Tail(@)]
    /\ CASE Head(inbox[l]) = Nil -> HandlerTo(l, "deaf", 0)
         [] Head(inbox[l]) = l   -> UNCHANGED handlerVars
         [] OTHER                -> HandlerTo(l, "sending", PreemptionTimeout)
    /\ UNCHANGED <<callerVars, keepVars, conn, listener, lockVars, faults>>

\* maxLockDuration is over, or the caller cancelled its context.
HandleCtxDone(l) ==
    /\ handler[l] = "select"
    /\ hTimer[l] = 0 \/ CtxCancelled(l)
    /\ HandlerTo(l, "sending", PreemptionTimeout)
    /\ UNCHANGED <<callerVars, keepVars, conn, listenerVars, lockVars, faults>>

\* The keepalive goroutine reported that the session is dead.
HandleSessionErr(l) ==
    /\ handler[l] = "select" /\ keep[l] = "reported"
    /\ keep' = [keep EXCEPT ![l] = "off"]
    /\ HandlerTo(l, "sending", PreemptionTimeout)
    /\ UNCHANGED <<callerVars, pingIn, conn, listenerVars, lockVars, faults>>

\* Broken variant: after preemptionTimeout the goroutine only logs.
SendGivesUp(l) ==
    /\ handler[l] = "sending" /\ hTimer[l] = 0
    /\ HandlerTo(l, "done", 0)
    /\ UNCHANGED <<callerVars, keepVars, conn, listenerVars, lockVars, faults>>

\* Nobody received for preemptionTimeout: handleNotification calls Unlock.
SendTimesOut(l) ==
    /\ handler[l] = "sending" /\ hTimer[l] = 0
    /\ HandlerTo(l, "unlocking", UnlockTimeout)
    /\ UNCHANGED <<callerVars, keepVars, conn, listenerVars, lockVars, faults>>

\* That Unlock runs once the sql.Conn is free; the 5 seconds of its context
\* count from the call, so a statement it had to wait for may use them up.
HandlerUnlock(l) ==
    /\ handler[l] = "unlocking" /\ ~ConnBusy(l)
    /\ HandlerTo(l, "done", 0)
    /\ \/ Unlock(l, TRUE) /\ UNCHANGED faults
       \/ Unlock(l, FALSE) /\ hTimer[l] = 0 /\ UNCHANGED faults
       \/ Unlock(l, FALSE) /\ Fault("unlock")
    /\ UNCHANGED <<callerVars, keepVars>>

----------------------------------------------------------------------------
(* The keepalive goroutine, postgresSessionController.run.                  *)

\* The ping of a dead or closed session fails.  The failure threshold is never
\* set, so the first failure is reported, and the goroutine returns.
KeepAliveFails(l) ==
    /\ keep[l] = "run" /\ conn[l] \in {"lost", "closed"} /\ ~ConnBusy(l)
    /\ keep' = [keep EXCEPT ![l] = "reported"]
    /\ pingIn' = [pingIn EXCEPT ![l] = 0]
    /\ UNCHANGED <<callerVars, handlerVars, conn, listenerVars, lockVars, faults>>

\* The context of the keepalive goroutine is cancelled.
KeepAliveStops(l) ==
    /\ keep[l] = "run" /\ CtxCancelled(l)
    /\ keep' = [keep EXCEPT ![l] = "off"]
    /\ pingIn' = [pingIn EXCEPT ![l] = 0]
    /\ UNCHANGED <<callerVars, handlerVars, conn, listenerVars, lockVars, faults>>

----------------------------------------------------------------------------
(* The environment: time and faults.                                        *)

\* Some step that takes no time is possible.  A caller that works ("held")
\* and an object not used yet ("idle") may take as long as they like.
Urgent ==
    \E l \in Lockers :
        \/ caller[l] \in {"new", "notified", "listening", "yield", "told"}
        \/ Grantable(l)
        \/ caller[l] = "waiting" /\ (timer[l] = 0 \/ conn[l] # "open")
        \/ caller[l] = "delay" /\ timer[l] = 0
        \/ /\ handler[l] = "select"
           /\ \/ inbox[l] # <<>>
              \/ hTimer[l] = 0
              \/ CtxCancelled(l)
              \/ keep[l] = "reported"
        \/ handler[l] = "sending" /\ (hTimer[l] = 0 \/ Receiving(l))
        \/ handler[l] = "unlocking" /\ ~ConnBusy(l)
        \/ /\ keep[l] = "run" /\ conn[l] \in {"lost", "closed"}
           /\ pingIn[l] = 0 /\ ~ConnBusy(l)
        \/ keep[l] = "run" /\ CtxCancelled(l)

Less(t) == IF t > 0 THEN t - 1 ELSE 0

Tick ==
    /\ ~Urgent
    /\ \E l \in Lockers : timer[l] > 0 \/ hTimer[l] > 0 \/ pingIn[l] > 0
    /\ timer' = [l \in Lockers |-> Less(timer[l])]
    /\ hTimer' = [l \in Lockers |-> Less(hTimer[l])]
    /\ pingIn' = [l \in Lockers |-> Less(pingIn[l])]
    /\ UNCHANGED <<caller, ahead, handler, keep, conn, listenerVars, lockVars, faults>>

\* Postgres ends l's session (a failover, a broken connection).
LoseSession(l) ==
    /\ conn[l] = "open"
    /\ Fault("session")
    /\ conn' = [conn EXCEPT ![l] = "lost"]
    /\ pingIn' = [pingIn EXCEPT ![l] = IF keep[l] = "run" THEN KeepAlivePeriod ELSE 0]
    /\ SessionEnds(l)
    /\ UNCHANGED <<callerVars, handlerVars, keep, listenerVars>>

\* The listener's connection breaks: notifications sent meanwhile are lost.
LoseListener(l) ==
    /\ listener[l] = "up"
    /\ Fault("listener")
    /\ listener' = [listener EXCEPT ![l] = "down"]
    /\ UNCHANGED <<callerVars, handlerVars, keepVars, conn, inbox, lockVars>>

\* pq re-establishes it and says so with a nil notification.
ReconnectListener(l) ==
    /\ listener[l] = "down"
    /\ listener' = [listener EXCEPT ![l] = "up"]
    /\ inbox' = [inbox EXCEPT ![l] = Append(@, Nil)]
    /\ UNCHANGED <<callerVars, handlerVars, keepVars, conn, lockVars, faults>>

\* An operator runs NOTIFY by hand with a payload no lock object sends.
ForeignNotify ==
    /\ Fault("junk")
    /\ inbox' = [m \in Lockers |->
                    IF listener[m] = "up" THEN Append(inbox[m], Junk) ELSE inbox[m]]
    /\ UNCHANGED <<callerVars, handlerVars, keepVars, conn, listener, lockVars>>

\* The process that l's caller runs in dies, and its connections with it.
Crash(l) ==
    /\ caller[l] \notin {"idle", "crashed"}
    /\ Fault("crash")
    /\ StopWaiting(l, "crashed")
    /\ HandlerTo(l, IF handler[l] = "off" THEN "off" ELSE "done", 0)
    /\ keep' = [keep EXCEPT ![l] = "off"]
    /\ pingIn' = [pingIn EXCEPT ![l] = 0]
    /\ conn' = [conn EXCEPT ![l] = "closed"]
    /\ listener' = [listener EXCEPT ![l] = IF @ = "off" THEN @ ELSE "closed"]
    /\ SessionEnds(l)
    /\ UNCHANGED inbox

----------------------------------------------------------------------------

CallerStep(l) ==
    \/ Notify(l) \/ NotifyFails(l) \/ Listen(l) \/ StartWait(l) \/ Grant(l)
    \/ LockFails(l)
    \/ PreemptedInDelay(l) \/ DelayElapsed(l) \/ Receive(l)

HandlerStep(l) ==
    \/ HandleNotify(l) \/ HandleCtxDone(l) \/ HandleSessionErr(l)
    \/ SendTimesOut(l) \/ HandlerUnlock(l)

KeepAliveStep(l) == KeepAliveFails(l) \/ KeepAliveStops(l)

FaultStep(l) == LoseSession(l) \/ LoseListener(l) \/ Crash(l)

Next ==
    \/ Tick \/ ForeignNotify
    \/ \E l \in Lockers :
        \/ NewLock(l) \/ CallFails(l) \/ CallerStep(l) \/ Release(l)
        \/ HandlerStep(l) \/ KeepAliveStep(l)
        \/ FaultStep(l) \/ ReconnectListener(l)

Spec == Init /\ [][Next]_vars

\* Goroutines that can run do run, statements that can complete do complete,
\* and time passes.  Nothing obliges a caller to start, an operation to end or
\* a fault to happen; a caller that is to yield does release.
Fairness ==
    /\ WF_vars(Tick)
    /\ \A l \in Lockers :
        /\ WF_vars(CallerStep(l)) /\ WF_vars(HandlerStep(l))
        /\ WF_vars(KeepAliveStep(l)) /\ WF_vars(ReconnectListener(l))
        /\ WF_vars(caller[l] \in {"yield", "told"} /\ Release(l))

FairSpec == Spec /\ Fairness

----------------------------------------------------------------------------
(* Properties.                                                              *)

\* The lock objects whose callers watch the channel, as lockingOperation does.
Clients == Lockers \ Direct

\* handleEvents of l can still tell l's caller to yield.  It cannot once it has
\* given up on a caller that did not listen for preemptionTimeout, which happens
\* to a caller that still waits for the advisory lock, or has become deaf.
Reachable(l) == handler[l] \in {"select", "sending"}

\* handleEvents has ended at the nil notification of a listener that had lost its
\* connection and reconnected.
Deaf(l) == handler[l] = "deaf"

\* Of the callers that can still be told to yield, at most one works under the
\* lock: Lock has returned to it and it has been neither told to yield nor
\* released.  This is what lockDelay, the keepalive and preemption together are
\* for: a dead session frees the advisory lock before its holder knows.
MutualExclusion ==
    \A l, m \in Clients :
        /\ caller[l] = "held" /\ Reachable(l)
        /\ caller[m] = "held" /\ Reachable(m)
        => l = m

\* What the comment of PreemptiveLocker.Lock promises: a caller that is preempted
\* while it waits gets an error, so that whoever Lock lets in can still be told
\* to yield, unless its listener's connection broke.
Preemptible ==
    \A l \in Clients : caller[l] = "held" => Reachable(l) \/ Deaf(l)

\* Whoever holds the advisory lock is still going to give it up: its Lock call
\* is in progress, its caller is about to release, or handleEvents is there to
\* unlock for it.  Only a listener that reconnected prevents it.
LockIsAttended ==
    \A l \in Lockers :
        owner = l => \/ caller[l] \in {"new", "notified", "listening", "waiting",
                                        "yield", "told"}
                     \/ handler[l] \in {"select", "sending", "unlocking"}
                     \/ Deaf(l)

\* Lock returns: whatever the other lock objects do, the calls below it are
\* bounded by lockTimeout and lockDelay.
LockReturns ==
    \A l \in Lockers :
        caller[l] \in {"new", "notified", "listening", "waiting", "delay", "yield"}
            ~> caller[l] \in {"held", "failed", "preempted", "crashed"}

\* The session of a lock object that started to listen goes back to the pool
\* when its caller is done, also when Lock failed and nobody calls Unlock.
\* Only a listener that reconnected prevents it.
SessionReturned ==
    \A l \in Lockers :
        caller[l] \in {"failed", "preempted", "released"} /\ handler[l] # "off"
            ~> conn[l] \in {"lost", "closed"} \/ Deaf(l)

\* maxLockDuration and preemptionTimeout take the advisory lock away from a
\* caller that is blocked for ever and never looks at its channel.  Only a
\* listener that reconnected prevents it.
BlockedHolderLosesLock ==
    \A l \in Lockers : owner = l ~> owner # l \/ Deaf(l)

----------------------------------------------------------------------------
(* The service that a PreemptiveLocker is for (see LockService).            *)

\* A caller that works under the lock although nobody can tell it to yield is
\* "gone" for the service: its lock object has given the advisory lock up, or
\* no longer hears of anybody else.
Phase(l) ==
    CASE caller[l] = "idle" -> "out"
      [] caller[l] \in {"new", "notified", "listening", "waiting", "delay", "yield"}
            -> "trying"
      [] caller[l] = "held" /\ Reachable(l) -> "in"
      [] caller[l] = "told" -> "leaving"
      [] OTHER -> "gone"

servicePhase == [l \in Clients |-> Phase(l)]

Service == INSTANCE LockService WITH Clients <- Clients, phase <- servicePhase

\* Seen by its callers, the locker is a preemptible single-use mutex: Lock
\* lets one caller in at a time, always answers, and a caller that was told to
\* leave does leave.  It accounts for a caller as long as it can reach it.
ImplementsLockService == Service!Spec

=============================================================================
