---------------------- MODULE PreemptiveLocker_proofs ----------------------
(***************************************************************************)
(* Proofs about PreemptiveLocker for any number of lock objects and of      *)
(* faults; each theorem says which durations and faults it assumes.         *)
(***************************************************************************)
EXTENDS PreemptiveLocker, TLAPS

\* The keepalive finds a dead session before the lock delay of the next holder
\* is over: 3 seconds between pings against 10.  Nothing is asked of lockTimeout
\* and preemptionTimeout, nor of the faults.
SafeDurations == KeepAlivePeriod < LockDelay

\* The states in which l's Lock call has a session and a listener, or has
\* returned them to a caller that still works under the lock.
Engaged(l) == caller[l] \in {"listening", "waiting", "delay", "held"}

\* The states in which l was granted the advisory lock and not told otherwise.
Granted(l) == caller[l] \in {"delay", "held"}

\* A session that holds the advisory lock is open, and counts it.
OwnerInv ==
    /\ owner \in Lockers => conn[owner] = "open"
    /\ owner # NoOne => holds > 0

\* Before LISTEN there is no handler and no listener.
EarlyInv ==
    \A l \in Lockers :
        /\ caller[l] = "idle" => conn[l] = "none" /\ keep[l] = "off"
        /\ caller[l] \in {"new", "notified"} => /\ conn[l] \in {"open", "lost"}
                                                /\ keep[l] # "off"
        /\ caller[l] \in {"idle", "new", "notified"} =>
              handler[l] = "off" /\ listener[l] = "off"

\* A client that is engaged and can be told to yield has a session, and if the
\* keepalive has ended, it is being told.
Watched(l) ==
    /\ conn[l] \in {"open", "lost"}
    /\ keep[l] = "off" => handler[l] = "sending"

HandlerInv == \A l \in Clients : Engaged(l) /\ Reachable(l) => Watched(l)

\* A client that was granted the lock has it, or its session is dead.
GrantedInv ==
    /\ \A l \in Clients : Granted(l) /\ conn[l] = "open" => owner = l
    /\ \A l \in Lockers : pingIn[l] <= KeepAlivePeriod

\* l was granted the lock before m: l's session is dead, and m is still in its
\* lock delay, with more of it left than l's keepalive needs.
Older(l, m) ==
    /\ conn[l] = "lost"
    /\ caller[m] = "delay"
    /\ timer[m] > 0
    /\ keep[l] = "run" => timer[m] + KeepAlivePeriod >= LockDelay + pingIn[l]

\* The states in which l was granted the advisory lock and can be told to yield.
Alert(l) == Granted(l) /\ Reachable(l)

\* Of two clients that were granted the lock, one is the older.
PairInv ==
    \A l, m \in Clients :
        l # m /\ Alert(l) /\ Alert(m) => Older(l, m) \/ Older(m, l)

\* l has a session from New on; it is closed by whoever closes the listener,
\* lost if Lock failed before handleEvents started, and closed when handleEvents
\* ended unless that told the caller to release.
Attended(l) ==
    /\ caller[l] = "idle" <=> conn[l] = "none"
    /\ listener[l] = "closed" => conn[l] = "closed"
    /\ handler[l] = "off" =>
          caller[l] \in {"idle", "new", "notified"} \/ conn[l] # "open"
    /\ handler[l] = "done" =>
          conn[l] = "closed" \/ caller[l] \in {"yield", "told"}

\* What AlwaysAttended rests on.
AttendedInv ==
    /\ TypeOK
    /\ OwnerInv
    /\ EarlyInv
    /\ \A l \in Lockers : Attended(l)

\* What Exclusion and ImplementsSafely rest on.
LockerInv ==
    /\ TypeOK
    /\ OwnerInv
    /\ EarlyInv
    /\ HandlerInv
    /\ GrantedInv
    /\ PairInv

----------------------------------------------------------------------------
(* Types, and the advisory lock's counter.                                  *)

\* The strengthened invariant holds initially.
LEMMA InitLockerInv == Init => LockerInv
BY LockerAssumption DEF Init, LockerInv, TypeOK, OwnerInv, EarlyInv, HandlerInv,
  GrantedInv, PairInv, Alert, Granted, Engaged, Clients, CallerState, HandlerState, Payload

\* What Unlock leaves behind is well typed: the counter is not decremented
\* below zero, because it only counts down for a session that has the lock.
LEMMA UnlockTypes ==
  ASSUME TypeOK, OwnerInv, NEW l \in Lockers, NEW ok \in BOOLEAN, Unlock(l, ok)
  PROVE  /\ conn' \in [Lockers -> {"none", "open", "lost", "closed"}]
         /\ listener' \in [Lockers -> {"off", "up", "down", "closed"}]
         /\ inbox' \in [Lockers -> Seq(Payload)]
         /\ owner' \in Lockers \cup {NoOne, Pool}
         /\ holds' \in Nat
         /\ OwnerInv'
<1>1. inbox' \in [Lockers -> Seq(Payload)]
  <2>1. Nil \in Payload
    BY DEF Payload
  <2> QED
    BY <2>1 DEF TypeOK, Unlock
<1>2. /\ conn' \in [Lockers -> {"none", "open", "lost", "closed"}]
      /\ listener' \in [Lockers -> {"off", "up", "down", "closed"}]
  BY DEF TypeOK, Unlock
<1>3. CASE owner = l
  <2>1. holds' \in Nat /\ owner' \in {NoOne, Pool} /\ (owner' # NoOne => holds' > 0)
    BY <1>3, LockerAssumption DEF TypeOK, OwnerInv, Unlock, BackToPool
  <2> QED
    BY <1>1, <1>2, <2>1, LockerAssumption DEF OwnerInv
<1>4. CASE owner # l
  BY <1>1, <1>2, <1>4 DEF TypeOK, OwnerInv, Unlock, lockVars
<1> QED
  BY <1>3, <1>4

\* What Unlock does to the connections, l's own and the others'.
LEMMA UnlockFrame ==
  ASSUME TypeOK, NEW l \in Lockers, NEW ok \in BOOLEAN, Unlock(l, ok)
  PROVE  /\ \A m \in Lockers \ {l} : /\ conn'[m] = conn[m] /\ listener'[m] = listener[m]
                                     /\ inbox'[m] = inbox[m]
         /\ conn'[l] = IF conn[l] = "none" THEN "none" ELSE "closed"
         /\ listener'[l] = IF listener[l] = "off" THEN "off" ELSE "closed"
         /\ listener[l] = "off" => inbox'[l] = inbox[l]
BY DEF Unlock, TypeOK

\* The three outcomes of a delivery.
LEMMA HandleNotifyCases ==
  ASSUME NEW l, HandleNotify(l)
  PROVE  \/ HandlerTo(l, "deaf", 0) /\ Head(inbox[l]) = Nil
         \/ UNCHANGED handlerVars
         \/ HandlerTo(l, "sending", PreemptionTimeout)
<1> DEFINE h == Head(inbox[l])
<1>1. CASE h = Nil
  BY <1>1 DEF HandleNotify
<1>2. CASE h # Nil /\ h = l
  BY <1>2 DEF HandleNotify
<1>3. CASE h # Nil /\ h # l
  BY <1>3 DEF HandleNotify
<1> QED
  BY <1>1, <1>2, <1>3

\* A delivery changes nothing but its own handler's state.
LEMMA HandleNotifyFrame ==
  ASSUME TypeOK, NEW l \in Lockers, HandleNotify(l)
  PROVE  /\ handler[l] = "select"
         /\ \A m \in Lockers \ {l} : handler'[m] = handler[m] /\ hTimer'[m] = hTimer[m]
<1>1. ASSUME NEW state, NEW timeout, HandlerTo(l, state, timeout)
      PROVE  \A m \in Lockers \ {l} : handler'[m] = handler[m] /\ hTimer'[m] = hTimer[m]
  BY <1>1 DEF HandlerTo, TypeOK
<1>2. handler[l] = "select"
  BY DEF HandleNotify
<1> QED
  BY <1>1, <1>2, HandleNotifyCases DEF handlerVars

\* Faults are counted in Nat.
LEMMA FaultType == ASSUME faults \in Nat, NEW k, Fault(k) PROVE faults' \in Nat
BY DEF Fault

\* Every step keeps the types and the relation between the owner and the count of
\* the reentrant advisory lock.
LEMMA TypeStep == TypeOK /\ OwnerInv /\ [Next]_vars => TypeOK' /\ OwnerInv'
<1> SUFFICES ASSUME TypeOK, OwnerInv, [Next]_vars PROVE TypeOK' /\ OwnerInv'
  OBVIOUS
<1> USE LockerAssumption DEF TypeOK, OwnerInv, CallerState, HandlerState,
  callerVars, handlerVars, keepVars, listenerVars, lockVars
<1>1. CASE Tick
  BY <1>1 DEF Tick, Less
<1>2. CASE ForeignNotify
  BY <1>2 DEF ForeignNotify, Fault, Payload
<1>3. ASSUME NEW l \in Lockers, NewLock(l) PROVE TypeOK' /\ OwnerInv'
  BY <1>3 DEF NewLock, GoTo
<1>4. ASSUME NEW l \in Lockers, CallFails(l) PROVE TypeOK' /\ OwnerInv'
  BY <1>4 DEF CallFails, GoTo, Fault
<1>5. ASSUME NEW l \in Lockers, Notify(l) PROVE TypeOK' /\ OwnerInv'
  BY <1>5 DEF Notify, GoTo, Payload
<1>6. ASSUME NEW l \in Lockers, NotifyFails(l) PROVE TypeOK' /\ OwnerInv'
  BY <1>6 DEF NotifyFails, GoTo
<1>7. ASSUME NEW l \in Lockers, Listen(l) PROVE TypeOK' /\ OwnerInv'
  BY <1>7 DEF Listen, GoTo, HandlerTo
<1>8. ASSUME NEW l \in Lockers, StartWait(l) PROVE TypeOK' /\ OwnerInv'
  BY <1>8 DEF StartWait, GoTo, Queued
<1>9. ASSUME NEW l \in Lockers, Grant(l) PROVE TypeOK' /\ OwnerInv'
  BY <1>9 DEF Grant, GoTo, Grantable, Queued
<1>10. ASSUME NEW l \in Lockers, LockFails(l) PROVE TypeOK' /\ OwnerInv'
  BY <1>10 DEF LockFails, StopWaiting, GoTo
<1>11. ASSUME NEW l \in Lockers, PreemptedInDelay(l) PROVE TypeOK' /\ OwnerInv'
  BY <1>11 DEF PreemptedInDelay, StopWaiting, GoTo, HandlerTo
<1>12. ASSUME NEW l \in Lockers, DelayElapsed(l) PROVE TypeOK' /\ OwnerInv'
  BY <1>12 DEF DelayElapsed, GoTo
<1>13. ASSUME NEW l \in Lockers, Receive(l) PROVE TypeOK' /\ OwnerInv'
  BY <1>13 DEF Receive, GoTo, HandlerTo
<1>14. ASSUME NEW l \in Lockers, Release(l) PROVE TypeOK' /\ OwnerInv'
  <2>1. PICK ok \in BOOLEAN : Unlock(l, ok)
    BY <1>14 DEF Release
  <2>2. faults' \in Nat
    BY <1>14, FaultType DEF Release
  <2>3. caller' \in [Lockers -> CallerState]
    BY <1>14 DEF Release, GoTo
  <2>4. UNCHANGED <<timer, ahead, handler, hTimer, keep, pingIn>>
    BY <1>14 DEF Release
  <2>5. /\ conn' \in [Lockers -> {"none", "open", "lost", "closed"}]
        /\ listener' \in [Lockers -> {"off", "up", "down", "closed"}]
        /\ inbox' \in [Lockers -> Seq(Payload)]
        /\ owner' \in Lockers \cup {NoOne, Pool} /\ holds' \in Nat /\ OwnerInv'
    BY <2>1, UnlockTypes
  <2> QED
    BY <2>2, <2>3, <2>4, <2>5
<1>15. ASSUME NEW l \in Lockers, HandleNotify(l) PROVE TypeOK' /\ OwnerInv'
  <2>1. inbox' \in [Lockers -> Seq(Payload)]
    BY <1>15 DEF HandleNotify
  <2>2. handler' \in [Lockers -> HandlerState] /\ hTimer' \in [Lockers -> Nat]
    <3>1. CASE UNCHANGED handlerVars
      BY <3>1
    <3>2. ASSUME NEW state \in HandlerState, NEW timeout \in Nat, HandlerTo(l, state, timeout)
          PROVE  handler' \in [Lockers -> HandlerState] /\ hTimer' \in [Lockers -> Nat]
      BY <3>2 DEF HandlerTo
    <3> QED
      BY <1>15, <3>1, <3>2, HandleNotifyCases
  <2>3. UNCHANGED <<caller, timer, ahead, keep, pingIn, conn, listener, owner, holds, faults>>
    BY <1>15 DEF HandleNotify
  <2> QED
    BY <2>1, <2>2, <2>3
<1>16. ASSUME NEW l \in Lockers, HandleCtxDone(l) PROVE TypeOK' /\ OwnerInv'
  BY <1>16 DEF HandleCtxDone, HandlerTo
<1>17. ASSUME NEW l \in Lockers, HandleSessionErr(l) PROVE TypeOK' /\ OwnerInv'
  BY <1>17 DEF HandleSessionErr, HandlerTo
<1>18. ASSUME NEW l \in Lockers, SendTimesOut(l) PROVE TypeOK' /\ OwnerInv'
  BY <1>18 DEF SendTimesOut, HandlerTo
<1>19. ASSUME NEW l \in Lockers, HandlerUnlock(l) PROVE TypeOK' /\ OwnerInv'
  <2>1. PICK ok \in BOOLEAN : Unlock(l, ok)
    BY <1>19 DEF HandlerUnlock
  <2>2. faults' \in Nat
    BY <1>19, FaultType DEF HandlerUnlock
  <2>3. handler' \in [Lockers -> HandlerState] /\ hTimer' \in [Lockers -> Nat]
    BY <1>19 DEF HandlerUnlock, HandlerTo
  <2>4. UNCHANGED <<caller, timer, ahead, keep, pingIn>>
    BY <1>19 DEF HandlerUnlock
  <2>5. /\ conn' \in [Lockers -> {"none", "open", "lost", "closed"}]
        /\ listener' \in [Lockers -> {"off", "up", "down", "closed"}]
        /\ inbox' \in [Lockers -> Seq(Payload)]
        /\ owner' \in Lockers \cup {NoOne, Pool} /\ holds' \in Nat /\ OwnerInv'
    BY <2>1, UnlockTypes
  <2> QED
    BY <2>2, <2>3, <2>4, <2>5
<1>20. ASSUME NEW l \in Lockers, KeepAliveFails(l) PROVE TypeOK' /\ OwnerInv'
  BY <1>20 DEF KeepAliveFails
<1>21. ASSUME NEW l \in Lockers, KeepAliveStops(l) PROVE TypeOK' /\ OwnerInv'
  BY <1>21 DEF KeepAliveStops
<1>22. ASSUME NEW l \in Lockers, LoseSession(l) PROVE TypeOK' /\ OwnerInv'
  BY <1>22 DEF LoseSession, Fault, SessionEnds
<1>23. ASSUME NEW l \in Lockers, LoseListener(l) PROVE TypeOK' /\ OwnerInv'
  BY <1>23 DEF LoseListener, Fault
<1>24. ASSUME NEW l \in Lockers, ReconnectListener(l) PROVE TypeOK' /\ OwnerInv'
  BY <1>24 DEF ReconnectListener, Payload
<1>25. ASSUME NEW l \in Lockers, Crash(l) PROVE TypeOK' /\ OwnerInv'
  BY <1>25 DEF Crash, StopWaiting, GoTo, HandlerTo, Fault, SessionEnds
<1>26. CASE UNCHANGED vars
  BY <1>26 DEF vars
<1> QED
  BY <1>1, <1>2, <1>3, <1>4, <1>5, <1>6, <1>7, <1>8, <1>9, <1>10, <1>11, <1>12, <1>13,
     <1>14, <1>15, <1>16, <1>17, <1>18, <1>19, <1>20, <1>21, <1>22, <1>23, <1>24, <1>25,
     <1>26
  DEF Next, CallerStep, HandlerStep, KeepAliveStep, FaultStep

\* Every step keeps EarlyInv: no handler and no listener before LISTEN.
LEMMA EarlyInvStep ==
  ASSUME TypeOK, EarlyInv, TypeOK', [Next]_vars
  PROVE  EarlyInv'
<1> USE LockerAssumption DEF TypeOK, EarlyInv, callerVars, handlerVars, keepVars,
  listenerVars, lockVars
<1>1. CASE Tick
  BY <1>1 DEF Tick, Less
<1>2. CASE ForeignNotify
  BY <1>2 DEF ForeignNotify, Fault
<1>3. ASSUME NEW l \in Lockers, NewLock(l) PROVE EarlyInv'
  BY <1>3 DEF NewLock, GoTo
<1>4. ASSUME NEW l \in Lockers, CallFails(l) PROVE EarlyInv'
  BY <1>4 DEF CallFails, GoTo
<1>5. ASSUME NEW l \in Lockers, Notify(l) PROVE EarlyInv'
  BY <1>5 DEF Notify, GoTo
<1>6. ASSUME NEW l \in Lockers, NotifyFails(l) PROVE EarlyInv'
  BY <1>6 DEF NotifyFails, GoTo
<1>7. ASSUME NEW l \in Lockers, Listen(l) PROVE EarlyInv'
  BY <1>7 DEF Listen, GoTo, HandlerTo
<1>8. ASSUME NEW l \in Lockers, StartWait(l) PROVE EarlyInv'
  BY <1>8 DEF StartWait, GoTo
<1>9. ASSUME NEW l \in Lockers, Grant(l) PROVE EarlyInv'
  BY <1>9 DEF Grant, GoTo
<1>10. ASSUME NEW l \in Lockers, LockFails(l) PROVE EarlyInv'
  BY <1>10 DEF LockFails, StopWaiting, GoTo
<1>11. ASSUME NEW l \in Lockers, PreemptedInDelay(l) PROVE EarlyInv'
  BY <1>11 DEF PreemptedInDelay, StopWaiting, GoTo, HandlerTo
<1>12. ASSUME NEW l \in Lockers, DelayElapsed(l) PROVE EarlyInv'
  BY <1>12 DEF DelayElapsed, GoTo
<1>13. ASSUME NEW l \in Lockers, Receive(l) PROVE EarlyInv'
  BY <1>13 DEF Receive, GoTo, HandlerTo
<1>14. ASSUME NEW l \in Lockers, Release(l) PROVE EarlyInv'
  <2>1. PICK ok \in BOOLEAN : Unlock(l, ok)
    BY <1>14 DEF Release
  <2>2. /\ caller[l] \in {"yield", "told", "held"} /\ UNCHANGED <<handler, keep>>
        /\ caller' = [caller EXCEPT ![l] = IF @ = "yield" THEN "preempted" ELSE "released"]
    BY <1>14 DEF Release, GoTo
  <2>3. /\ \A m \in Lockers \ {l} : /\ conn'[m] = conn[m] /\ listener'[m] = listener[m]
                                     /\ inbox'[m] = inbox[m]
        /\ conn'[l] = (IF conn[l] = "none" THEN "none" ELSE "closed")
        /\ listener'[l] = (IF listener[l] = "off" THEN "off" ELSE "closed")
        /\ listener[l] = "off" => inbox'[l] = inbox[l]
    BY <2>1, UnlockFrame
  <2> QED
    BY <2>2, <2>3
<1>15. ASSUME NEW l \in Lockers, HandleNotify(l) PROVE EarlyInv'
  <2>1. UNCHANGED <<caller, conn, keep, listener>>
    BY <1>15 DEF HandleNotify
  <2> QED
    BY <1>15, <2>1, HandleNotifyFrame
<1>16. ASSUME NEW l \in Lockers, HandleCtxDone(l) PROVE EarlyInv'
  BY <1>16 DEF HandleCtxDone, HandlerTo
<1>17. ASSUME NEW l \in Lockers, HandleSessionErr(l) PROVE EarlyInv'
  BY <1>17 DEF HandleSessionErr, HandlerTo
<1>18. ASSUME NEW l \in Lockers, SendTimesOut(l) PROVE EarlyInv'
  BY <1>18 DEF SendTimesOut, HandlerTo
<1>19. ASSUME NEW l \in Lockers, HandlerUnlock(l) PROVE EarlyInv'
  <2>1. PICK ok \in BOOLEAN : Unlock(l, ok)
    BY <1>19 DEF HandlerUnlock
  <2>2. /\ UNCHANGED <<caller, keep>> /\ handler[l] = "unlocking"
        /\ handler' = [handler EXCEPT ![l] = "done"]
    BY <1>19 DEF HandlerUnlock, HandlerTo
  <2>3. /\ \A m \in Lockers \ {l} : /\ conn'[m] = conn[m] /\ listener'[m] = listener[m]
                                     /\ inbox'[m] = inbox[m]
        /\ conn'[l] = (IF conn[l] = "none" THEN "none" ELSE "closed")
        /\ listener'[l] = (IF listener[l] = "off" THEN "off" ELSE "closed")
        /\ listener[l] = "off" => inbox'[l] = inbox[l]
    BY <2>1, UnlockFrame
  <2> QED
    BY <2>2, <2>3
<1>20. ASSUME NEW l \in Lockers, KeepAliveFails(l) PROVE EarlyInv'
  BY <1>20 DEF KeepAliveFails
<1>21. ASSUME NEW l \in Lockers, KeepAliveStops(l) PROVE EarlyInv'
  BY <1>21 DEF KeepAliveStops, CtxCancelled
<1>22. ASSUME NEW l \in Lockers, LoseSession(l) PROVE EarlyInv'
  BY <1>22 DEF LoseSession
<1>23. ASSUME NEW l \in Lockers, LoseListener(l) PROVE EarlyInv'
  BY <1>23 DEF LoseListener
<1>24. ASSUME NEW l \in Lockers, ReconnectListener(l) PROVE EarlyInv'
  BY <1>24 DEF ReconnectListener
<1>25. ASSUME NEW l \in Lockers, Crash(l) PROVE EarlyInv'
  BY <1>25 DEF Crash, StopWaiting, GoTo, HandlerTo
<1>26. CASE UNCHANGED vars
  BY <1>26 DEF vars
<1> QED
  BY <1>1, <1>2, <1>3, <1>4, <1>5, <1>6, <1>7, <1>8, <1>9, <1>10, <1>11, <1>12, <1>13,
     <1>14, <1>15, <1>16, <1>17, <1>18, <1>19, <1>20, <1>21, <1>22, <1>23, <1>24, <1>25,
     <1>26
  DEF Next, CallerStep, HandlerStep, KeepAliveStep, FaultStep

\* Every step keeps HandlerInv: what is left of the session of a client that
\* handleEvents watches.
LEMMA HandlerInvStep ==
  ASSUME SafeDurations, LockerInv, TypeOK', [Next]_vars
  PROVE  HandlerInv'
<1> SUFFICES ASSUME NEW x \in Clients, Engaged(x)', Reachable(x)' PROVE Watched(x)'
  BY DEF HandlerInv
<1>a. Engaged(x) /\ Reachable(x) => Watched(x)
  BY DEF LockerInv, HandlerInv
<1> USE LockerAssumption DEF LockerInv, TypeOK, Reachable, Watched, Clients, Engaged, Granted,
  SafeDurations, callerVars, handlerVars, keepVars, listenerVars, lockVars
<1>1. CASE Tick
  BY <1>a, <1>1 DEF Tick, Less, Urgent, Receiving
<1>2. CASE ForeignNotify
  BY <1>a, <1>2 DEF ForeignNotify, Fault
<1>3. ASSUME NEW l \in Lockers, NewLock(l) PROVE Watched(x)'
  BY <1>a, <1>3 DEF NewLock, GoTo
<1>4. ASSUME NEW l \in Lockers, CallFails(l) PROVE Watched(x)'
  BY <1>a, <1>4 DEF CallFails, GoTo
<1>5. ASSUME NEW l \in Lockers, Notify(l) PROVE Watched(x)'
  BY <1>a, <1>5 DEF Notify, GoTo
<1>6. ASSUME NEW l \in Lockers, NotifyFails(l) PROVE Watched(x)'
  BY <1>a, <1>6 DEF NotifyFails, GoTo
<1>7. ASSUME NEW l \in Lockers, Listen(l) PROVE Watched(x)'
  BY <1>a, <1>7 DEF Listen, GoTo, HandlerTo, EarlyInv
<1>8. ASSUME NEW l \in Lockers, StartWait(l) PROVE Watched(x)'
  BY <1>a, <1>8 DEF StartWait, GoTo
<1>9. ASSUME NEW l \in Lockers, Grant(l) PROVE Watched(x)'
  BY <1>a, <1>9 DEF Grant, Grantable, Queued, GoTo
<1>10. ASSUME NEW l \in Lockers, LockFails(l) PROVE Watched(x)'
  BY <1>a, <1>10 DEF LockFails, StopWaiting, GoTo
<1>11. ASSUME NEW l \in Lockers, PreemptedInDelay(l) PROVE Watched(x)'
  BY <1>a, <1>11 DEF PreemptedInDelay, StopWaiting, GoTo, HandlerTo
<1>12. ASSUME NEW l \in Lockers, DelayElapsed(l) PROVE Watched(x)'
  BY <1>a, <1>12 DEF DelayElapsed, GoTo
<1>13. ASSUME NEW l \in Lockers, Receive(l) PROVE Watched(x)'
  BY <1>a, <1>13 DEF Receive, GoTo, HandlerTo
<1>14. ASSUME NEW l \in Lockers, Release(l) PROVE Watched(x)'
  BY <1>a, <1>14 DEF Release, GoTo, Unlock
<1>15. ASSUME NEW l \in Lockers, HandleNotify(l) PROVE Watched(x)'
  <2>1. UNCHANGED <<caller, conn, keep>>
    BY <1>15 DEF HandleNotify
  <2>2. CASE HandlerTo(l, "deaf", 0) /\ Head(inbox[l]) = Nil
    BY <1>a, <2>1, <2>2 DEF HandlerTo
  <2>3. CASE UNCHANGED handlerVars
    BY <1>a, <2>1, <2>3
  <2>4. CASE HandlerTo(l, "sending", PreemptionTimeout)
    BY <1>a, <1>15, <2>1, <2>4, HandleNotifyFrame DEF HandlerTo
  <2> QED
    BY <1>15, <2>2, <2>3, <2>4, HandleNotifyCases
<1>16. ASSUME NEW l \in Lockers, HandleCtxDone(l) PROVE Watched(x)'
  BY <1>a, <1>16 DEF HandleCtxDone, HandlerTo
<1>17. ASSUME NEW l \in Lockers, HandleSessionErr(l) PROVE Watched(x)'
  BY <1>a, <1>17 DEF HandleSessionErr, HandlerTo
<1>18. ASSUME NEW l \in Lockers, SendTimesOut(l) PROVE Watched(x)'
  BY <1>a, <1>18 DEF SendTimesOut, HandlerTo
<1>19. ASSUME NEW l \in Lockers, HandlerUnlock(l) PROVE Watched(x)'
  <2>1. caller' = caller /\ keep' = keep
    BY <1>19 DEF HandlerUnlock
  <2>2. x # l /\ handler'[x] = handler[x]
    BY <1>19 DEF HandlerUnlock, HandlerTo
  <2>3. PICK ok \in BOOLEAN : Unlock(l, ok)
    BY <1>19 DEF HandlerUnlock
  <2>4. conn'[x] = conn[x]
    BY <2>2, <2>3 DEF Unlock
  <2> QED
    BY <1>a, <2>1, <2>2, <2>4
<1>20. ASSUME NEW l \in Lockers, KeepAliveFails(l) PROVE Watched(x)'
  BY <1>a, <1>20 DEF KeepAliveFails
<1>21. ASSUME NEW l \in Lockers, KeepAliveStops(l) PROVE Watched(x)'
  BY <1>a, <1>21 DEF KeepAliveStops, CtxCancelled
<1>22. ASSUME NEW l \in Lockers, LoseSession(l) PROVE Watched(x)'
  BY <1>a, <1>22 DEF LoseSession
<1>23. ASSUME NEW l \in Lockers, LoseListener(l) PROVE Watched(x)'
  BY <1>a, <1>23 DEF LoseListener, Fault
<1>24. ASSUME NEW l \in Lockers, ReconnectListener(l) PROVE Watched(x)'
  BY <1>a, <1>24 DEF ReconnectListener
<1>25. ASSUME NEW l \in Lockers, Crash(l) PROVE Watched(x)'
  BY <1>a, <1>25 DEF Crash, StopWaiting, GoTo, HandlerTo
<1>26. CASE UNCHANGED vars
  BY <1>a, <1>26 DEF vars
<1> QED
  BY <1>1, <1>2, <1>3, <1>4, <1>5, <1>6, <1>7, <1>8, <1>9, <1>10, <1>11, <1>12, <1>13,
     <1>14, <1>15, <1>16, <1>17, <1>18, <1>19, <1>20, <1>21, <1>22, <1>23, <1>24, <1>25,
     <1>26
  DEF Next, CallerStep, HandlerStep, KeepAliveStep, FaultStep

\* Every step keeps GrantedInv: what Lock knows once the advisory lock was granted.
LEMMA GrantedInvStep ==
  ASSUME SafeDurations, LockerInv, TypeOK', [Next]_vars
  PROVE  GrantedInv'
<1> USE LockerAssumption DEF LockerInv, TypeOK, GrantedInv, Clients, Granted, callerVars,
      handlerVars, keepVars,
  listenerVars, lockVars
<1>1. CASE Tick
  BY <1>1 DEF Tick, Less
<1>2. CASE ForeignNotify
  BY <1>2 DEF ForeignNotify, Fault
<1>3. ASSUME NEW l \in Lockers, NewLock(l) PROVE GrantedInv'
  BY <1>3 DEF NewLock, GoTo
<1>4. ASSUME NEW l \in Lockers, CallFails(l) PROVE GrantedInv'
  BY <1>4 DEF CallFails, GoTo
<1>5. ASSUME NEW l \in Lockers, Notify(l) PROVE GrantedInv'
  BY <1>5 DEF Notify, GoTo
<1>6. ASSUME NEW l \in Lockers, NotifyFails(l) PROVE GrantedInv'
  BY <1>6 DEF NotifyFails, GoTo
<1>7. ASSUME NEW l \in Lockers, Listen(l) PROVE GrantedInv'
  BY <1>7 DEF Listen, GoTo, HandlerTo
<1>8. ASSUME NEW l \in Lockers, StartWait(l) PROVE GrantedInv'
  BY <1>8 DEF StartWait, GoTo
<1>9. ASSUME NEW l \in Lockers, Grant(l) PROVE GrantedInv'
  BY <1>9 DEF Grant, GoTo, Grantable, Queued
<1>10. ASSUME NEW l \in Lockers, LockFails(l) PROVE GrantedInv'
  BY <1>10 DEF LockFails, StopWaiting, GoTo
<1>11. ASSUME NEW l \in Lockers, PreemptedInDelay(l) PROVE GrantedInv'
  BY <1>11 DEF PreemptedInDelay, StopWaiting, GoTo, HandlerTo
<1>12. ASSUME NEW l \in Lockers, DelayElapsed(l) PROVE GrantedInv'
  BY <1>12 DEF DelayElapsed, GoTo
<1>13. ASSUME NEW l \in Lockers, Receive(l) PROVE GrantedInv'
  BY <1>13 DEF Receive, GoTo, HandlerTo
<1>14. ASSUME NEW l \in Lockers, Release(l) PROVE GrantedInv'
  BY <1>14 DEF Release, GoTo, Unlock
<1>15. ASSUME NEW l \in Lockers, HandleNotify(l) PROVE GrantedInv'
  BY <1>15 DEF HandleNotify, HandlerTo
<1>16. ASSUME NEW l \in Lockers, HandleCtxDone(l) PROVE GrantedInv'
  BY <1>16 DEF HandleCtxDone, HandlerTo
<1>17. ASSUME NEW l \in Lockers, HandleSessionErr(l) PROVE GrantedInv'
  BY <1>17 DEF HandleSessionErr, HandlerTo
<1>18. ASSUME NEW l \in Lockers, SendTimesOut(l) PROVE GrantedInv'
  BY <1>18 DEF SendTimesOut, HandlerTo
<1>19. ASSUME NEW l \in Lockers, HandlerUnlock(l) PROVE GrantedInv'
  <2>1. PICK ok \in BOOLEAN : Unlock(l, ok)
    BY <1>19 DEF HandlerUnlock
  <2>2. UNCHANGED <<caller, pingIn>>
    BY <1>19 DEF HandlerUnlock
  <2>3. /\ \A x \in Lockers \ {l} : conn'[x] = conn[x]
        /\ conn'[l] # "open"
        /\ owner # l => owner' = owner
    BY <2>1 DEF Unlock
  <2> QED
    BY <2>2, <2>3
<1>20. ASSUME NEW l \in Lockers, KeepAliveFails(l) PROVE GrantedInv'
  BY <1>20 DEF KeepAliveFails
<1>21. ASSUME NEW l \in Lockers, KeepAliveStops(l) PROVE GrantedInv'
  BY <1>21 DEF KeepAliveStops
<1>22. ASSUME NEW l \in Lockers, LoseSession(l) PROVE GrantedInv'
  BY <1>22 DEF LoseSession, SessionEnds
<1>23. ASSUME NEW l \in Lockers, LoseListener(l) PROVE GrantedInv'
  BY <1>23 DEF LoseListener
<1>24. ASSUME NEW l \in Lockers, ReconnectListener(l) PROVE GrantedInv'
  BY <1>24 DEF ReconnectListener
<1>25. ASSUME NEW l \in Lockers, Crash(l) PROVE GrantedInv'
  BY <1>25 DEF Crash, StopWaiting, GoTo, SessionEnds
<1>26. CASE UNCHANGED vars
  BY <1>26 DEF vars
<1> QED
  BY <1>1, <1>2, <1>3, <1>4, <1>5, <1>6, <1>7, <1>8, <1>9, <1>10, <1>11, <1>12, <1>13,
     <1>14, <1>15, <1>16, <1>17, <1>18, <1>19, <1>20, <1>21, <1>22, <1>23, <1>24, <1>25,
     <1>26
  DEF Next, CallerStep, HandlerStep, KeepAliveStep, FaultStep

\* A client that was granted the lock before the step too and for which the
\* step does not disturb what Older says of it.
Steady(z) ==
    Alert(z)' =>
        /\ Alert(z)
        /\ conn[z] = "lost" => conn'[z] = "lost"
        /\ conn[z] = "lost" /\ keep'[z] = "run" => keep[z] = "run" /\ pingIn'[z] = pingIn[z]
        /\ caller[z] = "delay" /\ timer[z] > 0 => caller'[z] = "delay" /\ timer'[z] = timer[z]

\* The invariant on pairs survives a step that changes none of what it reads.
LEMMA PairFrame == PairInv /\ (\A z \in Clients : Steady(z)) => PairInv'
<1> SUFFICES ASSUME PairInv, \A z \in Clients : Steady(z),
                    NEW x \in Clients, NEW y \in Clients, x # y, Alert(x)', Alert(y)'
             PROVE  Older(x, y)' \/ Older(y, x)'
  BY DEF PairInv
<1>1. Older(x, y) \/ Older(y, x)
  BY DEF PairInv, Steady
<1>2. ASSUME NEW u \in Clients, NEW v \in Clients, Older(u, v), Alert(u)', Alert(v)'
      PROVE  Older(u, v)'
  BY <1>2 DEF Older, Steady
<1> QED
  BY <1>1, <1>2

\* Counting two timers down keeps their order.
LEMMA TickArithmetic ==
  ASSUME NEW t \in Nat, NEW k \in Nat, NEW d \in Nat, NEW p \in Nat,
         k < d, p > 0, t + k >= d + p
  PROVE  t - 1 > 0 /\ (t - 1) + k >= d + (p - 1)
OBVIOUS

\* Every step keeps the invariant on pairs of lock objects, from which MutualExclusion
\* follows.
LEMMA PairInvStep ==
  ASSUME SafeDurations, LockerInv, TypeOK', [Next]_vars
  PROVE  PairInv'
<1>a. PairInv
  BY DEF LockerInv
<1> USE LockerAssumption DEF LockerInv, TypeOK, Steady, Clients, Granted, Alert, Reachable, Older,
      SafeDurations, callerVars, handlerVars, keepVars,
  listenerVars, lockVars
<1>1. CASE Tick
  <2> SUFFICES ASSUME NEW x \in Clients, NEW y \in Clients, x # y, Alert(x)', Alert(y)'
               PROVE  Older(x, y)' \/ Older(y, x)'
    BY DEF PairInv
  <2>1. caller' = caller /\ keep' = keep /\ conn' = conn /\ handler' = handler
    BY <1>1 DEF Tick
  <2>2. Older(x, y) \/ Older(y, x)
    BY <2>1 DEF PairInv
  <2>3. ASSUME NEW u \in Clients, NEW v \in Clients, Alert(u), Older(u, v)
        PROVE  Older(u, v)'
    <3>0. pingIn[u] \in Nat /\ timer[v] \in Nat /\ LockDelay \in Nat /\ KeepAlivePeriod \in Nat
      OBVIOUS
    <3>1. handler[u] # "sending"
      BY <1>1, <2>3 DEF Tick, Urgent, Receiving
    <3>2. handler[u] = "select" /\ keep[u] = "run"
      BY <1>1, <2>3, <3>1 DEF Tick, Urgent, HandlerInv, Watched, Engaged
    <3>3. pingIn[u] > 0
      <4>1. conn[u] = "lost" /\ ~ConnBusy(u)
        BY <2>3 DEF ConnBusy
      <4>2. pingIn[u] # 0
        BY <1>1, <3>2, <4>1 DEF Tick, Urgent
      <4> QED
        BY <3>0, <4>2
    <3>4. timer'[v] = timer[v] - 1 /\ pingIn'[u] = pingIn[u] - 1
      BY <1>1, <3>0, <3>3, <2>3 DEF Tick, Less
    <3>5. /\ conn[u] = "lost" /\ caller[v] = "delay" /\ timer[v] > 0
          /\ timer[v] + KeepAlivePeriod >= LockDelay + pingIn[u]
      BY <2>3, <3>2
    <3>6. timer'[v] > 0 /\ timer'[v] + KeepAlivePeriod >= LockDelay + pingIn'[u]
      <4> DEFINE t == timer[v]  p == pingIn[u]
      <4>1. t \in Nat /\ p \in Nat /\ p > 0 /\ t + KeepAlivePeriod >= LockDelay + p
        BY <3>0, <3>3, <3>5
      <4>2. KeepAlivePeriod < LockDelay
        BY DEF SafeDurations
      <4> HIDE DEF t, p
      <4>3. t - 1 > 0 /\ (t - 1) + KeepAlivePeriod >= LockDelay + (p - 1)
        BY ONLY <3>0, <4>1, <4>2, TickArithmetic
      <4> QED
        BY ONLY <3>4, <4>3 DEF t, p
    <3> QED
      BY <2>1, <3>5, <3>6
  <2> QED
    BY <2>1, <2>2, <2>3
<1>2. ASSUME ForeignNotify PROVE \A z \in Clients : Steady(z)
  BY <1>2 DEF ForeignNotify, Fault
<1>3. ASSUME NEW l \in Lockers, NewLock(l) PROVE \A z \in Clients : Steady(z)
  BY <1>3 DEF NewLock, GoTo
<1>4. ASSUME NEW l \in Lockers, CallFails(l) PROVE \A z \in Clients : Steady(z)
  BY <1>4 DEF CallFails, GoTo
<1>5. ASSUME NEW l \in Lockers, Notify(l) PROVE \A z \in Clients : Steady(z)
  BY <1>5 DEF Notify, GoTo
<1>6. ASSUME NEW l \in Lockers, NotifyFails(l) PROVE \A z \in Clients : Steady(z)
  BY <1>6 DEF NotifyFails, GoTo
<1>7. ASSUME NEW l \in Lockers, Listen(l) PROVE \A z \in Clients : Steady(z)
  BY <1>7 DEF Listen, GoTo, HandlerTo
<1>8. ASSUME NEW l \in Lockers, StartWait(l) PROVE \A z \in Clients : Steady(z)
  BY <1>8 DEF StartWait, GoTo
<1>9. ASSUME NEW l \in Lockers, Grant(l) PROVE PairInv'
  <2> SUFFICES ASSUME NEW x \in Clients, NEW y \in Clients, x # y, Alert(x)', Alert(y)'
               PROVE  Older(x, y)' \/ Older(y, x)'
    BY DEF PairInv
  <2>1. /\ UNCHANGED <<keep, pingIn, conn, handler>>
        /\ \A z \in Lockers \ {l} : caller'[z] = caller[z] /\ timer'[z] = timer[z]
        /\ l \in Clients => caller'[l] = "delay" /\ timer'[l] = LockDelay
    BY <1>9 DEF Grant, GoTo
  <2>2. CASE x # l /\ y # l
    BY <2>1, <2>2 DEF PairInv
  <2>3. ASSUME NEW z \in Clients, z # l, Alert(z)', l \in Clients
        PROVE  Older(z, l)'
    <3>1. owner # z /\ Alert(z)
      BY <1>9, <2>1, <2>3 DEF Grant, Grantable
    <3>2. conn[z] = "lost"
      BY <3>1, <2>3 DEF GrantedInv, HandlerInv, Watched, Engaged
    <3>3. pingIn[z] <= KeepAlivePeriod /\ pingIn[z] \in Nat
      BY DEF GrantedInv
    <3>4. LockDelay > 0 /\ LockDelay + KeepAlivePeriod >= LockDelay + pingIn[z]
      BY <3>3
    <3> QED
      BY <2>1, <2>3, <3>2, <3>4
  <2>4. CASE x = l
    <3>1. Older(y, x)'
      BY <2>3, <2>4
    <3> QED
      BY <3>1
  <2>5. CASE y = l
    <3>1. Older(x, y)'
      BY <2>3, <2>5
    <3> QED
      BY <3>1
  <2> QED
    BY <2>2, <2>4, <2>5
<1>10. ASSUME NEW l \in Lockers, LockFails(l) PROVE \A z \in Clients : Steady(z)
  BY <1>10 DEF LockFails, StopWaiting, GoTo
<1>11. ASSUME NEW l \in Lockers, PreemptedInDelay(l) PROVE \A z \in Clients : Steady(z)
  BY <1>11 DEF PreemptedInDelay, StopWaiting, GoTo, HandlerTo
<1>12. ASSUME NEW l \in Lockers, DelayElapsed(l) PROVE \A z \in Clients : Steady(z)
  BY <1>12 DEF DelayElapsed, GoTo
<1>13. ASSUME NEW l \in Lockers, Receive(l) PROVE \A z \in Clients : Steady(z)
  BY <1>13 DEF Receive, GoTo, HandlerTo
<1>14. ASSUME NEW l \in Lockers, Release(l) PROVE \A z \in Clients : Steady(z)
  BY <1>14 DEF Release, GoTo, Unlock
<1>15. ASSUME NEW l \in Lockers, HandleNotify(l) PROVE \A z \in Clients : Steady(z)
  <2>1. UNCHANGED <<callerVars, keepVars, conn>> /\ handler[l] = "select"
    BY <1>15 DEF HandleNotify
  <2>2. \A z \in Lockers \ {l} : handler'[z] = handler[z]
    BY <1>15, HandleNotifyFrame
  <2> QED
    BY <2>1, <2>2
<1>16. ASSUME NEW l \in Lockers, HandleCtxDone(l) PROVE \A z \in Clients : Steady(z)
  BY <1>16 DEF HandleCtxDone, HandlerTo
<1>17. ASSUME NEW l \in Lockers, HandleSessionErr(l) PROVE \A z \in Clients : Steady(z)
  BY <1>17 DEF HandleSessionErr, HandlerTo
<1>18. ASSUME NEW l \in Lockers, SendTimesOut(l) PROVE \A z \in Clients : Steady(z)
  BY <1>18 DEF SendTimesOut, HandlerTo
<1>19. ASSUME NEW l \in Lockers, HandlerUnlock(l) PROVE \A z \in Clients : Steady(z)
  <2>1. PICK ok \in BOOLEAN : Unlock(l, ok)
    BY <1>19 DEF HandlerUnlock
  <2>2. /\ UNCHANGED <<callerVars, keepVars>>
        /\ handler' = [handler EXCEPT ![l] = "done"]
    BY <1>19 DEF HandlerUnlock, HandlerTo
  <2>3. \A z \in Lockers \ {l} : conn'[z] = conn[z]
    BY <2>1 DEF Unlock
  <2> QED
    BY <2>2, <2>3
<1>20. ASSUME NEW l \in Lockers, KeepAliveFails(l) PROVE \A z \in Clients : Steady(z)
  BY <1>20 DEF KeepAliveFails, GrantedInv
<1>21. ASSUME NEW l \in Lockers, KeepAliveStops(l) PROVE \A z \in Clients : Steady(z)
  BY <1>21 DEF KeepAliveStops, CtxCancelled
<1>22. ASSUME NEW l \in Lockers, LoseSession(l) PROVE \A z \in Clients : Steady(z)
  BY <1>22 DEF LoseSession
<1>23. ASSUME NEW l \in Lockers, LoseListener(l) PROVE \A z \in Clients : Steady(z)
  BY <1>23 DEF LoseListener
<1>24. ASSUME NEW l \in Lockers, ReconnectListener(l) PROVE \A z \in Clients : Steady(z)
  BY <1>24 DEF ReconnectListener
<1>25. ASSUME NEW l \in Lockers, Crash(l) PROVE \A z \in Clients : Steady(z)
  BY <1>25 DEF Crash, StopWaiting, GoTo, HandlerTo
<1>26. ASSUME UNCHANGED vars PROVE \A z \in Clients : Steady(z)
  BY <1>26 DEF vars
<1>27. (\A z \in Clients : Steady(z)) => PairInv'
  BY <1>a, PairFrame
<1>28. [Next]_vars
  OBVIOUS
<1> HIDE DEF Steady
<1> QED
  BY ONLY <1>1, <1>2, <1>3, <1>4, <1>5, <1>6, <1>7, <1>8, <1>9, <1>10, <1>11, <1>12,
     <1>13, <1>14, <1>15, <1>16, <1>17, <1>18, <1>19, <1>20, <1>21, <1>22, <1>23, <1>24,
     <1>25, <1>26, <1>27, <1>28
  DEF Next, CallerStep, HandlerStep, KeepAliveStep, FaultStep

\* Every step keeps Attended of every lock object: who is left to give up a session.
LEMMA AttendedStep ==
  ASSUME "db" \notin Faults, AttendedInv, TypeOK', [Next]_vars
  PROVE  \A x \in Lockers : Attended(x)'
<1> SUFFICES ASSUME NEW x \in Lockers PROVE Attended(x)'
  OBVIOUS
<1>a. Attended(x)
  BY DEF AttendedInv
<1>b. TypeOK
  BY DEF AttendedInv
<1>c. ASSUME NEW l \in Lockers, NEW ok \in BOOLEAN, Unlock(l, ok)
      PROVE  /\ x # l => conn'[x] = conn[x] /\ listener'[x] = listener[x]
             /\ conn'[l] = (IF conn[l] = "none" THEN "none" ELSE "closed")
             /\ listener'[l] = (IF listener[l] = "off" THEN "off" ELSE "closed")
  BY <1>b, <1>c, UnlockFrame
<1> USE LockerAssumption DEF AttendedInv, TypeOK, Attended, EarlyInv, callerVars, handlerVars,
  keepVars, listenerVars, lockVars
<1>1. CASE Tick
  BY <1>a, <1>1 DEF Tick
<1>2. CASE ForeignNotify
  BY <1>a, <1>2 DEF ForeignNotify
<1>3. ASSUME NEW l \in Lockers, NewLock(l) PROVE Attended(x)'
  BY <1>a, <1>3 DEF NewLock, GoTo
<1>4. ASSUME NEW l \in Lockers, CallFails(l) PROVE Attended(x)'
  BY <1>a, <1>4 DEF CallFails, Fault
<1>5. ASSUME NEW l \in Lockers, Notify(l) PROVE Attended(x)'
  BY <1>a, <1>5 DEF Notify, GoTo
<1>6. ASSUME NEW l \in Lockers, NotifyFails(l) PROVE Attended(x)'
  BY <1>a, <1>6 DEF NotifyFails, GoTo
<1>7. ASSUME NEW l \in Lockers, Listen(l) PROVE Attended(x)'
  BY <1>a, <1>7 DEF Listen, GoTo, HandlerTo
<1>8. ASSUME NEW l \in Lockers, StartWait(l) PROVE Attended(x)'
  BY <1>a, <1>8 DEF StartWait, GoTo
<1>9. ASSUME NEW l \in Lockers, Grant(l) PROVE Attended(x)'
  BY <1>a, <1>9 DEF Grant, Grantable, Queued, GoTo
<1>10. ASSUME NEW l \in Lockers, LockFails(l) PROVE Attended(x)'
  BY <1>a, <1>10 DEF LockFails, StopWaiting, GoTo
<1>11. ASSUME NEW l \in Lockers, PreemptedInDelay(l) PROVE Attended(x)'
  BY <1>a, <1>11 DEF PreemptedInDelay, StopWaiting, GoTo, HandlerTo
<1>12. ASSUME NEW l \in Lockers, DelayElapsed(l) PROVE Attended(x)'
  BY <1>a, <1>12 DEF DelayElapsed, GoTo
<1>13. ASSUME NEW l \in Lockers, Receive(l) PROVE Attended(x)'
  BY <1>a, <1>13 DEF Receive, GoTo, HandlerTo
<1>14. ASSUME NEW l \in Lockers, Release(l) PROVE Attended(x)'
  <2>1. PICK ok \in BOOLEAN : Unlock(l, ok)
    BY <1>14 DEF Release
  <2>2. /\ caller[l] \in {"yield", "told", "held"} /\ UNCHANGED <<handler, keep>>
        /\ caller' = [caller EXCEPT ![l] = IF @ = "yield" THEN "preempted" ELSE "released"]
    BY <1>14 DEF Release, GoTo
  <2>3. /\ x # l => conn'[x] = conn[x] /\ listener'[x] = listener[x]
        /\ conn'[l] = (IF conn[l] = "none" THEN "none" ELSE "closed")
        /\ listener'[l] = (IF listener[l] = "off" THEN "off" ELSE "closed")
    BY <1>c, <2>1
  <2>4. CASE x # l
    BY <1>a, <2>2, <2>3, <2>4
  <2>5. CASE x = l
    BY <1>a, <2>2, <2>3, <2>5
  <2> QED
    BY <2>4, <2>5
<1>15. ASSUME NEW l \in Lockers, HandleNotify(l) PROVE Attended(x)'
  <2>1. UNCHANGED <<caller, conn, listener>> /\ inbox[l] # <<>>
    BY <1>15 DEF HandleNotify
  <2>2. CASE HandlerTo(l, "deaf", 0) /\ Head(inbox[l]) = Nil
    BY <1>a, <2>1, <2>2 DEF HandlerTo
  <2>3. CASE UNCHANGED handlerVars
    BY <1>a, <2>1, <2>3
  <2>4. CASE HandlerTo(l, "sending", PreemptionTimeout)
    BY <1>a, <2>1, <2>4 DEF HandlerTo
  <2> QED
    BY <1>15, <2>2, <2>3, <2>4, HandleNotifyCases
<1>16. ASSUME NEW l \in Lockers, HandleCtxDone(l) PROVE Attended(x)'
  BY <1>a, <1>16 DEF HandleCtxDone, HandlerTo
<1>17. ASSUME NEW l \in Lockers, HandleSessionErr(l) PROVE Attended(x)'
  BY <1>a, <1>17 DEF HandleSessionErr, HandlerTo
<1>18. ASSUME NEW l \in Lockers, SendTimesOut(l) PROVE Attended(x)'
  BY <1>a, <1>18 DEF SendTimesOut, HandlerTo
<1>19. ASSUME NEW l \in Lockers, HandlerUnlock(l) PROVE Attended(x)'
  <2>1. PICK ok \in BOOLEAN : Unlock(l, ok)
    BY <1>19 DEF HandlerUnlock
  <2>2. /\ UNCHANGED <<caller, keep>> /\ handler[l] = "unlocking"
        /\ handler' = [handler EXCEPT ![l] = "done"]
    BY <1>19 DEF HandlerUnlock, HandlerTo
  <2>3. /\ x # l => conn'[x] = conn[x] /\ listener'[x] = listener[x]
        /\ conn'[l] = (IF conn[l] = "none" THEN "none" ELSE "closed")
        /\ listener'[l] = (IF listener[l] = "off" THEN "off" ELSE "closed")
    BY <1>c, <2>1
  <2>4. CASE x # l
    BY <1>a, <2>2, <2>3, <2>4
  <2>5. CASE x = l
    BY <1>a, <2>2, <2>3, <2>5
  <2> QED
    BY <2>4, <2>5
<1>20. ASSUME NEW l \in Lockers, KeepAliveFails(l) PROVE Attended(x)'
  BY <1>a, <1>20 DEF KeepAliveFails
<1>21. ASSUME NEW l \in Lockers, KeepAliveStops(l) PROVE Attended(x)'
  BY <1>a, <1>21 DEF KeepAliveStops
<1>22. ASSUME NEW l \in Lockers, LoseSession(l) PROVE Attended(x)'
  BY <1>a, <1>22 DEF LoseSession
<1>23. ASSUME NEW l \in Lockers, LoseListener(l) PROVE Attended(x)'
  BY <1>a, <1>23 DEF LoseListener, Fault
<1>24. ASSUME NEW l \in Lockers, ReconnectListener(l) PROVE Attended(x)'
  BY <1>a, <1>24 DEF ReconnectListener
<1>25. ASSUME NEW l \in Lockers, Crash(l) PROVE Attended(x)'
  BY <1>a, <1>25 DEF Crash, StopWaiting, GoTo, HandlerTo
<1>26. CASE UNCHANGED vars
  BY <1>a, <1>26 DEF vars
<1> QED
  BY <1>1, <1>2, <1>3, <1>4, <1>5, <1>6, <1>7, <1>8, <1>9, <1>10, <1>11, <1>12, <1>13,
     <1>14, <1>15, <1>16, <1>17, <1>18, <1>19, <1>20, <1>21, <1>22, <1>23, <1>24, <1>25,
     <1>26
  DEF Next, CallerStep, HandlerStep, KeepAliveStep, FaultStep

----------------------------------------------------------------------------
(* The theorems.                                                            *)

\* Every reachable state is well typed, whatever the durations and the faults:
\* in particular no Unlock counts down an advisory lock that is not held.
THEOREM TypeCorrect == Spec => []TypeOK
<1>1. Init => TypeOK /\ OwnerInv
  BY InitLockerInv DEF LockerInv
<1>2. TypeOK /\ OwnerInv /\ [Next]_vars => TypeOK' /\ OwnerInv'
  BY TypeStep
<1> QED
  BY <1>1, <1>2, PTL DEF Spec

\* LockerInv is an inductive invariant.
THEOREM LockerInvariant == ASSUME SafeDurations PROVE Spec => []LockerInv
<1>1. Init => LockerInv
  BY InitLockerInv
<1>2. LockerInv /\ [Next]_vars => LockerInv'
  <2> SUFFICES ASSUME LockerInv, [Next]_vars PROVE LockerInv'
    OBVIOUS
  <2>1. TypeOK' /\ OwnerInv'
    BY TypeStep DEF LockerInv
  <2>2. EarlyInv' /\ HandlerInv' /\ GrantedInv' /\ PairInv'
    BY <2>1, EarlyInvStep, HandlerInvStep, GrantedInvStep, PairInvStep
       DEF LockerInv, SafeDurations
  <2> QED
    BY <2>1, <2>2 DEF LockerInv
<1> QED
  BY <1>1, <1>2, PTL DEF Spec

\* If the keepalive finds a dead session within the lock delay, then whatever the
\* other durations and whatever fails, of any number of callers that can still be
\* told to yield at most one works under the lock.
THEOREM Exclusion == ASSUME SafeDurations PROVE Spec => []MutualExclusion
<1>1. LockerInv => MutualExclusion
  BY DEF LockerInv, PairInv, Alert, Older, Granted, MutualExclusion
<1> QED
  BY <1>1, LockerInvariant, PTL

\* Whatever the durations, and whatever sessions, processes and listeners die: as
\* long as no call fails before its LISTEN, the advisory lock is never left with a
\* lock object that nobody will unlock, but for one whose handler is deaf.
THEOREM AlwaysAttended ==
  ASSUME "db" \notin Faults
  PROVE  Spec => []LockIsAttended
<1>1. Init => AttendedInv
  <2>1. Init => TypeOK /\ OwnerInv /\ EarlyInv
    BY InitLockerInv DEF LockerInv
  <2> QED
    BY <2>1 DEF Init, AttendedInv, Attended
<1>2. AttendedInv /\ [Next]_vars => AttendedInv'
  <2> SUFFICES ASSUME AttendedInv, [Next]_vars PROVE AttendedInv'
    OBVIOUS
  <2>1. TypeOK' /\ OwnerInv'
    BY TypeStep DEF AttendedInv
  <2>2. EarlyInv'
    BY <2>1, EarlyInvStep DEF AttendedInv
  <2>3. \A l \in Lockers : Attended(l)'
    BY <2>1, AttendedStep
  <2> QED
    BY <2>1, <2>2, <2>3 DEF AttendedInv
<1>3. AttendedInv => LockIsAttended
  <2> SUFFICES ASSUME AttendedInv, NEW l \in Lockers, owner = l, ~Deaf(l),
                      caller[l] \notin {"new", "notified", "listening", "waiting",
                                       "yield", "told"}
               PROVE  handler[l] \in {"select", "sending", "unlocking"}
    BY DEF LockIsAttended
  <2>1. conn[l] = "open"
    BY DEF AttendedInv, OwnerInv
  <2>2. handler[l] \in HandlerState /\ Attended(l)
    BY DEF AttendedInv, TypeOK
  <2> QED
    BY <2>1, <2>2 DEF Attended, HandlerState, Deaf
<1> QED
  BY <1>1, <1>2, <1>3, PTL DEF Spec

\* The moves of a client that LockService allows at any time.
FreeMove(from, to) ==
    \/ from = to
    \/ from = "out" /\ to \in {"trying", "gone"}
    \/ from = "trying" /\ to = "gone"
    \/ from = "in" /\ to \in {"leaving", "gone"}
    \/ from = "leaving" /\ to = "gone"

\* A step that moves nobody but l, as LockService allows.
LEMMA ServiceMoves ==
  ASSUME NEW l \in Lockers,
         \A m \in Lockers \ {l} : caller'[m] = caller[m] /\ handler'[m] = handler[m],
         l \in Clients =>
            \/ FreeMove(Phase(l), Phase(l)')
            \/ /\ Phase(l) = "trying" /\ Phase(l)' = "in"
               /\ \A m \in Clients \ {l} : Phase(m) # "in"
  PROVE  [Service!Next]_servicePhase
<1>1. \A m \in Clients \ {l} : Phase(m)' = Phase(m)
  BY DEF Clients, Phase, Reachable
<1>2. /\ \A m \in Clients : servicePhase[m] = Phase(m) /\ servicePhase'[m] = Phase(m)'
      /\ DOMAIN servicePhase = Clients
  BY DEF servicePhase
<1>3. CASE l \notin Clients
  <2>1. \A m \in Clients : Phase(m)' = Phase(m)
    BY <1>1, <1>3
  <2> QED
    BY <2>1 DEF servicePhase
<1>4. CASE l \in Clients
  <2> DEFINE to == Phase(l)'
  <2>1. servicePhase' = [servicePhase EXCEPT ![l] = to]
    <3>1. servicePhase' = [m \in Clients |-> IF m = l THEN to ELSE servicePhase[m]]
      BY <1>1, <1>2 DEF servicePhase
    <3> QED
      BY <1>2, <1>4, <3>1
  <2>2. servicePhase[l] = Phase(l)
    BY <1>2, <1>4
  <2>3. CASE to = Phase(l)
    <3>1. servicePhase' = servicePhase
      BY <1>2, <2>1, <2>2, <2>3, <1>4 DEF servicePhase
    <3> QED
      BY <3>1
  <2>4. CASE to # Phase(l)
    <3> HIDE DEF to
    <3>0. \/ FreeMove(Phase(l), to)
          \/ /\ Phase(l) = "trying" /\ to = "in"
             /\ \A m \in Clients \ {l} : servicePhase[m] # "in"
      BY <1>2, <1>4 DEF to
    <3>1. Service!Request(l) \/ Service!Enter(l) \/ Service!Refuse(l) \/ Service!Tell(l)
            \/ Service!Leave(l)
      BY <2>1, <2>2, <2>4, <3>0
         DEF FreeMove, Service!Request, Service!Enter, Service!Refuse, Service!Tell,
             Service!Leave, Service!Step
    <3> QED
      BY <1>4, <3>1 DEF Service!Next
  <2> QED
    BY <2>3, <2>4
<1> QED
  BY <1>3, <1>4

\* Every step of the locker is a step of the service, or changes nothing in it.
LEMMA ServiceStep ==
  ASSUME LockerInv, MutualExclusion', [Next]_vars
  PROVE  [Service!Next]_servicePhase
<1> USE DEF LockerInv, TypeOK, CallerState, HandlerState, Clients
<1>0. ASSUME UNCHANGED <<caller, handler>> PROVE [Service!Next]_servicePhase
  BY <1>0 DEF servicePhase, Phase, Reachable
<1>1. CASE Tick
  BY <1>0, <1>1 DEF Tick
<1>2. CASE ForeignNotify
  BY <1>0, <1>2 DEF ForeignNotify, callerVars, handlerVars
<1>3. ASSUME NEW l \in Lockers, NewLock(l) PROVE [Service!Next]_servicePhase
  <2>1. \A m \in Lockers \ {l} : caller'[m] = caller[m] /\ handler'[m] = handler[m]
    BY <1>3 DEF NewLock, GoTo, handlerVars
  <2>2. FreeMove(Phase(l), Phase(l)')
    BY <1>3 DEF NewLock, GoTo, handlerVars, FreeMove, Phase, Reachable
  <2> QED
    BY <2>1, <2>2, ServiceMoves
<1>4. ASSUME NEW l \in Lockers, CallFails(l) PROVE [Service!Next]_servicePhase
  <2>1. \A m \in Lockers \ {l} : caller'[m] = caller[m] /\ handler'[m] = handler[m]
    BY <1>4 DEF CallFails, GoTo, handlerVars
  <2>2. FreeMove(Phase(l), Phase(l)')
    BY <1>4 DEF CallFails, GoTo, handlerVars, FreeMove, Phase, Reachable
  <2> QED
    BY <2>1, <2>2, ServiceMoves
<1>5. ASSUME NEW l \in Lockers, Notify(l) PROVE [Service!Next]_servicePhase
  <2>1. \A m \in Lockers \ {l} : caller'[m] = caller[m] /\ handler'[m] = handler[m]
    BY <1>5 DEF Notify, GoTo, handlerVars
  <2>2. FreeMove(Phase(l), Phase(l)')
    BY <1>5 DEF Notify, GoTo, handlerVars, FreeMove, Phase, Reachable
  <2> QED
    BY <2>1, <2>2, ServiceMoves
<1>6. ASSUME NEW l \in Lockers, NotifyFails(l) PROVE [Service!Next]_servicePhase
  <2>1. \A m \in Lockers \ {l} : caller'[m] = caller[m] /\ handler'[m] = handler[m]
    BY <1>6 DEF NotifyFails, GoTo, handlerVars
  <2>2. FreeMove(Phase(l), Phase(l)')
    BY <1>6 DEF NotifyFails, GoTo, handlerVars, FreeMove, Phase, Reachable
  <2> QED
    BY <2>1, <2>2, ServiceMoves
<1>7. ASSUME NEW l \in Lockers, Listen(l) PROVE [Service!Next]_servicePhase
  <2>1. \A m \in Lockers \ {l} : caller'[m] = caller[m] /\ handler'[m] = handler[m]
    BY <1>7 DEF Listen, GoTo, HandlerTo
  <2>2. FreeMove(Phase(l), Phase(l)')
    BY <1>7 DEF Listen, GoTo, HandlerTo, FreeMove, Phase, Reachable
  <2> QED
    BY <2>1, <2>2, ServiceMoves
<1>8. ASSUME NEW l \in Lockers, StartWait(l) PROVE [Service!Next]_servicePhase
  <2>1. \A m \in Lockers \ {l} : caller'[m] = caller[m] /\ handler'[m] = handler[m]
    BY <1>8 DEF StartWait, GoTo, handlerVars
  <2>2. FreeMove(Phase(l), Phase(l)')
    BY <1>8 DEF StartWait, GoTo, handlerVars, FreeMove, Phase, Reachable
  <2> QED
    BY <2>1, <2>2, ServiceMoves
<1>9. ASSUME NEW l \in Lockers, Grant(l) PROVE [Service!Next]_servicePhase
  <2>1. /\ \A m \in Lockers \ {l} : caller'[m] = caller[m] /\ handler'[m] = handler[m]
        /\ caller[l] = "waiting"
        /\ l \notin Direct => caller'[l] = "delay"
    BY <1>9 DEF Grant, Grantable, Queued, GoTo, handlerVars
  <2>2. l \in Clients => FreeMove(Phase(l), Phase(l)')
    BY <2>1 DEF FreeMove, Phase
  <2> QED
    BY <2>1, <2>2, ServiceMoves
<1>10. ASSUME NEW l \in Lockers, LockFails(l) PROVE [Service!Next]_servicePhase
  <2>1. \A m \in Lockers \ {l} : caller'[m] = caller[m] /\ handler'[m] = handler[m]
    BY <1>10 DEF LockFails, GoTo, StopWaiting, handlerVars
  <2>2. FreeMove(Phase(l), Phase(l)')
    BY <1>10 DEF LockFails, GoTo, StopWaiting, handlerVars, FreeMove, Phase, Reachable
  <2> QED
    BY <2>1, <2>2, ServiceMoves
<1>11. ASSUME NEW l \in Lockers, PreemptedInDelay(l) PROVE [Service!Next]_servicePhase
  <2>1. \A m \in Lockers \ {l} : caller'[m] = caller[m] /\ handler'[m] = handler[m]
    BY <1>11 DEF PreemptedInDelay, GoTo, StopWaiting, HandlerTo
  <2>2. FreeMove(Phase(l), Phase(l)')
    BY <1>11 DEF PreemptedInDelay, GoTo, StopWaiting, HandlerTo, FreeMove, Phase, Reachable
  <2> QED
    BY <2>1, <2>2, ServiceMoves
<1>12. ASSUME NEW l \in Lockers, DelayElapsed(l) PROVE [Service!Next]_servicePhase
  <2>1. /\ \A m \in Lockers \ {l} : caller'[m] = caller[m] /\ handler'[m] = handler[m]
        /\ caller[l] = "delay" /\ caller'[l] = "held" /\ handler'[l] = handler[l]
    BY <1>12 DEF DelayElapsed, GoTo, handlerVars
  <2>2. CASE l \in Clients /\ Reachable(l)
    <3>1. \A m \in Clients \ {l} : ~(caller'[m] = "held" /\ Reachable(m)')
      BY <2>1, <2>2 DEF MutualExclusion, Reachable
    <3>2. \A m \in Clients \ {l} : Phase(m) # "in"
      BY <2>1, <3>1 DEF Phase, Reachable
    <3>3. Phase(l) = "trying" /\ Phase(l)' = "in"
      BY <2>1, <2>2 DEF Phase, Reachable
    <3> QED
      BY <2>1, <3>2, <3>3, ServiceMoves
  <2>3. CASE l \in Clients /\ ~Reachable(l)
    <3>1. FreeMove(Phase(l), Phase(l)')
      BY <2>1, <2>3 DEF FreeMove, Phase, Reachable
    <3> QED
      BY <2>1, <3>1, ServiceMoves
  <2> QED
    BY <2>1, <2>2, <2>3, ServiceMoves
<1>13. ASSUME NEW l \in Lockers, Receive(l) PROVE [Service!Next]_servicePhase
  <2>1. \A m \in Lockers \ {l} : caller'[m] = caller[m] /\ handler'[m] = handler[m]
    BY <1>13 DEF Receive, GoTo, HandlerTo
  <2>2. FreeMove(Phase(l), Phase(l)')
    BY <1>13 DEF Receive, GoTo, HandlerTo, FreeMove, Phase, Reachable
  <2> QED
    BY <2>1, <2>2, ServiceMoves
<1>14. ASSUME NEW l \in Lockers, Release(l) PROVE [Service!Next]_servicePhase
  <2>1. \A m \in Lockers \ {l} : caller'[m] = caller[m] /\ handler'[m] = handler[m]
    BY <1>14 DEF Release, GoTo, handlerVars
  <2>2. FreeMove(Phase(l), Phase(l)')
    BY <1>14 DEF Release, GoTo, handlerVars, FreeMove, Phase, Reachable
  <2> QED
    BY <2>1, <2>2, ServiceMoves
<1>15. ASSUME NEW l \in Lockers, HandleNotify(l) PROVE [Service!Next]_servicePhase
  <2>1. /\ caller' = caller /\ handler[l] = "select"
        /\ \A m \in Lockers \ {l} : handler'[m] = handler[m]
    BY <1>15, HandleNotifyFrame DEF HandleNotify, callerVars
  <2>2. FreeMove(Phase(l), Phase(l)')
    BY <2>1 DEF FreeMove, Phase, Reachable
  <2> QED
    BY <2>1, <2>2, ServiceMoves
<1>16. ASSUME NEW l \in Lockers, HandleCtxDone(l) PROVE [Service!Next]_servicePhase
  <2>1. \A m \in Lockers \ {l} : caller'[m] = caller[m] /\ handler'[m] = handler[m]
    BY <1>16 DEF HandleCtxDone, GoTo, HandlerTo, callerVars
  <2>2. FreeMove(Phase(l), Phase(l)')
    BY <1>16 DEF HandleCtxDone, GoTo, HandlerTo, callerVars, FreeMove, Phase, Reachable
  <2> QED
    BY <2>1, <2>2, ServiceMoves
<1>17. ASSUME NEW l \in Lockers, HandleSessionErr(l) PROVE [Service!Next]_servicePhase
  <2>1. \A m \in Lockers \ {l} : caller'[m] = caller[m] /\ handler'[m] = handler[m]
    BY <1>17 DEF HandleSessionErr, GoTo, HandlerTo, callerVars
  <2>2. FreeMove(Phase(l), Phase(l)')
    BY <1>17 DEF HandleSessionErr, GoTo, HandlerTo, callerVars, FreeMove, Phase, Reachable
  <2> QED
    BY <2>1, <2>2, ServiceMoves
<1>18. ASSUME NEW l \in Lockers, SendTimesOut(l) PROVE [Service!Next]_servicePhase
  <2>1. \A m \in Lockers \ {l} : caller'[m] = caller[m] /\ handler'[m] = handler[m]
    BY <1>18 DEF SendTimesOut, GoTo, HandlerTo, callerVars
  <2>2. FreeMove(Phase(l), Phase(l)')
    BY <1>18 DEF SendTimesOut, GoTo, HandlerTo, callerVars, FreeMove, Phase, Reachable
  <2> QED
    BY <2>1, <2>2, ServiceMoves
<1>19. ASSUME NEW l \in Lockers, HandlerUnlock(l) PROVE [Service!Next]_servicePhase
  <2>1. \A m \in Lockers \ {l} : caller'[m] = caller[m] /\ handler'[m] = handler[m]
    BY <1>19 DEF HandlerUnlock, GoTo, HandlerTo, callerVars
  <2>2. FreeMove(Phase(l), Phase(l)')
    BY <1>19 DEF HandlerUnlock, GoTo, HandlerTo, callerVars, FreeMove, Phase, Reachable
  <2> QED
    BY <2>1, <2>2, ServiceMoves
<1>20. ASSUME NEW l \in Lockers, KeepAliveFails(l) PROVE [Service!Next]_servicePhase
  BY <1>0, <1>20 DEF KeepAliveFails, callerVars, handlerVars
<1>21. ASSUME NEW l \in Lockers, KeepAliveStops(l) PROVE [Service!Next]_servicePhase
  BY <1>0, <1>21 DEF KeepAliveStops, callerVars, handlerVars
<1>22. ASSUME NEW l \in Lockers, LoseSession(l) PROVE [Service!Next]_servicePhase
  BY <1>0, <1>22 DEF LoseSession, callerVars, handlerVars
<1>23. ASSUME NEW l \in Lockers, LoseListener(l) PROVE [Service!Next]_servicePhase
  BY <1>0, <1>23 DEF LoseListener, callerVars, handlerVars
<1>24. ASSUME NEW l \in Lockers, ReconnectListener(l) PROVE [Service!Next]_servicePhase
  BY <1>0, <1>24 DEF ReconnectListener, callerVars, handlerVars
<1>25. ASSUME NEW l \in Lockers, Crash(l) PROVE [Service!Next]_servicePhase
  <2>1. \A m \in Lockers \ {l} : caller'[m] = caller[m] /\ handler'[m] = handler[m]
    BY <1>25 DEF Crash, GoTo, StopWaiting, HandlerTo
  <2>2. FreeMove(Phase(l), Phase(l)')
    BY <1>25 DEF Crash, GoTo, StopWaiting, HandlerTo, FreeMove, Phase, Reachable
  <2> QED
    BY <2>1, <2>2, ServiceMoves
<1>26. CASE UNCHANGED vars
  BY <1>0, <1>26 DEF vars
<1> QED
  BY <1>1, <1>2, <1>3, <1>4, <1>5, <1>6, <1>7, <1>8, <1>9, <1>10, <1>11, <1>12, <1>13,
     <1>14, <1>15, <1>16, <1>17, <1>18, <1>19, <1>20, <1>21, <1>22, <1>23, <1>24, <1>25,
     <1>26
  DEF Next, CallerStep, HandlerStep, KeepAliveStep, FaultStep

\* The safety half of ImplementsLockService, for any number of clients and
\* faults: seen by its callers, PreemptiveLocker is the mutex of LockService.
THEOREM ImplementsSafely == ASSUME SafeDurations PROVE Spec => Service!SafeSpec
<1>1. Init => Service!Init
  BY DEF Init, Service!Init, servicePhase, Phase, Clients
<1>2. LockerInv /\ MutualExclusion' /\ [Next]_vars => [Service!Next]_servicePhase
  BY ServiceStep
<1> QED
  BY <1>1, <1>2, LockerInvariant, Exclusion, PTL DEF Spec, Service!SafeSpec

=============================================================================
