------------------------------ MODULE Shutdown ------------------------------
(***************************************************************************)
(* The end of the server process (main of cmd/server.go, the wait groups of *)
(* pkg/api): SIGTERM stops the listener, and main waits for handlers and    *)
(* for the operations that they have started before it returns, which ends  *)
(* every goroutine.                                                         *)
(*                                                                          *)
(* Three routes start operations: webhooks (processWebhook), the            *)
(* destruction of an environment (envDestroyHandler) and the rebuild of the *)
(* user interface (userEnvActionsRebuildHandler).  The ten seconds that     *)
(* Server.Shutdown is given bound nothing here: main does not wait for it.  *)
(***************************************************************************)
EXTENDS Naturals, Sequences, FiniteSets

CONSTANTS Webhooks, Destroys, Rebuilds   \* requests of the three routes

Requests == Webhooks \cup Destroys \cup Rebuilds

VARIABLES
    req,      \* of a request: what its client, connection or handler is at
    op,       \* of a request: the operation that its handler starts
    stopped,  \* the listener is closed
    waited,   \* how many of the wait groups main has waited for
    counted   \* requests that were counted in waitMiddleware before main had waited for it

\* Broken variant: the handlers last.
AsyncFirst == <<"v0", "v1", "v2", "handlers">>

\* WaitForHandlers, then WaitForAsync: the groups of the API versions in turn.
WaitGroups == <<"handlers", "v0", "v1", "v2">>

\* The requests whose handlers run inside waitMiddleware.
Waited == Webhooks \cup Destroys

\* What keeps a wait group from being zero.
Holds(r) ==
    {g \in {"handlers", "v0", "v2"} :
        \/ g = "handlers" /\ r \in Waited /\ req[r] \in {"handling", "started"}
        \/ g = "v0" /\ r \in Webhooks /\ op[r] = "running"
        \/ g = "v2" /\ r \in Rebuilds /\ op[r] = "running"}

Exited == waited = Len(WaitGroups)

ServerInit ==
    /\ req = [r \in Requests |-> "client"] /\ op = [r \in Requests |-> "none"]
    /\ stopped = FALSE /\ waited = 0 /\ counted = {}

Go(r, from, to) == ~Exited /\ req[r] = from /\ req' = [req EXCEPT ![r] = to]

Connect(r) ==
    /\ Go(r, "client", IF stopped THEN "refused" ELSE "accepted")
    /\ UNCHANGED <<op, stopped, waited, counted>>

\* The goroutine of the connection has read the request.
Handle(r) ==
    /\ Go(r, "accepted", "handling")
    /\ counted' = IF r \in Waited /\ waited = 0 THEN counted \cup {r} ELSE counted
    /\ UNCHANGED <<op, stopped, waited>>

\* Not relevant, not found, not allowed, or an error: there is no operation.
Refuse(r) ==
    /\ Go(r, "handling", "returned")
    /\ UNCHANGED <<op, stopped, waited, counted>>

\* wg.Add(1), except in envDestroyHandler; go func() { ... }()
StartOperation(r) ==
    /\ Go(r, "handling", "started")
    /\ op' = [op EXCEPT ![r] = "running"]
    /\ UNCHANGED <<stopped, waited, counted>>

\* waitMiddleware counts down before net/http sends the response.
HandlerReturns(r) ==
    /\ Go(r, "started", "returned")
    /\ UNCHANGED <<op, stopped, waited, counted>>

Respond(r) ==
    /\ Go(r, "returned", "answered")
    /\ UNCHANGED <<op, stopped, waited, counted>>

OperationEnds(r) ==
    /\ ~Exited /\ op[r] = "running"
    /\ op' = [op EXCEPT ![r] = "over"]
    /\ UNCHANGED <<req, stopped, waited, counted>>

Sigterm ==
    /\ ~stopped /\ stopped' = TRUE
    /\ UNCHANGED <<req, op, waited, counted>>

\* ListenAndServe has returned, and main waits.
Wait ==
    /\ stopped /\ ~Exited
    /\ \A r \in Requests : WaitGroups[waited + 1] \notin Holds(r)
    /\ waited' = waited + 1
    /\ UNCHANGED <<req, op, stopped, counted>>

ServerNext ==
    \/ \E r \in Requests : \/ Connect(r) \/ Handle(r) \/ Refuse(r) \/ StartOperation(r)
                           \/ HandlerReturns(r) \/ Respond(r) \/ OperationEnds(r)
    \/ Sigterm \/ Wait

serverVars == <<req, op, stopped, waited, counted>>

ShutdownSpec == ServerInit /\ [][ServerNext]_serverVars

----------------------------------------------------------------------------
\* The process does not end under the operation of a webhook whose handler main has waited
\* for, whether it was started before or after the signal.  (It may end under one of a
\* request that came in on an open connection after that, under a rebuild that its handler
\* starts too late, and under any destruction.)
OperationsFinish ==
    Exited => \A r \in counted \cap Webhooks : op[r] # "running"
=============================================================================
