----------------------------- MODULE ChartFetch -----------------------------
(* DataGetter.FetchCharts (pkg/nitro/meta): the chart of the triggering      *)
(* repository is fetched first, then one goroutine per dependency fetches    *)
(* its own.  The goroutines assign the variables loc and err of the function *)
(* that started them, so each assignment and each read of the two is a step. *)
(*                                                                           *)
(* A chart location is the offset of its directory: 0 for the application, i *)
(* for the i-th dependency.                                                  *)
EXTENDS Naturals, FiniteSets

CONSTANTS
    MaxDeps,    \* bound: the number of dependencies
    Nil,        \* the nil *ChartLocation
    Zero        \* the zero ChartLocation, with an empty path and a nil map

ASSUME ChartFetchAssumption == /\ MaxDeps \in Nat
                               /\ Nil \notin Nat
                               /\ Zero \notin Nat

VARIABLES
    pc,          \* where FetchCharts is
    count,       \* rc.Dependencies.Count()
    overriding,  \* the dependencies that declare value_overrides
    routine,     \* the goroutine of each dependency
    loc,         \* the shared *ChartLocation
    err,         \* whether the shared error is not nil
    couts,       \* couts[i]: the location stored for dependency i
    groupErr,    \* whether the errgroup holds an error
    expired,     \* the two minutes of the goroutines' context are over
    written      \* the chart directories that are complete on the filesystem

fetchVars == <<pc, count, overriding, routine, loc, err, couts, groupErr,
               expired, written>>

Deps == 1..count

\* A goroutine is not there before the chart of the application is fetched.
\* Then it fetches (and may hang), assigns loc, assigns err, checks err,
\* checks loc, and then either wraps the error or copies *loc.
Working == {"fetching", "hung", "fetched", "lost", "stored", "notStored",
            "checkErr", "checkLoc", "wrap", "copy"}
Gone == {"none", "ok", "error"}

Ended == {"returned", "failed", "panicked"}

TypeOK ==
    /\ pc \in {"idle", "primary", "waiting", "joined"} \cup Ended
    /\ count \in 0..MaxDeps
    /\ overriding \subseteq Deps
    /\ routine \in [Deps -> Working \cup Gone]
    /\ loc \in 0..count \cup {Nil}
    /\ err \in BOOLEAN
    /\ couts \in [Deps -> 0..count \cup {Zero}]
    /\ groupErr \in BOOLEAN
    /\ expired \in BOOLEAN
    /\ written \subseteq 0..count

Idle ==
    /\ pc = "idle"
    /\ count = 0
    /\ overriding = {}
    /\ routine = [i \in Deps |-> "none"]
    /\ loc = Nil
    /\ err = FALSE
    /\ couts = [i \in Deps |-> Zero]
    /\ groupErr = FALSE
    /\ expired = FALSE
    /\ written = {}

-----------------------------------------------------------------------------
(* The caller's goroutine *)

\* FetchCharts is called with n dependencies, those in ds with overrides.
Call(n, ds) ==
    /\ pc = "idle"
    /\ pc' = "primary"
    /\ count' = n
    /\ overriding' = ds
    /\ routine' = [i \in 1..n |-> "none"]
    /\ couts' = [i \in 1..n |-> Zero]
    /\ UNCHANGED <<loc, err, groupErr, expired, written>>

\* The chart of the triggering repository, under the caller's own context:
\* with it loc and err are set and the goroutines start.
FetchPrimary ==
    /\ pc = "primary"
    /\ pc' = "waiting"
    /\ loc' = 0
    /\ written' = written \cup {0}
    /\ routine' = [i \in Deps |-> "fetching"]
    /\ UNCHANGED <<count, overriding, err, couts, groupErr, expired>>

PrimaryFails ==
    /\ pc = "primary"
    /\ pc' = "failed"
    /\ UNCHANGED <<count, overriding, routine, loc, err, couts, groupErr,
                   expired, written>>

\* context.WithTimeout(ctx, 2*time.Minute)
Expire ==
    /\ pc = "waiting"
    /\ ~expired
    /\ expired' = TRUE
    /\ UNCHANGED <<pc, count, overriding, routine, loc, err, couts, groupErr,
                   written>>

\* eg.Wait returns when every goroutine has returned, with their first error.
Wait ==
    /\ pc = "waiting"
    /\ \A i \in Deps : routine[i] \in Gone
    /\ pc' = IF groupErr THEN "failed" ELSE "joined"
    /\ UNCHANGED <<count, overriding, routine, loc, err, couts, groupErr,
                   expired, written>>

\* The overrides of the dependencies are added to the locations: a malformed
\* one is an error, and a zero location has no map to add them to.
Finish ==
    /\ pc = "joined"
    /\ \/ /\ \A i \in overriding : couts[i] # Zero
          /\ pc' = "returned"
       \/ /\ overriding # {}
          /\ pc' = "failed"
       \/ /\ \E i \in overriding : couts[i] = Zero
          /\ pc' = "panicked"
    /\ UNCHANGED <<count, overriding, routine, loc, err, couts, groupErr,
                   expired, written>>

-----------------------------------------------------------------------------
(* The goroutine of dependency i *)

\* The process is there as long as nobody has panicked.
Running(i, place) ==
    /\ pc # "panicked"
    /\ routine[i] = place

Goto(i, place) == routine' = [routine EXCEPT ![i] = place]

\* fetchChartAndVars writes the chart under basePath/i and returns its location.
Fetch(i) ==
    /\ Running(i, "fetching")
    /\ Goto(i, "fetched")
    /\ written' = written \cup {i}
    /\ UNCHANGED <<pc, count, overriding, loc, err, couts, groupErr, expired>>

\* An error of GitHub, of the filesystem or of the chart's declaration.
FetchFails(i) ==
    /\ Running(i, "fetching")
    /\ Goto(i, "lost")
    /\ UNCHANGED <<pc, count, overriding, loc, err, couts, groupErr, expired,
                   written>>

\* GitHub does not answer.
FetchHangs(i) ==
    /\ Running(i, "fetching")
    /\ Goto(i, "hung")
    /\ UNCHANGED <<pc, count, overriding, loc, err, couts, groupErr, expired,
                   written>>

\* Broken variant: the goroutines' context has no deadline, and only the first
\* error of the group cancels it.
HungUntilGroupError(i) ==
    /\ Running(i, "hung")
    /\ groupErr
    /\ Goto(i, "lost")
    /\ UNCHANGED <<pc, count, overriding, loc, err, couts, groupErr, expired,
                   written>>

\* The call to GitHub is abandoned when the context is done.
HungFails(i) ==
    /\ Running(i, "hung")
    /\ expired
    /\ Goto(i, "lost")
    /\ UNCHANGED <<pc, count, overriding, loc, err, couts, groupErr, expired,
                   written>>

\* Broken variant: the location is returned along with the error.
StoreAnyLoc(i) ==
    /\ \/ Running(i, "fetched") /\ Goto(i, "stored")
       \/ Running(i, "lost") /\ Goto(i, "notStored")
    /\ loc' = i
    /\ UNCHANGED <<pc, count, overriding, err, couts, groupErr, expired,
                   written>>

\* loc, err = fetchChartAndVars(i+1, d): the assignment of loc ...
StoreLoc(i) ==
    /\ \/ Running(i, "fetched") /\ Goto(i, "stored") /\ loc' = i
       \/ Running(i, "lost") /\ Goto(i, "notStored") /\ loc' = Nil
    /\ UNCHANGED <<pc, count, overriding, err, couts, groupErr, expired,
                   written>>

\* ... and the assignment of err.
StoreErr(i) ==
    /\ \/ Running(i, "stored") /\ err' = FALSE
       \/ Running(i, "notStored") /\ err' = TRUE
    /\ Goto(i, "checkErr")
    /\ UNCHANGED <<pc, count, overriding, loc, couts, groupErr, expired,
                   written>>

\* if err != nil || loc == nil
CheckErr(i) ==
    /\ Running(i, "checkErr")
    /\ Goto(i, IF err THEN "wrap" ELSE "checkLoc")
    /\ UNCHANGED <<pc, count, overriding, loc, err, couts, groupErr, expired,
                   written>>

CheckLoc(i) ==
    /\ Running(i, "checkLoc")
    /\ Goto(i, IF loc = Nil THEN "wrap" ELSE "copy")
    /\ UNCHANGED <<pc, count, overriding, loc, err, couts, groupErr, expired,
                   written>>

\* errors.Wrapf reads err again, and of a nil error it makes nil: then the
\* goroutine ends without an error and without a location.
WrapError(i) ==
    /\ Running(i, "wrap")
    /\ Goto(i, IF err THEN "error" ELSE "ok")
    /\ groupErr' = (groupErr \/ err)
    /\ UNCHANGED <<pc, count, overriding, loc, err, couts, expired, written>>

\* couts[i] = *loc reads loc again; a nil one ends the process.
CopyLoc(i) ==
    /\ Running(i, "copy")
    /\ \/ /\ loc # Nil
          /\ couts' = [couts EXCEPT ![i] = loc]
          /\ Goto(i, "ok")
          /\ UNCHANGED pc
       \/ /\ loc = Nil
          /\ pc' = "panicked"
          /\ UNCHANGED <<couts, routine>>
    /\ UNCHANGED <<count, overriding, loc, err, groupErr, expired, written>>

Routine(i) ==
    \/ Fetch(i) \/ FetchFails(i) \/ FetchHangs(i) \/ HungFails(i)
    \/ StoreLoc(i) \/ StoreErr(i)
    \/ CheckErr(i) \/ CheckLoc(i) \/ WrapError(i) \/ CopyLoc(i)

Caller == FetchPrimary \/ PrimaryFails \/ Expire \/ Wait \/ Finish

Fetching == Caller \/ \E i \in Deps : Routine(i)

Start == \E n \in 0..MaxDeps : \E ds \in SUBSET (1..n) : Call(n, ds)

Next == Start \/ Fetching

Spec == Idle /\ [][Next]_fetchVars

\* Goroutines are scheduled, timers fire, and the fetch of the application's
\* chart ends with the context of the operation; a fetch may hang, though.
Fairness ==
    /\ WF_fetchVars(Caller)
    /\ \A i \in 1..MaxDeps : WF_fetchVars(i \in Deps /\ Routine(i))

-----------------------------------------------------------------------------
(* Properties *)

\* When FetchCharts has returned, with or without an error, none of its
\* goroutines runs any more: nobody writes to the temporary directory that
\* the caller then removes, or to the locations it uses.
AllJoined ==
    pc \in {"joined", "returned", "failed"}
        => \A i \in Deps : routine[i] \in Gone

\* Whatever the goroutines do to each other's loc and err, a location that is
\* returned is the directory of a chart that was fetched completely.
LocationsExist ==
    pc = "returned" => \A i \in Deps : couts[i] # Zero => couts[i] \in written

\* FetchCharts returns, or the process panics, also when GitHub hangs.
FetchEnds == pc = "primary" ~> pc \in Ended

\* meta.go:418: FetchCharts "returns a map of dependency name to filesystem
\* path", of the dependency's own chart.
OwnChart == pc = "returned" => \A i \in Deps : couts[i] = i
=============================================================================
