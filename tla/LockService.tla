---------------------------- MODULE LockService ----------------------------
(***************************************************************************)
(* What pkg/locker promises to the callers of PreemptiveLocker for one key  *)
(* (the doc comments of PreemptiveLocker and PreemptableLock in locker.go), *)
(* without sessions, notifications or time: a mutex whose clients may be    *)
(* refused, may be told to leave, and take part only once.                  *)
(***************************************************************************)

CONSTANT Clients

VARIABLE phase

Phases == {"out", "trying", "in", "leaving", "gone"}

TypeOK == phase \in [Clients -> Phases]

Init == phase = [c \in Clients |-> "out"]

Step(c, from, to) == phase[c] \in from /\ phase' = [phase EXCEPT ![c] = to]

\* Lock is called.
Request(c) == Step(c, {"out"}, "trying")

\* Lock returns the channel: nobody else is in.
Enter(c) ==
    /\ \A d \in Clients \ {c} : phase[d] # "in"
    /\ Step(c, {"trying"}, "in")

\* Lock returns an error: a failure, a timeout or a preemption.
Refuse(c) == Step(c, {"out", "trying"}, "gone")

\* The client receives the notification that it should release the lock.
Tell(c) == Step(c, {"in"}, "leaving")

\* Release, or the death of the client.
Leave(c) == Step(c, {"in", "leaving"}, "gone")

Next == \E c \in Clients :
            Request(c) \/ Enter(c) \/ Refuse(c) \/ Tell(c) \/ Leave(c)

\* Lock returns, and a client that was told to leave leaves.
Fairness ==
    \A c \in Clients :
        /\ WF_phase(phase[c] = "trying" /\ (Enter(c) \/ Refuse(c)))
        /\ WF_phase(phase[c] = "leaving" /\ Leave(c))

SafeSpec == Init /\ [][Next]_phase

Spec == SafeSpec /\ Fairness

Mutex == \A c, d \in Clients : phase[c] = "in" /\ phase[d] = "in" => c = d

=============================================================================
