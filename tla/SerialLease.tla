----------------------------- MODULE SerialLease -----------------------------
(***************************************************************************)
(* What the lock file of SerialLock promises to the users of a serial      *)
(* device: a lease that one process holds at a time, until the day one of  *)
(* the hazards of the lock file protocol has made it unsound.  From then   *)
(* on any number of processes may hold it.                                 *)
(***************************************************************************)
CONSTANT Procs      \* process ids

VARIABLES
    users,          \* the processes that have the device open
    sound           \* neither hazard has happened yet

leaseVars == <<users, sound>>

Init == users = {} /\ sound = TRUE

(* A process gets the device: a sound lease is given only when it is free. *)
Acquire(p) ==
    /\ p \notin users
    /\ sound => users = {}
    /\ users' = users \cup {p}
    /\ UNCHANGED sound

(* A process gives the device back.  When it dies without giving the lock  *)
(* file back too, the lease is no longer sound.                            *)
Release(p) ==
    /\ p \in users
    /\ users' = users \ {p}
    /\ sound' \in {sound, FALSE}

(* A hazard that does not take the device from anyone.                     *)
Compromise ==
    /\ sound' = FALSE
    /\ UNCHANGED users

Next == Compromise \/ \E p \in Procs : Acquire(p) \/ Release(p)

Spec == Init /\ [][Next]_leaseVars
=============================================================================
