----------------------------- MODULE SerialLock -----------------------------
(***************************************************************************)
(* The UUCP-style lock file that Serial.Port keeps in Serial.LOCKDIR       *)
(* (serial/serial/serial.fec).  Several processes open the same serial     *)
(* device; each one runs the constructor, close() and the destructor of    *)
(* one Port object.  Every system call of those three functions is a step  *)
(* of its own, so the calls of different processes interleave.             *)
(*                                                                         *)
(* One lock file name is modelled: the name is built from the last         *)
(* component of the device path, so all the processes that reach the same  *)
(* name compete for it, whichever path they were given.                    *)
(***************************************************************************)
EXTENDS Naturals

CONSTANTS
    Procs,      \* process ids
    NoPid,      \* the constructor's pid variable before it was read: -1
    NoFile      \* the lock file does not exist

ASSUME NoPidAssumption == NoPid \notin Procs
ASSUME NoFileAssumption == NoFile \notin [by : Procs, written : BOOLEAN]

VARIABLES
    lock,       \* the file $LOCKDIR/LCK..<device>: who created it, and
                \* whether its creator's pid can be read out of it
    alive,      \* the process ids kill(pid, 0) finds
    pc,         \* where each process is in the functions of its Port object
    pid,        \* the local variable pid of the constructor
    hazard      \* auxiliary: which of the two things the protocol cannot
                \* cope with have happened (see Crash and UnlinkAgain)

vars == <<lock, alive, pc, pid, hazard>>

-----------------------------------------------------------------------------
(* No Port object: none was made yet, it was destroyed, or the last        *)
(* constructor call failed with EEXIST ("Device is locked") or otherwise.  *)
Idle == {"none", "EEXIST", "failed"}

(* Inside the constructor, named after the call that comes next.           *)
Constructing == {"kill", "unlink", "create", "write", "device", "getattr",
                 "undo"}

(* A Port object exists, or is being closed or destroyed.                  *)
Existing == {"open", "closing", "closed", "reclosing", "destroying",
             "redestroying"}

(* The serial device's descriptor is open.                                 *)
Using(p) == pc[p] \in {"getattr", "open"}

(* p created the lock file and has not yet come to its own unlink.         *)
Owning(p) == pc[p] \in {"write", "device", "getattr", "undo", "open",
                        "closing", "destroying"}

LockFile == [by : Procs, written : BOOLEAN]

Exists == lock # NoFile

Trans(p, from, to) == pc[p] = from /\ pc' = [pc EXCEPT ![p] = to]

TypeOK ==
    /\ lock \in LockFile \cup {NoFile}
    /\ alive \subseteq Procs
    /\ pc \in [Procs -> Idle \cup Constructing \cup Existing]
    /\ pid \in [Procs -> Procs \cup {NoPid}]
    /\ hazard \subseteq {"death", "reclose"}

Init ==
    /\ lock = NoFile
    /\ alive = {}
    /\ pc = [p \in Procs |-> "none"]
    /\ pid = [p \in Procs |-> NoPid]
    /\ hazard = {}

-----------------------------------------------------------------------------
(* Processes come and go.  A process id may be used again.                 *)

Spawn(p) ==
    /\ p \notin alive
    /\ alive' = alive \cup {p}
    /\ UNCHANGED <<lock, pc, pid, hazard>>

(* The process ends without running any more of its own code; its lock     *)
(* file stays.  The death matters to the protocol when the lock file is    *)
(* still p's, or when another process has read p's id and is about to ask  *)
(* whether p is alive.                                                     *)
Crash(p) ==
    /\ p \in alive
    /\ alive' = alive \ {p}
    /\ pc' = [pc EXCEPT ![p] = "none"]
    /\ pid' = [pid EXCEPT ![p] = NoPid]
    /\ hazard' = IF \/ Exists /\ lock.by = p
                    \/ \E q \in Procs \ {p} : pc[q] = "kill" /\ pid[q] = p
                 THEN hazard \cup {"death"}
                 ELSE hazard
    /\ UNCHANGED lock

-----------------------------------------------------------------------------
(* Port.constructor.                                                       *)

(* open(lockfile, O_RDONLY), read and close.  Without a file the device is *)
(* not locked.  A file no pid can be read from leaves pid at -1, which the *)
(* constructor reports as EEXIST.  The three calls are one step: the text  *)
(* of a lock file changes once, by its creator's single write.             *)
Probe(p) ==
    /\ p \in alive
    /\ pc[p] \in Idle
    /\ IF ~Exists
         THEN /\ pc' = [pc EXCEPT ![p] = "create"]
              /\ UNCHANGED pid
         ELSE IF lock.written
                THEN /\ pc' = [pc EXCEPT ![p] = "kill"]
                     /\ pid' = [pid EXCEPT ![p] = lock.by]
                ELSE /\ pc' = [pc EXCEPT ![p] = "EEXIST"]
                     /\ UNCHANGED pid
    /\ UNCHANGED <<lock, alive, hazard>>

(* open(lockfile, O_RDONLY) fails for another reason than ENOENT.          *)
ProbeFails(p) ==
    /\ p \in alive
    /\ pc[p] \in Idle
    /\ pc' = [pc EXCEPT ![p] = "failed"]
    /\ UNCHANGED <<lock, alive, pid, hazard>>

(* Mutants: any failure of kill, EPERM too, taken for a dead process; and  *)
(* no attempt to remove a stale file.                                      *)
CheckOwnerAnyError(p) ==
    /\ \/ Trans(p, "kill", "create")
       \/ Trans(p, "kill", "unlink")
    /\ UNCHANGED <<lock, alive, pid, hazard>>

CheckOwnerNoRemoval(p) ==
    /\ pc[p] = "kill"
    /\ pc' = [pc EXCEPT ![p] = IF pid[p] \in alive THEN "create" ELSE "EEXIST"]
    /\ UNCHANGED <<lock, alive, pid, hazard>>

(* kill(pid, 0): only ESRCH makes the constructor remove the file.  With a *)
(* living process it goes on to create the file, which O_EXCL will refuse  *)
(* unless the file has gone in the meantime.                               *)
CheckOwner(p) ==
    /\ pc[p] = "kill"
    /\ pc' = [pc EXCEPT ![p] = IF pid[p] \in alive THEN "create" ELSE "unlink"]
    /\ UNCHANGED <<lock, alive, pid, hazard>>

(* unlink(lockfile), of the name and not of the file that was read.        *)
UnlinkStale(p) ==
    /\ Exists
    /\ Trans(p, "unlink", "create")
    /\ lock' = NoFile
    /\ UNCHANGED <<alive, pid, hazard>>

(* The unlink fails, because there is no such file any more or for lack of *)
(* permission: pid becomes -1, so "Device is locked".                      *)
UnlinkStaleFails(p) ==
    /\ Trans(p, "unlink", "EEXIST")
    /\ pid' = [pid EXCEPT ![p] = NoPid]
    /\ UNCHANGED <<lock, alive, hazard>>

(* Mutant: the file opened without O_EXCL.                                 *)
CreateLockNoExcl(p) ==
    /\ Trans(p, "create", "write")
    /\ lock' = [by |-> p, written |-> FALSE]
    /\ pid' = [pid EXCEPT ![p] = NoPid]
    /\ UNCHANGED <<alive, hazard>>

(* open(lockfile, O_WRONLY | O_CREAT | O_EXCL).                            *)
CreateLock(p) ==
    /\ pc[p] = "create"
    /\ IF Exists
         THEN /\ pc' = [pc EXCEPT ![p] = "EEXIST"]
              /\ UNCHANGED lock
         ELSE /\ pc' = [pc EXCEPT ![p] = "write"]
              /\ lock' = [by |-> p, written |-> FALSE]
    /\ pid' = [pid EXCEPT ![p] = NoPid]
    /\ UNCHANGED <<alive, hazard>>

(* Mutant: the error path removes the lock file, as the later ones do.     *)
CreateLockFailsUnlink(p) ==
    /\ Trans(p, "create", "failed")
    /\ lock' = NoFile
    /\ pid' = [pid EXCEPT ![p] = NoPid]
    /\ UNCHANGED <<alive, hazard>>

(* The file cannot be created for another reason than EEXIST.              *)
CreateLockFails(p) ==
    /\ Trans(p, "create", "failed")
    /\ pid' = [pid EXCEPT ![p] = NoPid]
    /\ UNCHANGED <<lock, alive, hazard>>

(* write(fd, buf, len) and close(fd), through the descriptor: when the     *)
(* name has been unlinked meanwhile, the file that has the name now is not *)
(* touched.  The result of write is not looked at, so it may have failed.  *)
WriteLock(p) ==
    /\ Trans(p, "write", "device")
    /\ \/ /\ lock' = IF Exists /\ lock.by = p
                     THEN [lock EXCEPT !.written = TRUE]
                     ELSE lock
       \/ UNCHANGED lock
    /\ UNCHANGED <<alive, pid, hazard>>

(* open(device).  On failure the lock file is unlinked in the next step.   *)
OpenDevice(p) ==
    /\ \/ Trans(p, "device", "getattr")
       \/ Trans(p, "device", "undo")
    /\ UNCHANGED <<lock, alive, pid, hazard>>

(* Allocating the object's data and tcgetattr(fd).  When either fails the  *)
(* descriptor is closed, and the lock file unlinked in the next step.      *)
GetAttr(p) ==
    /\ \/ Trans(p, "getattr", "open")
       \/ Trans(p, "getattr", "undo")
    /\ UNCHANGED <<lock, alive, pid, hazard>>

(* The error paths' unlink(lockfile).                                      *)
UndoLock(p) ==
    /\ Trans(p, "undo", "failed")
    /\ lock' = NoFile
    /\ UNCHANGED <<alive, pid, hazard>>

-----------------------------------------------------------------------------
(* Port.close and Port.destructor.  close() does not set the descriptor    *)
(* to -1, so a second close(), and the destructor after a close(), go      *)
(* through the same two calls again.                                       *)

(* close(PORTFD) of close().                                               *)
Close(p) ==
    /\ \/ Trans(p, "open", "closing")
       \/ Trans(p, "closed", "reclosing")
    /\ UNCHANGED <<lock, alive, pid, hazard>>

(* close(PORTFD) of the destructor.                                        *)
Destroy(p) ==
    /\ \/ Trans(p, "open", "destroying")
       \/ Trans(p, "closed", "redestroying")
    /\ UNCHANGED <<lock, alive, pid, hazard>>

(* unlink(PORTLOCKFILE), the first time for this Port object.              *)
UnlinkOwn(p) ==
    /\ \/ Trans(p, "closing", "closed")
       \/ Trans(p, "destroying", "none")
    /\ lock' = NoFile
    /\ UNCHANGED <<alive, pid, hazard>>

(* unlink(PORTLOCKFILE) by a Port object that has been closed before: any  *)
(* file it finds is another process's.                                     *)
UnlinkAgain(p) ==
    /\ \/ Trans(p, "reclosing", "closed")
       \/ Trans(p, "redestroying", "none")
    /\ lock' = NoFile
    /\ hazard' = IF Exists THEN hazard \cup {"reclose"} ELSE hazard
    /\ UNCHANGED <<alive, pid>>

-----------------------------------------------------------------------------
Construct(p) ==
    \/ Probe(p) \/ ProbeFails(p) \/ CheckOwner(p)
    \/ UnlinkStale(p) \/ UnlinkStaleFails(p)
    \/ CreateLock(p) \/ CreateLockFails(p) \/ WriteLock(p)
    \/ OpenDevice(p) \/ GetAttr(p) \/ UndoLock(p)

Dispose(p) == Close(p) \/ Destroy(p) \/ UnlinkOwn(p) \/ UnlinkAgain(p)

Step(p) == Spawn(p) \/ Crash(p) \/ Construct(p) \/ Dispose(p)

Next == \E p \in Procs : Step(p)

Spec == Init /\ [][Next]_vars

-----------------------------------------------------------------------------
(* Safety.                                                                 *)

MutualExclusion == \A p, q \in Procs : Using(p) /\ Using(q) => p = q

(* Two processes never use the device at once as long as no process dies   *)
(* that the lock file names or that a constructor is asking about, and no  *)
(* closed Port object removes a lock file again: the O_EXCL create, the    *)
(* kill check and the order of create, open, close and unlink are enough.  *)
ExclusionUnlessHazard == hazard = {} => MutualExclusion

(* While neither hazard has happened a constructor never removes a lock    *)
(* file as stale, whatever the timing of the other processes.              *)
StalePathNeedsHazard ==
    hazard = {} => \A p \in Procs : pc[p] # "unlink"

(* The lock file of a process that is using the device is its own, and is  *)
(* there, as long as neither hazard has happened: no other process's error *)
(* path, close() or destructor removes it.                                 *)
UserHoldsLock ==
    hazard = {} => \A p \in Procs : Using(p) => Exists /\ lock.by = p

(* Until a hazard the lock file means what the constructor takes it for:   *)
(* both of these hold (serial.fec:133-177).                                *)
LockSound == StalePathNeedsHazard /\ UserHoldsLock

(* serial.fec:137-139 says of the file the constructor removes: "no        *)
(* process with that ID exists so it must be a stale lock file".           *)
StaleUnlinkOnlyStale ==
    [][\A p \in Procs : UnlinkStale(p) => ~Owning(lock.by)]_vars

-----------------------------------------------------------------------------
(* The lock file implements a lease of the device: a process that gets to  *)
(* use it is the only user, until a hazard has happened.                   *)
Users == {p \in Procs : Using(p)}

Lease == INSTANCE SerialLease WITH users <- Users, sound <- (hazard = {})

ImplementsLease == Lease!Spec

-----------------------------------------------------------------------------
(* Liveness.  A call that has begun goes on (the operating system          *)
(* schedules the process), a living process without a Port object keeps    *)
(* trying to make one, every Port object is destroyed in the end (SF: it   *)
(* may be closed again and again before), one process is started when none *)
(* lives, unlink is not refused for ever (SF: its failure sends the        *)
(* process back to Probe), and at last processes stop dying.  No process   *)
(* id need ever be used again.                                             *)
SpawnOne == alive = {} /\ \E p \in Procs : Spawn(p)

Fairness ==
    /\ WF_vars(SpawnOne)
    /\ \A p \in Procs :
          /\ WF_vars(Probe(p)) /\ WF_vars(CheckOwner(p))
          /\ SF_vars(UnlinkStale(p))
          /\ WF_vars(CreateLock(p)) /\ WF_vars(WriteLock(p))
          /\ WF_vars(OpenDevice(p)) /\ WF_vars(GetAttr(p))
          /\ WF_vars(UndoLock(p))
          /\ SF_vars(Destroy(p))
          /\ WF_vars(UnlinkOwn(p)) /\ WF_vars(UnlinkAgain(p))

DeathsEnd == <>[][\A p \in Procs : ~Crash(p)]_vars

LiveSpec == Spec /\ Fairness /\ DeathsEnd

Stale == Exists /\ lock.written /\ lock.by \notin alive

(* A lock file that names a dead process does not keep the device locked:  *)
(* it is removed, or its process id comes to life again.                   *)
StaleRecovered == Stale ~> ~Stale
=============================================================================
