---------------------------- MODULE Serial_proofs ----------------------------
(***************************************************************************)
(* Proofs about the two parts of Serial.Port.  SerialLock: for every set   *)
(* of process ids, the device has one user at a time until one of two      *)
(* known things happens, and the protocol implements the abstract lease.   *)
(* SerialSettings: for any settings, arguments and number of calls, what   *)
(* the object believes is what the device uses unless there is a reason    *)
(* for it, a call changes what it is named for, and restoreSettings brings *)
(* back what was saved last.                                               *)
(***************************************************************************)
EXTENDS SerialLock, SerialSettings, TLAPS

(* A dead process runs no code.                                            *)
DeadIdle == \A p \in Procs : p \notin alive => pc[p] = "none"

(* As long as neither hazard has happened: the lock file names a living    *)
(* process, so does every pid a constructor is about to ask for, nobody is *)
(* on the way to removing a stale file, and whoever created a lock file    *)
(* and has not removed it still finds it under the name.                   *)
SoundLock ==
    hazard = {} =>
       /\ Exists => lock.by \in alive
       /\ \A p \in Procs : pc[p] # "unlink"
       /\ \A p \in Procs : pc[p] = "kill" => pid[p] \in alive
       /\ \A p \in Procs : Owning(p) => Exists /\ lock.by = p

IInv == TypeOK /\ DeadIdle /\ SoundLock

-----------------------------------------------------------------------------
(* The type invariant: every function of Port keeps its variables in their *)
(* types.                                                                  *)
LEMMA TypeStep == TypeOK /\ [Next]_vars => TypeOK'
<1> SUFFICES ASSUME TypeOK, [Next]_vars PROVE TypeOK'
  OBVIOUS
<1> USE DEF TypeOK, Idle, Constructing, Existing, LockFile, Exists, Trans
<1>1. CASE UNCHANGED vars
  BY <1>1 DEF vars
<1>2. ASSUME NEW p \in Procs, Spawn(p) PROVE TypeOK'
  BY <1>2 DEF Spawn
<1>3. ASSUME NEW p \in Procs, Crash(p) PROVE TypeOK'
  BY <1>3 DEF Crash
<1>4. ASSUME NEW p \in Procs, Construct(p) PROVE TypeOK'
  <2>1. CASE Probe(p)
    BY <2>1 DEF Probe
  <2>2. CASE ProbeFails(p)
    BY <2>2 DEF ProbeFails
  <2>3. CASE CheckOwner(p)
    BY <2>3 DEF CheckOwner
  <2>4. CASE UnlinkStale(p)
    BY <2>4 DEF UnlinkStale
  <2>5. CASE UnlinkStaleFails(p)
    BY <2>5 DEF UnlinkStaleFails
  <2>6. CASE CreateLock(p)
    <3>1. [by |-> p, written |-> FALSE] \in LockFile
      OBVIOUS
    <3>2. lock' \in LockFile \cup {NoFile}
      BY <2>6, <3>1 DEF CreateLock
    <3> QED
      BY <2>6, <3>2 DEF CreateLock
  <2>7. CASE CreateLockFails(p)
    BY <2>7 DEF CreateLockFails
  <2>8. CASE WriteLock(p)
    BY <2>8 DEF WriteLock
  <2>9. CASE OpenDevice(p)
    BY <2>9 DEF OpenDevice
  <2>10. CASE GetAttr(p)
    BY <2>10 DEF GetAttr
  <2>11. CASE UndoLock(p)
    BY <2>11 DEF UndoLock
  <2> QED
    BY <1>4, <2>1, <2>2, <2>3, <2>4, <2>5, <2>6, <2>7, <2>8, <2>9, <2>10,
       <2>11 DEF Construct
<1>5. ASSUME NEW p \in Procs, Dispose(p) PROVE TypeOK'
  <2>1. CASE Close(p)
    BY <2>1 DEF Close
  <2>2. CASE Destroy(p)
    BY <2>2 DEF Destroy
  <2>3. CASE UnlinkOwn(p)
    BY <2>3 DEF UnlinkOwn
  <2>4. CASE UnlinkAgain(p)
    BY <2>4 DEF UnlinkAgain
  <2> QED
    BY <1>5, <2>1, <2>2, <2>3, <2>4 DEF Dispose
<1> QED
  BY <1>1, <1>2, <1>3, <1>4, <1>5 DEF Next, Step
(* Every function of Port keeps its variables in their types               *)
(* (serial.fec:77-208, 861-875).                                           *)
THEOREM TypeCorrect == Spec => []TypeOK
<1>1. Init => TypeOK
  BY DEF Init, TypeOK, Idle, Constructing, Existing
<1> QED
  BY <1>1, TypeStep, PTL DEF Spec

-----------------------------------------------------------------------------
(* There is no lock file and no Port object.                               *)
LEMMA InitInv == Init => IInv
  BY DEF Init, IInv, TypeOK, DeadIdle, SoundLock, Idle, Constructing,
         Existing, Owning, Exists

(* A lock file is not NoFile.                                              *)
LEMMA AFileExists ==
  ASSUME NEW p \in Procs, NEW f,
         \/ f = [by |-> p, written |-> FALSE]
         \/ f = [by |-> p, written |-> TRUE]
  PROVE  f # NoFile /\ f.by = p
<1>1. /\ [by |-> p, written |-> FALSE] \in [by : Procs, written : BOOLEAN]
      /\ [by |-> p, written |-> TRUE] \in [by : Procs, written : BOOLEAN]
  OBVIOUS
<1>2. f.by = p
  OBVIOUS
<1> QED
  BY <1>1, <1>2, NoFileAssumption

(* Processes that come, and processes that die while nobody depends on     *)
(* them: a death that someone depends on is a hazard.                      *)
LEMMA LifeInv ==
  ASSUME IInv, NEW p \in Procs, Spawn(p) \/ Crash(p), TypeOK'
  PROVE  DeadIdle' /\ SoundLock'
<1> USE DEF IInv, TypeOK, DeadIdle, SoundLock, Owning, Exists, LockFile
<1>1. CASE Spawn(p)
  BY <1>1 DEF Spawn
<1>2. CASE Crash(p)
  <2>1. DeadIdle'
    BY <1>2 DEF Crash
  <2>2. ASSUME hazard' = {}
        PROVE  /\ hazard = {}
               /\ ~(Exists /\ lock.by = p)
               /\ \A q \in Procs \ {p} : ~(pc[q] = "kill" /\ pid[q] = p)
    BY <1>2, <2>2 DEF Crash
  <2>3. SoundLock'
    BY <1>2, <2>2 DEF Crash
  <2> QED
    BY <2>1, <2>3
<1> QED
  BY <1>1, <1>2

(* The constructor.  CheckOwner answers "alive" because a pid that is read *)
(* from the lock file is that of a living process and stays alive; the     *)
(* error paths remove the file the constructor itself has created.         *)
LEMMA ConstructInv ==
  ASSUME IInv, NEW p \in Procs, Construct(p), TypeOK'
  PROVE  DeadIdle' /\ SoundLock'
<1> USE DEF IInv, TypeOK, DeadIdle, SoundLock, Owning, Exists, LockFile,
            Trans, Idle
<1>0. p \in alive
  BY DEF Construct, Probe, ProbeFails, CheckOwner, UnlinkStale,
         UnlinkStaleFails, CreateLock, CreateLockFails, WriteLock,
         OpenDevice, GetAttr, UndoLock
<1>1. CASE Probe(p)
  BY <1>0, <1>1 DEF Probe
<1>2. CASE ProbeFails(p)
  BY <1>0, <1>2 DEF ProbeFails
<1>3. CASE CheckOwner(p)
  BY <1>0, <1>3 DEF CheckOwner
<1>4. CASE UnlinkStale(p)
  BY <1>0, <1>4 DEF UnlinkStale
<1>5. CASE UnlinkStaleFails(p)
  BY <1>0, <1>5 DEF UnlinkStaleFails
<1>6. CASE CreateLock(p)
  <2>1. CASE Exists
    BY <1>0, <1>6, <2>1 DEF CreateLock
  <2>2. CASE ~Exists
    <3>1. lock' = [by |-> p, written |-> FALSE]
      BY <1>6, <2>2 DEF CreateLock
    <3>2. lock' # NoFile /\ lock'.by = p
      BY <3>1, AFileExists
    <3> QED
      BY <1>0, <1>6, <2>2, <3>2 DEF CreateLock
  <2> QED
    BY <2>1, <2>2
<1>7. CASE CreateLockFails(p)
  BY <1>0, <1>7 DEF CreateLockFails
<1>8. CASE WriteLock(p)
  <2>1. CASE lock' = lock
    BY <1>0, <1>8, <2>1 DEF WriteLock
  <2>2. CASE Exists /\ lock' = [lock EXCEPT !.written = TRUE]
    <3>1. lock' = [by |-> lock.by, written |-> TRUE] /\ lock.by \in Procs
      BY <2>2
    <3>2. lock' # NoFile /\ lock'.by = lock.by
      BY <3>1, AFileExists
    <3> QED
      BY <1>0, <1>8, <2>2, <3>2 DEF WriteLock
  <2> QED
    BY <1>8, <2>1, <2>2 DEF WriteLock
<1>9. CASE OpenDevice(p)
  BY <1>0, <1>9 DEF OpenDevice
<1>10. CASE GetAttr(p)
  BY <1>0, <1>10 DEF GetAttr
<1>11. CASE UndoLock(p)
  BY <1>0, <1>11 DEF UndoLock
<1> QED
  BY <1>1, <1>2, <1>3, <1>4, <1>5, <1>6, <1>7, <1>8, <1>9, <1>10, <1>11
     DEF Construct

(* close() and the destructor.  The first unlink removes the object's own  *)
(* file, the only one there is; a later one that finds a file is a hazard. *)
LEMMA DisposeInv ==
  ASSUME IInv, NEW p \in Procs, Dispose(p), TypeOK'
  PROVE  DeadIdle' /\ SoundLock'
<1> USE DEF IInv, TypeOK, DeadIdle, SoundLock, Owning, Exists, LockFile,
            Trans
<1>0. p \in alive
  BY DEF Dispose, Close, Destroy, UnlinkOwn, UnlinkAgain
<1>1. CASE Close(p)
  BY <1>0, <1>1 DEF Close
<1>2. CASE Destroy(p)
  BY <1>0, <1>2 DEF Destroy
<1>3. CASE UnlinkOwn(p)
  BY <1>0, <1>3 DEF UnlinkOwn
<1>4. CASE UnlinkAgain(p)
  BY <1>0, <1>4 DEF UnlinkAgain
<1> QED
  BY <1>1, <1>2, <1>3, <1>4 DEF Dispose

(* Every system call keeps the invariant.                                  *)
LEMMA NextInv == IInv /\ [Next]_vars => IInv'
<1> SUFFICES ASSUME IInv, [Next]_vars PROVE IInv'
  OBVIOUS
<1>1. TypeOK'
  BY TypeStep DEF IInv
<1>2. CASE UNCHANGED vars
  BY <1>1, <1>2 DEF IInv, vars, DeadIdle, SoundLock, Owning, Exists
<1>3. ASSUME NEW p \in Procs, Step(p) PROVE DeadIdle' /\ SoundLock'
  BY <1>1, <1>3, LifeInv, ConstructInv, DisposeInv DEF Step
<1> QED
  BY <1>1, <1>2, <1>3 DEF IInv, Next

(* The invariant of the lock file protocol.                                *)
LEMMA Invariance == Spec => []IInv
  BY InitInv, NextInv, PTL DEF Spec

-----------------------------------------------------------------------------
(* At most one process uses the device, unless a process the lock file or  *)
(* a constructor relied on has died, or a closed Port object has removed   *)
(* another process's lock file.                                            *)
THEOREM Exclusion == Spec => []ExclusionUnlessHazard
<1>1. IInv => ExclusionUnlessHazard
  BY DEF IInv, SoundLock, ExclusionUnlessHazard, MutualExclusion, Using,
         Owning
<1> QED
  BY <1>1, Invariance, PTL

(* Before a hazard nobody takes the stale path, so the constructor's       *)
(* unlink never takes part in a race.                                      *)
THEOREM NoStalePath == Spec => []StalePathNeedsHazard
<1>1. IInv => StalePathNeedsHazard
  BY DEF IInv, SoundLock, StalePathNeedsHazard
<1> QED
  BY <1>1, Invariance, PTL

(* Before a hazard the user of the device has its own lock file in place.  *)
THEOREM UserLocked == Spec => []UserHoldsLock
<1>1. IInv => UserHoldsLock
  BY DEF IInv, SoundLock, UserHoldsLock, Using, Owning
<1> QED
  BY <1>1, Invariance, PTL

(* Both together are the property the runs check.                          *)
THEOREM LockSoundThm == Spec => []LockSound
  BY NoStalePath, UserLocked, PTL DEF LockSound

-----------------------------------------------------------------------------
(* The lock file implements the abstract lease: each step of the protocol  *)
(* is a step of SerialLease or leaves its variables alone.                 *)
LEMMA LeaseInit == Init => Lease!Init
  BY DEF Init, Lease!Init, Users, Using

(* A step of p makes p a user or stops it from being one.                  *)
LEMMA UsersStep ==
  ASSUME TypeOK, NEW p \in Procs, NEW to, pc' = [pc EXCEPT ![p] = to]
  PROVE  Users' = IF to \in {"getattr", "open"} THEN Users \cup {p}
                                                ELSE Users \ {p}
  BY DEF TypeOK, Users, Using

(* Every system call is a step of the lease or a stutter.                  *)
LEMMA LeaseStep ==
  ASSUME IInv, [Next]_vars
  PROVE  [Lease!Next]_(Lease!leaseVars)
<1> DEFINE S == hazard = {}
<1> USE DEF Lease!leaseVars
<1>1. CASE UNCHANGED vars
  BY <1>1 DEF vars, Users, Using
<1>2. ASSUME NEW p \in Procs, Step(p)
      PROVE  [Lease!Next]_(Lease!leaseVars)
  <2> USE DEF Trans
  <2>1. CASE Spawn(p)
    BY <2>1 DEF Spawn, Users, Using
  <2>2. CASE Crash(p)
    <3>1. Users' = Users \ {p}
      BY <2>2, UsersStep DEF Crash, IInv
    <3>2. (hazard' = {}) \in {hazard = {}, FALSE}
      BY <2>2 DEF Crash
    <3> QED
      BY <3>1, <3>2 DEF Lease!Next, Lease!Release, Lease!Compromise
  <2>3. CASE OpenDevice(p)
    <3>1. CASE pc' = [pc EXCEPT ![p] = "getattr"]
      <4>1. Users' = Users \cup {p} /\ UNCHANGED hazard
        BY <2>3, <3>1, UsersStep DEF OpenDevice, IInv
      <4>2. p \notin Users
        BY <2>3 DEF OpenDevice, Users, Using
      <4>3. hazard = {} => Users = {}
        BY <2>3 DEF OpenDevice, IInv, SoundLock, Users, Using, Owning
      <4> QED
        BY <4>1, <4>2, <4>3 DEF Lease!Next, Lease!Acquire
    <3>2. CASE pc' = [pc EXCEPT ![p] = "undo"]
      BY <2>3, <3>2, UsersStep DEF OpenDevice, IInv, Users, Using
    <3> QED
      BY <2>3, <3>1, <3>2 DEF OpenDevice
  <2>4. CASE UnlinkAgain(p)
    <3>1. Users' = Users
      BY <2>4, UsersStep DEF UnlinkAgain, IInv, Users, Using
    <3>2. (hazard' = {}) \in {hazard = {}, FALSE}
      BY <2>4 DEF UnlinkAgain
    <3> QED
      BY <3>1, <3>2 DEF Lease!Next, Lease!Compromise
  <2>5. ASSUME Users' = Users \ {p}, UNCHANGED hazard
        PROVE  [Lease!Next]_(Lease!leaseVars)
    BY <2>5 DEF Lease!Next, Lease!Release
  <2>6. CASE GetAttr(p)
    BY <2>5, <2>6, UsersStep DEF GetAttr, IInv, Users, Using
  <2>7. CASE Close(p) \/ Destroy(p) \/ UnlinkOwn(p)
    BY <2>5, <2>7, UsersStep DEF Close, Destroy, UnlinkOwn, IInv
  <2>8. CASE \/ Probe(p) \/ ProbeFails(p) \/ CheckOwner(p)
             \/ UnlinkStale(p) \/ UnlinkStaleFails(p)
             \/ CreateLock(p) \/ CreateLockFails(p) \/ WriteLock(p)
             \/ UndoLock(p)
    <3>1. UNCHANGED hazard
      BY <2>8 DEF Probe, ProbeFails, CheckOwner, UnlinkStale,
         UnlinkStaleFails, CreateLock, CreateLockFails, WriteLock, UndoLock
    <3>2. \E to \in Idle \cup Constructing :
             /\ pc' = [pc EXCEPT ![p] = to]
             /\ to # "getattr"
      BY <2>8 DEF Idle, Constructing, Probe, ProbeFails, CheckOwner,
         UnlinkStale, UnlinkStaleFails, CreateLock, CreateLockFails,
         WriteLock, UndoLock
    <3>3. Users' = Users \ {p}
      BY <3>2, UsersStep DEF Idle, Constructing, IInv
    <3> QED
      BY <2>5, <3>1, <3>3
  <2> QED
    BY <1>2, <2>1, <2>2, <2>3, <2>4, <2>6, <2>7, <2>8
       DEF Step, Construct, Dispose
<1> QED
  BY <1>1, <1>2 DEF Next

(* Every behaviour of the lock file protocol is one of the lease: a        *)
(* process is given the device only when it is free, up to the first       *)
(* hazard.                                                                 *)
THEOREM ImplementsLeaseThm == Spec => ImplementsLease
  BY LeaseInit, LeaseStep, Invariance, PTL
     DEF Spec, ImplementsLease, Lease!Spec

-----------------------------------------------------------------------------
(* The settings                                                            *)

(* What was saved last is what the device used then.                       *)
SavedRight ==
    /\ saved = mark
    /\ job.op = "restoreSettings" => job.target = saved

(* A setter that waits hands PORTTI to the device as it is.                *)
TargetRight ==
    job.op \notin {"none", "waitForOutput", "restoreSettings"} => job.target = shadow

(* The setting f is one of the setter that waits.                          *)
Underway(f) == job.op \in Setters /\ f \in Own[job.op]

(* PORTTI is what the device uses, but for the fields of setters that      *)
(* failed and of one that waits.                                           *)
DriftRight ==
    drift \subseteq Setters =>
      \A f \in Fields : shadow[f] # device[f] => LeftBehind(f) \/ Underway(f)

(* After restoreSettings the device uses what was saved.                   *)
RestoredRight ==
    "restored" \in drift /\ drift \cap {"partial", "outside"} = {} => device = saved

SettingsInv ==
    SettingsTypeOK /\ SavedRight /\ TargetRight /\ DriftRight /\ RestoredRight

(* Why PORTTI and the device may differ.                                   *)
Reasons == Setters \cup {"restored", "partial", "outside"}

-----------------------------------------------------------------------------
(* Configurations                                                          *)

LEMMA ConfigFields ==
    ASSUME NEW c \in Config
    PROVE  DOMAIN c = Fields
  BY DEF Config, Fields

LEMMA ConfigEqual ==
    ASSUME NEW c \in Config, NEW d \in Config, \A f \in Fields : c[f] = d[f]
    PROVE  c = d
  BY DEF Config, Fields

(* What each setter makes of PORTTI are settings again, and differ from it *)
(* only in the fields the setter owns.                                     *)
Changes(op, new) ==
    new \in Config /\ \A f \in Fields \ Own[op] : new[f] = shadow[f]

LEMMA OwnFields ==
    /\ Own["initSettings"] = Fields
    /\ Own["restoreSettings"] = Fields
    /\ Own["setDataBits"] = {"bits"}
    /\ Own["setStopBits"] = {"stop2"}
    /\ Own["setParity"] = {"parenb", "parodd"}
    /\ Own["setFlowControl"] = {"rtscts", "xonxoff"}
    /\ Own["setSpeed"] = {"ispeed", "ospeed"}
    /\ Own["waitForOutput"] = {}
  BY DEF Own, Ops

LEMMA BaudsAreNat == Bauds \subseteq Nat
  BY DEF Bauds

LEMMA SettersChange ==
    ASSUME SettingsTypeOK
    PROVE  /\ Changes("initSettings", Defaults(shadow))
           /\ \A bits \in 5..8 : Changes("setDataBits", [shadow EXCEPT !.bits = bits])
           /\ \A b \in BOOLEAN : Changes("setStopBits", [shadow EXCEPT !.stop2 = b])
           /\ \A type : Changes("setParity", WithParity(shadow, type))
           /\ \A type : Changes("setFlowControl", WithFlow(shadow, type))
           /\ \A in, out \in Nat : Changes("setSpeed", WithSpeeds(shadow, in, out))
           /\ \A in \in Nat : Changes("setSpeed", [shadow EXCEPT !.ispeed = Speed(in)])
           /\ \A op \in Ops : Changes(op, shadow)
<1>1. shadow \in Config
  BY DEF SettingsTypeOK
<1>2. Changes("initSettings", Defaults(shadow))
  <2> DEFINE flags == SUBSET {"IXON", "IXOFF"}
             rates == {"B"} \X Nat
             rate == Speed(9600)
             none == {}
             no == FALSE
  <2>1. no \in BOOLEAN /\ rate \in rates /\ none \in flags
    BY DEF Speed
  <2>2. Config = [bits : 5..8, stop2 : BOOLEAN, parenb : BOOLEAN, parodd : BOOLEAN,
                  rtscts : BOOLEAN, xonxoff : flags, ispeed : rates, ospeed : rates]
    BY DEF Config
  <2> HIDE DEF flags, rates, rate, none, no
  <2> DEFINE a == [shadow EXCEPT !.bits = 8]
             b == [a EXCEPT !.stop2 = no]
             c == [b EXCEPT !.parenb = no, !.rtscts = no]
  <2>3. a \in Config
    BY <1>1 DEF Config
  <2> HIDE DEF a
  <2>4. b \in Config
    BY <2>1, <2>2, <2>3
  <2> HIDE DEF b
  <2>5. c \in Config
    BY <2>1, <2>2, <2>4
  <2> HIDE DEF c
  <2>6. [c EXCEPT !.xonxoff = none, !.ispeed = rate, !.ospeed = rate] \in Config
    BY <2>1, <2>2, <2>5
  <2>7. Defaults(shadow) \in Config
    BY <2>6 DEF Defaults, a, b, c, rate, none, no
  <2> QED
    BY <2>7, OwnFields DEF Changes
<1>3. \A bits \in 5..8 : Changes("setDataBits", [shadow EXCEPT !.bits = bits])
  BY <1>1, OwnFields DEF Changes, Config, Fields
<1>4. \A b \in BOOLEAN : Changes("setStopBits", [shadow EXCEPT !.stop2 = b])
  BY <1>1, OwnFields DEF Changes, Config, Fields
<1>5. \A type : Changes("setParity", WithParity(shadow, type))
  BY <1>1, OwnFields DEF Changes, Config, Fields, WithParity
<1>6. \A type : Changes("setFlowControl", WithFlow(shadow, type))
  <2> SUFFICES ASSUME NEW type PROVE Changes("setFlowControl", WithFlow(shadow, type))
    OBVIOUS
  <2> DEFINE on == type \in {2, 3}
             x == IF type \in {1, 3} THEN {"IXON", "IXOFF"} ELSE {}
  <2>1. on \in BOOLEAN /\ x \in SUBSET {"IXON", "IXOFF"}
    OBVIOUS
  <2>2. WithFlow(shadow, type) = [shadow EXCEPT !.rtscts = on, !.xonxoff = x]
    BY DEF WithFlow
  <2> HIDE DEF on, x
  <2>3. [shadow EXCEPT !.rtscts = on, !.xonxoff = x] \in Config
    BY <1>1, <2>1 DEF Config
  <2>4. \A f \in Fields \ {"rtscts", "xonxoff"} :
          [shadow EXCEPT !.rtscts = on, !.xonxoff = x][f] = shadow[f]
    BY <1>1 DEF Config, Fields
  <2> QED
    BY <2>2, <2>3, <2>4, OwnFields DEF Changes
<1>7. \A in, out \in Nat : Changes("setSpeed", WithSpeeds(shadow, in, out))
  BY <1>1, OwnFields DEF Changes, Config, Fields, WithSpeeds, Speed
<1>8. \A in \in Nat : Changes("setSpeed", [shadow EXCEPT !.ispeed = Speed(in)])
  BY <1>1, OwnFields DEF Changes, Config, Fields, Speed
<1>9. \A op \in Ops : Changes(op, shadow)
  BY <1>1 DEF Changes
<1> QED
  BY <1>2, <1>3, <1>4, <1>5, <1>6, <1>7, <1>8, <1>9

-----------------------------------------------------------------------------
(* The invariant                                                           *)

LEMMA InitSettingsInv == SettingsInit => SettingsInv
<1> SUFFICES ASSUME SettingsInit PROVE SettingsInv
  OBVIOUS
<1>1. SettingsTypeOK
  <2>1. {shadow, saved, device, mark} \subseteq Config /\ calls \in 0..MaxCalls
    BY SettingsAssumption DEF SettingsInit
  <2> QED
    BY <2>1 DEF SettingsInit, SettingsTypeOK
<1>2. SavedRight /\ TargetRight /\ DriftRight /\ RestoredRight
  BY DEF SettingsInit, SavedRight, TargetRight, DriftRight, RestoredRight, NoJob
<1> QED
  BY <1>1, <1>2 DEF SettingsInv

(* The setters wait in Start or return in Refuse.                          *)
LEMMA StartKeeps ==
    ASSUME SettingsInv, NEW op \in Setters, NEW new, Changes(op, new), Start(op, new)
    PROVE  SettingsInv'
<1> USE DEF Start
<1>1. SettingsTypeOK'
  BY SettingsAssumption DEF SettingsInv, SettingsTypeOK, Changes, Ops, Setters
<1>2. job'.op = op /\ job'.target = new /\ job.op = "none"
  BY DEF NoCall, NoJob
<1>3. SavedRight' /\ TargetRight' /\ RestoredRight'
  BY <1>2 DEF SettingsInv, SavedRight, TargetRight, RestoredRight, Setters
<1>4. DriftRight'
  <2> SUFFICES ASSUME drift \subseteq Setters, NEW f \in Fields \ Own[op], new[f] # device[f]
               PROVE  LeftBehind(f)
    BY <1>2 DEF DriftRight, Underway, LeftBehind
  <2>1. shadow[f] # device[f]
    BY DEF Changes
  <2> QED
    BY <1>2, <2>1 DEF SettingsInv, DriftRight, Underway, Setters, Ops
<1> QED
  BY <1>1, <1>3, <1>4 DEF SettingsInv

LEMMA RefuseKeeps ==
    ASSUME SettingsInv, NEW op \in Setters, NEW new, Changes(op, new), Refuse(op, new)
    PROVE  SettingsInv'
<1> USE DEF Refuse
<1>1. SettingsTypeOK'
  <2>1. drift' \subseteq Setters \cup {"restored", "partial", "outside"}
    <3>1. drift' \subseteq drift \cup {op}
      OBVIOUS
    <3> QED
      BY <3>1 DEF SettingsInv, SettingsTypeOK
  <2>2. job' = job /\ calls' \in 0..MaxCalls
    BY SettingsAssumption DEF SettingsInv, SettingsTypeOK
  <2> QED
    BY <2>1, <2>2 DEF SettingsInv, SettingsTypeOK, Changes
<1>2. job'.op = "none" /\ job.op = "none"
  BY DEF NoCall, NoJob
<1>3. SavedRight' /\ TargetRight' /\ RestoredRight'
  <2>1. "restored" \notin Setters /\ "partial" \notin Setters /\ "outside" \notin Setters
    BY DEF Setters, Ops
  <2> QED
    BY <1>2, <2>1 DEF SettingsInv, SavedRight, TargetRight, RestoredRight
<1>4. DriftRight'
  <2> SUFFICES ASSUME drift' \subseteq Setters, NEW f \in Fields, new[f] # device[f],
                      ~LeftBehind(f)'
               PROVE  FALSE
    BY DEF DriftRight
  <2>1. f \notin Own[op] \/ new = shadow
    BY DEF LeftBehind
  <2>2. shadow[f] # device[f]
    BY <2>1 DEF Changes
  <2>3. drift \subseteq Setters /\ ~LeftBehind(f)
    BY DEF LeftBehind
  <2> QED
    BY <1>2, <2>2, <2>3 DEF SettingsInv, DriftRight, Underway, Setters, Ops
<1> QED
  BY <1>1, <1>3, <1>4 DEF SettingsInv

(* Every setter is one of the two.                                         *)
LEMMA SettersKeep ==
    ASSUME SettingsInv,
           \/ initSettings
           \/ \E n \in DataBits : setDataBits(n)
           \/ \E n \in StopBits : setStopBits(n)
           \/ \E type \in Parities : setParity(type)
           \/ \E type \in FlowControls : setFlowControl(type)
           \/ \E in, out \in Speeds : setSpeed(in, out)
    PROVE  SettingsInv'
<1>1. SettingsTypeOK
  BY DEF SettingsInv
<1>2. CASE initSettings
  BY <1>1, <1>2, SettersChange, StartKeeps DEF initSettings, Setters, Ops
<1>3. ASSUME NEW n \in DataBits, setDataBits(n) PROVE SettingsInv'
  BY <1>1, <1>3, SettersChange, StartKeeps, RefuseKeeps DEF setDataBits, Setters, Ops
<1>4. ASSUME NEW n \in StopBits, setStopBits(n) PROVE SettingsInv'
  BY <1>1, <1>4, SettersChange, StartKeeps, RefuseKeeps DEF setStopBits, Setters, Ops
<1>5. ASSUME NEW type \in Parities, setParity(type) PROVE SettingsInv'
  BY <1>1, <1>5, SettersChange, StartKeeps, RefuseKeeps DEF setParity, Setters, Ops
<1>6. ASSUME NEW type \in FlowControls, setFlowControl(type) PROVE SettingsInv'
  BY <1>1, <1>6, SettersChange, StartKeeps, RefuseKeeps DEF setFlowControl, Setters, Ops
<1>7. ASSUME NEW in \in Speeds, NEW out \in Speeds, setSpeed(in, out) PROVE SettingsInv'
  <2>1. CASE ~Known(in)
    BY <1>1, <1>7, <2>1, SettersChange, RefuseKeeps DEF setSpeed, Setters, Ops
  <2>2. CASE Known(in) /\ ~Known(out)
    BY <1>1, <1>7, <2>2, SettersChange, RefuseKeeps, BaudsAreNat DEF setSpeed, Setters, Ops, Known
  <2>3. CASE Known(in) /\ Known(out)
    BY <1>1, <1>7, <2>3, SettersChange, StartKeeps, BaudsAreNat DEF setSpeed, Setters, Ops, Known
  <2> QED
    BY <2>1, <2>2, <2>3
<1> QED
  BY <1>2, <1>3, <1>4, <1>5, <1>6, <1>7

LEMMA WaitersKeep ==
    ASSUME SettingsInv, restoreSettings \/ waitForOutput
    PROVE  SettingsInv'
<1>1. job = NoJob /\ job.op = "none"
  BY DEF restoreSettings, waitForOutput, NoCall, NoJob
<1>2. SettingsTypeOK'
  <2>1. job' \in {NoJob, [op |-> "waitForOutput"]}
                  \cup [op : Ops \ {"waitForOutput"}, target : Config]
    <3>1. saved \in Config /\ "restoreSettings" \in Ops \ {"waitForOutput"}
      BY DEF SettingsInv, SettingsTypeOK, Ops
    <3> QED
      BY <3>1 DEF restoreSettings, waitForOutput
  <2>2. calls' \in 0..MaxCalls
    BY SettingsAssumption DEF SettingsInv, SettingsTypeOK, restoreSettings, waitForOutput
  <2> QED
    BY <2>1, <2>2 DEF SettingsInv, SettingsTypeOK, restoreSettings, waitForOutput
<1>3. job'.op \notin Setters /\ job.op \notin Setters
  BY <1>1 DEF restoreSettings, waitForOutput, Setters, Ops
<1>4. UNCHANGED <<shadow, saved, device, mark, drift>>
  BY DEF restoreSettings, waitForOutput
<1>5. SavedRight' /\ TargetRight' /\ RestoredRight'
  BY <1>1, <1>3, <1>4 DEF SettingsInv, SavedRight, TargetRight, RestoredRight, restoreSettings,
     waitForOutput
<1>6. DriftRight'
  BY <1>3, <1>4 DEF SettingsInv, DriftRight, LeftBehind, Underway
<1> QED
  BY <1>2, <1>5, <1>6 DEF SettingsInv

(* A job that is no waitForOutput has settings to put into place.          *)
LEMMA JobTarget ==
    ASSUME SettingsTypeOK, ~NoCall, job.op # "waitForOutput"
    PROVE  job.op \in Ops \ {"waitForOutput"} /\ job.target \in Config
  BY DEF SettingsTypeOK, NoCall

(* A call that returns leaves the settings in order if it leaves PORTTI    *)
(* and the device so.                                                      *)
LEMMA AnswerKeeps ==
    ASSUME SettingsInv, NEW ok \in BOOLEAN, ~NoCall, Answer(ok),
           device' \in Config, drift' \subseteq Reasons,
           drift' \subseteq Setters =>
              \A f \in Fields : shadow[f] # device'[f] => LeftBehind(f)',
           "restored" \in drift' /\ drift' \cap {"partial", "outside"} = {} => device' = saved
    PROVE  SettingsInv'
<1> USE DEF Answer
<1>1. SettingsTypeOK'
  <2>1. {shadow', saved', device', mark'} \subseteq Config
    BY DEF SettingsInv, SettingsTypeOK
  <2> QED
    BY <2>1 DEF SettingsInv, SettingsTypeOK, Reasons
<1>2. job'.op = "none"
  BY DEF NoJob
<1>3. SavedRight' /\ TargetRight' /\ DriftRight' /\ RestoredRight'
  BY <1>2 DEF SettingsInv, SavedRight, TargetRight, DriftRight, RestoredRight
<1> QED
  BY <1>1, <1>3 DEF SettingsInv

LEMMA JobsKeep ==
    ASSUME SettingsInv, Applied \/ AppliedInPart \/ Fails \/ Drained
    PROVE  SettingsInv'
<1>1. SettingsTypeOK /\ ~NoCall /\ device \in Config /\ drift \subseteq Reasons
  BY DEF SettingsInv, SettingsTypeOK, Applied, AppliedInPart, Fails, Drained, Reasons
<1>r. {"restored", "partial", "outside"} \cap Setters = {}
  BY DEF Setters, Ops
<1>2. CASE Applied
  <2>1. device' = job.target /\ device' \in Config /\ job.op # "waitForOutput" /\ job.op \in Ops
    BY <1>1, <1>2, JobTarget DEF Applied
  <2>2. drift' \subseteq Setters => shadow = device'
    <3>1. CASE job.op = "restoreSettings"
      BY <1>2, <1>r, <2>1, <3>1 DEF Applied, SettingsInv, SavedRight
    <3>2. CASE job.op # "restoreSettings"
      <4>1. job.op \notin {"none", "waitForOutput", "restoreSettings"}
        BY <2>1, <3>2 DEF Ops
      <4> QED
        BY <2>1, <4>1 DEF SettingsInv, TargetRight
    <3> QED
      BY <3>1, <3>2
  <2>3. "restored" \in drift' => device' = saved
    BY <1>2, <2>1 DEF Applied, SettingsInv, SavedRight
  <2>4. Answer(TRUE) /\ drift' \subseteq Reasons
    BY <1>2 DEF Applied, Reasons
  <2> QED
    BY <1>1, <2>1, <2>2, <2>3, <2>4, AnswerKeeps
<1>3. CASE AppliedInPart
  <2>1. device' \in Config
    <3>1. PICK f \in DOMAIN device : device' = [job.target EXCEPT ![f] = device[f]]
      BY <1>3 DEF AppliedInPart
    <3>2. job.target \in Config /\ f \in Fields
      BY <1>1, <1>3, JobTarget, ConfigFields DEF AppliedInPart
    <3> QED
      BY <1>1, <3>1, <3>2 DEF Config, Fields
  <2>2. "partial" \in drift' /\ drift' \subseteq Reasons /\ Answer(TRUE)
    BY <1>1, <1>3 DEF AppliedInPart, Reasons
  <2>3. ~(drift' \subseteq Setters) /\ drift' \cap {"partial", "outside"} # {}
    BY <1>r, <2>2
  <2> QED
    BY <1>1, <2>1, <2>2, <2>3, AnswerKeeps
<1>4. CASE Fails
  <2>1. /\ device' = device /\ Answer(FALSE)
        /\ drift' = IF job.op \in Setters THEN drift \cup {job.op} ELSE drift
    <3>1. job.op \in Ops
      BY <1>1 DEF SettingsTypeOK, NoCall, Ops
    <3> QED
      BY <1>4, <3>1 DEF Fails, Setters
  <2>2. drift' \subseteq Reasons
    BY <1>1, <2>1 DEF Reasons
  <2>3. ASSUME drift' \subseteq Setters, NEW f \in Fields, shadow[f] # device[f]
        PROVE  LeftBehind(f)'
    <3>1. LeftBehind(f) \/ Underway(f)
      BY <2>1, <2>3 DEF SettingsInv, DriftRight
    <3>2. CASE LeftBehind(f)
      BY <2>1, <3>2 DEF LeftBehind
    <3>3. CASE Underway(f)
      BY <2>1, <3>3 DEF LeftBehind, Underway
    <3> QED
      BY <3>1, <3>2, <3>3
  <2>4. "restored" \in drift' /\ drift' \cap {"partial", "outside"} = {} => device = saved
    BY <1>r, <2>1 DEF SettingsInv, RestoredRight
  <2> QED
    BY <1>1, <2>1, <2>2, <2>3, <2>4, AnswerKeeps
<1>5. CASE Drained
  <2>1. device' = device /\ drift' = drift /\ Answer(TRUE) /\ job.op \notin Setters
    BY <1>5 DEF Drained, Setters
  <2>2. ASSUME drift' \subseteq Setters, NEW f \in Fields, shadow[f] # device[f]
        PROVE  LeftBehind(f)'
    BY <2>1, <2>2 DEF SettingsInv, DriftRight, LeftBehind, Underway
  <2>3. "restored" \in drift' /\ drift' \cap {"partial", "outside"} = {} => device = saved
    BY <2>1 DEF SettingsInv, RestoredRight
  <2> QED
    BY <1>1, <2>1, <2>2, <2>3, AnswerKeeps
<1> QED
  BY <1>2, <1>3, <1>4, <1>5

(* What leaves the settings and the call that waits alone.                 *)
LEMMA SameKeeps ==
    ASSUME SettingsInv, UNCHANGED <<shadow, saved, device, mark, drift, job>>
    PROVE  SavedRight' /\ TargetRight' /\ DriftRight' /\ RestoredRight'
  BY DEF SettingsInv, SavedRight, TargetRight, DriftRight, RestoredRight, LeftBehind, Underway

(* What is no setting changes no setting.                                  *)
LEMMA OutputKeeps ==
    ASSUME SettingsInv, \/ write \/ flushOutput \/ pauseTransmission \/ resumeTransmission
                 \/ sendXOFF \/ sendXON \/ PeerHolds \/ Transmit
    PROVE  SettingsInv'
<1> USE DEF write, flushOutput, pauseTransmission, resumeTransmission, TcflowFails, sendXOFF,
            sendXON, Tcflow, PeerHolds, Transmit
<1>1. UNCHANGED <<shadow, saved, device, mark, drift, job>>
  OBVIOUS
<1>2. SettingsTypeOK'
  BY <1>1 DEF SettingsInv, SettingsTypeOK
<1> QED
  BY <1>1, <1>2, SameKeeps DEF SettingsInv

LEMMA SaveKeeps ==
    ASSUME SettingsInv, saveSettings
    PROVE  SettingsInv'
<1> USE DEF saveSettings
<1>1. job.op = "none"
  BY DEF NoCall, NoJob
<1>2. SettingsTypeOK'
  BY DEF SettingsInv, SettingsTypeOK
<1>3. SavedRight' /\ TargetRight' /\ RestoredRight'
  BY <1>1 DEF SettingsInv, SavedRight, TargetRight, RestoredRight
<1>4. DriftRight'
  BY DEF SettingsInv, DriftRight, LeftBehind, Underway
<1> QED
  BY <1>2, <1>3, <1>4 DEF SettingsInv

LEMMA OutsideKeeps ==
    ASSUME SettingsInv, Outside
    PROVE  SettingsInv'
<1> USE DEF Outside
<1>1. SettingsTypeOK'
  BY SettingsAssumption DEF SettingsInv, SettingsTypeOK
<1>2. "outside" \in drift' /\ "outside" \notin Setters
  BY DEF Setters, Ops
<1>3. SavedRight' /\ TargetRight' /\ DriftRight' /\ RestoredRight'
  BY <1>2 DEF SettingsInv, SavedRight, TargetRight, DriftRight, RestoredRight
<1> QED
  BY <1>1, <1>3 DEF SettingsInv

(* The invariant holds in every state.                                     *)
THEOREM SettingsInductive == SettingsSpec => []SettingsInv
<1>1. SettingsInv /\ [SettingsNext]_settingsVars => SettingsInv'
  <2> SUFFICES ASSUME SettingsInv, [SettingsNext]_settingsVars PROVE SettingsInv'
    OBVIOUS
  <2>1. CASE UNCHANGED settingsVars
    <3>1. SettingsTypeOK'
      BY <2>1 DEF settingsVars, SettingsInv, SettingsTypeOK
    <3> QED
      BY <2>1, <3>1, SameKeeps DEF settingsVars, SettingsInv
  <2> QED
    BY <2>1, SettersKeep, WaitersKeep, JobsKeep, OutputKeeps, SaveKeeps, OutsideKeeps DEF SettingsNext
<1> QED
  BY InitSettingsInv, <1>1, PTL DEF SettingsSpec

-----------------------------------------------------------------------------
(* The types of PORTTI, PORTSI, the device and the call that waits.        *)
THEOREM SettingsTypeCorrect == SettingsSpec => []SettingsTypeOK
<1>1. SettingsInv => SettingsTypeOK
  BY DEF SettingsInv
<1> QED
  BY SettingsInductive, <1>1, PTL

(* What the getters make of settings.                                      *)
LEMMA GettersRight ==
    ASSUME NEW c \in Config
    PROVE  /\ getStopBits(c) = 2 <=> c.stop2
           /\ \A type \in 0..2 : getParity(WithParity(c, type)) = type
           /\ \A type \in 0..3 : getFlowControl(WithFlow(c, type)) = type
           /\ \A in \in Bauds, out \in Bauds :
                getInputSpeed(WithSpeeds(c, in, out)) = (IF in = 0 THEN out ELSE in)
<1>1. getStopBits(c) = 2 <=> c.stop2
  BY DEF getStopBits, Config
<1>2. \A type \in 0..2 : getParity(WithParity(c, type)) = type
  <2> SUFFICES ASSUME NEW type \in 0..2 PROVE getParity(WithParity(c, type)) = type
    OBVIOUS
  <2> DEFINE d == WithParity(c, type)
  <2>1. /\ d.parenb <=> type # 0
        /\ type # 0 => (d.parodd <=> type = 2)
    BY DEF WithParity, Config
  <2> HIDE DEF d
  <2>2. ASSUME type = 0 PROVE getParity(d) = 0
    BY <2>1, <2>2 DEF getParity
  <2>3. ASSUME type = 1 PROVE getParity(d) = 1
    BY <2>1, <2>3 DEF getParity
  <2>4. ASSUME type = 2 PROVE getParity(d) = 2
    BY <2>1, <2>4 DEF getParity
  <2> QED
    BY <2>2, <2>3, <2>4 DEF d
<1>3. \A type \in 0..3 : getFlowControl(WithFlow(c, type)) = type
  <2> SUFFICES ASSUME NEW type \in 0..3 PROVE getFlowControl(WithFlow(c, type)) = type
    OBVIOUS
  <2> DEFINE d == WithFlow(c, type)
  <2>1. /\ d.rtscts <=> type \in {2, 3}
        /\ d.xonxoff = (IF type \in {1, 3} THEN {"IXON", "IXOFF"} ELSE {})
    BY DEF WithFlow, Config
  <2>2. "IXON" \in {"IXON", "IXOFF"} /\ {"IXON", "IXOFF"} # {}
    OBVIOUS
  <2>3. d.xonxoff # {} <=> type \in {1, 3}
    BY <2>1, <2>2
  <2> HIDE DEF d
  <2>4. ASSUME type = 0 PROVE getFlowControl(d) = 0
    BY <2>1, <2>3, <2>4 DEF getFlowControl
  <2>5. ASSUME type = 1 PROVE getFlowControl(d) = 1
    BY <2>1, <2>3, <2>5 DEF getFlowControl
  <2>6. ASSUME type = 2 PROVE getFlowControl(d) = 2
    BY <2>1, <2>3, <2>6 DEF getFlowControl
  <2>7. ASSUME type = 3 PROVE getFlowControl(d) = 3
    BY <2>1, <2>3, <2>7 DEF getFlowControl
  <2> QED
    BY <2>4, <2>5, <2>6, <2>7 DEF d
<1>4. \A b \in Bauds : consttobaud(Speed(b)) = b
  BY DEF consttobaud, Speed
<1>5. \A in \in Bauds, out \in Bauds :
        /\ WithSpeeds(c, in, out).ispeed = Speed(in)
        /\ WithSpeeds(c, in, out).ospeed = Speed(out)
  BY DEF WithSpeeds, Config
<1>6. \A b \in Bauds : Speed(b) = Speed(0) <=> b = 0
  BY DEF Speed
<1> QED
  BY <1>1, <1>2, <1>3, <1>4, <1>5, <1>6 DEF getInputSpeed

(* What the setters, which write all of PORTTI back, and the getters, which *)
(* read it, may rely on (serial.fec:374-695).                              *)
THEOREM ShadowCorrect == SettingsSpec => []ShadowTrue
<1>1. SettingsInv => ShadowTrue
  <2> SUFFICES ASSUME SettingsInv, NoCall PROVE ShadowTrue
    BY DEF ShadowTrue
  <2>1. shadow \in Config /\ job.op \notin Setters
    BY DEF SettingsInv, SettingsTypeOK, NoCall, NoJob, Setters, Ops
  <2>2. drift \subseteq Setters =>
          \A f \in Fields : shadow[f] # device[f] => LeftBehind(f)
    BY <2>1 DEF SettingsInv, DriftRight, Underway
  <2>3. "restored" \in drift /\ drift \cap {"partial", "outside"} = {} => device = saved
    BY DEF SettingsInv, RestoredRight
  <2> QED
    BY <2>1, <2>2, <2>3, GettersRight DEF ShadowTrue
<1> QED
  BY SettingsInductive, <1>1, PTL

(* A call that returns has changed nothing of the device but what it, or a *)
(* call that failed before it, is named for, although it hands all of      *)
(* PORTTI over (serial.fec:374-670).                                       *)
THEOREM OwnCorrect == SettingsSpec => ChangesOwn
<1>1. SettingsInv /\ [SettingsNext]_settingsVars =>
        [~NoCall /\ NoCall' /\ drift \subseteq Setters =>
           \A f \in Fields \ Own[job.op] :
              device'[f] # device[f] => LeftBehind(f)]_settingsVars
  <2> SUFFICES ASSUME SettingsInv, SettingsNext, ~NoCall, NoCall', drift \subseteq Setters,
                      NEW f \in Fields \ Own[job.op], device'[f] # device[f]
               PROVE  LeftBehind(f)
    OBVIOUS
  <2>1. SettingsTypeOK /\ device \in Config
    BY DEF SettingsInv, SettingsTypeOK
  <2>2. Applied \/ AppliedInPart
    BY DEF SettingsNext, initSettings, setDataBits, setStopBits, setParity, setFlowControl,
           setSpeed, Start, Refuse, restoreSettings, waitForOutput, Fails, Drained,
           saveSettings, write, flushOutput, pauseTransmission, resumeTransmission,
           TcflowFails, sendXOFF, sendXON, Tcflow, PeerHolds, Transmit, Outside, NoCall
  <2>3. job.op \in Setters /\ job.target = shadow /\ job.target \in Config
    <3>1. job.op \in Ops \ {"waitForOutput"} /\ job.target \in Config
      BY <2>1, <2>2, JobTarget DEF Applied, AppliedInPart
    <3>2. job.op # "restoreSettings"
      BY OwnFields
    <3> QED
      BY <3>1, <3>2 DEF SettingsInv, TargetRight, Setters, Ops
  <2>4. device'[f] = job.target[f]
    <3>1. CASE Applied
      BY <3>1 DEF Applied
    <3>2. CASE AppliedInPart
      BY <2>1, <2>3, <3>2 DEF AppliedInPart, Config, Fields
    <3> QED
      BY <2>2, <3>1, <3>2
  <2> QED
    BY <2>3, <2>4 DEF SettingsInv, DriftRight, Underway
<1> QED
  BY SettingsInductive, <1>1, PTL DEF SettingsSpec, ChangesOwn

(* restoreSettings brings back what the device used when its settings were *)
(* saved last, whatever failed in between (serial.fec:830-860).            *)
THEOREM RestoreCorrect == SettingsSpec => RestoresMark
<1>1. SettingsInv /\ [SettingsNext]_settingsVars =>
        [~NoCall /\ NoCall' /\ job.op = "restoreSettings" /\ answer'
           /\ "partial" \notin drift' => device' = mark]_settingsVars
  <2> SUFFICES ASSUME SettingsInv, SettingsNext, ~NoCall, NoCall',
                      job.op = "restoreSettings", answer',
                      "partial" \notin drift'
               PROVE  device' = mark
    OBVIOUS
  <2>1. Applied \/ AppliedInPart \/ Fails \/ Drained
    BY DEF SettingsNext, initSettings, setDataBits, setStopBits, setParity, setFlowControl,
           setSpeed, Start, Refuse, restoreSettings, waitForOutput, saveSettings, write,
           flushOutput, pauseTransmission, resumeTransmission, TcflowFails, sendXOFF, sendXON,
           Tcflow, PeerHolds, Transmit, Outside, NoCall
  <2>2. ~AppliedInPart /\ ~Drained /\ ~Fails
    BY DEF AppliedInPart, Fails, Drained, Answer
  <2> QED
    BY <2>1, <2>2 DEF Applied, SettingsInv, SavedRight
<1> QED
  BY SettingsInductive, <1>1, PTL DEF SettingsSpec, RestoresMark
=============================================================================
