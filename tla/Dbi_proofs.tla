------------------------------ MODULE Dbi_proofs ------------------------------
(***************************************************************************)
(* Proofs about the two dbi modules.  DbiResults: for any number of result *)
(* objects and results, the list and libdbi agree, nothing is freed twice, *)
(* and every access to freed memory has one of the known causes.           *)
(* DbiUpsert: for any set of connections, a key has at most one row until  *)
(* two calls for it run into each other, and until then every call is one  *)
(* atomic put and its answer tells what it did.                            *)
(***************************************************************************)
EXTENDS DbiResults, DbiUpsert, TLAPS

(* Before any fault.  Lists: a node's result is allocated, and an          *)
(* allocated result without a node is held by a listTables object.         *)
NodesSound ==
    \A h \in Handles :
       /\ nodes[h] \in {0, 1}
       /\ nodes[h] = 1 => h \in live
       /\ h \in live /\ nodes[h] = 0 =>
             \E o \in Objs : kind[o] = "list" /\ result[o] = h

ClosedEmpty == conn # "connected" => \A h \in Handles : nodes[h] = 0

(* The objects: exactly the ones of query have a parent, and a             *)
(* listTables object never loses its result.                               *)
ObjsSound ==
    \A o \in Objs :
       /\ kind[o] = "none" => result[o] = Null
       /\ kind[o] = "query" <=> o \in parent
       /\ kind[o] \in {"list", "binary"} => result[o] # Null

(* While connected: what an object holds is its own, and on the list       *)
(* unless it came from listTables or listDbs.                              *)
HeldSound ==
    conn = "connected" =>
       \A o \in Objs :
          result[o] # Null =>
             /\ result[o] \in live
             /\ \A q \in Objs : result[q] = result[o] => q = o
             /\ kind[o] # "list" => nodes[result[o]] = 1

(* Before the connection there is nothing.                                 *)
Untouched == conn = "none" => iter = <<>> /\ \A o \in Objs : kind[o] = "none"

Sound == NodesSound /\ ClosedEmpty /\ ObjsSound /\ HeldSound /\ Untouched

IInv ==
    /\ TypeOK
    /\ fault = "none" => Sound
    /\ NoDoubleFree
    /\ FaultsExplained

-----------------------------------------------------------------------------
(* What the invariant says of the two ways to free.                        *)
LEMMA NoDeinitFault == IInv /\ Running => ~DeinitFault
  BY DEF IInv, Running, DeinitFault, Sound, NodesSound, TypeOK

(* The two accesses of finish() and the destructor that can fault, and     *)
(* when they do.                                                           *)
LEMMA RemoveFaults ==
    ASSUME IInv, Running, NEW o \in Objs, Reachable(o)
    PROVE  \/ RemoveFault(o) = "none" /\ kind[o] = "query" /\ o \in parent
           \/ RemoveFault(o) = "null parent" /\ kind[o] \in {"binary", "list"}
           \/ RemoveFault(o) = "freed parent" /\ conn = "freed"
<1>1. kind[o] \in Kinds
  BY DEF Reachable, IInv, TypeOK
<1>2. CASE o \notin parent
  BY <1>1, <1>2 DEF RemoveFault, IInv, Running, Sound, ObjsSound, Kinds
<1>3. CASE o \in parent /\ conn = "freed"
  BY <1>3 DEF RemoveFault
<1>4. CASE o \in parent /\ conn # "freed"
  <2>1. ~(OnList(o) /\ result[o] \notin live)
    BY NullAssumption DEF OnList, IInv, Running, Sound, NodesSound, TypeOK
  <2>2. kind[o] = "query"
    BY <1>4 DEF IInv, Running, Sound, ObjsSound
  <2> QED
    BY <1>4, <2>1, <2>2 DEF RemoveFault
<1> QED
  BY <1>2, <1>3, <1>4

(* There is no Dbi object yet.                                             *)
LEMMA InitIInv == Init => IInv
  BY DEF Init, IInv, TypeOK, NoDoubleFree, FaultsExplained, Sound, NodesSound,
         ClosedEmpty, ObjsSound, HeldSound, Untouched, Kinds

(* A fault changes nothing but fault.                                      *)
LEMMA FailIInv ==
    ASSUME IInv, NEW why \in Faults \ {"double free"}, Fail(why),
           why = "freed result" => conn \in {"disconnected", "freed"},
           why = "freed parent" => conn = "freed",
           why = "null parent" => \E o \in Objs : kind[o] \in {"binary", "list"}
    PROVE  IInv'
  BY DEF IInv, Fail, TypeOK, NoDoubleFree, FaultsExplained, Faults

(* A read through a pointer that is not sound is after disconnect.         *)
LEMMA UsesFreedClosed ==
    ASSUME IInv, Running, NEW o \in Objs, UsesFreed(o), conn # "none"
    PROVE  conn \in {"disconnected", "freed"}
  BY DEF IInv, Running, UsesFreed, Sound, HeldSound, TypeOK


-----------------------------------------------------------------------------
(* A new connection has no results.                                        *)
LEMMA ConnectIInv == IInv /\ Connect => IInv'
  BY DEF IInv, Connect, Running, TypeOK, NoDoubleFree, FaultsExplained, Sound,
         NodesSound, ClosedEmpty, ObjsSound, HeldSound, Untouched

(* A new result is not held by any object, and was not on the list.        *)
LEMMA NewResultIInv ==
    ASSUME IInv, NEW o \in Objs, NEW h \in Handles, NEW k \in Kinds,
           NewResult(o, h, k),
           nodes' = IF k = "list" THEN nodes ELSE [nodes EXCEPT ![h] = @ + 1],
           parent' = IF k = "query" THEN parent \cup {o} ELSE parent,
           iter' \in Seq(Objs)
    PROVE  IInv'
<1> USE DEF NewResult, Running
<1>1. /\ kind[o] = "none" /\ h \notin live /\ nodes[h] = 0
      /\ conn = "connected" /\ fault = "none" /\ TypeOK
  BY DEF IInv, Sound, NodesSound, TypeOK
<1>2. TypeOK'
  BY <1>1 DEF TypeOK
<1>3. NodesSound'
  <2> SUFFICES ASSUME NEW g \in Handles
               PROVE  /\ nodes'[g] \in {0, 1}
                      /\ nodes'[g] = 1 => g \in live'
                      /\ g \in live' /\ nodes'[g] = 0 =>
                           \E q \in Objs : kind'[q] = "list" /\ result'[q] = g
    BY DEF NodesSound
  <2>1. CASE g = h
    BY <1>1, <2>1 DEF TypeOK
  <2>2. CASE g # h
    BY <1>1, <2>2 DEF TypeOK, IInv, Sound, NodesSound
  <2> QED
    BY <2>1, <2>2
<1>4. ClosedEmpty' /\ Untouched'
  BY <1>1 DEF ClosedEmpty, Untouched
<1>5. ObjsSound'
  BY <1>1, NullAssumption DEF IInv, Sound, ObjsSound, TypeOK, Kinds
<1>6. HeldSound'
  <2> SUFFICES ASSUME NEW p \in Objs, result'[p] # Null
               PROVE  /\ result'[p] \in live'
                      /\ \A q \in Objs : result'[q] = result'[p] => q = p
                      /\ kind'[p] # "list" => nodes'[result'[p]] = 1
    BY <1>1 DEF HeldSound
  <2>1. CASE p = o
    BY <1>1, <2>1, NullAssumption DEF TypeOK, IInv, Sound, HeldSound
  <2>2. CASE p # o
    BY <1>1, <2>2, NullAssumption DEF TypeOK, IInv, Sound, HeldSound
  <2> QED
    BY <2>1, <2>2
<1>7. NoDoubleFree' /\ FaultsExplained'
  BY <1>1 DEF NoDoubleFree, FaultsExplained
<1> QED
  BY <1>2, <1>3, <1>4, <1>5, <1>6, <1>7 DEF IInv, Sound

(* The functions that make a result.                                       *)
LEMMA QueriesIInv ==
    ASSUME IInv, NEW o \in Objs, NEW h \in Handles,
           \/ Query(o, h) \/ QueryBlock(o, h)
           \/ QueryBinary(o, h) \/ ListResult(o, h)
    PROVE  IInv'
<1>1. iter \in Seq(Objs) /\ <<o>> \o iter \in Seq(Objs)
  BY DEF IInv, TypeOK
<1>2. CASE Query(o, h)
  BY <1>1, <1>2, NewResultIInv DEF Query, AddToList, Kinds
<1>3. CASE QueryBlock(o, h)
  BY <1>1, <1>3, NewResultIInv DEF QueryBlock, AddToList, Kinds
<1>4. CASE QueryBinary(o, h)
  BY <1>1, <1>4, NewResultIInv DEF QueryBinary, AddToList, Kinds
<1>5. CASE ListResult(o, h)
  BY <1>1, <1>5, NewResultIInv DEF ListResult, Kinds
<1> QED
  BY <1>2, <1>3, <1>4, <1>5

(* Reading, and the rows of a query with a block.                          *)
LEMMA ReadIInv == ASSUME IInv, NEW o \in Objs, Read(o) PROVE IInv'
<1>1. conn # "none"
  BY DEF Read, Running, Reachable, IInv, Sound, Untouched
<1>2. conn \in {"disconnected", "freed"}
  BY <1>1, UsesFreedClosed DEF Read
<1> QED
  BY <1>2, FailIInv DEF Read, Faults

(* Going on with a block reads its result, which only a closed connection  *)
(* has freed.                                                              *)
LEMMA RowsIInv == ASSUME IInv, NextRow \/ LastRow \/ BlockRaised PROVE IInv'
<1>1. /\ Running /\ iter # <<>> /\ iter \in Seq(Objs) /\ conn # "none"
      /\ Head(iter) \in Objs /\ Tail(iter) \in Seq(Objs)
  <2>1. Running /\ iter # <<>>
    BY DEF NextRow, LastRow, BlockRaised
  <2>2. iter \in Seq(Objs)
    BY DEF IInv, TypeOK
  <2>3. conn # "none"
    BY <2>1 DEF Running, IInv, Sound, Untouched
  <2>4. Head(iter) \in Objs /\ Tail(iter) \in Seq(Objs)
    BY <2>1, <2>2
  <2> QED
    BY <2>1, <2>2, <2>3, <2>4
<1>2. ASSUME UsesFreed(Head(iter)), Fail("freed result") PROVE IInv'
  <2>1. conn \in {"disconnected", "freed"}
    BY <1>1, <1>2, UsesFreedClosed
  <2> QED
    BY <1>2, <2>1, FailIInv DEF Faults
<1>3. ASSUME iter' = Tail(iter),
             UNCHANGED <<conn, nodes, live, kind, result, parent, fault>>
      PROVE  IInv'
  BY <1>1, <1>3 DEF IInv, TypeOK, Running, NoDoubleFree, FaultsExplained, Sound,
     NodesSound, ClosedEmpty, ObjsSound, HeldSound, Untouched
<1> QED
  BY <1>2, <1>3 DEF NextRow, LastRow, BlockRaised


-----------------------------------------------------------------------------
(* What an object's result and its node are before a release.              *)
LEMMA FreeIInv ==
    ASSUME IInv, Running, NEW o \in Objs, kind[o] = "query", Reachable(o),
           Release(o),
           result' = IF OnList(o) \/ kind'[o] = "none"
                       THEN [result EXCEPT ![o] = Null] ELSE result,
           \/ UNCHANGED <<kind, parent>>
           \/ /\ kind' = [kind EXCEPT ![o] = "none"]
              /\ parent' = parent \ {o},
           UNCHANGED <<conn, iter, fault>>
    PROVE  IInv'
<1>1. fault = "none" /\ TypeOK /\ Sound
  BY DEF IInv, Running
<1>2. /\ kind' \in [Objs -> Kinds \cup {"none"}] /\ result' \in [Objs -> Handles \cup {Null}]
      /\ \A q \in Objs : q # o => kind'[q] = kind[q] /\ result'[q] = result[q]
      /\ \A q \in Objs : kind'[q] = "list" <=> kind[q] = "list"
      /\ \A q \in Objs : result'[q] = result[q] \/ result'[q] = Null
  BY <1>1 DEF TypeOK
<1>3. OnList(o) => /\ nodes[result[o]] = 1 /\ result[o] \in Handles
                   /\ result[o] \in live /\ conn = "connected"
  BY <1>1, NullAssumption DEF OnList, Sound, NodesSound, ClosedEmpty, TypeOK
<1>4. CASE OnList(o)
  <2>1. live' = live \ {result[o]} /\ nodes' = [nodes EXCEPT ![result[o]] = 0]
    BY <1>1, <1>3, <1>4 DEF Release, TypeOK
  <2>2. TypeOK'
    BY <1>1, <1>2, <2>1 DEF TypeOK
  <2>3. NodesSound'
    <3> SUFFICES ASSUME NEW g \in Handles
                 PROVE  /\ nodes'[g] \in {0, 1}
                        /\ nodes'[g] = 1 => g \in live'
                        /\ g \in live' /\ nodes'[g] = 0 =>
                             \E q \in Objs : kind'[q] = "list" /\ result'[q] = g
      BY DEF NodesSound
    <3>1. CASE g = result[o]
      BY <1>1, <1>3, <2>1, <3>1 DEF TypeOK
    <3>2. CASE g # result[o]
      <4>1. nodes'[g] = nodes[g] /\ (g \in live' <=> g \in live)
        BY <1>1, <2>1, <3>2 DEF TypeOK
      <4>2. \A q \in Objs : kind[q] = "list" => q # o
        OBVIOUS
      <4> QED
        BY <1>1, <1>2, <4>1, <4>2 DEF Sound, NodesSound
    <3> QED
      BY <3>1, <3>2
  <2>4. ClosedEmpty' /\ Untouched'
    BY <1>1, <1>3, <1>4 DEF ClosedEmpty, Untouched, Sound
  <2>5. ObjsSound'
    BY <1>1, <1>2, <1>4 DEF ObjsSound, Sound, TypeOK
  <2>6. HeldSound'
    <3> SUFFICES ASSUME NEW p \in Objs, result'[p] # Null
                 PROVE  /\ result'[p] \in live'
                        /\ \A q \in Objs : result'[q] = result'[p] => q = p
                        /\ kind'[p] # "list" => nodes'[result'[p]] = 1
      BY DEF HeldSound
    <3>1. p # o /\ result'[p] = result[p] /\ result[p] # result[o]
      BY <1>1, <1>2, <1>3, <1>4 DEF HeldSound, Sound, OnList, TypeOK
    <3> QED
      <4>1. /\ result[p] \in live /\ result[p] \in Handles
            /\ kind[p] # "list" => nodes[result[p]] = 1
            /\ \A q \in Objs : result[q] = result[p] => q = p
        BY <1>1, <1>3, <1>4, <3>1 DEF HeldSound, Sound, TypeOK
      <4>2. kind'[p] = kind[p] /\ nodes'[result[p]] = nodes[result[p]]
        BY <1>1, <1>2, <2>1, <3>1, <4>1 DEF TypeOK
      <4>3. ASSUME NEW q \in Objs, result'[q] = result'[p] PROVE q = p
        BY <1>2, <3>1, <4>1, <4>3
      <4> QED
        BY <2>1, <3>1, <4>1, <4>2, <4>3
  <2> QED
    BY <1>1, <2>2, <2>3, <2>4, <2>5, <2>6
       DEF IInv, Sound, NoDoubleFree, FaultsExplained
<1>5. CASE ~OnList(o)
  <2>1. UNCHANGED <<live, nodes>>
    BY <1>5 DEF Release
  <2>2. conn = "connected" => result[o] = Null
    BY <1>1, <1>5 DEF Sound, HeldSound, OnList, TypeOK
  <2>3. TypeOK'
    BY <1>1, <1>2, <2>1 DEF TypeOK
  <2>4. NodesSound'
    BY <1>1, <1>2, <2>1 DEF Sound, NodesSound
  <2>5. ClosedEmpty' /\ Untouched'
    BY <1>1, <2>1 DEF ClosedEmpty, Untouched, Sound, Reachable
  <2>6. ObjsSound'
    BY <1>1, <1>2, <1>5 DEF ObjsSound, Sound, TypeOK
  <2>7. HeldSound'
    <3> SUFFICES ASSUME conn = "connected", NEW p \in Objs, result'[p] # Null
                 PROVE  /\ result'[p] \in live'
                        /\ \A q \in Objs : result'[q] = result'[p] => q = p
                        /\ kind'[p] # "list" => nodes'[result'[p]] = 1
      BY DEF HeldSound
    <3>1. result'[p] = result[p] /\ \A q \in Objs : result'[q] = result[q]
      BY <1>2, <2>2
    <3>2. p # o
      BY <2>2, <3>1
    <3>3. kind'[p] = kind[p]
      BY <1>2, <3>2
    <3> QED
      BY <1>1, <2>1, <3>1, <3>3 DEF HeldSound, Sound
  <2> QED
    BY <1>1, <2>3, <2>4, <2>5, <2>6, <2>7
       DEF IInv, Sound, NoDoubleFree, FaultsExplained
<1> QED
  BY <1>4, <1>5

(* finish() or the destructor of a result without a parent, or with a      *)
(* freed one.                                                              *)
LEMMA FaultFailsIInv ==
    ASSUME IInv, Running, NEW o \in Objs, Reachable(o),
           RemoveFault(o) # "none", Fail(RemoveFault(o))
    PROVE  IInv'
<1>1. CASE RemoveFault(o) = "null parent" /\ kind[o] \in {"binary", "list"}
  BY <1>1, FailIInv DEF Faults
<1>2. CASE RemoveFault(o) = "freed parent" /\ conn = "freed"
  BY <1>2, FailIInv DEF Faults
<1> QED
  BY <1>1, <1>2, RemoveFaults

(* finish() frees the result of its object, if it is on the list.          *)
LEMMA FinishIInv == ASSUME IInv, NEW o \in Objs, Finish(o) PROVE IInv'
<1>1. CASE RemoveFault(o) # "none"
  BY <1>1, FaultFailsIInv DEF Finish
<1>2. CASE RemoveFault(o) = "none"
  <2>1. kind[o] = "query"
    BY <1>2, RemoveFaults DEF Finish
  <2> QED
    BY <1>2, <2>1, FreeIInv DEF Finish
<1> QED
  BY <1>1, <1>2

(* The destructor of a DbiResult does the same, and the object is gone.    *)
LEMMA DestroyResultIInv ==
    ASSUME IInv, NEW o \in Objs, DestroyResult(o) PROVE IInv'
<1>1. Running /\ Reachable(o) /\ kind[o] \in Kinds /\ TypeOK
  BY DEF DestroyResult, Reachable, IInv, TypeOK
<1>2. CASE result[o] # Null /\ RemoveFault(o) # "none"
  BY <1>2, FaultFailsIInv DEF DestroyResult
<1>3. CASE ~(result[o] # Null /\ RemoveFault(o) # "none")
  <2>1. kind[o] = "query"
    BY <1>1, <1>3, RemoveFaults
       DEF Running, IInv, Sound, ObjsSound, Kinds
  <2>2. /\ Release(o) /\ UNCHANGED <<conn, iter, fault>>
        /\ kind' = [kind EXCEPT ![o] = "none"] /\ parent' = parent \ {o}
        /\ result' = [result EXCEPT ![o] = Null]
    BY <1>3 DEF DestroyResult
  <2>3. kind'[o] = "none"
    BY <1>1, <2>2 DEF TypeOK
  <2> QED
    BY <1>1, <2>1, <2>2, <2>3, FreeIInv
<1> QED
  BY <1>2, <1>3

-----------------------------------------------------------------------------
(* Closing the connection empties the list; what stays allocated is held   *)
(* by the objects of listTables and listDbs.                               *)
LEMMA CloseIInv == ASSUME IInv, Disconnect \/ DestroyDbi PROVE IInv'
<1>1. /\ Running /\ ~DeinitFault /\ conn # "none"
  BY NoDeinitFault DEF Disconnect, DestroyDbi
<1>2. /\ DeinitList /\ conn' \in {"disconnected", "freed"}
      /\ UNCHANGED <<kind, result, parent, iter, fault>>
  BY <1>1 DEF Disconnect, DestroyDbi
<1>3. TypeOK'
  BY <1>2 DEF IInv, TypeOK, DeinitList
<1>4. NodesSound'
  BY <1>1, <1>2 DEF IInv, Running, TypeOK, DeinitList, Sound, NodesSound
<1>5. ClosedEmpty' /\ ObjsSound' /\ HeldSound' /\ Untouched'
  BY <1>1, <1>2 DEF IInv, Running, DeinitList, Sound, ClosedEmpty, ObjsSound,
     HeldSound, Untouched
<1> QED
  BY <1>1, <1>2, <1>3, <1>4, <1>5
     DEF Running, IInv, Sound, NoDoubleFree, FaultsExplained

(* Every function keeps the invariant.                                     *)
LEMMA NextIInv == IInv /\ [Next]_vars => IInv'
<1> SUFFICES ASSUME IInv, [Next]_vars PROVE IInv'
  OBVIOUS
<1>1. CASE Connect
  BY <1>1, ConnectIInv
<1>2. ASSUME NEW o \in Objs, NEW h \in Handles,
             \/ Query(o, h) \/ QueryBlock(o, h)
             \/ QueryBinary(o, h) \/ ListResult(o, h)
      PROVE  IInv'
  BY <1>2, QueriesIInv
<1>3. ASSUME NEW o \in Objs, Read(o) \/ Finish(o) \/ DestroyResult(o)
      PROVE  IInv'
  BY <1>3, ReadIInv, FinishIInv, DestroyResultIInv
<1>4. CASE NextRow \/ LastRow \/ BlockRaised
  BY <1>4, RowsIInv
<1>5. CASE Disconnect \/ DestroyDbi
  BY <1>5, CloseIInv
<1>6. CASE UNCHANGED vars
  BY <1>6 DEF vars, IInv, TypeOK, NoDoubleFree, FaultsExplained, Sound,
     NodesSound, ClosedEmpty, ObjsSound, HeldSound, Untouched
<1> QED
  BY <1>1, <1>2, <1>3, <1>4, <1>5, <1>6 DEF Next

(* The invariant of the Dbi object and its results (dbi.fec,               *)
(* DbiResult.fec, utility.c).                                              *)
THEOREM Inductive == Spec => []IInv
  BY InitIInv, NextIInv, PTL DEF Spec

-----------------------------------------------------------------------------
(* The variables keep their types.                                         *)
THEOREM TypeCorrect == Spec => []TypeOK
<1>1. IInv => TypeOK
  BY DEF IInv
<1> QED
  BY <1>1, Inductive, PTL

(* The list and libdbi agree for any number of results: none leaks, and    *)
(* none is on the list twice or after it was freed.                        *)
THEOREM ListAgrees == Spec => []ListExact
<1>1. IInv => ListExact
  BY DEF IInv, ListExact, Running, Sound, NodesSound
<1> QED
  BY <1>1, Inductive, PTL

(* While connected every object's result is allocated, and its own.        *)
THEOREM HeldAllocated == Spec => []HeldResultsSound
<1>1. IInv => HeldResultsSound
  BY DEF IInv, HeldResultsSound, Running, Sound, HeldSound
<1> QED
  BY <1>1, Inductive, PTL

(* Neither disconnect(), finish() nor a destructor frees a result twice.   *)
THEOREM FreedOnce == Spec => []NoDoubleFree
<1>1. IInv => NoDoubleFree
  BY DEF IInv
<1> QED
  BY <1>1, Inductive, PTL

(* The other faults have the causes FaultsExplained names.                 *)
THEOREM Explained == Spec => []FaultsExplained
<1>1. IInv => FaultsExplained
  BY DEF IInv
<1> QED
  BY <1>1, Inductive, PTL

(* Both together are the property the run checks.                          *)
THEOREM AccessesExplained == Spec => []AccessesSound
  BY FreedOnce, Explained, PTL DEF AccessesSound

(* While connected finish() and the destructor of a query's result free    *)
(* that result, at once, and no other.                                     *)
LEMMA DisposeOwn ==
    ASSUME IInv, NEW o \in Objs, Finish(o) \/ DestroyResult(o),
           o \in parent, conn = "connected"
    PROVE  live' = live \ {result[o]}
<1>1. Running /\ Reachable(o) /\ Sound /\ TypeOK
  BY DEF Finish, DestroyResult, Running, IInv
<1>2. kind[o] = "query" /\ RemoveFault(o) = "none"
  BY <1>1, RemoveFaults DEF Sound, ObjsSound
<1>3. Release(o)
  BY <1>2 DEF Finish, DestroyResult
<1>4. CASE result[o] = Null
  BY <1>1, <1>3, <1>4, NullAssumption DEF Release, OnList, TypeOK
<1>5. CASE result[o] # Null
  <2>1. nodes[result[o]] = 1
    BY <1>1, <1>2, <1>5 DEF Sound, HeldSound
  <2> QED
    BY <2>1, <1>3, <1>5 DEF Release, OnList
<1> QED
  BY <1>4, <1>5

(* For any number of results finish() and the destructor free their own.   *)
THEOREM DisposeCorrect == Spec => DisposeFreesOwn
<1>1. IInv =>
        [\A o \in Objs :
           (Finish(o) \/ DestroyResult(o)) /\ o \in parent /\ conn = "connected"
              => live' = live \ {result[o]}]_vars
  BY DisposeOwn
<1> QED
  BY <1>1, Inductive, PTL DEF DisposeFreesOwn

-----------------------------------------------------------------------------
(* queryUpdateInsert.                                                      *)
Single(k) == \A i, j \in Matching(k) : i = j

(* What makes OneRow inductive: while a call is between its statements and *)
(* there is no hazard, no row matches and no other call is about to insert *)
(* the same key.                                                           *)
WindowFree(k) ==
    \A p \in Procs :
       Inserting(p, k) => /\ Matching(k) = {}
                          /\ \A q \in Procs : Inserting(q, k) => q = p

UpsertInv ==
    /\ UpsertTypeOK
    /\ \A p \in Procs : pc[p] = "insert" => call[p] \in Row
    /\ \A k \in Keys : k \notin hazard \/ server.unique => Single(k)
    /\ \A k \in Keys \ hazard : WindowFree(k)

-----------------------------------------------------------------------------
(* No call is between its statements.                                      *)
LEMMA UpsertInitInv == UpsertInit => UpsertInv
  BY DEF UpsertInit, UpsertInv, UpsertTypeOK, Answers, Single, WindowFree, Matching,
         Inserting

(* An UPDATE leaves every key its rows.                                    *)
LEMMA UpdatedRows ==
    ASSUME UpsertTypeOK, NEW r \in Row, rows' = Updated(r)
    PROVE  /\ rows' \in [Ids -> Row \cup {None}]
           /\ \A k \in Keys : Matching(k)' = Matching(k)
           /\ \A i \in Ids : rows'[i] = IF i \in Matching(r.key) THEN r ELSE rows[i]
<1>1. /\ r # None
      /\ \A i \in Ids : i \in Matching(r.key) => rows[i] # None /\ rows[i].key = r.key
  BY NoneAssumption DEF Matching
<1>2. \A i \in Ids : rows'[i] = IF i \in Matching(r.key) THEN r ELSE rows[i]
  BY DEF Updated
<1>3. rows' \in [Ids -> Row \cup {None}]
  BY DEF Updated, UpsertTypeOK
<1>4. ASSUME NEW k \in Keys, NEW i \in Ids
      PROVE  rows'[i] # None /\ rows'[i].key = k <=> rows[i] # None /\ rows[i].key = k
  <2>1. CASE i \in Matching(r.key)
    BY <1>1, <1>2, <2>1
  <2>2. CASE i \notin Matching(r.key)
    BY <1>2, <2>2
  <2> QED
    BY <2>1, <2>2
<1>5. \A k \in Keys : Matching(k)' = Matching(k)
  BY <1>4 DEF Matching
<1> QED
  BY <1>2, <1>3, <1>5

(* An INSERT adds one row to its key.                                      *)
LEMMA StoredRow ==
    ASSUME UpsertTypeOK, NEW r \in Row, Store(r)
    PROVE  /\ rows' \in [Ids -> Row \cup {None}]
           /\ server.unique => Matching(r.key) = {}
           /\ \A k \in Keys \ {r.key} : Matching(k)' = Matching(k)
           /\ \E i \in Ids : Matching(r.key)' = Matching(r.key) \cup {i}
           /\ \A i \in Ids : rows[i] # None => rows'[i] = rows[i]
           /\ \E i \in Ids : rows' = [rows EXCEPT ![i] = r] /\ rows[i] = None
<1>1. PICK i \in Ids : rows[i] = None /\ rows' = [rows EXCEPT ![i] = r]
  BY DEF Store
<1>2. r # None
  BY NoneAssumption
<1>3. /\ \A j \in Ids : rows'[j] = IF j = i THEN r ELSE rows[j]
      /\ rows' \in [Ids -> Row \cup {None}]
  BY <1>1 DEF UpsertTypeOK
<1>4. \A k \in Keys \ {r.key} : Matching(k)' = Matching(k)
  BY <1>1, <1>2, <1>3 DEF Matching
<1>5. Matching(r.key)' = Matching(r.key) \cup {i}
  BY <1>1, <1>2, <1>3 DEF Matching
<1> QED
  BY <1>1, <1>3, <1>4, <1>5 DEF Store

(* An UPDATE that finds no row opens the window of its key, or makes it a  *)
(* hazard.                                                                 *)
LEMMA UpdateIInv ==
    ASSUME UpsertInv, NEW p \in Procs, NEW r \in Row, Update(p, r)
    PROVE  UpsertInv'
<1>1. /\ UpsertTypeOK /\ r.key \in Keys
      /\ rows' = Updated(r) /\ UNCHANGED server
  BY DEF UpsertInv, Update, Row
<1>2. \A k \in Keys : Matching(k)' = Matching(k)
  BY <1>1, UpdatedRows
<1>3. UpsertTypeOK'
  BY <1>1, UpdatedRows DEF Update, UpsertTypeOK, Answers
<1>4. \A q \in Procs : pc'[q] = "insert" => call'[q] \in Row
  BY DEF UpsertInv, UpsertTypeOK, Update
<1>5. \A k \in Keys : k \notin hazard' \/ server'.unique => Single(k)'
  BY <1>1, <1>2 DEF UpsertInv, Update, Single
<1>6. ASSUME NEW k \in Keys \ hazard' PROVE WindowFree(k)'
  <2>1. k \notin hazard
    BY <1>6 DEF Update
  <2>2. CASE k = r.key /\ Affected(r) = {}
    <3>1. ~Collision(p, r)
      BY <1>1, <1>6, <2>2 DEF Update
    <3>2. Matching(k) = {} /\ \A q \in Procs \ {p} : ~Inserting(q, k)
      BY <2>2, <3>1 DEF Collision
    <3>3. \A q \in Procs \ {p} : ~Inserting(q, k)'
      BY <1>1, <3>2 DEF Update, Inserting, UpsertTypeOK
    <3> QED
      BY <1>2, <3>2, <3>3 DEF WindowFree
  <2>3. CASE ~(k = r.key /\ Affected(r) = {})
    <3>1. \A q \in Procs : Inserting(q, k)' => Inserting(q, k)
      BY <1>1, <2>3 DEF Update, Inserting, UpsertTypeOK
    <3> QED
      BY <1>2, <2>1, <3>1 DEF UpsertInv, WindowFree
  <2> QED
    BY <2>2, <2>3
<1> QED
  BY <1>3, <1>4, <1>5, <1>6 DEF UpsertInv

(* An UPDATE that raises has changed its rows or nothing.                  *)
LEMMA UpdateFailsIInv ==
    ASSUME UpsertInv, NEW p \in Procs, NEW r \in Row, UpdateFails(p, r)
    PROVE  UpsertInv'
<1>1. UpsertTypeOK /\ UNCHANGED <<server, pc, hazard>> /\ pc[p] = "idle"
  BY DEF UpsertInv, UpdateFails
<1>2. /\ rows' \in [Ids -> Row \cup {None}]
      /\ \A k \in Keys : Matching(k)' = Matching(k)
  <2>1. CASE rows' = rows
    BY <1>1, <2>1 DEF Matching, UpsertTypeOK
  <2>2. CASE rows' = Updated(r)
    BY <1>1, <2>2, UpdatedRows
  <2> QED
    BY <2>1, <2>2 DEF UpdateFails
<1>3. UpsertTypeOK'
  BY <1>1, <1>2 DEF UpdateFails, UpsertTypeOK, Answers
<1>4. \A q \in Procs, k \in Keys : Inserting(q, k)' <=> Inserting(q, k)
  BY <1>1 DEF UpdateFails, Inserting, UpsertTypeOK
<1>5. \A q \in Procs : pc'[q] = "insert" => call'[q] \in Row
  BY <1>1 DEF UpsertInv, UpsertTypeOK, UpdateFails
<1> QED
  BY <1>1, <1>2, <1>3, <1>4, <1>5 DEF UpsertInv, Single, WindowFree

(* The ends of a call: what it stored, if anything, came in the window.    *)
LEMMA ReturnIInv ==
    ASSUME UpsertInv, NEW p \in Procs, NEW a \in Answers, pc[p] = "insert",
           UNCHANGED rows \/ Store(call[p]), Return(p, a)
    PROVE  UpsertInv'
<1>1. /\ UpsertTypeOK /\ UNCHANGED <<server, call, hazard>>
      /\ call[p] \in Row /\ call[p].key \in Keys
  BY DEF UpsertInv, Return, Row
<1>2. /\ \A q \in Procs, k \in Keys : Inserting(q, k)' => Inserting(q, k) /\ q # p
      /\ \A q \in Procs : pc'[q] = "insert" => call'[q] \in Row
  BY <1>1 DEF Return, Inserting, UpsertTypeOK, UpsertInv
<1>3. CASE UNCHANGED rows
  <2>1. UpsertTypeOK'
    BY <1>1, <1>3 DEF Return, UpsertTypeOK
  <2>2. \A k \in Keys : Matching(k)' = Matching(k)
    BY <1>3 DEF Matching
  <2> QED
    BY <1>1, <1>2, <2>1, <2>2 DEF UpsertInv, Single, WindowFree
<1>4. CASE Store(call[p])
  <2> DEFINE k == call[p].key
  <2>1. UpsertTypeOK'
    BY <1>1, <1>4, StoredRow DEF Return, UpsertTypeOK
  <2>2. /\ \A m \in Keys \ {k} : Matching(m)' = Matching(m)
        /\ server.unique => Matching(k) = {}
        /\ \E i \in Ids : Matching(k)' = Matching(k) \cup {i}
    BY <1>1, <1>4, StoredRow
  <2>3. k \notin hazard =>
          Matching(k) = {} /\ \A q \in Procs : Inserting(q, k) => q = p
    BY <1>1 DEF UpsertInv, WindowFree, Inserting
  <2>4. ASSUME NEW m \in Keys, m \notin hazard' \/ server'.unique PROVE Single(m)'
    BY <1>1, <2>2, <2>3, <2>4 DEF UpsertInv, Single
  <2>5. ASSUME NEW m \in Keys \ hazard' PROVE WindowFree(m)'
    <3>1. CASE m = k
      BY <1>1, <1>2, <2>3, <2>5, <3>1 DEF WindowFree
    <3>2. CASE m # k
      BY <1>1, <1>2, <2>2, <2>5, <3>2 DEF UpsertInv, WindowFree
    <3> QED
      BY <3>1, <3>2
  <2> QED
    BY <1>2, <2>1, <2>4, <2>5 DEF UpsertInv
<1> QED
  BY <1>3, <1>4

(* Rows deleted by others leave a key without rows.                        *)
LEMMA DeleteIInv == ASSUME UpsertInv, NEW d \in Keys, Delete(d) PROVE UpsertInv'
<1>1. UpsertTypeOK'
  BY DEF UpsertInv, Delete, UpsertTypeOK
<1>2. \A k \in Keys : Matching(k)' \subseteq Matching(k)
  BY DEF Delete, Matching
<1>3. \A q \in Procs, k \in Keys : Inserting(q, k)' <=> Inserting(q, k)
  BY DEF Delete, Inserting
<1> QED
  BY <1>1, <1>2, <1>3 DEF Delete, UpsertInv, Single, WindowFree

(* Every statement keeps the invariant.                                    *)
LEMMA UpsertNextInv == UpsertInv /\ [UpsertNext]_upsertVars => UpsertInv'
<1> SUFFICES ASSUME UpsertInv, [UpsertNext]_upsertVars PROVE UpsertInv'
  OBVIOUS
<1>1. ASSUME NEW p \in Procs, NEW r \in Row, Update(p, r) PROVE UpsertInv'
  BY <1>1, UpdateIInv
<1>2. ASSUME NEW p \in Procs, NEW r \in Row, UpdateFails(p, r) PROVE UpsertInv'
  BY <1>2, UpdateFailsIInv
<1>3. ASSUME NEW p \in Procs, Insert(p) \/ InsertFails(p) \/ InsertNothing(p)
      PROVE  UpsertInv'
  BY <1>3, ReturnIInv DEF Insert, InsertFails, InsertNothing, Answers
<1>4. ASSUME NEW k \in Keys, Delete(k) PROVE UpsertInv'
  BY <1>4, DeleteIInv
<1>5. CASE UNCHANGED upsertVars
  BY <1>5 DEF upsertVars, UpsertInv, UpsertTypeOK, Single, WindowFree, Matching, Inserting
<1> QED
  BY <1>1, <1>2, <1>3, <1>4, <1>5 DEF UpsertNext

(* The invariant of queryUpdateInsert (dbi.fec:677-721).                   *)
THEOREM UpsertInductive == UpsertSpec => []UpsertInv
  BY UpsertInitInv, UpsertNextInv, PTL DEF UpsertSpec

(* The statements keep the variables in their types.                       *)
THEOREM UpsertTypeCorrect == UpsertSpec => []UpsertTypeOK
<1>1. UpsertInv => UpsertTypeOK
  BY DEF UpsertInv
<1> QED
  BY <1>1, UpsertInductive, PTL

(* However the calls of any set of connections interleave, a key without a *)
(* hazard, and every key when there is an index, has at most one row.      *)
THEOREM AtMostOneRow == UpsertSpec => []OneRow
<1>1. UpsertInv => OneRow
  BY DEF UpsertInv, OneRow, Single
<1> QED
  BY <1>1, UpsertInductive, PTL

-----------------------------------------------------------------------------
(* The steps of the table.                                                 *)
LEMMA PutStep ==
    ASSUME UpsertInv, NEW r \in Row, rows' = Updated(r)
    PROVE  /\ Matching(r.key) = {} => Table' = Table
           /\ Matching(r.key) # {} => Upsert!Put(r)
<1>1. UpsertTypeOK /\ r.key \in Keys /\ r.val \in Vals
  BY DEF UpsertInv, Row
<1>2. /\ \A k \in Keys : Matching(k)' = Matching(k)
      /\ \A i \in Ids : rows'[i] = IF i \in Matching(r.key) THEN r ELSE rows[i]
  BY <1>1, UpdatedRows
<1>3. \A k \in Keys \ {r.key} : Matching(k) \cap Matching(r.key) = {}
  BY DEF Matching
<1>4. ASSUME NEW k \in Keys, k # r.key PROVE Table'[k] = Table[k]
  <2>1. \A i \in Matching(k) : rows'[i] = rows[i]
    BY <1>2, <1>3, <1>4 DEF Matching
  <2> QED
    BY <1>2, <2>1 DEF Table
<1>5. ASSUME Matching(r.key) = {} PROVE Table' = Table
  <2>1. rows' = rows
    BY <1>1, <1>5 DEF Updated, UpsertTypeOK
  <2> QED
    BY <2>1 DEF Table, Matching
<1>6. ASSUME Matching(r.key) # {} PROVE Upsert!Put(r)
  <2>1. Table'[r.key] = {r.val}
    <3>1. \A i \in Matching(r.key) : rows'[i] = r
      BY <1>2 DEF Matching
    <3> QED
      BY <1>1, <1>2, <1>6, <3>1 DEF Table
  <2>2. Table' = [Table EXCEPT ![r.key] = {r.val}]
    BY <1>1, <1>4, <2>1 DEF Table
  <2> QED
    BY <2>2 DEF Upsert!Put
<1> QED
  BY <1>5, <1>6

(* An INSERT without a hazard is a put of its row.                         *)
LEMMA StoreStep ==
    ASSUME UpsertInv, NEW p \in Procs, NEW r \in Row,
           pc[p] = "insert", call[p] = r, Store(r), hazard = {}
    PROVE  Upsert!Put(r)
<1>1. UpsertTypeOK /\ r.key \in Keys /\ r.val \in Vals
  BY DEF UpsertInv, Row
<1>2. Matching(r.key) = {}
  BY <1>1 DEF UpsertInv, WindowFree, Inserting
<1>3. PICK i \in Ids : rows' = [rows EXCEPT ![i] = r] /\ rows[i] = None
  BY <1>1, StoredRow
<1>4. /\ \A k \in Keys \ {r.key} : Matching(k)' = Matching(k)
      /\ \A j \in Ids : rows[j] # None => rows'[j] = rows[j]
  BY <1>1, StoredRow
<1>5. Matching(r.key)' = {i} /\ rows'[i] = r
  BY <1>1, <1>2, <1>3, NoneAssumption DEF Matching, UpsertTypeOK
<1>6. ASSUME NEW k \in Keys, k # r.key PROVE Table'[k] = Table[k]
  <2>1. \A j \in Matching(k) : rows'[j] = rows[j]
    BY <1>4 DEF Matching
  <2> QED
    BY <1>4, <1>6, <2>1 DEF Table
<1>7. Table'[r.key] = {r.val}
  BY <1>1, <1>5 DEF Table
<1>8. Table' = [Table EXCEPT ![r.key] = {r.val}]
  BY <1>1, <1>6, <1>7 DEF Table
<1> QED
  BY <1>8 DEF Upsert!Put

(* Deleting the rows of a key removes it from the table.                   *)
LEMMA DeleteStep ==
    ASSUME UpsertInv, NEW d \in Keys, Delete(d)
    PROVE  Table' = [Table EXCEPT ![d] = {}]
<1>1. \A i \in Ids : rows'[i] = IF i \in Matching(d) THEN None ELSE rows[i]
  BY DEF Delete
<1>2. Matching(d)' = {}
  BY <1>1 DEF Matching
<1>3. ASSUME NEW k \in Keys, k # d PROVE Table'[k] = Table[k]
  <2>1. Matching(k)' = Matching(k) /\ \A i \in Matching(k) : rows'[i] = rows[i]
    BY <1>1, <1>3 DEF Matching
  <2> QED
    BY <2>1 DEF Table
<1>4. Table'[d] = {}
  BY <1>2 DEF Table
<1> QED
  BY <1>3, <1>4 DEF Table

LEMMA SameRows == ASSUME UNCHANGED rows PROVE Table' = Table
  BY DEF Table, Matching

(* Which rows the calls may still store.                                   *)
LEMMA OpenCalls ==
    ASSUME UpsertInv
    PROVE  /\ Upsert!Row = Row
           /\ DOMAIN Open = Procs
           /\ \A p \in Procs : pc[p] = "idle" => Open[p] = None
           /\ \A p \in Procs : pc[p] = "insert" =>
                Open[p] = call[p] /\ call[p] \in Row /\ call[p] # None
  BY NoneAssumption DEF Open, UpsertInv, UpsertTypeOK, Row, Upsert!Row

(* The UPDATE begins the call, and ends it when it affected a row.         *)
LEMMA UpdateIsCall ==
    ASSUME UpsertInv, NEW p \in Procs, NEW r \in Row, Update(p, r), hazard' = {}
    PROVE  Upsert!Begin(p, r) \/ Upsert!Call(p, r)
<1>1. /\ UpsertTypeOK /\ pc[p] = "idle" /\ Open[p] = None
      /\ rows' = Updated(r) /\ call' = [call EXCEPT ![p] = r]
  BY OpenCalls DEF UpsertInv, Update
<1>2. CASE Affected(r) = {}
  <2>1. /\ pc' = [pc EXCEPT ![p] = "insert"] /\ answer' = [answer EXCEPT ![p] = "none"]
        /\ ~Collision(p, r)
    BY <1>2 DEF Update
  <2>2. Matching(r.key) = {}
    BY <1>2, <2>1 DEF Collision
  <2>3. Table' = Table
    BY <1>1, <2>2, PutStep
  <2>4. Open' = [Open EXCEPT ![p] = r]
    BY <1>1, <2>1 DEF Open, UpsertTypeOK
  <2> QED
    BY <1>1, <2>1, <2>3, <2>4 DEF Upsert!Begin
<1>3. CASE Affected(r) # {}
  <2>1. pc' = pc /\ answer' = [answer EXCEPT ![p] = "true"]
    BY <1>3 DEF Update
  <2>2. Upsert!Put(r)
    <3>1. Matching(r.key) # {}
      BY <1>3 DEF Affected
    <3> QED
      BY <1>1, <3>1, PutStep
  <2>3. Open' = [Open EXCEPT ![p] = None]
    BY <1>1, <2>1 DEF Open, UpsertTypeOK
  <2> QED
    BY <1>1, <2>1, <2>2, <2>3 DEF Upsert!Call, Upsert!End
<1> QED
  BY <1>2, <1>3

LEMMA UpdateFailsIsCall ==
    ASSUME UpsertInv, NEW p \in Procs, NEW r \in Row, UpdateFails(p, r)
    PROVE  Upsert!Call(p, r)
<1>1. /\ UpsertTypeOK /\ pc[p] = "idle" /\ Open[p] = None /\ pc' = pc
      /\ call' = [call EXCEPT ![p] = r] /\ answer' = [answer EXCEPT ![p] = "error"]
  BY OpenCalls DEF UpsertInv, UpdateFails
<1>2. Open' = [Open EXCEPT ![p] = None]
  BY <1>1 DEF Open, UpsertTypeOK
<1>3. Table' = Table \/ Upsert!Put(r)
  <2>1. CASE rows' = rows
    BY <2>1, SameRows
  <2>2. CASE rows' = Updated(r)
    BY <2>2, PutStep
  <2> QED
    BY <2>1, <2>2 DEF UpdateFails
<1> QED
  BY <1>1, <1>2, <1>3 DEF Upsert!Call, Upsert!End

(* The INSERT ends it.                                                     *)
LEMMA InsertIsReturn ==
    ASSUME UpsertInv, NEW p \in Procs, hazard' = {},
           Insert(p) \/ InsertFails(p) \/ InsertNothing(p)
    PROVE  Upsert!Return(p)
<1>1. /\ UpsertTypeOK /\ pc[p] = "insert" /\ hazard = {}
      /\ pc' = [pc EXCEPT ![p] = "idle"] /\ call' = call
  BY DEF UpsertInv, Insert, InsertFails, InsertNothing, Return
<1>2. Open[p] = call[p] /\ call[p] \in Row /\ call[p] # None
  BY <1>1, OpenCalls
<1>3. Open' = [Open EXCEPT ![p] = None]
  BY <1>1 DEF Open, UpsertTypeOK
<1>4. \/ Upsert!Put(call[p]) /\ \E a \in {"true", "error"} : answer' = [answer EXCEPT ![p] = a]
      \/ Table' = Table /\ \E a \in {"false", "error"} : answer' = [answer EXCEPT ![p] = a]
  <2>1. ASSUME Store(call[p]) PROVE Upsert!Put(call[p])
    BY <1>1, <1>2, <2>1, StoreStep
  <2>2. CASE Insert(p)
    BY <2>1, <2>2 DEF Insert, Return
  <2>3. CASE InsertFails(p)
    BY <2>1, <2>3, SameRows DEF InsertFails, Return
  <2>4. CASE InsertNothing(p)
    BY <2>4, SameRows DEF InsertNothing, Return
  <2> QED
    BY <2>2, <2>3, <2>4
<1> QED
  BY <1>2, <1>3, <1>4 DEF Upsert!Return, Upsert!End

(* Every statement is a step of a call or a removal, up to a hazard.       *)
LEMMA StepIsCall ==
    UpsertInv /\ [UpsertNext]_upsertVars /\ hazard' = {} => [Upsert!Next]_(Upsert!vars)
<1> SUFFICES ASSUME UpsertInv, [UpsertNext]_upsertVars, hazard' = {}
             PROVE  [Upsert!Next]_(Upsert!vars)
  OBVIOUS
<1>1. ASSUME NEW p \in Procs, NEW r \in Row, Update(p, r) \/ UpdateFails(p, r)
      PROVE  [Upsert!Next]_(Upsert!vars)
  BY <1>1, UpdateIsCall, UpdateFailsIsCall, OpenCalls DEF Upsert!Next
<1>2. ASSUME NEW p \in Procs, Insert(p) \/ InsertFails(p) \/ InsertNothing(p)
      PROVE  [Upsert!Next]_(Upsert!vars)
  BY <1>2, InsertIsReturn DEF Upsert!Next
<1>3. ASSUME NEW k \in Keys, Delete(k) PROVE [Upsert!Next]_(Upsert!vars)
  <2>1. Open' = Open /\ answer' = answer
    BY <1>3 DEF Delete, Open
  <2> QED
    BY <1>3, <2>1, DeleteStep DEF Upsert!Next, Upsert!Remove
<1>4. CASE UNCHANGED upsertVars
  <2>1. Table' = Table /\ Open' = Open /\ answer' = answer
    BY <1>4, SameRows DEF upsertVars, Open
  <2> QED
    BY <2>1 DEF Upsert!vars
<1> QED
  BY <1>1, <1>2, <1>3, <1>4 DEF UpsertNext

(* Until two calls run into each other, a call of queryUpdateInsert stores *)
(* its own row, once and at one moment, or nothing, as it answers, for any *)
(* connections, keys and values (dbi.fec:677-721).                         *)
THEOREM Atomic == UpsertSpec => ImplementsUpsert
<1>1. UpsertInit => Upsert!Init
  <2> SUFFICES ASSUME UpsertInit PROVE Upsert!Init
    OBVIOUS
  <2>1. \A k \in Keys : Matching(k) = {}
    BY DEF UpsertInit, Matching
  <2>2. Table = [k \in Keys |-> {}]
    BY <2>1 DEF Table
  <2>3. Open = [p \in Procs |-> None] /\ answer = [p \in Procs |-> "none"]
    BY DEF UpsertInit, Open
  <2> QED
    BY <2>2, <2>3 DEF Upsert!Init
<1>2. UpsertInv /\ [UpsertNext]_upsertVars =>
        [hazard' = {} => [Upsert!Next]_(Upsert!vars)]_upsertVars
  BY StepIsCall
<1> QED
  BY <1>1, <1>2, UpsertInductive, PTL DEF UpsertSpec, ImplementsUpsert

-----------------------------------------------------------------------------
(* What the answers tell.  The UPDATE that affects a row has given its     *)
(* items to every row of the key.                                          *)
LEMMA UpdateTells ==
    ASSUME UpsertTypeOK, NEW p \in Procs, NEW r \in Row,
           Update(p, r), answer'[p] = "true"
    PROVE  Stored(p)'
<1>1. rows' = Updated(r) /\ call'[p] = r
  BY DEF Update, UpsertTypeOK
<1>2. Affected(r) # {}
  BY DEF Update, UpsertTypeOK
<1>3. PICK i \in Ids : i \in Matching(r.key)
  BY <1>2 DEF Affected, Matching
<1>4. /\ r.key \in Keys
      /\ \A k \in Keys : Matching(k)' = Matching(k)
      /\ \A j \in Ids : rows'[j] = IF j \in Matching(r.key) THEN r ELSE rows[j]
  BY <1>1, UpdatedRows DEF Row
<1>5. rows'[i] = r
  BY <1>3, <1>4
<1>6. \A j \in Matching(r.key)' : rows'[j] = r
  BY <1>4 DEF Matching
<1> QED
  BY <1>1, <1>5, <1>6 DEF Stored

(* The INSERT has stored its row, beside no other if there is no hazard.   *)
LEMMA InsertTells ==
    ASSUME UpsertInv, NEW p \in Procs, Insert(p)
    PROVE  Stored(p)'
<1>1. /\ pc[p] = "insert" /\ call[p] \in Row /\ call' = call /\ hazard' = hazard
      /\ Store(call[p]) /\ UpsertTypeOK /\ call[p] # None
  BY NoneAssumption DEF Insert, Return, UpsertInv
<1>2. PICK i \in Ids : rows[i] = None /\ rows' = [rows EXCEPT ![i] = call[p]]
  BY <1>1 DEF Store
<1>3. rows'[i] = call[p] /\ \A j \in Ids : j # i => rows'[j] = rows[j]
  BY <1>1, <1>2 DEF UpsertTypeOK
<1>4. ASSUME call[p].key \notin hazard
      PROVE  \A j \in Matching(call[p].key)' : rows'[j] = call[p]
  <2>1. call[p].key \in Keys \ hazard /\ Inserting(p, call[p].key)
    BY <1>1, <1>4 DEF Row, Inserting
  <2>2. Matching(call[p].key) = {}
    BY <2>1, <1>1 DEF UpsertInv, WindowFree
  <2> QED
    BY <2>2, <1>1, <1>3 DEF Matching
<1> QED
  BY <1>1, <1>3, <1>4 DEF Stored

(* What each step tells one of the connections.                            *)
LEMMA AnswerStep ==
    ASSUME UpsertInv, [UpsertNext]_upsertVars, NEW p \in Procs
    PROVE  /\ answer'[p] = "true" /\ answer[p] # "true" => Stored(p)'
           /\ answer'[p] = "false" /\ answer[p] # "false" => UNCHANGED rows
<1> DEFINE Goal == /\ answer'[p] = "true" /\ answer[p] # "true" => Stored(p)'
                   /\ answer'[p] = "false" /\ answer[p] # "false" => UNCHANGED rows
<1>0. UpsertTypeOK
  BY DEF UpsertInv
<1>1. ASSUME NEW q \in Procs, NEW r \in Row, Update(q, r) PROVE Goal
  <2>1. CASE q = p
    <3>1. answer'[p] \in {"none", "true"}
      BY <1>0, <1>1, <2>1 DEF Update, UpsertTypeOK
    <3> QED
      BY <3>1, <1>0, <1>1, <2>1, UpdateTells
  <2>2. CASE q # p
    BY <1>0, <1>1, <2>2 DEF Update, UpsertTypeOK
  <2> QED
    BY <2>1, <2>2
<1>2. ASSUME NEW q \in Procs, NEW r \in Row, UpdateFails(q, r) PROVE Goal
  BY <1>0, <1>2 DEF UpdateFails, UpsertTypeOK
<1>3. ASSUME NEW q \in Procs, Insert(q) PROVE Goal
  <2>1. CASE q = p
    <3>1. answer'[p] = "true"
      BY <1>0, <1>3, <2>1 DEF Insert, Return, UpsertTypeOK
    <3> QED
      BY <3>1, <1>3, <2>1, InsertTells
  <2>2. CASE q # p
    BY <1>0, <1>3, <2>2 DEF Insert, Return, UpsertTypeOK
  <2> QED
    BY <2>1, <2>2
<1>4. ASSUME NEW q \in Procs, InsertFails(q) \/ InsertNothing(q) PROVE Goal
  BY <1>0, <1>4 DEF InsertFails, InsertNothing, Return, UpsertTypeOK
<1>5. ASSUME NEW k \in Keys, Delete(k) PROVE Goal
  BY <1>5 DEF Delete
<1>6. CASE UNCHANGED upsertVars
  BY <1>6 DEF upsertVars
<1> QED
  BY <1>1, <1>2, <1>3, <1>4, <1>5, <1>6 DEF UpsertNext

(* A call that answers true has stored its row, one that answers false has *)
(* left the table alone, for any set of connections.                       *)
THEOREM AnswersTell == UpsertSpec => AnswerTells
<1>1. UpsertInv /\ [UpsertNext]_upsertVars =>
        [\A p \in Procs :
           /\ answer'[p] = "true" /\ answer[p] # "true" => Stored(p)'
           /\ answer'[p] = "false" /\ answer[p] # "false" => UNCHANGED rows]_upsertVars
  BY AnswerStep
<1> QED
  BY <1>1, UpsertInductive, PTL DEF UpsertSpec, AnswerTells
=============================================================================
