----------------------------- MODULE DbiResults -----------------------------
(***************************************************************************)
(* The lifetime of query results in the dbi module (dbi/dbi/dbi.fec,       *)
(* DbiResult.fec, utility.c): one Dbi object and the DbiResult objects its *)
(* queries return.  A libdbi result is reachable from two places, the      *)
(* result list of the Dbi object and the DbiResult object, and each of     *)
(* disconnect(), finish() and the two destructors frees results through    *)
(* one of them.                                                            *)
(*                                                                         *)
(* Script code is sequential, but it runs inside a query too: the block of *)
(* query(...) using (row) {...} may call every function of the module.     *)
(* Objects that the script drops are destroyed in any order.               *)
(***************************************************************************)
EXTENDS Naturals, Sequences

CONSTANTS
    Objs,       \* the DbiResult objects that may exist at one time
    Handles,    \* the addresses libdbi may give a result; used again once freed
    Null

ASSUME NullAssumption == Null \notin Handles

VARIABLES
    conn,       \* the Dbi object: not made yet, connected, disconnected, freed
    nodes,      \* nodes[h]: how many nodes of result_list hold the result h
    live,       \* the results libdbi has allocated and not yet freed
    kind,       \* what made each DbiResult object, "none" where there is none
    result,     \* RESData.result of each object
    parent,     \* the objects whose RESData.dbi points to the Dbi object
    iter,       \* the objects whose query is running a block, innermost first
    fault       \* the first access to freed memory or through a null pointer

vars == <<conn, nodes, live, kind, result, parent, iter, fault>>

Kinds == {"query", "binary", "list"}

Faults == {"null parent", "freed parent", "freed result", "double free"}

TypeOK ==
    /\ conn \in {"none", "connected", "disconnected", "freed"}
    /\ nodes \in [Handles -> Nat]
    /\ live \subseteq Handles
    /\ kind \in [Objs -> Kinds \cup {"none"}]
    /\ result \in [Objs -> Handles \cup {Null}]
    /\ parent \subseteq Objs
    /\ iter \in Seq(Objs)
    /\ fault \in Faults \cup {"none"}

Init ==
    /\ conn = "none"
    /\ nodes = [h \in Handles |-> 0]
    /\ live = {}
    /\ kind = [o \in Objs |-> "none"]
    /\ result = [o \in Objs |-> Null]
    /\ parent = {}
    /\ iter = <<>>
    /\ fault = "none"

(* The objects script code can name: not the ones whose query has not      *)
(* returned yet.                                                           *)
Reachable(o) == kind[o] # "none" /\ \A i \in 1..Len(iter) : iter[i] # o

Running == fault = "none"

Fail(why) ==
    /\ fault' = why
    /\ UNCHANGED <<conn, nodes, live, kind, result, parent, iter>>

-----------------------------------------------------------------------------
(* The constructor and connect: a failure leaves no Dbi object.            *)
Connect ==
    /\ Running /\ conn = "none"
    /\ conn' = "connected"
    /\ UNCHANGED <<nodes, live, kind, result, parent, iter, fault>>

(* ferite_return_result: a new DbiResult object that holds a new result.   *)
NewResult(o, h, k) ==
    /\ Running /\ conn = "connected"
    /\ kind[o] = "none" /\ h \notin live
    /\ live' = live \cup {h}
    /\ kind' = [kind EXCEPT ![o] = k]
    /\ result' = [result EXCEPT ![o] = h]
    /\ UNCHANGED <<conn, fault>>

(* ferite_add_result_list.                                                 *)
AddToList(h) == nodes' = [nodes EXCEPT ![h] = @ + 1]

(* query: the object joins the list and gets its parent.                   *)
Query(o, h) ==
    /\ NewResult(o, h, "query")
    /\ AddToList(h)
    /\ parent' = parent \cup {o}
    /\ UNCHANGED iter

(* query with a block: the same, then the block is called for every row.   *)
QueryBlock(o, h) ==
    /\ NewResult(o, h, "query")
    /\ AddToList(h)
    /\ parent' = parent \cup {o}
    /\ iter' = <<o>> \o iter

(* queryBinary: on the list, without a parent.                             *)
QueryBinary(o, h) ==
    /\ NewResult(o, h, "binary")
    /\ AddToList(h)
    /\ UNCHANGED <<parent, iter>>

(* listTables and listDbs: neither.                                        *)
ListResult(o, h) ==
    /\ NewResult(o, h, "list")
    /\ UNCHANGED <<nodes, parent, iter>>

-----------------------------------------------------------------------------
(* Reading and moving in a result: every function of DbiResult but finish  *)
(* asks libdbi when its result pointer is not null.                        *)
UsesFreed(o) == result[o] # Null /\ result[o] \notin live

Read(o) ==
    /\ Running /\ Reachable(o)
    /\ UsesFreed(o)
    /\ Fail("freed result")

(* The block has returned (or this is the first row): fetch the next row   *)
(* and call the block again.  Rows fetched are not modelled, so only a     *)
(* fetch from a freed result changes the state.                            *)
NextRow ==
    /\ Running /\ iter # <<>>
    /\ UsesFreed(Head(iter))
    /\ Fail("freed result")

(* No more rows, or the block returned false: the query rewinds the result *)
(* (dbi_result_first_row) and returns it.                                  *)
LastRow ==
    /\ Running /\ iter # <<>>
    /\ IF UsesFreed(Head(iter))
         THEN Fail("freed result")
         ELSE /\ iter' = Tail(iter)
              /\ UNCHANGED <<conn, nodes, live, kind, result, parent, fault>>

(* The block raised an exception: the query returns without rewinding.     *)
BlockRaised ==
    /\ Running /\ iter # <<>>
    /\ iter' = Tail(iter)
    /\ UNCHANGED <<conn, nodes, live, kind, result, parent, fault>>

-----------------------------------------------------------------------------
(* ferite_remove_from_result_list reads the parent's list before anything  *)
(* is tested; then it looks its result up there.                           *)
OnList(o) == result[o] # Null /\ nodes[result[o]] > 0

RemoveFault(o) ==
    CASE o \notin parent                          -> "null parent"
      [] o \in parent /\ conn = "freed"           -> "freed parent"
      [] o \in parent /\ conn # "freed"
           /\ OnList(o) /\ result[o] \notin live  -> "double free"
      [] OTHER                                    -> "none"

(* Mutant: the entry stays on the list.                                    *)
ReleaseKeepsNode(o) ==
    /\ live' = live \ {result[o]}
    /\ UNCHANGED nodes

(* A result that is on the list is freed and its node unlinked; one that   *)
(* is not (disconnect has freed it) is left alone.                         *)
Release(o) ==
    IF OnList(o)
      THEN /\ live' = live \ {result[o]}
           /\ nodes' = [nodes EXCEPT ![result[o]] = @ - 1]
      ELSE UNCHANGED <<live, nodes>>

(* Mutant: the result is freed and the object's pointer to it kept.        *)
FinishKeepsPointer(o) ==
    /\ Running /\ Reachable(o)
    /\ IF RemoveFault(o) # "none"
         THEN Fail(RemoveFault(o))
         ELSE /\ Release(o)
              /\ UNCHANGED <<conn, kind, result, parent, iter, fault>>

(* finish: whether or not the object has a result.                         *)
Finish(o) ==
    /\ Running /\ Reachable(o)
    /\ IF RemoveFault(o) # "none"
         THEN Fail(RemoveFault(o))
         ELSE /\ Release(o)
              /\ result' = IF OnList(o) THEN [result EXCEPT ![o] = Null]
                                        ELSE result
              /\ UNCHANGED <<conn, kind, parent, iter, fault>>

(* Mutant: the destructor leaves the result to its parent.                 *)
DestroyLeavesResult(o) ==
    /\ Running /\ Reachable(o)
    /\ kind' = [kind EXCEPT ![o] = "none"]
    /\ result' = [result EXCEPT ![o] = Null]
    /\ parent' = parent \ {o}
    /\ UNCHANGED <<conn, nodes, live, iter, fault>>

(* The destructor of DbiResult: the same for an object with a result, and  *)
(* then its data is gone.                                                  *)
DestroyResult(o) ==
    /\ Running /\ Reachable(o)
    /\ IF result[o] # Null /\ RemoveFault(o) # "none"
         THEN Fail(RemoveFault(o))
         ELSE /\ Release(o)
              /\ kind' = [kind EXCEPT ![o] = "none"]
              /\ result' = [result EXCEPT ![o] = Null]
              /\ parent' = parent \ {o}
              /\ UNCHANGED <<conn, iter, fault>>

-----------------------------------------------------------------------------
(* ferite_deinit_result_list frees the result of every node.               *)
DeinitFault == \E h \in Handles : nodes[h] > 1 \/ (nodes[h] = 1 /\ h \notin live)

DeinitList ==
    /\ live' = {h \in live : nodes[h] = 0}
    /\ nodes' = [h \in Handles |-> 0]

(* Mutant: the connection is closed and the list forgotten.                *)
DisconnectForgetsList ==
    /\ Running /\ conn \in {"connected", "disconnected"}
    /\ nodes' = [h \in Handles |-> 0]
    /\ conn' = "disconnected"
    /\ UNCHANGED <<live, kind, result, parent, iter, fault>>

(* disconnect: the DbiResult objects keep their pointers.                  *)
Disconnect ==
    /\ Running /\ conn \in {"connected", "disconnected"}
    /\ IF DeinitFault
         THEN Fail("double free")
         ELSE /\ DeinitList
              /\ conn' = "disconnected"
              /\ UNCHANGED <<kind, result, parent, iter, fault>>

(* The destructor of Dbi, when none of its queries is running a block.     *)
DestroyDbi ==
    /\ Running /\ conn \in {"connected", "disconnected"}
    /\ iter = <<>>
    /\ IF DeinitFault
         THEN Fail("double free")
         ELSE /\ DeinitList
              /\ conn' = "freed"
              /\ UNCHANGED <<kind, result, parent, iter, fault>>

-----------------------------------------------------------------------------
Next ==
    \/ Connect
    \/ \E o \in Objs, h \in Handles :
          \/ Query(o, h) \/ QueryBlock(o, h)
          \/ QueryBinary(o, h) \/ ListResult(o, h)
    \/ \E o \in Objs : Read(o) \/ Finish(o) \/ DestroyResult(o)
    \/ NextRow \/ LastRow \/ BlockRaised
    \/ Disconnect \/ DestroyDbi

Spec == Init /\ [][Next]_vars

-----------------------------------------------------------------------------
(* Safety.                                                                 *)

(* The list and libdbi agree: no result is on the list twice or after it   *)
(* was freed, and no result leaks, the ones of listTables and listDbs      *)
(* belong to their object alone.                                           *)
ListExact ==
    Running =>
       \A h \in Handles :
          /\ nodes[h] \in {0, 1}
          /\ nodes[h] = 1 => h \in live
          /\ h \in live /\ nodes[h] = 0 =>
                \E o \in Objs : kind[o] = "list" /\ result[o] = h

(* While the connection is up every result an object holds is allocated,   *)
(* and is held by that object alone, although libdbi hands the addresses   *)
(* of freed results out again.                                             *)
HeldResultsSound ==
    Running /\ conn = "connected" =>
       \A o \in Objs :
          result[o] # Null =>
             /\ result[o] \in live
             /\ \A q \in Objs : result[q] = result[o] => q = o

(* However finish(), the destructors, disconnect() and blocks follow each  *)
(* other, no libdbi result is freed twice.                                 *)
NoDoubleFree == fault # "double free"

(* The other accesses to freed memory have one cause each: a result is     *)
(* read after the connection was closed, a result outlives the Dbi object, *)
(* or it was made by a function that sets no parent.                       *)
FaultsExplained ==
    /\ fault = "freed result" => conn \in {"disconnected", "freed"}
    /\ fault = "freed parent" => conn = "freed"
    /\ fault = "null parent"  => \E o \in Objs : kind[o] \in {"binary", "list"}

(* Every way a script can go wrong with a result is one of those.          *)
AccessesSound == NoDoubleFree /\ FaultsExplained

(* "Make dbi free its malloc'ed memory as soon as its not needed any more" *)
(* (dbi/ChangeLog, 10.01.2006): finish() and the destructor of a query's   *)
(* result free that result, at once, and no other.                         *)
DisposeFreesOwn ==
    [][\A o \in Objs :
         (Finish(o) \/ DestroyResult(o)) /\ o \in parent /\ conn = "connected"
            => live' = live \ {result[o]}]_vars
=============================================================================
