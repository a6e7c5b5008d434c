----------------------------- MODULE UpsertTable -----------------------------
(***************************************************************************)
(* What the callers of Dbi.queryUpdateInsert(table, items, conditions)     *)
(* want.  A call stores its own row, once and at one moment between its    *)
(* beginning and its end, and answers true; or it stores nothing and       *)
(* answers false.  A call that raises an Error has done either.            *)
(***************************************************************************)
CONSTANTS Procs, Keys, Vals, None

VARIABLES
    table,      \* table[k]: the values stored for the condition k
    open,       \* open[p]: the row that the call of p has not stored yet
    answer      \* answer[p]: how the last call of p ended

vars == <<table, open, answer>>

Row == [key : Keys, val : Vals]

Init ==
    /\ table \in [Keys -> {{}} \cup {{v} : v \in Vals}]
    /\ open = [p \in Procs |-> None]
    /\ answer = [p \in Procs |-> "none"]

Put(r) == table' = [table EXCEPT ![r.key] = {r.val}]

(* The call of p ends, with its row stored or not.                         *)
End(p, r) ==
    /\ open' = [open EXCEPT ![p] = None]
    /\ \/ /\ Put(r)
          /\ \E a \in {"true", "error"} : answer' = [answer EXCEPT ![p] = a]
       \/ /\ UNCHANGED table
          /\ \E a \in {"false", "error"} : answer' = [answer EXCEPT ![p] = a]

(* It begins, and goes on without having stored anything.                  *)
Begin(p, r) ==
    /\ open[p] = None
    /\ open' = [open EXCEPT ![p] = r]
    /\ answer' = [answer EXCEPT ![p] = "none"]
    /\ UNCHANGED table

(* It begins and ends at one moment.                                       *)
Call(p, r) == open[p] = None /\ End(p, r)

(* It ends later.                                                          *)
Return(p) == open[p] # None /\ End(p, open[p])

(* Other statements remove what is stored for a condition.                 *)
Remove(k) ==
    /\ table' = [table EXCEPT ![k] = {}]
    /\ UNCHANGED <<open, answer>>

Next ==
    \/ \E p \in Procs, r \in Row : Begin(p, r) \/ Call(p, r)
    \/ \E p \in Procs : Return(p)
    \/ \E k \in Keys : Remove(k)

Spec == Init /\ [][Next]_vars
=============================================================================
