------------------------------ MODULE DbiUpsert ------------------------------
(***************************************************************************)
(* Dbi.queryUpdateInsert (dbi/dbi/dbi.fec): an UPDATE, and an INSERT when  *)
(* the UPDATE reports that it affected no row.  The two statements are not *)
(* in a transaction, and every script process has a connection of its own, *)
(* so the statements of several calls interleave in the database.          *)
(*                                                                         *)
(* Two things the code cannot know are chosen once, at the start: whether  *)
(* the columns of the conditions have a unique index, and whether the      *)
(* server counts the rows an UPDATE changed or the ones it matched.        *)
(***************************************************************************)
CONSTANTS
    Procs,      \* the connections
    Keys,       \* the values of the condition columns
    Vals,       \* the values of the other columns
    Ids,        \* the places for rows in the table
    None

VARIABLES
    rows,       \* rows[i]: the row in place i, or None
    server,     \* unique: there is an index; changed: only changes are counted
    pc,         \* pc[p]: no call, or between the UPDATE and the INSERT
    call,       \* call[p]: the items and conditions of the last call
    answer,     \* answer[p]: how the last call ended
    hazard      \* the keys for which the calls ran into each other

upsertVars == <<rows, server, pc, call, answer, hazard>>

Row == [key : Keys, val : Vals]

ASSUME NoneAssumption == None \notin Row

Answers == {"none", "true", "false", "error"}

UpsertTypeOK ==
    /\ rows \in [Ids -> Row \cup {None}]
    /\ server \in [unique : BOOLEAN, changed : BOOLEAN]
    /\ pc \in [Procs -> {"idle", "insert"}]
    /\ call \in [Procs -> Row \cup {None}]
    /\ answer \in [Procs -> Answers]
    /\ hazard \subseteq Keys

UpsertInit ==
    /\ rows = [i \in Ids |-> None]
    /\ server \in [unique : BOOLEAN, changed : BOOLEAN]
    /\ pc = [p \in Procs |-> "idle"]
    /\ call = [p \in Procs |-> None]
    /\ answer = [p \in Procs |-> "none"]
    /\ hazard = {}

(* The rows of a key, and the ones among them that an UPDATE counts.       *)
Matching(k) == {i \in Ids : rows[i] # None /\ rows[i].key = k}

Affected(r) ==
    {i \in Matching(r.key) : server.changed => rows[i].val # r.val}

Inserting(p, k) == pc[p] = "insert" /\ call[p].key = k

(* The UPDATE affects no row although the INSERT may find one: another     *)
(* call is about to insert the same key, or a row has the value already.   *)
Collision(p, r) ==
    /\ Affected(r) = {}
    /\ Matching(r.key) # {} \/ \E q \in Procs \ {p} : Inserting(q, r.key)

(* Mutant: the WHERE clause is left out.                                   *)
UpdatedEverywhere(r) == [i \in Ids |-> IF rows[i] # None THEN r ELSE None]

(* The table after the UPDATE.                                             *)
Updated(r) == [i \in Ids |-> IF i \in Matching(r.key) THEN r ELSE rows[i]]

-----------------------------------------------------------------------------
(* Mutant: the INSERT is sent whatever the UPDATE affected.                *)
UpdateThenInsert(p, r) ==
    /\ pc[p] = "idle"
    /\ rows' = Updated(r)
    /\ call' = [call EXCEPT ![p] = r]
    /\ pc' = [pc EXCEPT ![p] = "insert"]
    /\ answer' = [answer EXCEPT ![p] = "none"]
    /\ hazard' = IF Collision(p, r) THEN hazard \cup {r.key} ELSE hazard
    /\ UNCHANGED server

(* A call with the conditions r.key and the items r.val: the UPDATE.       *)
Update(p, r) ==
    /\ pc[p] = "idle"
    /\ rows' = Updated(r)
    /\ call' = [call EXCEPT ![p] = r]
    /\ IF Affected(r) = {}
         THEN /\ pc' = [pc EXCEPT ![p] = "insert"]
              /\ answer' = [answer EXCEPT ![p] = "none"]
         ELSE /\ answer' = [answer EXCEPT ![p] = "true"]
              /\ UNCHANGED pc
    /\ hazard' = IF Collision(p, r) THEN hazard \cup {r.key} ELSE hazard
    /\ UNCHANGED server

(* The UPDATE fails, or its answer is lost, and an Error is raised.        *)
UpdateFails(p, r) ==
    /\ pc[p] = "idle"
    /\ rows' \in {rows, Updated(r)}
    /\ call' = [call EXCEPT ![p] = r]
    /\ answer' = [answer EXCEPT ![p] = "error"]
    /\ UNCHANGED <<server, pc, hazard>>

(* The call ends.                                                          *)
Return(p, a) ==
    /\ pc' = [pc EXCEPT ![p] = "idle"]
    /\ answer' = [answer EXCEPT ![p] = a]
    /\ UNCHANGED <<server, call, hazard>>

(* The server stores a row.  With an index it takes it for a new key only. *)
Store(r) ==
    /\ server.unique => Matching(r.key) = {}
    /\ \E i \in Ids :
          /\ rows[i] = None
          /\ rows' = [rows EXCEPT ![i] = r]

(* The INSERT.                                                             *)
Insert(p) ==
    /\ pc[p] = "insert"
    /\ Store(call[p])
    /\ Return(p, "true")

(* Mutant: a failed INSERT is answered like one that was not needed.       *)
InsertFailsQuietly(p) ==
    /\ pc[p] = "insert"
    /\ UNCHANGED rows
    /\ Return(p, "true")

(* The INSERT fails, or its answer is lost, and an Error is raised.        *)
InsertFails(p) ==
    /\ pc[p] = "insert"
    /\ UNCHANGED rows \/ Store(call[p])
    /\ Return(p, "error")

(* The server accepts the INSERT and stores nothing (a rule or a trigger). *)
InsertNothing(p) ==
    /\ pc[p] = "insert"
    /\ UNCHANGED rows
    /\ Return(p, "false")

(* A row is deleted by other statements.                                   *)
Delete(k) ==
    /\ Matching(k) # {}
    /\ rows' = [i \in Ids |-> IF i \in Matching(k) THEN None ELSE rows[i]]
    /\ UNCHANGED <<server, pc, call, answer, hazard>>

UpsertNext ==
    \/ \E p \in Procs, r \in Row : Update(p, r) \/ UpdateFails(p, r)
    \/ \E p \in Procs : Insert(p) \/ InsertFails(p) \/ InsertNothing(p)
    \/ \E k \in Keys : Delete(k)

UpsertSpec == UpsertInit /\ [][UpsertNext]_upsertVars

-----------------------------------------------------------------------------
(* A key has at most one row, unless two calls for it were between their   *)
(* statements at once or an UPDATE that changed nothing was counted as     *)
(* one that found nothing; with an index it has one row always.            *)
OneRow ==
    \A k \in Keys :
       k \notin hazard \/ server.unique =>
          \A i, j \in Matching(k) : i = j

Stored(p) ==
    /\ \E i \in Ids : rows[i] = call[p]
    /\ call[p].key \notin hazard =>
         \A i \in Matching(call[p].key) : rows[i] = call[p]

(* A call that answers true leaves a row with its items and, unless the    *)
(* calls ran into each other, none with other items; one that answers      *)
(* false leaves the table alone.  One that raises may have done either.    *)
AnswerTells ==
    [][\A p \in Procs :
         /\ answer'[p] = "true" /\ answer[p] # "true" => Stored(p)'
         /\ answer'[p] = "false" /\ answer[p] # "false" => UNCHANGED rows]_upsertVars

(* Until a hazard every call stores its own row, once and at one moment,   *)
(* or nothing, and its answer says which (UpsertTable).                    *)
Table == [k \in Keys |-> {rows[i].val : i \in Matching(k)}]

Open == [p \in Procs |-> IF pc[p] = "insert" THEN call[p] ELSE None]

Upsert == INSTANCE UpsertTable WITH table <- Table, open <- Open

ImplementsUpsert ==
    Upsert!Init /\ [][hazard' = {} => [Upsert!Next]_(Upsert!vars)]_upsertVars
=============================================================================
