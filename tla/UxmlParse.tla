------------------------------ MODULE UxmlParse ------------------------------
(***************************************************************************)
(* uxml_parse (uxml/uxml/util_uxml.c): the tags of a document, one after   *)
(* the other, become nodes that are linked to a tree with the stack st of  *)
(* the elements that are open.  Text between tags is no node: an element's *)
(* value is the text from its tag to its closing tag.                      *)
(*                                                                         *)
(* A document is the sequence of its tags.  A tag has a name and a kind:   *)
(*   "start" <x>    "end" </x>    "empty" <x/>    "comment" <!..> or <?..> *)
(*   "badstart", "badend": uxml_parse_arguments refuses what follows the   *)
(*   name.                                                                 *)
(* Node n is the node of tag n; 0 is NULL.                                 *)
(***************************************************************************)
EXTENDS Integers, Sequences

CONSTANTS
    StackSize,  \* the entries of st: 100
    Names,
    MaxLeaves   \* bound on the nodes that addLeaf() adds to a document

ASSUME ParseAssumption == StackSize \in Nat \ {0} /\ MaxLeaves \in Nat

VARIABLES
    doc,        \* the tags
    pos,        \* how many of them have been read
    child, next,
    freed,      \* the nodes that were freed
    st, sp,
    tree,       \* the local variable of uxml_parse
    state,
    outcome,    \* "parsing", or how uxml_parse returned
    depth       \* history: the elements open before each tag read, by the text

parse == <<doc, pos, child, next, freed, st, sp, tree, state, outcome, depth>>

Kinds == {"start", "end", "empty", "comment", "badstart", "badend"}

Tags == [kind : Kinds, name : Names]

Elements == {"start", "empty", "badstart"}

Nodes == 1..Len(doc) + MaxLeaves

InitFor(d) ==
    /\ doc = d /\ pos = 0
    /\ child = [n \in 1..Len(d) + MaxLeaves |-> 0]
    /\ next = [n \in 1..Len(d) + MaxLeaves |-> 0]
    /\ freed = {}
    /\ st = [k \in 0..StackSize - 1 |-> 0]
    /\ sp = 0 /\ tree = 0 /\ state = "none"
    /\ outcome = "parsing"
    /\ depth = <<0>>

Parsing == outcome = "parsing"

Delta(kind) == CASE kind \in {"start", "badstart"} -> 1 [] kind = "end" -> -1 [] OTHER -> 0

-----------------------------------------------------------------------------

Read(kind) ==
    /\ Parsing /\ pos < Len(doc)
    /\ doc[pos + 1].kind = kind
    /\ pos' = pos + 1
    /\ depth' = Append(depth, depth[pos + 1] + Delta(kind))
    /\ tree' = IF sp = 0 /\ st[0] = 0 THEN pos + 1 ELSE tree
    /\ UNCHANGED doc

(* Mutant: what follows an empty element, or a comment behind a closing    *)
(* tag, is linked from nowhere.                                            *)
LinkAfterEnd(node) ==
    /\ child' = IF sp > 0 /\ state = "start" THEN [child EXCEPT ![st[sp - 1]] = node] ELSE child
    /\ next' = IF state = "end" /\ doc[pos].kind = "end"
                 THEN [next EXCEPT ![st[sp]] = node] ELSE next

(* The first in an element is its child; what follows an element that was  *)
(* closed is next to it.                                                   *)
Link(node) ==
    /\ child' = IF sp > 0 /\ state = "start" THEN [child EXCEPT ![st[sp - 1]] = node] ELSE child
    /\ next' = IF state = "end" THEN [next EXCEPT ![st[sp]] = node] ELSE next

Start ==
    /\ Read("start") /\ sp < StackSize
    /\ Link(pos + 1)
    /\ st' = [st EXCEPT ![sp] = pos + 1] /\ sp' = sp + 1
    /\ state' = "start"
    /\ UNCHANGED <<freed, outcome>>

Empty ==
    /\ Read("empty") /\ sp < StackSize
    /\ Link(pos + 1)
    /\ st' = [st EXCEPT ![sp] = pos + 1] /\ sp' = sp
    /\ state' = "end"
    /\ UNCHANGED <<freed, outcome>>

(* An element too deep for st.                                             *)
Overflow(kind) ==
    /\ kind \in Elements /\ Read(kind) /\ sp = StackSize
    /\ outcome' = "overflow"
    /\ UNCHANGED <<child, next, freed, st, sp, state>>

(* The node is freed, though tree may be that node.                        *)
Comment ==
    /\ Read("comment")
    /\ freed' = freed \cup {pos + 1}
    /\ UNCHANGED <<child, next, st, sp, state, outcome>>

(* Mutant: nobody looks whether there is an element to close.              *)
EndUnchecked ==
    /\ Read("end")
    /\ sp' = sp - 1
    /\ IF sp <= 0
         THEN UNCHANGED <<freed, state, outcome>>
         ELSE /\ state' = "end" /\ freed' = freed \cup {pos + 1}
              /\ UNCHANGED outcome
    /\ UNCHANGED <<child, next, st>>

(* A closing tag must have an element to close, and its name.              *)
End ==
    /\ Read("end")
    /\ sp' = sp - 1
    /\ IF sp = 0
         THEN outcome' = "premature" /\ UNCHANGED <<freed, state>>
         ELSE IF doc[st[sp - 1]].name # doc[pos + 1].name
         THEN outcome' = "nesting" /\ UNCHANGED <<freed, state>>
         ELSE /\ state' = "end" /\ freed' = freed \cup {pos + 1}
              /\ UNCHANGED outcome
    /\ UNCHANGED <<child, next, st>>

(* How a document that ends in this many elements returns.  The message    *)
(* about the open ones begins at st[sp]: an entry behind st if all of them *)
(* are used, and what is there need not be a node.                         *)
Returns(top, verdict) ==
    outcome' \in IF top = StackSize THEN {verdict, "beyond"} ELSE {verdict}

(* Arguments that cannot be parsed end the document: an element was linked *)
(* by then, a closing tag has not closed anything.                         *)
BadStart ==
    /\ Read("badstart") /\ sp < StackSize
    /\ Link(pos + 1)
    /\ st' = [st EXCEPT ![sp] = pos + 1] /\ sp' = sp + 1
    /\ Returns(sp + 1, "arguments")
    /\ UNCHANGED <<freed, state>>

BadEnd ==
    /\ Read("badend")
    /\ Returns(sp, "arguments")
    /\ UNCHANGED <<child, next, freed, st, sp, state>>

(* The end of the text.                                                    *)
Finish ==
    /\ Parsing /\ pos = Len(doc)
    /\ Returns(sp, IF sp = 0 THEN "tree" ELSE "unbalanced")
    /\ UNCHANGED <<doc, pos, child, next, freed, st, sp, tree, state, depth>>

ParseNext ==
    \/ Start \/ Empty \/ Comment \/ End \/ BadStart \/ BadEnd \/ Finish
    \/ \E kind \in Elements : Overflow(kind)

(* What uxml_parse returns.                                                *)
Result == IF outcome \in {"premature", "nesting"} THEN 0 ELSE tree

-----------------------------------------------------------------------------
(* Tag e closes the element m: an empty one closes itself.                 *)
Closes(e, m) ==
    \/ e = m /\ doc[e].kind = "empty"
    \/ /\ m < e /\ doc[m].kind = "start" /\ doc[e].kind = "end"
       /\ depth[m] + 1 = depth[e]
       /\ \A k \in m + 1..e : depth[k] > depth[m]

(* The tag before i, comments left out; 0 if there is none.                *)
Before(i) ==
    LET earlier == {j \in 1..i - 1 : doc[j].kind # "comment"}
    IN IF earlier = {} THEN 0 ELSE CHOOSE j \in earlier : \A k \in earlier : k <= j

(* While a document is read, its elements are linked as its text nests     *)
(* them, and not otherwise.                                                *)
TreeRight ==
    outcome \in {"parsing", "tree", "unbalanced"} =>
       \A i \in 1..pos :
          /\ doc[i].kind \in Elements /\ Before(i) # 0 =>
               IF doc[Before(i)].kind = "start"
                 THEN child[Before(i)] = i
                 ELSE \E m \in 1..i - 1 : Closes(Before(i), m) /\ next[m] = i
          /\ child[i] \in 1..Len(doc) =>
               doc[i].kind = "start" /\ Before(child[i]) = i
          /\ next[i] \in 1..Len(doc) => Closes(Before(next[i]), i)

(* A document is accepted if and only if every element is closed by its    *)
(* own name.                                                               *)
AcceptsWellFormed ==
    outcome \in {"tree", "premature", "nesting", "arguments", "unbalanced"} =>
       (outcome = "tree" <=>
          /\ pos = Len(doc) /\ depth[pos + 1] = 0
          /\ \A i \in 1..Len(doc) : doc[i].kind \notin {"badstart", "badend"}
          /\ \A e \in 1..pos : doc[e].kind = "end" =>
                \E m \in 1..e - 1 : Closes(e, m) /\ doc[m].name = doc[e].name)
=============================================================================
