---------------------------- MODULE TemplateParse ----------------------------
(***************************************************************************)
(* tag_parse of the template module (template/template/utility.c): the     *)
(* pieces of a template, one after the other, become nodes that are linked *)
(* to a tree with the stack st of the blocks that are open.                *)
(*                                                                         *)
(* A template is the sequence of the kinds of its pieces:                  *)
(*   "open"     [x: [@x: [!x:, a condition or a loop, up to its ]          *)
(*   "end"      ]                                                          *)
(*   "subst"    [x]                                                        *)
(*   "text"     text, and %%%text%%%                                       *)
(*   "include"  [#include x], with the tree of x as its child              *)
(*   "odd"      [#x], or an include whose name starts with . or <: a type  *)
(*              that none of the tests of tag_parse recognises             *)
(*   "error"    a %%%, or a tag but the next, that is not closed           *)
(*   "unclosed" [#x without a ] or a : behind it, at the end of the text    *)
(* Node n is the node of piece n; 0 is NULL.                               *)
(***************************************************************************)
EXTENDS Integers, Sequences

CONSTANT StackSize      \* the entries of st: 101

ASSUME StackAssumption == StackSize \in Nat \ {0}

VARIABLES
    doc,        \* the pieces
    pos,        \* how many of them have been read
    child, next,
    st, sp,
    root,       \* Garbage until it is assigned
    current, state,
    outcome,    \* "parsing", or how tag_parse returned
    depth       \* history: the blocks open before each piece read, by the text

parse == <<doc, pos, child, next, st, sp, root, current, state, outcome, depth>>

Kinds == {"open", "end", "subst", "text", "include", "odd", "error", "unclosed"}

Linked == {"open", "subst", "text", "include"}

Garbage == -1

Nodes == 1..Len(doc)

TypeOK ==
    /\ doc \in Seq(Kinds)
    /\ pos \in 0..Len(doc)
    /\ child \in [Nodes -> Nodes \cup {0}]
    /\ next \in [Nodes -> Nodes \cup {0}]
    /\ st \in [0..StackSize - 1 -> Nodes \cup {0}]
    /\ sp \in -1..StackSize
    /\ root \in Nodes \cup {Garbage}
    /\ current \in Nodes \cup {0}
    /\ state \in Kinds \cup {"none"}
    /\ outcome \in {"parsing", "tree", "unbalanced", "failed", "overflow", "beyond"}
    /\ depth \in [1..pos + 1 -> Int]

InitFor(d) ==
    /\ doc = d /\ pos = 0
    /\ child = [n \in 1..Len(d) |-> 0]
    /\ next = [n \in 1..Len(d) |-> 0]
    /\ st = [k \in 0..StackSize - 1 |-> 0]
    /\ sp = 0 /\ root = Garbage /\ current = 0
    /\ state = "none" /\ outcome = "parsing"
    /\ depth = [i \in {1} |-> 0]

Parsing == outcome = "parsing"

Delta(kind) == CASE kind = "open" -> 1 [] kind = "end" -> -1 [] OTHER -> 0

-----------------------------------------------------------------------------
(* A piece becomes a node.  Right after an open block it is the child of   *)
(* the block; otherwise it follows the current node.                       *)

Place(node, kind) ==
    /\ root' = IF sp = 0 /\ st[0] = 0 THEN node ELSE root
    /\ child' = IF state = "open" THEN [child EXCEPT ![current] = node] ELSE child
    /\ next' = IF state # "open" /\ current # 0 /\ kind \in Linked
                 THEN [next EXCEPT ![current] = node] ELSE next

Read(node, kind) ==
    /\ Parsing /\ pos < Len(doc)
    /\ node = pos + 1 /\ kind = doc[node]
    /\ pos' = node
    /\ depth' = [i \in 1..node + 1 |->
                   IF i <= node THEN depth[i] ELSE depth[node] + Delta(kind)]
    /\ UNCHANGED doc

(* A block: its node waits on the stack for the ] .                        *)
Open(node) ==
    /\ Read(node, "open")
    /\ sp < StackSize
    /\ Place(node, "open")
    /\ st' = [st EXCEPT ![sp] = node]
    /\ sp' = sp + 1
    /\ current' = node /\ state' = "open"
    /\ UNCHANGED outcome

(* Mutant: a leaf keeps its entry of the stack.                            *)
LeafStays(node, kind) ==
    /\ Read(node, kind)
    /\ kind \in Linked \ {"open"}
    /\ sp < StackSize
    /\ Place(node, kind)
    /\ st' = [st EXCEPT ![sp] = node]
    /\ sp' = sp + 1
    /\ current' = node /\ state' = kind
    /\ UNCHANGED outcome

(* Any other node that is linked takes the entry of the one before it.     *)
Leaf(node, kind) ==
    /\ Read(node, kind)
    /\ kind \in Linked \ {"open"}
    /\ sp < StackSize
    /\ Place(node, kind)
    /\ st' = [st EXCEPT ![sp] = node]
    /\ current' = node /\ state' = kind
    /\ UNCHANGED <<sp, outcome>>

(* A block or a leaf too deep for st.                                      *)
Overflow(node, kind) ==
    /\ Read(node, kind)
    /\ kind \in Linked /\ sp = StackSize
    /\ outcome' = "overflow"
    /\ UNCHANGED <<child, next, st, sp, root, current, state>>

(* None of the tests applies, but the node is the current one.             *)
Odd(node) ==
    /\ Read(node, "odd")
    /\ Place(node, "odd")
    /\ current' = node /\ state' = "odd"
    /\ UNCHANGED <<st, sp, outcome>>

(* Mutant: what follows the ] is linked to what was in the block.          *)
EndKeepsCurrent(node) ==
    /\ Read(node, "end")
    /\ Place(node, "end")
    /\ sp' = sp - 1
    /\ IF sp = 0
         THEN outcome' = "unbalanced" /\ UNCHANGED <<current, state>>
         ELSE state' = "end" /\ UNCHANGED <<current, outcome>>
    /\ UNCHANGED st

(* A ] goes back to the block's node; one too many ends the template.      *)
End(node) ==
    /\ Read(node, "end")
    /\ Place(node, "end")
    /\ sp' = sp - 1
    /\ IF sp = 0
         THEN /\ outcome' = "unbalanced"
              /\ UNCHANGED <<current, state>>
         ELSE /\ current' = st[sp - 1] /\ state' = "end"
              /\ UNCHANGED outcome
    /\ UNCHANGED st

(* TAG_ERROR: root is freed, whatever it is.                               *)
Error(node) ==
    /\ Read(node, "error")
    /\ outcome' = "failed"
    /\ UNCHANGED <<child, next, st, sp, root, current, state>>

(* tag_get_piece steps over the 0 at the end of the text, and the next     *)
(* piece is read from what is behind it.                                   *)
Unclosed(node) ==
    /\ Read(node, "unclosed")
    /\ outcome' = "beyond"
    /\ UNCHANGED <<child, next, st, sp, root, current, state>>

(* Mutant: blocks left open are not reported.                              *)
FinishQuietly ==
    /\ Parsing /\ pos = Len(doc)
    /\ outcome' = "tree"
    /\ UNCHANGED <<doc, pos, child, next, st, sp, root, current, state, depth>>

(* TAG_NOMOREDATA: root is returned, whatever it is.                       *)
Finish ==
    /\ Parsing /\ pos = Len(doc)
    /\ outcome' = IF sp = 0 THEN "tree" ELSE "unbalanced"
    /\ UNCHANGED <<doc, pos, child, next, st, sp, root, current, state, depth>>

ParseNext ==
    \/ \E node \in Nodes :
          \/ Open(node) \/ Odd(node) \/ End(node) \/ Error(node) \/ Unclosed(node)
          \/ \E kind \in Linked : Leaf(node, kind) \/ Overflow(node, kind)
    \/ Finish

ParseSpec == (doc \in Seq(Kinds) /\ InitFor(doc)) /\ [][ParseNext]_parse

-----------------------------------------------------------------------------
(* Piece e, a ], closes the block m.                                       *)
Closes(e, m) ==
    /\ m < e /\ doc[m] = "open" /\ doc[e] = "end"
    /\ depth[m] + 1 = depth[e]
    /\ \A k \in m + 1..e : depth[k] > depth[m]

(* What a node must be linked from, given the pieces before it: the block  *)
(* it is first in, the piece before it, or the block closed before it.     *)
LinkRight(i) ==
    /\ doc[i - 1] = "open" => child[i - 1] = i
    /\ doc[i - 1] \notin {"open", "end"} /\ doc[i] \in Linked => next[i - 1] = i
    /\ doc[i - 1] = "end" /\ doc[i] \in Linked =>
         \E m \in 1..i - 2 : Closes(i - 1, m) /\ next[m] = i

(* Every node read is where it belongs, and is nowhere else; the stack     *)
(* counts the blocks that are open.                                        *)
TreeRight ==
    outcome \in {"parsing", "tree"} =>
       /\ sp = depth[pos + 1]
       /\ \A i \in 2..pos : LinkRight(i)
       /\ \A n \in 1..pos :
             /\ child[n] # 0 => child[n] = n + 1 /\ doc[n] = "open"
             /\ next[n] # 0 =>
                   /\ doc[next[n]] \in Linked
                   /\ \/ next[n] = n + 1 /\ doc[n] \notin {"open", "end"}
                      \/ Closes(next[n] - 1, n)

(* "Unbalanced tree" is reported for exactly the templates whose brackets  *)
(* do not match.                                                           *)
ReportExact ==
    outcome \in {"tree", "unbalanced"} =>
       (outcome = "tree" <=>
          /\ pos = Len(doc) /\ depth[pos + 1] = 0
          /\ \A i \in 1..pos : depth[i] >= 0)

(* st is written beyond its entries by exactly the templates that have a   *)
(* piece in as many blocks as st has entries, at the first such piece,     *)
(* whatever was opened and closed before it (utility.c:259-271).           *)
StackExact ==
    \A i \in 1..pos :
       doc[i] \in Linked => (depth[i] >= StackSize <=> outcome = "overflow" /\ i = pos)

Rendered(i) ==
    \A S \in SUBSET Nodes :
       root \in S /\ (\A n \in S : {child[n], next[n]} \ {0} \subseteq S) => i \in S

(* No piece of a balanced template is lost but behind an odd one.          *)
NothingLost ==
    outcome = "tree" =>
       \A i \in 1..pos :
          doc[i] # "end" /\ (\A j \in 1..i : doc[j] # "odd") => Rendered(i)

(* The tree is the template's: each piece is linked from where it belongs, *)
(* and none is missing (utility.c:243-285).                                *)
ParseRight == TreeRight /\ NothingLost
=============================================================================
