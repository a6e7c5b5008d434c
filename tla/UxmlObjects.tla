----------------------------- MODULE UxmlObjects -----------------------------
(***************************************************************************)
(* The objects of class uXML (uxml/uxml/uxml.fec).  The one a script makes *)
(* owns the tree that uxml_parse returns, the text its nodes point into    *)
(* and the buffer of the leaves it adds.  path_asRef(), asRefObject(),     *)
(* nodeNext() and nodeChild() make further objects, the refs, that point   *)
(* to a node of that tree and own nothing; nothing keeps the owner alive.  *)
(***************************************************************************)
EXTENDS UxmlParse

CONSTANTS
    Refs,
    Later, Queries, \* what may be parsed after the first document
    MaxParses   \* bound on the documents read in all

ASSUME ObjectsAssumption ==
    /\ MaxParses \in Nat \ {0}
    /\ Later \subseteq Seq(Tags) /\ Queries \subseteq Seq(Tags)

VARIABLES
    alive,      \* the owner has not been destroyed
    root,       \* ctx->tree of the owner
    text,       \* ctx->ptr of the owner: "null", "held" or "freed"
    ref,        \* ctx->tree of each ref
    leaves,     \* how many leaves were added to the document
    parses,
    fault,
    causes      \* history: what was done that leaves a pointer behind

objects == <<alive, root, text, ref, leaves, parses, fault, causes>>

vars == <<parse, objects>>

None == 0
Outdated == -1  \* a node of an earlier document, or of a freed one of its own
Own == -2       \* a document of its own, which nothing ever frees

TypeOK ==
    /\ doc \in Seq(Tags) /\ pos \in 0..Len(doc)
    /\ child \in [Nodes -> Nodes \cup {0}] /\ next \in [Nodes -> Nodes \cup {0}]
    /\ freed \subseteq Nodes
    /\ sp \in -1..StackSize /\ st \in [0..StackSize - 1 -> 0..Len(doc)]
    /\ alive \in BOOLEAN
    /\ root \in Nodes \cup {None, Outdated}
    /\ text \in {"null", "held", "freed"}
    /\ ref \in [Refs -> Nodes \cup {None, Outdated, Own}]
    /\ leaves \in 0..MaxLeaves /\ parses \in 0..MaxParses
    /\ fault \in {"none", "null", "freed", "double free"}
    /\ causes \subseteq {"comments", "not opened", "ref parsed", "outlived"}

ObjectsInit(d) ==
    /\ InitFor(d)
    /\ alive = TRUE /\ root = None /\ text = "held"
    /\ ref = [r \in Refs |-> None]
    /\ leaves = 0 /\ parses = 1 /\ fault = "none" /\ causes = {}

-----------------------------------------------------------------------------
LinksOut(k, S) ==
    \/ child[k] # 0 /\ child[k] \notin S
    \/ next[k] # 0 /\ next[k] \notin S

(* What is reached from node n, the nodes after it included: what          *)
(* uxml_free(n) frees and what a function that walks the tree reads.  It   *)
(* is each node without which no set that has n keeps all of its links.    *)
Reached(n) ==
    {m \in Nodes : \A S \in SUBSET (Nodes \ {m}) : n \in S => \E k \in S : LinksOut(k, S)}

(* Some of what p leads to was freed.                                      *)
Dangling(p) == p = Outdated \/ (p \in Nodes /\ Reached(p) \cap freed # {})

Idle == ~Parsing /\ outcome \notin {"overflow", "beyond"} /\ fault = "none"

(* The owner gets what uxml_parse returns, which may be a comment's node.  *)
ParseStep ==
    /\ ParseNext
    /\ root' = IF outcome' = "parsing" THEN None ELSE Result'
    /\ causes' = IF root' \in freed' THEN causes \cup {"comments"} ELSE causes
    /\ UNCHANGED <<alive, text, ref, leaves, parses, fault>>

(* What is freed before another document is read.                          *)
Discard ==
    fault' = IF text = "freed" \/ Dangling(root)
               THEN "double free" ELSE fault

Forget == ref' = [r \in Refs |-> IF ref[r] \in Nodes THEN Outdated ELSE ref[r]]

Outlived == IF \E r \in Refs : ref[r] \in Nodes THEN {"outlived"} ELSE {}

Document(d) ==
    /\ doc' = d
    /\ st' = [k \in 0..StackSize - 1 |-> 0]
    /\ sp' = 0 /\ tree' = 0 /\ state' = "none" /\ depth' = <<0>>
    /\ child' = [n \in 1..Len(d) + MaxLeaves |-> 0]
    /\ freed' = {} /\ leaves' = 0 /\ parses' = parses + 1
    /\ UNCHANGED alive

(* parse(), and parsefile() of a file that can be opened.                  *)
Reparse(d) ==
    /\ Idle /\ alive /\ parses < MaxParses
    /\ Discard /\ Forget /\ Document(d)
    /\ pos' = 0 /\ outcome' = "parsing"
    /\ next' = [n \in 1..Len(d) + MaxLeaves |-> 0]
    /\ root' = None /\ text' = "held"
    /\ causes' = causes \cup Outlived

(* Mutant: the text is freed and its pointer kept.                         *)
ParseQueryKeepsText(d) ==
    /\ Idle /\ alive /\ parses < MaxParses
    /\ Discard /\ Forget /\ Document(d)
    /\ pos' = Len(d) /\ outcome' = "query"
    /\ next' = [n \in 1..Len(d) + MaxLeaves |-> IF n <= Len(d) THEN n - 1 ELSE 0]
    /\ root' = Len(d) /\ text' = IF text = "null" THEN "null" ELSE "freed"
    /\ causes' = causes \cup Outlived

(* parse_query(): a list of the pairs, the last one first.                 *)
ParseQuery(d) ==
    /\ Idle /\ alive /\ parses < MaxParses
    /\ Discard /\ Forget /\ Document(d)
    /\ pos' = Len(d) /\ outcome' = "query"
    /\ next' = [n \in 1..Len(d) + MaxLeaves |-> IF n <= Len(d) THEN n - 1 ELSE 0]
    /\ root' = Len(d) /\ text' = "null"
    /\ causes' = causes \cup Outlived

(* parsefile() of a file that cannot be opened keeps what it has freed.    *)
NotOpened ==
    /\ Idle /\ alive /\ parses < MaxParses
    /\ Discard
    /\ text' = IF text = "null" THEN "null" ELSE "freed"
    /\ freed' = IF root = None THEN freed ELSE freed \cup Reached(root)
    /\ parses' = parses + 1
    /\ causes' = causes \cup Outlived \cup {"not opened"}
    /\ UNCHANGED <<doc, pos, child, next, st, sp, tree, state, outcome, depth>>
    /\ UNCHANGED <<alive, root, ref, leaves>>

(* The destructor of the owner.                                            *)
DestroyOwner ==
    /\ Idle /\ alive
    /\ Discard
    /\ alive' = FALSE /\ root' = None /\ text' = "null"
    /\ freed' = IF root = None THEN freed ELSE freed \cup Reached(root)
    /\ causes' = causes \cup Outlived
    /\ UNCHANGED <<doc, pos, child, next, st, sp, tree, state, outcome, depth>>
    /\ UNCHANGED <<ref, leaves, parses>>

-----------------------------------------------------------------------------
Pointers == (IF alive THEN {root} ELSE {}) \cup {ref[r] : r \in Refs}

(* path_asRef(), asRefObject(), nodeNext(), nodeChild() of any object, that *)
(* find node n.                                                            *)
MakeRef(r, n) ==
    /\ Idle /\ ref[r] = None
    /\ \E p \in Pointers \cap Nodes : ~Dangling(p) /\ n \in Reached(p)
    /\ ref' = [ref EXCEPT ![r] = n]
    /\ UNCHANGED parse /\ UNCHANGED <<alive, root, text, leaves, parses, fault, causes>>

(* The destructor of a ref frees its ctx only.                             *)
DestroyRef(r) ==
    /\ Idle /\ ref[r] # None
    /\ ref' = [ref EXCEPT ![r] = None]
    /\ UNCHANGED parse /\ UNCHANGED <<alive, root, text, leaves, parses, fault, causes>>

(* A ref can be told to parse() too: it frees its node, what is below it   *)
(* and what is behind it.                                                  *)
RefParses(r) ==
    /\ Idle /\ ref[r] \notin {None, Own}
    /\ fault' = IF Dangling(ref[r]) THEN "double free" ELSE fault
    /\ freed' = IF ref[r] = Outdated THEN freed ELSE freed \cup Reached(ref[r])
    /\ ref' = [ref EXCEPT ![r] = Own]
    /\ causes' = causes \cup {"ref parsed"}
    /\ UNCHANGED <<doc, pos, child, next, st, sp, tree, state, outcome, depth>>
    /\ UNCHANGED <<alive, root, text, leaves, parses>>

(* And to parsefile() what cannot be opened: it keeps what it has freed.   *)
RefNotOpened(r) ==
    /\ Idle /\ ref[r] # None
    /\ fault' = IF Dangling(ref[r]) THEN "double free" ELSE fault
    /\ freed' = IF ref[r] \in Nodes THEN freed \cup Reached(ref[r]) ELSE freed
    /\ ref' = [ref EXCEPT ![r] = IF @ = Own THEN Outdated ELSE @]
    /\ causes' = causes \cup {"not opened"}
    /\ UNCHANGED <<doc, pos, child, next, st, sp, tree, state, outcome, depth>>
    /\ UNCHANGED <<alive, root, text, leaves, parses>>

(* Mutant: the leaf takes the place of the children.                       *)
AddLeafOnly(n) ==
    /\ Idle /\ leaves < MaxLeaves /\ n \notin freed
    /\ \E p \in Pointers \cap Nodes : ~Dangling(p) /\ n \in Reached(p)
    /\ leaves' = leaves + 1
    /\ child' = [child EXCEPT ![n] = Len(doc) + leaves']
    /\ UNCHANGED <<doc, pos, next, freed, st, sp, tree, state, outcome, depth>>
    /\ UNCHANGED <<alive, root, text, ref, parses, fault, causes>>

(* addLeaf() and path_addLeaf() of any object: a first child for node n.   *)
AddLeaf(n) ==
    /\ Idle /\ leaves < MaxLeaves /\ n \notin freed
    /\ \E p \in Pointers \cap Nodes : ~Dangling(p) /\ n \in Reached(p)
    /\ leaves' = leaves + 1
    /\ next' = [next EXCEPT ![Len(doc) + leaves'] = child[n]]
    /\ child' = [child EXCEPT ![n] = Len(doc) + leaves']
    /\ UNCHANGED <<doc, pos, freed, st, sp, tree, state, outcome, depth>>
    /\ UNCHANGED <<alive, root, text, ref, parses, fault, causes>>

(* Any other function of an object reads its node, or walks the tree; and  *)
(* every object adds its leaves to the owner's buffer.                     *)
UseFault(kind) ==
    /\ Idle
    /\ \/ kind = "null" /\ alive /\ root = None
       \/ /\ kind = "freed"
          /\ \/ \E p \in Pointers : Dangling(p) = TRUE
             \/ ~alive /\ Own \in Pointers
    /\ fault' = kind
    /\ UNCHANGED parse /\ UNCHANGED <<alive, root, text, ref, leaves, parses, causes>>

ObjectsNext ==
    \/ ParseStep \/ NotOpened \/ DestroyOwner
    \/ \E d \in Later : Reparse(d)
    \/ \E d \in Queries : ParseQuery(d)
    \/ \E r \in Refs : RefParses(r) \/ RefNotOpened(r) \/ DestroyRef(r)
    \/ \E r \in Refs, n \in Nodes : MakeRef(r, n)
    \/ \E n \in Nodes : AddLeaf(n)
    \/ \E kind \in {"null", "freed"} : UseFault(kind)

Spec == (\E d \in Seq(Tags) : ObjectsInit(d)) /\ [][ObjectsNext]_vars

-----------------------------------------------------------------------------
(* A document is accepted if and only if it is well formed, and before     *)
(* leaves are added its tree is that of its text (util_uxml.c:211-296).    *)
DocumentRight == AcceptsWellFormed /\ (leaves = 0 => TreeRight)

(* As long as no document was comments only, no file failed to open and no *)
(* ref was told to parse, the owner's tree is allocated, and every ref of  *)
(* this document is in it, whatever was added since.                       *)
TreeHeld ==
    ~Parsing /\ alive /\ causes \subseteq {"outlived"} /\ fault = "none" =>
       /\ root # None => ~Dangling(root)
       /\ \A r \in Refs : ref[r] \in Nodes => root # None /\ ref[r] \in Reached(root)

(* A tree or a text is freed twice only after one of those; freed memory   *)
(* is read only after one of those, or by a ref whose document was         *)
(* replaced or whose owner was destroyed.                                  *)
FaultsExplained ==
    LET broken == causes \cap {"comments", "not opened", "ref parsed"} # {} IN
    /\ fault = "double free" => broken
    /\ fault = "freed" =>
          \/ broken
          \/ "outlived" \in causes /\ \E r \in Refs :
                ref[r] = Outdated \/ (ref[r] \in Nodes /\ ~alive)
=============================================================================
