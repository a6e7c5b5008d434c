----------------------------- MODULE Uxml_proofs -----------------------------
(***************************************************************************)
(* Proofs about UxmlParse and UxmlObjects: for every document, size of the *)
(* stack st, number of refs and bounds, uxml_parse accepts exactly the     *)
(* well-formed documents and links them as they nest, the owner's tree     *)
(* stays allocated with every ref in it, and each access to freed memory   *)
(* has one of the known causes.                                            *)
(***************************************************************************)
EXTENDS UxmlObjects, TLAPS


(* The inductive invariant.  First the parser: what the local variables of *)
(* uxml_parse have to do with the tags that were read.                     *)
Outcomes == {"parsing", "tree", "unbalanced", "premature", "nesting", "arguments",
             "overflow", "beyond", "query"}

Typed ==
    /\ TypeOK
    /\ state \in {"none", "start", "end"} /\ tree \in 0..Len(doc)
    /\ outcome \in Outcomes
    /\ outcome # "query" => depth \in Seq(Int) /\ Len(depth) = pos + 1

(* depth[i] is how many elements are open before tag i.                    *)
DepthRight ==
    outcome # "query" =>
       /\ depth[1] = 0
       /\ \A i \in 1..pos : depth[i + 1] = depth[i] + Delta(doc[i].kind)

(* m is a start tag at depth k that no tag read so far closes.             *)
Open(m, k) ==
    /\ m \in 1..pos /\ doc[m].kind = "start" /\ depth[m] = k
    /\ \A j \in m + 1..pos + 1 : depth[j] > k

StackRight ==
    Parsing =>
       /\ sp \in 0..StackSize /\ depth[pos + 1] = sp
       /\ \A k \in 0..sp - 1 : Open(st[k], k)

(* What state and st[sp] remember of the tag before the next one.          *)
CurrentRight ==
    Parsing =>
       /\ state = "none" => Before(pos + 1) = 0
       /\ state = "start" => sp > 0 /\ Before(pos + 1) = st[sp - 1]
       /\ state = "end" => /\ sp < StackSize /\ st[sp] \in 1..pos
                          /\ Closes(Before(pos + 1), st[sp])

BeforeRight ==
    Parsing =>
       \A i \in 1..pos + 1 :
          /\ Before(i) \in 0..i - 1
          /\ \A k \in 1..i - 1 : doc[k].kind # "comment" => k <= Before(i)

NamesRight ==
    Parsing =>
       /\ \A i \in 1..pos : doc[i].kind \notin {"badstart", "badend"}
       /\ \A e \in 1..pos : doc[e].kind = "end" =>
             \E m \in 1..e - 1 : Closes(e, m) /\ doc[m].name = doc[e].name

PInv ==
    /\ DepthRight /\ StackRight /\ CurrentRight /\ BeforeRight /\ NamesRight
    /\ AcceptsWellFormed
    /\ leaves = 0 => TreeRight

(* Then the objects.  Nodes beyond those in use have no links and no links *)
(* lead there; while a document is read only its own tags have nodes.      *)
Used == IF Parsing THEN pos ELSE Len(doc) + leaves

Bounded ==
    /\ \A k \in Nodes : child[k] \in 0..Used /\ next[k] \in 0..Used
    /\ \A k \in Nodes : k > Used => child[k] = 0 /\ next[k] = 0
    /\ root <= Used
    /\ \A r \in Refs : ref[r] <= Used

Fresh ==
    Parsing =>
       /\ leaves = 0 /\ alive /\ root = None /\ freed \subseteq 1..pos
       /\ \A r \in Refs : ref[r] \notin Nodes

Unbroken == causes \subseteq {"outlived"}

(* No link leads to a node that was freed, and neither does the owner.     *)
Whole ==
    alive /\ (Unbroken \/ Parsing) =>
       /\ freed \subseteq 1..Len(doc) /\ root \notin freed
       /\ \A k \in Nodes : child[k] \notin freed /\ next[k] \notin freed

RefsInTree ==
    alive /\ Unbroken =>
       \A r \in Refs : ref[r] \in Nodes => root \in Nodes /\ ref[r] \in Reached(root)

(* What each kind of a pointer that is left behind says of the past.       *)
CausesRight ==
    /\ root # Outdated /\ (~alive => root = None)
    /\ text = "freed" => "not opened" \in causes
    /\ \A r \in Refs :
         /\ ref[r] = Own => "ref parsed" \in causes
         /\ Unbroken /\ (ref[r] = Outdated \/ (~alive /\ ref[r] \in Nodes)) =>
              "outlived" \in causes

OInv == Bounded /\ Fresh /\ Whole /\ RefsInTree /\ CausesRight /\ FaultsExplained

IInv == Typed /\ PInv /\ OInv

-----------------------------------------------------------------------------
(* The ranges that most steps need of the type invariant.                  *)
LEMMA Sizes ==
  ASSUME Typed
  PROVE  /\ Len(doc) \in Nat /\ pos \in 0..Len(doc) /\ leaves \in 0..MaxLeaves
         /\ MaxLeaves \in Nat /\ Nodes = 1..Len(doc) + MaxLeaves
         /\ \A i \in 1..Len(doc) : doc[i] \in Tags
<1>1. doc \in Seq(Tags) /\ pos \in 0..Len(doc) /\ leaves \in 0..MaxLeaves
  BY DEF Typed, TypeOK
<1> QED
  BY <1>1, ParseAssumption DEF Nodes

(* Reached is reflexive, transitive, and inside of every set that no link  *)
(* leaves.                                                                 *)
Keeps(S) == \A k \in S : ~LinksOut(k, S)

LEMMA ReachedSelf ==
  ASSUME NEW n \in Nodes
  PROVE  n \in Reached(n)
BY DEF Reached

LEMMA ReachedTransitive ==
  ASSUME NEW n \in Nodes, NEW p \in Nodes, NEW m \in Reached(p), p \in Reached(n)
  PROVE  m \in Reached(n)
<1>1. m \in Nodes
  BY DEF Reached
<1>2. ASSUME NEW S \in SUBSET (Nodes \ {m}), n \in S
      PROVE  \E k \in S : LinksOut(k, S)
  <2>1. CASE p \in S
    BY <2>1 DEF Reached
  <2>2. CASE p \notin S
    <3>1. S \in SUBSET (Nodes \ {p})
      BY <1>2, <2>2
    <3> QED
      BY <3>1, <1>2 DEF Reached
  <2> QED
    BY <2>1, <2>2
<1> QED
  BY <1>1, <1>2 DEF Reached

LEMMA ReachedWithin ==
  ASSUME NEW S \in SUBSET Nodes, NEW n \in S, Keeps(S)
  PROVE  Reached(n) \subseteq S
<1> SUFFICES ASSUME NEW m \in Reached(n), m \notin S
             PROVE  FALSE
  OBVIOUS
<1>1. S \in SUBSET (Nodes \ {m})
  OBVIOUS
<1> QED
  BY <1>1 DEF Reached, Keeps

(* Only nodes in use are reached from a node in use.                       *)
LEMMA ReachedUsed ==
  ASSUME Typed, Bounded, ~Parsing, NEW n \in Nodes, n <= Used
  PROVE  Reached(n) \subseteq 1..Used
<1> DEFINE S == 1..Used
<1>1. Used \in Nat /\ Used <= Len(doc) + MaxLeaves
  BY Sizes DEF Used
<1>2. S \in SUBSET Nodes /\ n \in S
  BY <1>1, Sizes
<1>3. Keeps(S)
  BY <1>1, <1>2 DEF Keeps, LinksOut, Bounded
<1> HIDE DEF S
<1>4. Reached(n) \subseteq S
  BY <1>2, <1>3, ReachedWithin
<1> QED
  BY <1>4 DEF S

(* In a whole tree nothing that is reached was freed.                      *)
LEMMA WholeTree ==
  ASSUME Typed, Whole, alive, Unbroken, NEW n \in Nodes, n \notin freed
  PROVE  ~Dangling(n)
<1> DEFINE S == Nodes \ freed
<1>1. S \in SUBSET Nodes /\ n \in S
  OBVIOUS
<1>2. Keeps(S)
  BY DEF Keeps, LinksOut, Whole, Typed, TypeOK
<1> HIDE DEF S
<1>3. Reached(n) \subseteq S
  BY <1>1, <1>2, ReachedWithin
<1>4. n # Outdated
  BY Sizes DEF Outdated
<1> QED
  BY <1>3, <1>4 DEF Dangling, S

(* The owner's tree and the refs in it, while nothing broke them.          *)
LEMMA OwnerHeld ==
  ASSUME Typed, Whole, CausesRight, alive, Unbroken, root # None
  PROVE  root \in Nodes /\ ~Dangling(root)
<1>1. root \in Nodes /\ root \notin freed
  BY DEF Typed, TypeOK, CausesRight, Whole
<1> QED
  BY <1>1, WholeTree

LEMMA RefsHeld ==
  ASSUME Typed, Whole, RefsInTree, CausesRight, alive, Unbroken,
         NEW r \in Refs, ref[r] \in Nodes
  PROVE  ~Dangling(ref[r])
<1>1. root \in Nodes /\ ref[r] \in Reached(root)
  BY DEF RefsInTree
<1>2. root # None
  BY <1>1, Sizes DEF None
<1>3. Reached(root) \cap freed = {}
  BY <1>1, <1>2, OwnerHeld DEF Dangling
<1> DEFINE S == Nodes \ freed
<1>4. S \in SUBSET Nodes /\ ref[r] \in S
  BY <1>1, <1>3
<1>5. ref[r] \in Nodes /\ ref[r] \notin freed
  BY <1>4
<1> QED
  BY <1>5, WholeTree

-----------------------------------------------------------------------------
(* The parser reads one tag.                                               *)
LEMMA DeltaInt ==
  ASSUME NEW kind
  PROVE  Delta(kind) \in {-1, 0, 1}
BY DEF Delta

LEMMA DepthTyped ==
  ASSUME Typed, Parsing
  PROVE  /\ depth \in Seq(Int) /\ Len(depth) = pos + 1
         /\ \A i \in 1..pos + 1 : depth[i] \in Int
<1>1. depth \in Seq(Int) /\ Len(depth) = pos + 1
  BY DEF Typed, Parsing
<1> QED
  BY <1>1, Sizes

LEMMA ReadStep ==
  ASSUME Typed, DepthRight, NEW kind, Read(kind)
  PROVE  /\ doc' = doc /\ pos' = pos + 1 /\ pos + 1 \in 1..Len(doc)
         /\ doc[pos + 1].kind = kind
         /\ depth' \in Seq(Int) /\ Len(depth') = pos + 2
         /\ \A i \in 1..pos + 1 : depth'[i] = depth[i] /\ depth[i] \in Int
         /\ depth'[pos + 2] = depth[pos + 1] + Delta(kind)
         /\ depth'[1] = 0
         /\ \A i \in 1..pos + 1 : depth'[i + 1] = depth'[i] + Delta(doc[i].kind)
<1>1. /\ doc' = doc /\ pos' = pos + 1 /\ pos < Len(doc) /\ doc[pos + 1].kind = kind
      /\ Parsing /\ depth' = Append(depth, depth[pos + 1] + Delta(kind))
  BY DEF Read
<1>2. pos \in Nat /\ Len(doc) \in Nat
  BY Sizes
<1>3. depth \in Seq(Int) /\ Len(depth) = pos + 1 /\ \A i \in 1..pos + 1 : depth[i] \in Int
  BY <1>1, DepthTyped
<1>4. depth[pos + 1] + Delta(kind) \in Int
  BY <1>2, <1>3, DeltaInt
<1>5. /\ depth' \in Seq(Int) /\ Len(depth') = pos + 2
      /\ \A i \in 1..pos + 1 : depth'[i] = depth[i]
      /\ depth'[pos + 2] = depth[pos + 1] + Delta(kind)
  BY <1>1, <1>2, <1>3, <1>4
<1>6. depth[1] = 0 /\ \A i \in 1..pos : depth[i + 1] = depth[i] + Delta(doc[i].kind)
  BY <1>1 DEF DepthRight, Parsing
<1>7. ASSUME NEW i \in 1..pos + 1
      PROVE  depth'[i + 1] = depth'[i] + Delta(doc[i].kind)
  <2>1. CASE i = pos + 1
    BY <2>1, <1>1, <1>2, <1>5
  <2>2. CASE i # pos + 1
    <3>1. i \in 1..pos /\ i + 1 \in 1..pos + 1
      BY <2>2, <1>2
    <3> QED
      BY <3>1, <1>2, <1>5, <1>6
  <2> QED
    BY <2>1, <2>2
<1> QED
  BY <1>1, <1>2, <1>3, <1>5, <1>6, <1>7

(* The last tag but for comments, one tag later.                           *)
LEMMA BeforeNext ==
  ASSUME NEW i \in Nat \ {0}
  PROVE  /\ doc[i].kind # "comment" => Before(i + 1) = i
         /\ doc[i].kind = "comment" => Before(i + 1) = Before(i)
<1> DEFINE earlier(n) == {j \in 1..n - 1 : doc[j].kind # "comment"}
<1> DEFINE last(S) == IF S = {} THEN 0 ELSE CHOOSE j \in S : \A k \in S : k <= j
<1>0. \A n : Before(n) = last(earlier(n))
  BY DEF Before
<1>1. CASE doc[i].kind # "comment"
  <2>1. i \in earlier(i + 1) /\ \A k \in earlier(i + 1) : k <= i
    BY <1>1
  <2>2. \A j \in earlier(i + 1) : (\A k \in earlier(i + 1) : k <= j) => j = i
    BY <2>1
  <2>3. (CHOOSE j \in earlier(i + 1) : \A k \in earlier(i + 1) : k <= j) = i
    <3> HIDE DEF earlier
    <3> QED
      BY <2>1, <2>2
  <2>4. earlier(i + 1) # {}
    BY <2>1
  <2> QED
    BY <1>0, <1>1, <2>3, <2>4
<1>2. CASE doc[i].kind = "comment"
  <2>1. earlier(i + 1) = earlier(i)
    BY <1>2
  <2> HIDE DEF earlier
  <2>2. Before(i + 1) = Before(i)
    <3> HIDE DEF last
    <3> QED
      BY <1>0, <2>1
  <2> QED
    BY <1>2, <2>2
<1> QED
  BY <1>1, <1>2

(* What was closed stays closed, by the same tag only.                     *)
LEMMA ClosesKept ==
  ASSUME doc' = doc, NEW n \in Nat, \A i \in 1..n : depth'[i] = depth[i],
         NEW e \in 1..n, NEW m \in 1..n
  PROVE  Closes(e, m)' <=> Closes(e, m)
<1>1. \A k \in m + 1..e : k \in 1..n
  OBVIOUS
<1> QED
  BY <1>1 DEF Closes

LEMMA ClosesOnce ==
  ASSUME Typed, DepthRight, Parsing, NEW m \in 1..pos, NEW e \in 1..pos, NEW f \in 1..pos,
         Closes(e, m), Closes(f, m)
  PROVE  e = f
<1>1. pos \in Nat /\ \A i \in 1..pos + 1 : depth[i] \in Int
  BY Sizes, DepthTyped
<1>2. \A i \in 1..pos : depth[i + 1] = depth[i] + Delta(doc[i].kind)
  BY DEF DepthRight, Parsing
<1>3. ASSUME NEW x \in 1..pos, NEW y \in 1..pos, x < y, Closes(x, m), Closes(y, m)
      PROVE  FALSE
  <2>1. m < y /\ doc[m].kind = "start" /\ \A k \in m + 1..y : depth[k] > depth[m]
    BY <1>3 DEF Closes
  <2>2. m < x /\ doc[x].kind = "end" /\ depth[m] + 1 = depth[x]
    BY <1>3, <2>1 DEF Closes
  <2>3. depth[x + 1] = depth[m]
    BY <1>1, <1>2, <2>2 DEF Delta
  <2>4. x + 1 \in m + 1..y
    BY <1>1, <1>3, <2>2
  <2> QED
    BY <1>1, <2>1, <2>3, <2>4
<1> QED
  BY <1>1, <1>3

(* The steps after which the parser goes on.                               *)
Closing ==
    /\ Read("end") /\ sp # 0
    /\ doc[st[sp - 1]].name = doc[pos + 1].name
    /\ state' = "end" /\ sp' = sp - 1 /\ freed' = freed \cup {pos + 1}
    /\ UNCHANGED <<child, next, st, outcome>>

LEMMA GoesOn ==
  ASSUME ParseNext, Parsing'
  PROVE  Start \/ Empty \/ Comment \/ Closing
<1>1. CASE End
  BY <1>1 DEF End, Closing, Parsing
<1>2. CASE BadStart \/ BadEnd
  BY <1>2 DEF BadStart, BadEnd, Returns, Parsing
<1>3. CASE Finish
  BY <1>3 DEF Finish, Returns, Parsing
<1>4. CASE \E kind \in Elements : Overflow(kind)
  BY <1>4 DEF Overflow, Parsing
<1> QED
  BY <1>1, <1>2, <1>3, <1>4 DEF ParseNext

-----------------------------------------------------------------------------
(* The stack and the element before the next tag.                          *)
LEMMA StackTyped ==
  ASSUME Typed
  PROVE  /\ pos \in Nat /\ StackSize \in Nat \ {0}
         /\ st \in [0..StackSize - 1 -> 0..Len(doc)]
<1>1. st \in [0..StackSize - 1 -> 0..Len(doc)]
  BY DEF Typed, TypeOK
<1> QED
  BY <1>1, Sizes, ParseAssumption

LEMMA OpenKept ==
  ASSUME Typed, DepthRight, NEW kind, Read(kind),
         NEW m, NEW k \in Int, Open(m, k), depth'[pos + 2] > k
  PROVE  Open(m, k)'
<1>1. pos \in Nat /\ m \in 1..pos
  BY Sizes DEF Open
<1>2. /\ doc' = doc /\ pos' = pos + 1
      /\ \A i \in 1..pos + 1 : depth'[i] = depth[i]
  BY ReadStep
<1>3. \A j \in m + 1..pos + 2 : depth'[j] > k
  <2> TAKE j \in m + 1..pos + 2
  <2>1. CASE j = pos + 2
    BY <2>1
  <2>2. CASE j # pos + 2
    <3>1. j \in m + 1..pos + 1 /\ j \in 1..pos + 1
      BY <1>1, <2>2
    <3> QED
      BY <3>1, <1>2 DEF Open
  <2> QED
    BY <2>1, <2>2
<1> QED
  BY <1>1, <1>2, <1>3 DEF Open

(* A start tag is open until a tag closes it.                              *)
LEMMA OpenNow ==
  ASSUME Typed, DepthRight, Read("start")
  PROVE  \A n, k : n = pos + 1 /\ k = depth[pos + 1] => Open(n, k)'
<1> SUFFICES ASSUME NEW n, NEW k, n = pos + 1, k = depth[pos + 1]
             PROVE  Open(n, k)'
  OBVIOUS
<1>1. /\ doc' = doc /\ pos' = pos + 1 /\ pos + 1 \in 1..Len(doc)
      /\ depth'[pos + 1] = depth[pos + 1] /\ depth[pos + 1] \in Int
      /\ depth'[pos + 2] = depth[pos + 1] + Delta("start") /\ doc[pos + 1].kind = "start"
  <2>1. pos + 1 \in 1..pos + 1
    BY Sizes
  <2> QED
    BY <2>1, ReadStep
<1>2. pos \in Nat /\ Delta("start") = 1
  BY Sizes DEF Delta
<1>3. \A j \in pos + 2..pos + 2 : depth'[j] > depth[pos + 1]
  BY <1>1, <1>2
<1> QED
  BY <1>1, <1>2, <1>3 DEF Open

LEMMA StackKeeps ==
  ASSUME Typed, DepthRight, StackRight, Parsing, ParseNext, Parsing'
  PROVE  StackRight'
<1>1. /\ sp \in 0..StackSize /\ depth[pos + 1] = sp
      /\ \A k \in 0..sp - 1 : Open(st[k], k)
  BY DEF StackRight
<1>2. pos \in Nat /\ StackSize \in Nat \ {0} /\ st \in [0..StackSize - 1 -> 0..Len(doc)]
  BY StackTyped
<1>3. CASE Start
  <2>1. Read("start") /\ sp < StackSize /\ st' = [st EXCEPT ![sp] = pos + 1] /\ sp' = sp + 1
    BY <1>3 DEF Start
  <2>2. pos' = pos + 1 /\ depth'[pos + 2] = sp + 1
    BY <2>1, <1>1, ReadStep DEF Delta
  <2>3. ASSUME NEW k \in 0..sp' - 1
        PROVE  Open(st[k], k)'
    <3>1. CASE k = sp
      <4>1. st'[k] = pos + 1
        BY <3>1, <2>1, <1>1, <1>2
      <4> QED
        BY <4>1, <3>1, <1>1, <2>1, OpenNow
    <3>2. CASE k # sp
      <4>1. k \in 0..sp - 1 /\ st'[k] = st[k] /\ sp + 1 > k
        BY <3>2, <2>1, <1>1, <1>2
      <4>2. ASSUME NEW m, m = st[k]
            PROVE  Open(m, k)'
        <5>1. Open(m, k)
          BY <4>1, <4>2, <1>1
        <5> QED
          BY <4>1, <5>1, <2>1, <2>2, OpenKept
      <4> QED
        BY <4>1, <4>2
    <3> QED
      BY <3>1, <3>2
  <2> QED
    BY <1>1, <1>2, <2>1, <2>2, <2>3 DEF StackRight
<1>4. CASE Empty \/ Comment
  <2>1. PICK kind \in {"empty", "comment"} : Read(kind)
    BY <1>4 DEF Empty, Comment
  <2>2. sp' = sp /\ \A k \in 0..sp - 1 : st'[k] = st[k]
    BY <1>1, <1>2, <1>4 DEF Empty, Comment
  <2>3. pos' = pos + 1 /\ depth'[pos + 2] = sp
    BY <2>1, <1>1, ReadStep DEF Delta
  <2>4. ASSUME NEW k \in 0..sp - 1, NEW m, m = st[k]
        PROVE  Open(m, k)'
    <3>1. Open(m, k) /\ sp > k
      BY <1>1, <2>4
    <3> QED
      BY <3>1, <2>1, <2>3, OpenKept
  <2> QED
    BY <1>1, <1>2, <2>2, <2>3, <2>4 DEF StackRight
<1>5. CASE Closing
  <2>1. Read("end") /\ sp # 0 /\ sp' = sp - 1 /\ st' = st
    BY <1>5 DEF Closing
  <2>0. Delta("end") = -1
    BY DEF Delta
  <2>2. pos' = pos + 1 /\ depth'[pos + 2] = sp - 1
    BY <2>0, <2>1, <1>1, ReadStep
  <2>3. ASSUME NEW k \in 0..sp - 2, NEW m, m = st[k]
        PROVE  Open(m, k)'
    <3>1. Open(m, k) /\ sp - 1 > k
      BY <1>1, <2>3
    <3> QED
      BY <3>1, <2>1, <2>2, OpenKept
  <2> QED
    BY <1>1, <1>2, <2>1, <2>2, <2>3 DEF StackRight
<1> QED
  BY <1>3, <1>4, <1>5, GoesOn

LEMMA BeforeKeeps ==
  ASSUME Typed, DepthRight, BeforeRight, Parsing, ParseNext, Parsing'
  PROVE  BeforeRight'
<1>1. PICK kind : Read(kind)
  BY GoesOn DEF Start, Empty, Comment, Closing
<1>2. doc' = doc /\ pos' = pos + 1 /\ pos \in Nat
  BY <1>1, ReadStep, Sizes
<1>3. \A i \in 1..pos + 1 :
         /\ Before(i) \in 0..i - 1
         /\ \A k \in 1..i - 1 : doc[k].kind # "comment" => k <= Before(i)
  BY DEF BeforeRight
<1>4. \A i : Before(i)' = Before(i)
  BY <1>2 DEF Before
<1>5. /\ Before(pos + 2) \in 0..pos + 1
      /\ \A k \in 1..pos + 1 : doc[k].kind # "comment" => k <= Before(pos + 2)
  <2>1. /\ doc[pos + 1].kind # "comment" => Before(pos + 2) = pos + 1
        /\ doc[pos + 1].kind = "comment" => Before(pos + 2) = Before(pos + 1)
    <3>1. pos + 1 \in Nat \ {0} /\ (pos + 1) + 1 = pos + 2
      BY <1>2
    <3> QED
      BY <3>1, BeforeNext
  <2>2. pos + 1 \in 1..pos + 1
    BY <1>2
  <2> QED
    BY <1>2, <1>3, <2>1, <2>2
<1>6. ASSUME NEW i \in 1..pos + 2
      PROVE  /\ Before(i) \in 0..i - 1
             /\ \A k \in 1..i - 1 : doc[k].kind # "comment" => k <= Before(i)
  <2>1. CASE i = pos + 2
    BY <1>2, <1>5, <2>1
  <2>2. CASE i # pos + 2
    <3>1. i \in 1..pos + 1
      BY <1>2, <2>2
    <3> QED
      BY <1>3, <3>1
  <2> QED
    BY <2>1, <2>2
<1> QED
  BY <1>2, <1>4, <1>6 DEF BeforeRight

(* What CurrentRight and StackRight say of the next tag.                   *)
LEMMA Current ==
  ASSUME Typed, DepthRight, StackRight, CurrentRight, BeforeRight, Parsing
  PROVE  /\ pos \in Nat /\ Before(pos + 1) \in 0..pos
         /\ state \in {"none", "start", "end"}
         /\ state = "none" => Before(pos + 1) = 0
         /\ state = "start" => /\ sp \in 1..StackSize /\ Before(pos + 1) \in 1..pos
                               /\ Before(pos + 1) = st[sp - 1]
                               /\ doc[st[sp - 1]].kind = "start"
         /\ state = "end" => /\ sp \in 0..StackSize - 1 /\ Before(pos + 1) \in 1..pos
                             /\ st[sp] \in 1..pos /\ Closes(Before(pos + 1), st[sp])
<1>1. pos \in Nat /\ pos + 1 \in 1..pos + 1 /\ (pos + 1) - 1 = pos
  BY Sizes
<1>2. Before(pos + 1) \in 0..pos
  BY <1>1 DEF BeforeRight
<1>3. state \in {"none", "start", "end"}
  BY DEF Typed
<1>4. sp \in 0..StackSize /\ StackSize \in Nat /\ \A k \in 0..sp - 1 : Open(st[k], k)
  BY StackTyped DEF StackRight
<1>5. state = "none" => Before(pos + 1) = 0
  BY DEF CurrentRight
<1>6. ASSUME state = "start"
      PROVE  /\ sp \in 1..StackSize /\ Before(pos + 1) \in 1..pos
             /\ Before(pos + 1) = st[sp - 1]
             /\ doc[st[sp - 1]].kind = "start"
  <2>1. sp > 0 /\ Before(pos + 1) = st[sp - 1]
    BY <1>6 DEF CurrentRight
  <2>2. Open(st[sp - 1], sp - 1)
    BY <2>1, <1>4
  <2> QED
    BY <2>1, <2>2, <1>4 DEF Open
<1>7. ASSUME state = "end"
      PROVE  /\ sp \in 0..StackSize - 1 /\ Before(pos + 1) \in 1..pos
             /\ st[sp] \in 1..pos /\ Closes(Before(pos + 1), st[sp])
  <2>1. sp < StackSize /\ st[sp] \in 1..pos /\ Closes(Before(pos + 1), st[sp])
    BY <1>7 DEF CurrentRight
  <2>2. Before(pos + 1) = st[sp] \/ st[sp] < Before(pos + 1)
    BY <2>1 DEF Closes
  <2> QED
    BY <2>1, <2>2, <1>1, <1>2, <1>4
<1> QED
  BY <1>1, <1>2, <1>3, <1>5, <1>6, <1>7

(* The tag read closes the last open element.                              *)
LEMMA ClosesNow ==
  ASSUME Typed, DepthRight, StackRight, Read("end"), sp # 0
  PROVE  /\ st[sp - 1] \in 1..pos /\ doc[st[sp - 1]].kind = "start"
         /\ depth[st[sp - 1]] = sp - 1 /\ depth[pos + 1] = sp /\ sp \in 1..StackSize
         /\ \A k \in st[sp - 1] + 1..pos + 1 : depth[k] > sp - 1
         /\ \A e, m : e = pos + 1 /\ m = st[sp - 1] => Closes(e, m)'
<1>1. /\ sp \in 1..StackSize /\ depth[pos + 1] = sp /\ Open(st[sp - 1], sp - 1)
      /\ sp \in Nat /\ pos \in Nat
  BY Sizes, StackTyped DEF Read, StackRight
<1>2. /\ st[sp - 1] \in 1..pos /\ doc[st[sp - 1]].kind = "start"
      /\ depth[st[sp - 1]] = sp - 1
      /\ \A k \in st[sp - 1] + 1..pos + 1 : depth[k] > sp - 1
  BY <1>1 DEF Open
<1>3. /\ doc' = doc /\ doc[pos + 1].kind = "end"
      /\ \A i \in 1..pos + 1 : depth'[i] = depth[i]
  BY ReadStep
<1>4. ASSUME NEW e, NEW m, e = pos + 1, m = st[sp - 1]
      PROVE  Closes(e, m)'
  <2>1. m \in 1..pos /\ e \in 1..pos + 1 /\ m < e
    BY <1>1, <1>2, <1>4
  <2>2. \A k \in m + 1..e : k \in 1..pos + 1
    BY <1>1, <2>1
  <2>3. depth'[m] + 1 = depth'[e] /\ doc'[m].kind = "start" /\ doc'[e].kind = "end"
    BY <1>1, <1>2, <1>3, <1>4, <2>1
  <2>4. \A k \in m + 1..e : depth'[k] > depth'[m]
    BY <1>1, <1>2, <1>3, <1>4, <2>1, <2>2
  <2> QED
    BY <2>1, <2>3, <2>4 DEF Closes
<1> QED
  BY <1>1, <1>2, <1>4

LEMMA CurrentKeeps ==
  ASSUME Typed, DepthRight, StackRight, CurrentRight, BeforeRight,
         Parsing, ParseNext, Parsing'
  PROVE  CurrentRight'
<1>1. PICK kind : Read(kind)
  BY GoesOn DEF Start, Empty, Comment, Closing
<1>2. doc' = doc /\ pos' = pos + 1 /\ pos \in Nat /\ doc[pos + 1].kind = kind
  BY <1>1, ReadStep, Sizes
<1>3. \A i : Before(i)' = Before(i)
  BY <1>2 DEF Before
<1>4. /\ doc[pos + 1].kind # "comment" => Before(pos + 2) = pos + 1
      /\ doc[pos + 1].kind = "comment" => Before(pos + 2) = Before(pos + 1)
  <2>1. pos + 1 \in Nat \ {0} /\ (pos + 1) + 1 = pos + 2
    BY <1>2
  <2> QED
    BY <2>1, BeforeNext
<1>5. Before(pos + 1)' = Before(pos + 2)
  BY <1>2, <1>3
<1>6. sp \in 0..StackSize /\ StackSize \in Nat /\ st \in [0..StackSize - 1 -> 0..Len(doc)]
  BY StackTyped DEF StackRight
<1>7. CASE Start
  <2>1. kind = "start" /\ state' = "start" /\ sp' = sp + 1 /\ st' = [st EXCEPT ![sp] = pos + 1]
        /\ sp < StackSize
    BY <1>7, <1>2 DEF Start, Read
  <2>2. st'[sp' - 1] = pos + 1 /\ sp' > 0
    BY <2>1, <1>6
  <2> QED
    BY <2>1, <2>2, <1>2, <1>4, <1>5 DEF CurrentRight
<1>8. CASE Empty
  <2>1. kind = "empty" /\ state' = "end" /\ sp' = sp /\ st' = [st EXCEPT ![sp] = pos + 1]
        /\ sp < StackSize
    BY <1>8, <1>2 DEF Empty, Read
  <2>2. st'[sp'] = pos + 1 /\ sp' < StackSize /\ pos + 1 \in 1..pos'
    BY <2>1, <1>2, <1>6
  <2>3. \A e : e = pos + 1 => Closes(e, e)'
    BY <1>2, <2>1 DEF Closes
  <2>4. Closes(Before(pos + 1), st[sp])'
    BY <2>1, <2>2, <2>3, <1>2, <1>4, <1>5 DEF Closes
  <2> QED
    BY <2>1, <2>2, <2>4 DEF CurrentRight
<1>9. CASE Comment
  <2>1. kind = "comment" /\ UNCHANGED <<state, sp, st>>
    BY <1>9, <1>2 DEF Comment, Read
  <2>2. Before(pos + 1)' = Before(pos + 1)
    BY <2>1, <1>2, <1>4, <1>5
  <2>3. state = "end" => st[sp] \in 1..pos' /\ sp < StackSize /\ Closes(Before(pos + 1), st[sp])'
    <3> SUFFICES ASSUME state = "end"
                 PROVE  st[sp] \in 1..pos' /\ sp < StackSize /\ Closes(Before(pos + 1), st[sp])'
      OBVIOUS
    <3>1. /\ sp \in 0..StackSize - 1 /\ Before(pos + 1) \in 1..pos
          /\ st[sp] \in 1..pos /\ Closes(Before(pos + 1), st[sp])
      BY Current
    <3>2. \A i \in 1..pos + 1 : depth'[i] = depth[i]
      BY <1>1, ReadStep
    <3>3. \A e \in 1..pos, m \in 1..pos : Closes(e, m)' <=> Closes(e, m)
      BY <3>2, <1>2, ClosesKept
    <3>4. \A e, m : e = Before(pos + 1) /\ m = st[sp] => Closes(e, m)'
      BY <3>1, <3>3
    <3>5. st[sp] \in 1..pos' /\ sp < StackSize
      BY <3>1, <1>2, <1>6
    <3> QED
      BY <3>4, <3>5, <2>1, <2>2 DEF Closes
  <2>4. state = "none" => Before(pos + 1) = 0
    BY Current
  <2>5. state = "start" => sp > 0 /\ Before(pos + 1) = st[sp - 1]
    BY Current DEF CurrentRight
  <2> QED
    BY <2>1, <2>2, <2>3, <2>4, <2>5 DEF CurrentRight
<1>10. CASE Closing
  <2>1. kind = "end" /\ state' = "end" /\ sp' = sp - 1 /\ st' = st /\ sp # 0 /\ Read("end")
    BY <1>10, <1>2 DEF Closing, Read
  <2>2. st[sp - 1] \in 1..pos /\ \A e, m : e = pos + 1 /\ m = st[sp - 1] => Closes(e, m)'
    BY <2>1, ClosesNow
  <2>3. sp' < StackSize /\ st'[sp'] = st[sp - 1] /\ st[sp - 1] \in 1..pos'
    BY <2>1, <2>2, <1>2, <1>6
  <2>4. Closes(Before(pos + 1), st[sp])'
    BY <2>1, <2>2, <2>3, <1>2, <1>4, <1>5 DEF Closes
  <2> QED
    BY <2>1, <2>3, <2>4 DEF CurrentRight
<1> QED
  BY <1>7, <1>8, <1>9, <1>10, GoesOn

LEMMA NamesKeep ==
  ASSUME Typed, DepthRight, StackRight, NamesRight, Parsing, ParseNext, Parsing'
  PROVE  NamesRight'
<1>1. PICK kind : Read(kind)
  BY GoesOn DEF Start, Empty, Comment, Closing
<1>2. /\ doc' = doc /\ pos' = pos + 1 /\ pos \in Nat /\ doc[pos + 1].kind = kind
      /\ \A i \in 1..pos + 1 : depth'[i] = depth[i]
  BY <1>1, ReadStep, Sizes
<1>3. kind \in {"start", "empty", "comment", "end"}
  BY <1>2, GoesOn DEF Start, Empty, Comment, Closing, Read
<1>4. \A i \in 1..pos' : doc'[i].kind \notin {"badstart", "badend"}
  <2> TAKE i \in 1..pos'
  <2>1. i \in 1..pos \/ i = pos + 1
    BY <1>2
  <2> QED
    BY <2>1, <1>2, <1>3 DEF NamesRight
<1>5. ASSUME NEW e \in 1..pos + 1, doc[e].kind = "end"
      PROVE  \E m \in 1..e - 1 : Closes(e, m)' /\ doc[m].name = doc[e].name
  <2>1. CASE e = pos + 1
    <3>1. Closing
      BY <1>2, <1>5, <2>1, GoesOn DEF Start, Empty, Comment, Read
    <3>2. Read("end") /\ sp # 0 /\ doc[st[sp - 1]].name = doc[e].name
      BY <2>1, <3>1 DEF Closing
    <3>3. st[sp - 1] \in 1..e - 1 /\ \A m : m = st[sp - 1] => Closes(e, m)'
      BY <2>1, <3>2, <1>2, ClosesNow
    <3> QED
      BY <3>2, <3>3
  <2>2. CASE e # pos + 1
    <3>1. e \in 1..pos
      BY <1>2, <2>2
    <3>2. PICK m \in 1..e - 1 : Closes(e, m) /\ doc[m].name = doc[e].name
      BY <3>1, <1>5 DEF NamesRight
    <3>3. m \in 1..pos
      BY <3>1, <3>2, <1>2
    <3>4. \A i \in 1..pos : depth'[i] = depth[i]
      BY <1>2
    <3>5. Closes(e, m)'
      BY <3>1, <3>2, <3>3, <3>4, <1>2, ClosesKept
    <3> QED
      BY <3>2, <3>5
  <2> QED
    BY <2>1, <2>2
<1> QED
  BY <1>2, <1>4, <1>5 DEF NamesRight

(* What uxml_parse returns for a document is what the text deserves.       *)
LEMMA AcceptsKeeps ==
  ASSUME Typed, DepthRight, StackRight, NamesRight, Parsing, ParseNext
  PROVE  AcceptsWellFormed'
<1>1. pos \in Nat /\ Len(doc) \in Nat /\ pos <= Len(doc)
  BY Sizes
<1>2. CASE Parsing' \/ outcome' = "overflow"
  BY <1>2 DEF AcceptsWellFormed, Parsing
<1>3. CASE Finish
  <2>1. /\ UNCHANGED <<doc, pos, depth>> /\ pos = Len(doc)
        /\ outcome' \in {IF sp = 0 THEN "tree" ELSE "unbalanced", "beyond"}
    BY <1>3 DEF Finish, Returns
  <2>2. depth[pos + 1] = sp
    BY DEF StackRight
  <2>3. /\ \A i \in 1..pos : doc[i].kind \notin {"badstart", "badend"}
        /\ \A e \in 1..pos : doc[e].kind = "end" =>
              \E m \in 1..e - 1 : Closes(e, m) /\ doc[m].name = doc[e].name
    BY DEF NamesRight
  <2>4. \A e, m : Closes(e, m)' <=> Closes(e, m)
    BY <2>1 DEF Closes
  <2> QED
    BY <2>1, <2>2, <2>3, <2>4 DEF AcceptsWellFormed
<1>4. CASE BadStart \/ BadEnd
  <2>1. PICK kind \in {"badstart", "badend"} : Read(kind)
    BY <1>4 DEF BadStart, BadEnd
  <2>2. /\ doc' = doc /\ pos + 1 \in 1..Len(doc) /\ doc[pos + 1].kind \in {"badstart", "badend"}
        /\ outcome' \in {"arguments", "beyond"}
    BY <2>1, <1>4, ReadStep DEF BadStart, BadEnd, Returns
  <2> QED
    BY <2>2 DEF AcceptsWellFormed
<1>5. CASE End /\ outcome' = "premature"
  <2>1. Read("end") /\ sp = 0 /\ depth[pos + 1] = 0
    BY <1>5 DEF End, StackRight, Read, Parsing
  <2>2. pos' = pos + 1 /\ depth'[pos + 2] = -1
    BY <2>1, ReadStep DEF Delta
  <2> QED
    BY <1>1, <1>5, <2>2 DEF AcceptsWellFormed
<1>6. CASE End /\ outcome' = "nesting"
  <2>1. Read("end") /\ sp # 0 /\ doc[st[sp - 1]].name # doc[pos + 1].name
    BY <1>6 DEF End, Read, Parsing
  <2>2. /\ doc' = doc /\ pos' = pos + 1 /\ doc[pos + 1].kind = "end"
        /\ \A i \in 1..pos + 1 : depth'[i] = depth[i] /\ depth[i] \in Int
    BY <2>1, ReadStep
  <2>3. ASSUME NEW m \in 1..pos, NEW e, e = pos + 1, Closes(e, m)'
        PROVE  doc[m].name # doc[e].name
    <3> DEFINE s == st[sp - 1]
    <3>1. /\ s \in 1..pos /\ depth[s] = sp - 1 /\ depth[pos + 1] = sp /\ sp \in Int
          /\ \A k \in s + 1..pos + 1 : depth[k] > sp - 1
      BY <2>1, ClosesNow
    <3>2. /\ depth[m] + 1 = depth[pos + 1]
          /\ \A k \in m + 1..pos + 1 : depth[k] > depth[m]
      <4>1. /\ depth'[m] + 1 = depth'[pos + 1]
            /\ \A k \in m + 1..pos + 1 : depth'[k] > depth'[m]
        BY <1>1, <2>2, <2>3 DEF Closes
      <4> QED
        BY <4>1, <1>1, <2>2
    <3> HIDE DEF s
    <3>3. depth[m] = sp - 1
      BY <1>1, <2>2, <3>1, <3>2
    <3>4. ~(m < s) /\ ~(s < m)
      BY <1>1, <3>1, <3>2, <3>3
    <3>5. m = s
      BY <1>1, <3>1, <3>4
    <3> QED
      BY <2>1, <2>3, <3>5 DEF s
  <2>4. \A e : e = pos + 1 =>
           ~\E m \in 1..e - 1 : Closes(e, m)' /\ doc[m].name = doc[e].name
    BY <1>1, <2>3
  <2>5. ~\A e \in 1..pos' : doc'[e].kind = "end" =>
           \E m \in 1..e - 1 : Closes(e, m)' /\ doc'[m].name = doc'[e].name
    <3> SUFFICES ASSUME \A e \in 1..pos' : doc'[e].kind = "end" =>
                          \E m \in 1..e - 1 : Closes(e, m)' /\ doc'[m].name = doc'[e].name
                 PROVE  FALSE
      OBVIOUS
    <3>1. PICK e : e = pos + 1
      OBVIOUS
    <3>2. e \in 1..pos' /\ doc'[e].kind = "end"
      BY <1>1, <2>2, <3>1
    <3>3. PICK m \in 1..e - 1 : Closes(e, m)' /\ doc'[m].name = doc'[e].name
      BY <3>2
    <3>4. doc[m].name = doc[e].name
      BY <2>2, <3>3
    <3> QED
      BY <2>4, <3>1, <3>3, <3>4
  <2> QED
    BY <1>6, <2>5 DEF AcceptsWellFormed
<1>7. CASE End /\ outcome' \notin {"premature", "nesting"}
  BY <1>7, <1>2 DEF End, Parsing, Read
<1>8. CASE \E kind \in Elements : Overflow(kind)
  BY <1>8, <1>2 DEF Overflow
<1>9. CASE Start \/ Empty \/ Comment
  BY <1>9, <1>2 DEF Start, Empty, Comment, Parsing
<1> QED
  BY <1>3, <1>4, <1>5, <1>6, <1>7, <1>8, <1>9 DEF ParseNext

-----------------------------------------------------------------------------
(* The tree is that of the text: what is linked when a tag is read, and    *)
(* that nothing else is.                                                   *)
LEMMA ParseTyped ==
  ASSUME Typed
  PROVE  /\ child \in [Nodes -> Nodes \cup {0}] /\ next \in [Nodes -> Nodes \cup {0}]
         /\ freed \subseteq Nodes
BY DEF Typed, TypeOK

LEMMA LinksNew ==
  ASSUME Typed, DepthRight, StackRight, CurrentRight, BeforeRight, Parsing,
         NEW n, n = pos + 1, Link(n)
  PROVE  /\ \A k \in Nodes : child'[k] # child[k] =>
              child'[k] = n /\ k = Before(n) /\ k \in 1..pos /\ doc[k].kind = "start"
         /\ \A k \in Nodes : next'[k] # next[k] =>
              next'[k] = n /\ k \in 1..pos /\ Closes(Before(n), k)
         /\ Before(n) # 0 =>
              IF doc[Before(n)].kind = "start"
                THEN child'[Before(n)] = n
                ELSE \E m \in 1..pos : Closes(Before(n), m) /\ next'[m] = n
<1>1. /\ pos \in Nat /\ Len(doc) \in Nat /\ MaxLeaves \in Nat /\ pos <= Len(doc)
      /\ Nodes = 1..Len(doc) + MaxLeaves
  BY Sizes
<1>2. /\ child \in [Nodes -> Nodes \cup {0}] /\ next \in [Nodes -> Nodes \cup {0}]
  BY ParseTyped
<1>3. /\ child' = IF sp > 0 /\ state = "start" THEN [child EXCEPT ![st[sp - 1]] = n] ELSE child
      /\ next' = IF state = "end" THEN [next EXCEPT ![st[sp]] = n] ELSE next
  BY DEF Link
<1>4. CASE state = "none"
  <2>1. Before(n) = 0 /\ child' = child /\ next' = next
    BY <1>3, <1>4, Current
  <2> QED
    BY <2>1
<1>5. CASE state = "start"
  <2>1. /\ sp > 0 /\ Before(n) \in 1..pos /\ Before(n) = st[sp - 1]
        /\ doc[Before(n)].kind = "start"
    BY <1>5, Current
  <2>2. Before(n) \in Nodes
    BY <1>1, <2>1
  <2>3. child' = [child EXCEPT ![Before(n)] = n] /\ next' = next
    BY <1>3, <1>5, <2>1
  <2> QED
    BY <1>2, <2>1, <2>2, <2>3
<1>6. CASE state = "end"
  <2> DEFINE m == st[sp]
  <2>1. Before(n) \in 1..pos /\ m \in 1..pos /\ Closes(Before(n), m)
    BY <1>6, Current
  <2>2. child' = child /\ next' = [next EXCEPT ![m] = n] /\ m \in Nodes
    BY <1>1, <1>3, <1>6, <2>1
  <2>3. doc[Before(n)].kind # "start"
    BY <2>1 DEF Closes
  <2> HIDE DEF m
  <2> QED
    BY <1>2, <2>1, <2>2, <2>3
<1> QED
  BY <1>4, <1>5, <1>6, Current

LEMMA TreeKeeps ==
  ASSUME Typed, DepthRight, StackRight, CurrentRight, BeforeRight, Bounded, TreeRight,
         Parsing, ParseNext, outcome' \in {"parsing", "tree", "unbalanced"}
  PROVE  TreeRight'
<1>1. \A i \in 1..pos :
         /\ doc[i].kind \in Elements /\ Before(i) # 0 =>
              IF doc[Before(i)].kind = "start"
                THEN child[Before(i)] = i
                ELSE \E m \in 1..i - 1 : Closes(Before(i), m) /\ next[m] = i
         /\ child[i] \in 1..Len(doc) =>
              doc[i].kind = "start" /\ Before(child[i]) = i
         /\ next[i] \in 1..Len(doc) => Closes(Before(next[i]), i)
  BY DEF TreeRight, Parsing
<1>2. /\ pos \in Nat /\ Len(doc) \in Nat /\ MaxLeaves \in Nat /\ pos <= Len(doc)
      /\ Nodes = 1..Len(doc) + MaxLeaves
  BY Sizes
<1>3. CASE Finish
  <2>1. UNCHANGED <<doc, pos, depth, child, next>>
    BY <1>3 DEF Finish
  <2>2. \A e, m : Closes(e, m)' <=> Closes(e, m)
    BY <2>1 DEF Closes
  <2>3. \A i : Before(i)' = Before(i)
    BY <2>1 DEF Before
  <2> QED
    BY <1>1, <2>1, <2>2, <2>3 DEF TreeRight
<1>4. CASE Start \/ Empty \/ Comment \/ Closing
  <2> DEFINE n == pos + 1
  <2>1. PICK kind : Read(kind)
    BY <1>4 DEF Start, Empty, Comment, Closing
  <2>2. /\ doc' = doc /\ pos' = n /\ n \in 1..Len(doc) /\ doc[n].kind = kind
        /\ \A i \in 1..n : depth'[i] = depth[i]
    BY <2>1, ReadStep
  <2>3. \A k \in Nodes : child[k] \in 0..pos /\ next[k] \in 0..pos
    BY DEF Bounded, Used, Parsing
  <2>4. child[n] = 0 /\ next[n] = 0
    BY <1>2, <2>2 DEF Bounded, Used, Parsing
  <2>5. \A i : Before(i)' = Before(i)
    BY <2>2 DEF Before
  <2>6. \A e \in 1..pos, m \in 1..pos : Closes(e, m)' <=> Closes(e, m)
    <3>1. \A i \in 1..pos : depth'[i] = depth[i]
      BY <1>2, <2>2
    <3> QED
      BY <3>1, <1>2, <2>2, ClosesKept
  <2>7. /\ \A k \in Nodes : child'[k] # child[k] =>
              child'[k] = n /\ k = Before(n) /\ k \in 1..pos /\ doc[k].kind = "start"
        /\ \A k \in Nodes : next'[k] # next[k] =>
              next'[k] = n /\ k \in 1..pos /\ Closes(Before(n), k)
        /\ kind \in Elements /\ Before(n) # 0 =>
              IF doc[Before(n)].kind = "start"
                THEN child'[Before(n)] = n
                ELSE \E m \in 1..pos : Closes(Before(n), m) /\ next'[m] = n
    <3>1. CASE Start \/ Empty
      <4>1. Link(pos + 1)
        BY <3>1 DEF Start, Empty
      <4> QED
        BY <4>1, LinksNew
    <3>2. CASE Comment \/ Closing
      <4>1. kind \notin Elements /\ child' = child /\ next' = next
        BY <2>2, <3>2 DEF Comment, Closing, Read, Elements
      <4> QED
        BY <4>1
    <3> QED
      BY <1>4, <3>1, <3>2
  <2>8. \A i \in 1..n :
           /\ Before(i) \in 0..i - 1
           /\ \A k \in 1..i - 1 : doc[k].kind # "comment" => k <= Before(i)
    BY DEF BeforeRight
  <2>9. n \in Nat /\ pos \in Nat /\ n = pos + 1 /\ \A i \in 1..n : i \in Nodes /\ (i \in 1..pos \/ i = n)
    BY <1>2, <2>2
  <2> HIDE DEF n
  <2>10. ASSUME NEW i \in 1..n, doc[i].kind \in Elements, Before(i) # 0
         PROVE  IF doc[Before(i)].kind = "start"
                  THEN child'[Before(i)] = i
                  ELSE \E m \in 1..i - 1 : next'[m] = i /\ \A e : e = Before(i) => Closes(e, m)'
    <3>1. CASE i = n
      <4>1. Before(n) \in 1..pos /\ kind \in Elements /\ 1..n - 1 = 1..pos
        BY <2>2, <2>8, <2>9, <2>10, <3>1
      <4>2. CASE doc[Before(n)].kind = "start"
        BY <2>7, <2>10, <3>1, <4>1, <4>2
      <4>3. CASE doc[Before(n)].kind # "start"
        <5>1. PICK m \in 1..pos : Closes(Before(n), m) /\ next'[m] = n
          BY <2>7, <2>10, <3>1, <4>1, <4>3
        <5>2. \A e : e = Before(n) => Closes(e, m)'
          BY <2>6, <4>1, <5>1
        <5> QED
          BY <3>1, <4>1, <4>3, <5>1, <5>2
      <4> QED
        BY <4>2, <4>3
    <3>2. CASE i # n
      <4>1. i \in 1..pos /\ Before(i) \in 1..i - 1 /\ Before(i) \in Nodes /\ Before(i) \in 1..pos
        BY <1>2, <2>8, <2>9, <2>10, <3>2
      <4>2. Before(n) >= i
        <5>1. doc[i].kind # "comment" /\ i \in 1..n - 1
          BY <2>9, <2>10, <4>1 DEF Elements
        <5>2. n \in 1..n
          BY <2>9, <4>1
        <5> QED
          BY <2>8, <5>1, <5>2
      <4>3. Before(n) # Before(i)
        BY <2>9, <4>1, <4>2
      <4>4. CASE doc[Before(i)].kind = "start"
        BY <1>1, <2>7, <2>10, <4>1, <4>3, <4>4
      <4>5. CASE doc[Before(i)].kind # "start"
        <5>1. PICK m \in 1..i - 1 : Closes(Before(i), m) /\ next[m] = i
          BY <1>1, <2>10, <4>1, <4>5
        <5>2. m \in 1..pos /\ m \in Nodes /\ Before(n) \in 1..pos
          BY <1>2, <2>8, <2>9, <4>1, <4>2, <5>1
        <5>3. ~Closes(Before(n), m)
          BY <4>1, <4>3, <5>1, <5>2, ClosesOnce
        <5>4. \A e : e = Before(i) => Closes(e, m)'
          BY <2>6, <4>1, <5>1, <5>2
        <5>5. next'[m] = i
          BY <2>7, <5>1, <5>2, <5>3
        <5> QED
          BY <4>5, <5>4, <5>5
      <4> QED
        BY <4>4, <4>5
    <3> QED
      BY <3>1, <3>2
  <2>11. ASSUME NEW i \in 1..n, child'[i] \in 1..Len(doc)
         PROVE  doc[i].kind = "start" /\ Before(child'[i]) = i
    <3>1. CASE child'[i] = child[i]
      BY <1>1, <2>4, <2>9, <2>11, <3>1
    <3>2. CASE child'[i] # child[i]
      BY <2>7, <2>9, <3>2
    <3> QED
      BY <3>1, <3>2
  <2>12. ASSUME NEW i \in 1..n, next'[i] \in 1..Len(doc), NEW j, j = next'[i]
         PROVE  \A e : e = Before(j) => Closes(e, i)'
    <3>1. CASE next'[i] = next[i]
      <4>1. i \in 1..pos /\ next[i] \in 1..pos /\ Closes(Before(j), i)
        BY <1>1, <1>2, <2>3, <2>4, <2>9, <2>12, <3>1
      <4>2. Before(j) \in 0..pos
        BY <1>2, <2>8, <2>9, <2>12, <3>1, <4>1
      <4>3. Before(j) = i \/ i < Before(j)
        BY <4>1 DEF Closes
      <4> QED
        BY <1>2, <2>6, <4>1, <4>2, <4>3
    <3>2. CASE next'[i] # next[i]
      <4>1. j = n /\ i \in 1..pos /\ Closes(Before(n), i)
        BY <2>7, <2>9, <2>12, <3>2
      <4>2. Before(n) \in 0..pos
        BY <2>8, <2>9, <4>1
      <4>3. Before(n) = i \/ i < Before(n)
        BY <4>1 DEF Closes
      <4> QED
        BY <1>2, <2>6, <4>1, <4>2, <4>3
    <3> QED
      BY <3>1, <3>2
  <2> QED
    BY <2>2, <2>5, <2>10, <2>11, <2>12 DEF TreeRight
<1>5. Finish \/ Start \/ Empty \/ Comment \/ Closing
  <2>1. CASE Parsing'
    BY <2>1, GoesOn
  <2>2. CASE outcome' \in {"tree", "unbalanced"}
    BY <2>2 DEF ParseNext, Start, Empty, Comment, End, BadStart, BadEnd, Returns, Overflow,
                Parsing, Read
  <2> QED
    BY <2>1, <2>2 DEF Parsing
<1> QED
  BY <1>3, <1>4, <1>5

-----------------------------------------------------------------------------
(* One step of uxml_parse, as the objects see it: which tag it read and    *)
(* what became of the links and of the freed nodes.                        *)
LEMMA StepCases ==
  ASSUME ParseNext
  PROVE  \/ Finish
         \/ (Start \/ Empty \/ BadStart) /\ Link(pos + 1) /\ sp < StackSize /\ freed' = freed
            /\ (\E kind \in Kinds : Read(kind))
            /\ st' = [st EXCEPT ![sp] = pos + 1] /\ sp' \in {sp, sp + 1}
         \/ (\E kind \in Kinds : Read(kind)) /\ UNCHANGED <<child, next, st>>
            /\ freed' \in {freed, freed \cup {pos + 1}}
            /\ (sp' = sp \/ (Read("end") /\ sp' = sp - 1))
<1>1. CASE Start \/ Empty \/ BadStart
  BY <1>1 DEF Start, Empty, BadStart, Kinds
<1>2. CASE End
  BY <1>2 DEF End, Kinds
<1>3. CASE Comment \/ BadEnd
  BY <1>3 DEF Comment, BadEnd, Kinds
<1>4. CASE \E kind \in Elements : Overflow(kind)
  BY <1>4 DEF Overflow, Kinds, Elements
<1> QED
  BY <1>1, <1>2, <1>3, <1>4 DEF ParseNext

LEMMA ParseShape ==
  ASSUME Typed, DepthRight, StackRight, CurrentRight, BeforeRight, Parsing, ParseNext
  PROVE  /\ doc' = doc /\ pos' \in pos..Len(doc) /\ (Parsing' => pos' = pos + 1)
         /\ child' \in [Nodes -> Nodes \cup {0}] /\ next' \in [Nodes -> Nodes \cup {0}]
         /\ \A k \in Nodes : child'[k] # child[k] =>
               child'[k] = pos + 1 /\ k \in 1..pos /\ pos' = pos + 1
         /\ \A k \in Nodes : next'[k] # next[k] =>
               next'[k] = pos + 1 /\ k \in 1..pos /\ pos' = pos + 1
         /\ \/ freed' = freed
            \/ freed' = freed \cup {pos + 1} /\ UNCHANGED <<child, next>> /\ pos' = pos + 1
<1>1. /\ pos \in Nat /\ Len(doc) \in Nat /\ MaxLeaves \in Nat /\ pos <= Len(doc)
      /\ Nodes = 1..Len(doc) + MaxLeaves
  BY Sizes
<1>2. child \in [Nodes -> Nodes \cup {0}] /\ next \in [Nodes -> Nodes \cup {0}]
  BY ParseTyped
<1>3. CASE Finish
  <2>1. UNCHANGED <<doc, pos, child, next, freed>> /\ ~Parsing'
    BY <1>3 DEF Finish, Returns, Parsing
  <2> QED
    BY <1>1, <1>2, <2>1
<1>4. ASSUME NEW kind, Read(kind)
      PROVE  doc' = doc /\ pos' = pos + 1 /\ pos' \in pos..Len(doc) /\ pos + 1 \in Nodes
  <2>1. doc' = doc /\ pos' = pos + 1 /\ pos + 1 \in 1..Len(doc)
    BY <1>4, ReadStep
  <2> QED
    BY <1>1, <2>1
<1>5. CASE Link(pos + 1) /\ freed' = freed /\ \E kind \in Kinds : Read(kind)
  <2> DEFINE n == pos + 1
  <2>1. /\ \A k \in Nodes : child'[k] # child[k] => child'[k] = n /\ k \in 1..pos
        /\ \A k \in Nodes : next'[k] # next[k] => next'[k] = n /\ k \in 1..pos
    BY <1>5, LinksNew
  <2>2. child' = [k \in Nodes |-> child'[k]] /\ next' = [k \in Nodes |-> next'[k]]
    <3>1. /\ child' = IF sp > 0 /\ state = "start" THEN [child EXCEPT ![st[sp - 1]] = n] ELSE child
          /\ next' = IF state = "end" THEN [next EXCEPT ![st[sp]] = n] ELSE next
      BY <1>5 DEF Link
    <3> HIDE DEF n
    <3> QED
      BY <1>2, <3>1
  <2>3. n \in Nodes /\ doc' = doc /\ pos' = n /\ pos' \in pos..Len(doc)
    BY <1>4, <1>5
  <2> HIDE DEF n
  <2>4. \A k \in Nodes : child'[k] \in Nodes \cup {0} /\ next'[k] \in Nodes \cup {0}
    BY <1>2, <2>1, <2>3
  <2>5. child' \in [Nodes -> Nodes \cup {0}] /\ next' \in [Nodes -> Nodes \cup {0}]
    BY <2>2, <2>4
  <2> QED
    BY <1>5, <2>1, <2>3, <2>5 DEF n
<1>6. CASE /\ UNCHANGED <<child, next>> /\ freed' \in {freed, freed \cup {pos + 1}}
           /\ \E kind \in Kinds : Read(kind)
  BY <1>2, <1>4, <1>6
<1> QED
  BY <1>3, <1>5, <1>6, StepCases

LEMMA ParseTypes ==
  ASSUME Typed, DepthRight, StackRight, Parsing, ParseNext
  PROVE  /\ sp' \in -1..StackSize /\ st' \in [0..StackSize - 1 -> 0..Len(doc)]
         /\ state' \in {"none", "start", "end"} /\ tree' \in 0..Len(doc)
         /\ outcome' \in Outcomes
         /\ depth' \in Seq(Int) /\ Len(depth') = pos' + 1
<1>1. /\ sp \in 0..StackSize /\ StackSize \in Nat /\ st \in [0..StackSize - 1 -> 0..Len(doc)]
      /\ pos \in Nat /\ Len(doc) \in Nat
  BY StackTyped, Sizes DEF StackRight
<1>2. state \in {"none", "start", "end"} /\ tree \in 0..Len(doc)
  BY DEF Typed
<1>3. ASSUME NEW kind, Read(kind)
      PROVE  /\ pos + 1 \in 0..Len(doc) /\ tree' \in 0..Len(doc)
             /\ depth' \in Seq(Int) /\ Len(depth') = pos' + 1
  <2>1. /\ pos + 1 \in 1..Len(doc) /\ pos' = pos + 1
        /\ depth' \in Seq(Int) /\ Len(depth') = pos + 2
    BY <1>3, ReadStep
  <2>2. tree' = IF sp = 0 /\ st[0] = 0 THEN pos + 1 ELSE tree
    BY <1>3 DEF Read
  <2> QED
    BY <1>1, <1>2, <2>1, <2>2
<1>4. state' \in {"none", "start", "end"} /\ outcome' \in Outcomes
  BY <1>2 DEF ParseNext, Start, Empty, Comment, End, BadStart, BadEnd, Finish, Overflow,
              Returns, Parsing, Outcomes
<1>5. CASE Finish
  <2>1. UNCHANGED <<pos, st, sp, tree, depth>>
    BY <1>5 DEF Finish
  <2> QED
    BY <1>1, <1>2, <1>4, <2>1, DepthTyped
<1>6. CASE /\ \E kind \in Kinds : Read(kind)
           /\ sp < StackSize /\ st' = [st EXCEPT ![sp] = pos + 1] /\ sp' \in {sp, sp + 1}
  BY <1>1, <1>3, <1>4, <1>6
<1>7. CASE (\E kind \in Kinds : Read(kind)) /\ st' = st /\ sp' \in {sp, sp - 1}
  BY <1>1, <1>3, <1>4, <1>7
<1> QED
  BY <1>5, <1>6, <1>7, StepCases

-----------------------------------------------------------------------------
(* A step of the parser keeps the whole invariant.                         *)
LEMMA ParseStepTyped ==
  ASSUME Typed, DepthRight, StackRight, CurrentRight, BeforeRight, Fresh, ParseStep
  PROVE  Typed'
<1>1. ParseNext /\ Parsing
  BY DEF ParseStep, ParseNext, Start, Empty, Comment, End, BadStart, BadEnd, Finish, Overflow, Read
<1>2. /\ doc' = doc /\ pos' \in pos..Len(doc)
      /\ child' \in [Nodes -> Nodes \cup {0}] /\ next' \in [Nodes -> Nodes \cup {0}]
      /\ \/ freed' = freed
         \/ freed' = freed \cup {pos + 1} /\ pos' = pos + 1
  BY <1>1, ParseShape
<1>3. /\ pos \in Nat /\ Len(doc) \in Nat /\ MaxLeaves \in Nat /\ pos <= Len(doc)
      /\ Nodes = 1..Len(doc) + MaxLeaves
  BY Sizes
<1>4. Nodes' = Nodes
  BY <1>2 DEF Nodes
<1>5. freed' \subseteq Nodes
  <2>1. freed \subseteq Nodes
    BY ParseTyped
  <2>2. pos' = pos + 1 => pos + 1 \in Nodes
    BY <1>2, <1>3
  <2> QED
    BY <1>2, <2>1, <2>2
<1>6. root' \in Nodes \cup {None, Outdated}
  <2>1. tree' \in 0..Len(doc)
    BY <1>1, ParseTypes
  <2>2. root' \in {None, 0, tree'}
    BY DEF ParseStep, Result
  <2> QED
    BY <1>3, <2>1, <2>2 DEF None
<1>7. causes' \subseteq {"comments", "not opened", "ref parsed", "outlived"}
  BY DEF ParseStep, Typed, TypeOK
<1>8. TypeOK'
  <2>1. /\ alive' \in BOOLEAN /\ text' \in {"null", "held", "freed"}
        /\ ref' \in [Refs -> Nodes \cup {None, Outdated, Own}]
        /\ leaves' \in 0..MaxLeaves /\ parses' \in 0..MaxParses
        /\ fault' \in {"none", "null", "freed", "double free"}
    BY DEF ParseStep, Typed, TypeOK
  <2>2. doc' \in Seq(Tags) /\ pos' \in 0..Len(doc')
    <3>1. doc \in Seq(Tags)
      BY DEF Typed, TypeOK
    <3> QED
      BY <1>2, <1>3, <3>1
  <2>3. sp' \in -1..StackSize /\ st' \in [0..StackSize - 1 -> 0..Len(doc')]
    BY <1>1, <1>2, ParseTypes
  <2> QED
    BY <1>2, <1>4, <1>5, <1>6, <1>7, <2>1, <2>2, <2>3 DEF TypeOK
<1> QED
  BY <1>1, <1>2, <1>8, ParseTypes DEF Typed

LEMMA ParseStepParser ==
  ASSUME Typed, PInv, OInv, ParseStep
  PROVE  PInv'
<1>1. ParseNext /\ Parsing
  BY DEF ParseStep, ParseNext, Start, Empty, Comment, End, BadStart, BadEnd, Finish, Overflow, Read
<1>2. /\ DepthRight /\ StackRight /\ CurrentRight /\ BeforeRight /\ NamesRight
      /\ (leaves = 0 => TreeRight) /\ Bounded /\ Fresh
  BY DEF PInv, OInv
<1>3. leaves = 0 /\ leaves' = 0 /\ TreeRight
  BY <1>1, <1>2 DEF Fresh, ParseStep
<1>4. DepthRight'
  <2>1. CASE Finish
    BY <1>1, <1>2, <2>1 DEF Finish, DepthRight, Parsing
  <2>2. CASE \E kind : Read(kind)
    <3>1. /\ doc' = doc /\ pos' = pos + 1 /\ depth'[1] = 0
          /\ \A i \in 1..pos + 1 : depth'[i + 1] = depth'[i] + Delta(doc[i].kind)
      BY <1>2, <2>2, ReadStep
    <3> QED
      BY <3>1 DEF DepthRight, Delta
  <2> QED
    BY <1>1, <2>1, <2>2, StepCases
<1>5. StackRight' /\ CurrentRight' /\ BeforeRight' /\ NamesRight'
  <2>1. CASE Parsing'
    BY <1>1, <1>2, <2>1, StackKeeps, CurrentKeeps, BeforeKeeps, NamesKeep
  <2>2. CASE ~Parsing'
    BY <2>2 DEF StackRight, CurrentRight, BeforeRight, NamesRight
  <2> QED
    BY <2>1, <2>2
<1>6. AcceptsWellFormed'
  BY <1>1, <1>2, AcceptsKeeps
<1>7. TreeRight'
  <2>1. CASE outcome' \in {"parsing", "tree", "unbalanced"}
    BY <1>1, <1>2, <1>3, <2>1, TreeKeeps
  <2>2. CASE outcome' \notin {"parsing", "tree", "unbalanced"}
    BY <2>2 DEF TreeRight
  <2> QED
    BY <2>1, <2>2
<1> QED
  BY <1>4, <1>5, <1>6, <1>7 DEF PInv

LEMMA ParseStepObjects ==
  ASSUME Typed, PInv, OInv, ParseStep, Typed'
  PROVE  OInv'
<1>1. ParseNext /\ Parsing
  BY DEF ParseStep, ParseNext, Start, Empty, Comment, End, BadStart, BadEnd, Finish, Overflow, Read
<1>2. /\ DepthRight /\ StackRight /\ CurrentRight /\ BeforeRight
      /\ Bounded /\ Fresh /\ Whole /\ RefsInTree /\ CausesRight /\ FaultsExplained
  BY DEF PInv, OInv
<1>3. /\ doc' = doc /\ pos' \in pos..Len(doc) /\ (Parsing' => pos' = pos + 1)
      /\ \A k \in Nodes : child'[k] # child[k] =>
            child'[k] = pos + 1 /\ k \in 1..pos /\ pos' = pos + 1
      /\ \A k \in Nodes : next'[k] # next[k] =>
            next'[k] = pos + 1 /\ k \in 1..pos /\ pos' = pos + 1
      /\ \/ freed' = freed
         \/ freed' = freed \cup {pos + 1} /\ UNCHANGED <<child, next>> /\ pos' = pos + 1
  BY <1>1, <1>2, ParseShape
<1>4. /\ pos \in Nat /\ Len(doc) \in Nat /\ MaxLeaves \in Nat /\ pos <= Len(doc)
      /\ Nodes = 1..Len(doc) + MaxLeaves /\ Nodes' = Nodes
  BY <1>3, Sizes DEF Nodes
<1>5. /\ leaves = 0 /\ alive /\ root = None /\ freed \subseteq 1..pos
      /\ \A r \in Refs : ref[r] \notin Nodes
  BY <1>1, <1>2 DEF Fresh
<1>6. UNCHANGED <<alive, text, ref, leaves, parses, fault>>
  BY DEF ParseStep
<1>7. /\ Parsing' => root' = None
      /\ causes' = IF root' \in freed' THEN causes \cup {"comments"} ELSE causes
  BY DEF ParseStep, Parsing
<1>8. root' \in 0..Len(doc)
  <2>1. tree' \in 0..Len(doc)
    BY <1>1, <1>2, ParseTypes
  <2> QED
    BY <1>4, <2>1 DEF ParseStep, Result, None
<1>9. freed' \subseteq 1..pos'
  <2>1. \A k \in 1..pos : k \in 1..pos'
    BY <1>3, <1>4
  <2>2. pos' = pos + 1 => pos + 1 \in 1..pos'
    BY <1>3, <1>4
  <2> QED
    BY <1>3, <1>5, <2>1, <2>2
<1>10. Used' \in Nat /\ pos' <= Used' /\ (~Parsing' => Used' = Len(doc)) /\ Used = pos
  BY <1>1, <1>3, <1>4, <1>5, <1>6 DEF Used
<1>11. \A r \in Refs : ref[r] \in {None, Outdated, Own}
  BY <1>5 DEF Typed, TypeOK
<1>12. Bounded'
  <2>1. \A k \in Nodes : child[k] \in 0..pos /\ next[k] \in 0..pos
                         /\ (k > pos => child[k] = 0 /\ next[k] = 0)
    BY <1>2, <1>10 DEF Bounded
  <2>2. ASSUME NEW k \in Nodes
        PROVE  child'[k] \in 0..Used' /\ next'[k] \in 0..Used'
               /\ (k > Used' => child'[k] = 0 /\ next'[k] = 0)
    <3>1. child'[k] = child[k] \/ (child'[k] = pos + 1 /\ k \in 1..pos /\ pos' = pos + 1)
      BY <1>3
    <3>2. next'[k] = next[k] \/ (next'[k] = pos + 1 /\ k \in 1..pos /\ pos' = pos + 1)
      BY <1>3
    <3> QED
      BY <1>3, <1>4, <1>10, <2>1, <3>1, <3>2
  <2>3. root' <= Used'
    <3>1. CASE Parsing'
      BY <1>7, <1>10, <3>1 DEF None
    <3>2. CASE ~Parsing'
      BY <1>4, <1>8, <1>10, <3>2
    <3> QED
      BY <3>1, <3>2
  <2>4. \A r \in Refs : ref'[r] <= Used'
    BY <1>6, <1>10, <1>11 DEF None, Outdated, Own
  <2> QED
    BY <1>4, <2>2, <2>3, <2>4 DEF Bounded
<1>13. Fresh'
  BY <1>4, <1>5, <1>6, <1>7, <1>9 DEF Fresh
<1>14. Whole'
  <2>1. root' \in freed' => ~Unbroken' /\ ~Parsing'
    <3>1. 0 \notin freed'
      BY <1>3, <1>4, <1>5
    <3> QED
      BY <1>7, <3>1 DEF Unbroken, None
  <2>2. ASSUME NEW k \in Nodes
        PROVE  child'[k] \notin freed' /\ next'[k] \notin freed'
    <3>1. child[k] \in 0..pos /\ next[k] \in 0..pos
      BY <1>2, <1>10 DEF Bounded
    <3>2. child[k] \notin freed /\ next[k] \notin freed
      BY <1>1, <1>2, <1>5 DEF Whole
    <3>3. pos + 1 \notin freed
      BY <1>4, <1>5
    <3> QED
      BY <1>3, <1>4, <3>1, <3>2, <3>3
  <2> QED
    BY <1>3, <1>4, <1>9, <2>1, <2>2 DEF Whole
<1>15. RefsInTree'
  BY <1>4, <1>5, <1>6 DEF RefsInTree
<1>16. CausesRight'
  <2>1. causes \subseteq causes' /\ (Unbroken' => Unbroken)
    BY <1>7 DEF Unbroken
  <2>2. root' # Outdated /\ alive'
    BY <1>4, <1>5, <1>6, <1>8 DEF Outdated
  <2> QED
    BY <1>2, <1>6, <2>1, <2>2 DEF CausesRight
<1>17. FaultsExplained'
  <2>1. causes \subseteq causes'
    BY <1>7
  <2> QED
    BY <1>2, <1>4, <1>6, <2>1 DEF FaultsExplained
<1> QED
  BY <1>12, <1>13, <1>14, <1>15, <1>16, <1>17 DEF OInv

-----------------------------------------------------------------------------
(* The steps that leave the document as it is.                             *)
LEMMA ParserKept ==
  ASSUME PInv, UNCHANGED <<doc, pos, child, next, st, sp, state, outcome, depth, leaves>>
  PROVE  PInv'
<1>1. /\ \A e, m : Closes(e, m)' <=> Closes(e, m)
      /\ \A i : Before(i)' = Before(i)
      /\ \A m, k : Open(m, k)' <=> Open(m, k)
      /\ Parsing' <=> Parsing
  BY DEF Closes, Before, Open, Parsing
<1>2. DepthRight'
  BY DEF PInv, DepthRight, Delta
<1>3. StackRight'
  BY <1>1 DEF PInv, StackRight
<1>4. CurrentRight'
  BY <1>1 DEF PInv, CurrentRight
<1>5. BeforeRight'
  BY <1>1 DEF PInv, BeforeRight
<1>6. NamesRight'
  BY <1>1 DEF PInv, NamesRight
<1>7. AcceptsWellFormed'
  BY <1>1 DEF PInv, AcceptsWellFormed
<1>8. leaves' = 0 => TreeRight'
  BY <1>1 DEF PInv, TreeRight
<1> QED
  BY <1>2, <1>3, <1>4, <1>5, <1>6, <1>7, <1>8 DEF PInv

LEMMA TypedKept ==
  ASSUME Typed, UNCHANGED <<doc, pos, st, sp, tree, state, outcome, depth>>,
         child' \in [Nodes -> Nodes \cup {0}], next' \in [Nodes -> Nodes \cup {0}],
         freed' \subseteq Nodes, alive' \in BOOLEAN,
         root' \in Nodes \cup {None, Outdated}, text' \in {"null", "held", "freed"},
         ref' \in [Refs -> Nodes \cup {None, Outdated, Own}],
         leaves' \in 0..MaxLeaves, parses' \in 0..MaxParses,
         fault' \in {"none", "null", "freed", "double free"},
         causes' \subseteq {"comments", "not opened", "ref parsed", "outlived"}
  PROVE  Typed'
<1>1. Nodes' = Nodes
  BY DEF Nodes
<1>2. TypeOK'
  <2>1. doc' \in Seq(Tags) /\ pos' \in 0..Len(doc')
        /\ sp' \in -1..StackSize /\ st' \in [0..StackSize - 1 -> 0..Len(doc')]
    BY DEF Typed, TypeOK
  <2> QED
    BY <1>1, <2>1 DEF TypeOK
<1>3. /\ state' \in {"none", "start", "end"} /\ tree' \in 0..Len(doc')
      /\ outcome' \in Outcomes
      /\ outcome' # "query" => depth' \in Seq(Int) /\ Len(depth') = pos' + 1
  BY DEF Typed
<1> QED
  BY <1>2, <1>3 DEF Typed

LEMMA ObjectsTyped ==
  ASSUME Typed
  PROVE  /\ alive \in BOOLEAN
         /\ root \in Nodes \cup {None, Outdated} /\ text \in {"null", "held", "freed"}
         /\ ref \in [Refs -> Nodes \cup {None, Outdated, Own}]
         /\ leaves \in 0..MaxLeaves /\ parses \in 0..MaxParses
         /\ fault \in {"none", "null", "freed", "double free"}
         /\ causes \subseteq {"comments", "not opened", "ref parsed", "outlived"}
         /\ child \in [Nodes -> Nodes \cup {0}] /\ next \in [Nodes -> Nodes \cup {0}]
         /\ freed \subseteq Nodes
BY DEF Typed, TypeOK

LEMMA NotBroken ==
  ASSUME Typed
  PROVE  Unbroken <=> causes \cap {"comments", "not opened", "ref parsed"} = {}
BY ObjectsTyped DEF Unbroken

(* None, Outdated and Own are no nodes.                                    *)
LEMMA NoNodes ==
  ASSUME Typed
  PROVE  /\ None \notin Nodes /\ Outdated \notin Nodes /\ Own \notin Nodes
         /\ None # Outdated /\ None # Own /\ Own # Outdated
BY Sizes DEF None, Outdated, Own

(* What is freed before another document was there to be freed, unless a   *)
(* function that failed or a ref had its hands in it.                      *)
LEMMA DiscardSound ==
  ASSUME Typed, OInv, Idle, alive, Discard
  PROVE  fault' \in {"none", "double free"} /\ (fault' = "double free" => ~Unbroken)
<1>1. Whole /\ CausesRight /\ fault = "none"
  BY DEF OInv, Idle
<1>2. fault' = IF text = "freed" \/ Dangling(root) THEN "double free" ELSE fault
  BY DEF Discard
<1>3. ASSUME Unbroken
      PROVE  text # "freed" /\ ~Dangling(root)
  <2>1. text # "freed"
    BY <1>1, <1>3 DEF CausesRight, Unbroken
  <2>2. CASE root = None
    BY <2>1, <2>2, NoNodes DEF Dangling
  <2>3. CASE root # None
    BY <1>1, <1>3, <2>1, <2>3, OwnerHeld
  <2> QED
    BY <2>2, <2>3
<1> QED
  BY <1>1, <1>2, <1>3

(* A fault that is new only in a state that something broke.               *)
LEMMA FaultsKept ==
  ASSUME Typed, Typed', Idle, causes \subseteq causes',
         fault' \in {"none", "double free"}, fault' = "double free" => ~Unbroken'
  PROVE  FaultsExplained'
<1>1. Unbroken' <=> causes' \cap {"comments", "not opened", "ref parsed"} = {}
  BY ObjectsTyped DEF Unbroken, Typed, TypeOK
<1> QED
  BY <1>1 DEF FaultsExplained

(* Where the links and the document stay, so do the bounds on them.        *)
LEMMA BoundedKept ==
  ASSUME Bounded, UNCHANGED <<doc, pos, child, next, outcome, leaves>>,
         root' <= Used, \A r \in Refs : ref'[r] <= Used
  PROVE  Bounded'
<1>1. Used' = Used /\ Nodes' = Nodes
  BY DEF Used, Nodes, Parsing
<1> QED
  BY <1>1 DEF Bounded

LEMMA NotOpenedKeeps ==
  ASSUME Typed, PInv, OInv, NotOpened
  PROVE  Typed' /\ PInv' /\ OInv'
<1>1. /\ Idle /\ alive /\ parses < MaxParses /\ Discard
      /\ text' = IF text = "null" THEN "null" ELSE "freed"
      /\ freed' = IF root = None THEN freed ELSE freed \cup Reached(root)
      /\ parses' = parses + 1
      /\ causes' = causes \cup Outlived \cup {"not opened"}
      /\ UNCHANGED <<doc, pos, child, next, st, sp, tree, state, outcome, depth>>
      /\ UNCHANGED <<alive, root, ref, leaves>>
  BY DEF NotOpened
<1>2. ~Unbroken' /\ ~Parsing'
  BY <1>1 DEF Unbroken, Idle, Parsing
<1>3. fault' \in {"none", "double free"}
  BY <1>1, DiscardSound
<1>4. Typed'
  <2>1. freed' \subseteq Nodes
    BY <1>1, ObjectsTyped DEF Reached
  <2>2. parses' \in 0..MaxParses
    <3>1. MaxParses \in Nat /\ parses \in 0..MaxParses
      BY ObjectsTyped, ObjectsAssumption
    <3>2. parses < MaxParses /\ parses' = parses + 1
      BY <1>1
    <3> QED
      BY <3>1, <3>2
  <2>3. causes' \subseteq {"comments", "not opened", "ref parsed", "outlived"}
    BY <1>1, ObjectsTyped DEF Outlived
  <2>4. text' \in {"null", "held", "freed"}
    BY <1>1
  <2> QED
    BY <1>1, <1>3, <2>1, <2>2, <2>3, <2>4, ObjectsTyped, TypedKept
<1>5. PInv'
  BY <1>1, ParserKept
<1>6. Bounded'
  BY <1>1, BoundedKept DEF OInv, Bounded
<1>7. Fresh' /\ Whole' /\ RefsInTree'
  BY <1>2 DEF Fresh, Whole, RefsInTree
<1>8. CausesRight'
  BY <1>1, <1>2 DEF OInv, CausesRight
<1>9. FaultsExplained'
  BY <1>1, <1>2, <1>3, <1>4, FaultsKept
<1> QED
  BY <1>4, <1>5, <1>6, <1>7, <1>8, <1>9 DEF OInv

LEMMA DestroyOwnerKeeps ==
  ASSUME Typed, PInv, OInv, DestroyOwner
  PROVE  Typed' /\ PInv' /\ OInv'
<1>1. /\ Idle /\ alive /\ Discard
      /\ alive' = FALSE /\ root' = None /\ text' = "null"
      /\ freed' = IF root = None THEN freed ELSE freed \cup Reached(root)
      /\ causes' = causes \cup Outlived
      /\ UNCHANGED <<doc, pos, child, next, st, sp, tree, state, outcome, depth>>
      /\ UNCHANGED <<ref, leaves, parses>>
  BY DEF DestroyOwner
<1>2. ~Parsing' /\ (Unbroken' <=> Unbroken) /\ Nodes' = Nodes
  BY <1>1 DEF Unbroken, Idle, Parsing, Outlived, Nodes
<1>3. fault' \in {"none", "double free"} /\ (fault' = "double free" => ~Unbroken)
  BY <1>1, DiscardSound
<1>4. Typed'
  <2>1. freed' \subseteq Nodes
    BY <1>1, ObjectsTyped DEF Reached
  <2>2. causes' \subseteq {"comments", "not opened", "ref parsed", "outlived"}
    BY <1>1, ObjectsTyped DEF Outlived
  <2> QED
    BY <1>1, <1>3, <2>1, <2>2, ObjectsTyped, TypedKept
<1>5. PInv'
  BY <1>1, ParserKept
<1>6. Bounded'
  <2>1. 0 <= Used
    BY Sizes DEF Used
  <2> QED
    BY <1>1, <2>1, BoundedKept DEF OInv, Bounded, None
<1>7. Fresh' /\ Whole' /\ RefsInTree'
  BY <1>1, <1>2 DEF Fresh, Whole, RefsInTree
<1>8. CausesRight'
  BY <1>1, <1>2, NoNodes DEF OInv, CausesRight, Outlived
<1>9. FaultsExplained'
  BY <1>1, <1>2, <1>3, <1>4, FaultsKept
<1> QED
  BY <1>4, <1>5, <1>6, <1>7, <1>8, <1>9 DEF OInv

-----------------------------------------------------------------------------
(* The refs.                                                               *)
LEMMA RefParsesKeeps ==
  ASSUME Typed, PInv, OInv, NEW r \in Refs, RefParses(r) \/ RefNotOpened(r)
  PROVE  Typed' /\ PInv' /\ OInv'
<1>1. /\ Idle /\ fault' = (IF Dangling(ref[r]) THEN "double free" ELSE fault)
      /\ freed' = freed \/ freed' = freed \cup Reached(ref[r])
      /\ \E v \in {Own, Outdated, ref[r]} :
            /\ ref' = [ref EXCEPT ![r] = v]
            /\ v = Own => "ref parsed" \in causes'
      /\ causes' = causes \cup {"ref parsed"} \/ causes' = causes \cup {"not opened"}
      /\ UNCHANGED <<doc, pos, child, next, st, sp, tree, state, outcome, depth>>
      /\ UNCHANGED <<alive, root, text, leaves, parses>>
  <2>1. CASE RefParses(r)
    BY <2>1 DEF RefParses
  <2>2. CASE RefNotOpened(r)
    <3>1. /\ ref[r] = Own => ref' = [ref EXCEPT ![r] = Outdated]
          /\ ref[r] # Own => ref' = [ref EXCEPT ![r] = ref[r]]
          /\ causes' = causes \cup {"not opened"}
      BY <2>2 DEF RefNotOpened
    <3>2. \E v \in {Own, Outdated, ref[r]} :
             ref' = [ref EXCEPT ![r] = v] /\ (v = Own => "ref parsed" \in causes')
      BY <3>1, NoNodes
    <3> QED
      BY <2>2, <3>1, <3>2 DEF RefNotOpened
  <2> QED
    BY <2>1, <2>2
<1>2. PICK v \in {Own, Outdated, ref[r]} :
         ref' = [ref EXCEPT ![r] = v] /\ (v = Own => "ref parsed" \in causes')
  BY <1>1
<1>3. ~Unbroken' /\ ~Parsing' /\ causes \subseteq causes'
  <2>1. causes' = causes \cup {"ref parsed"} \/ causes' = causes \cup {"not opened"}
    BY <1>1
  <2>2. ~Parsing'
    BY <1>1 DEF Idle, Parsing
  <2>3. "ref parsed" \in causes' \/ "not opened" \in causes'
    BY <2>1
  <2>4. ~Unbroken'
    BY <2>3 DEF Unbroken
  <2> QED
    BY <2>1, <2>2, <2>4
<1>4. fault' \in {"none", "double free"}
  BY <1>1 DEF Idle
<1>5. Typed'
  <2>1. freed' \subseteq Nodes
    BY <1>1, ObjectsTyped DEF Reached
  <2>2. causes' \subseteq {"comments", "not opened", "ref parsed", "outlived"}
    BY <1>1, ObjectsTyped
  <2>3. ref' \in [Refs -> Nodes \cup {None, Outdated, Own}]
    BY <1>2, ObjectsTyped
  <2> QED
    BY <1>1, <1>4, <2>1, <2>2, <2>3, ObjectsTyped, TypedKept
<1>6. PInv'
  BY <1>1, ParserKept
<1>7. Bounded'
  <2>1. Used \in Nat
    BY Sizes DEF Used
  <2>2. \A x \in Refs : ref'[x] = IF x = r THEN v ELSE ref[x]
    BY <1>2, ObjectsTyped
  <2>3. \A x \in Refs : ref[x] <= Used
    BY DEF OInv, Bounded
  <2>4. v <= Used
    <3>1. Own <= Used /\ Outdated <= Used
      BY <2>1 DEF Own, Outdated
    <3> QED
      BY <1>2, <2>3, <3>1
  <2>5. \A x \in Refs : ref'[x] <= Used
    BY <2>2, <2>3, <2>4
  <2> QED
    BY <1>1, <2>5, BoundedKept DEF OInv, Bounded
<1>8. Fresh' /\ Whole' /\ RefsInTree'
  BY <1>3 DEF Fresh, Whole, RefsInTree
<1>9. CausesRight'
  BY <1>1, <1>2, <1>3, ObjectsTyped DEF OInv, CausesRight
<1>10. FaultsExplained'
  BY <1>1, <1>3, <1>4, <1>5, FaultsKept
<1> QED
  BY <1>5, <1>6, <1>7, <1>8, <1>9, <1>10 DEF OInv

(* What MakeRef and AddLeaf find is in the owner's tree if nothing broke   *)
(* it, and a node in use in any case.                                      *)
LEMMA FoundInTree ==
  ASSUME Typed, OInv, Idle, NEW n, NEW p \in Pointers \cap Nodes, n \in Reached(p)
  PROVE  /\ n \in Nodes /\ n \in 1..Used
         /\ alive /\ Unbroken => root \in Nodes /\ n \in Reached(root)
         /\ Unbroken /\ ~alive => "outlived" \in causes
<1>1. Bounded /\ RefsInTree /\ CausesRight /\ ~Parsing
  BY DEF OInv, Idle
<1>2. (p = root /\ alive) \/ \E r \in Refs : p = ref[r]
  BY DEF Pointers
<1>3. p <= Used
  BY <1>1, <1>2 DEF Bounded
<1>4. n \in Nodes /\ n \in 1..Used
  BY <1>1, <1>3, ReachedUsed DEF Reached
<1>5. ASSUME alive, Unbroken
      PROVE  root \in Nodes /\ n \in Reached(root)
  <2>1. CASE p = root
    BY <2>1
  <2>2. CASE \E r \in Refs : p = ref[r]
    <3>1. root \in Nodes /\ p \in Reached(root)
      BY <1>1, <1>5, <2>2 DEF RefsInTree
    <3> QED
      BY <1>4, <3>1, ReachedTransitive
  <2> QED
    BY <1>2, <2>1, <2>2
<1>6. ASSUME Unbroken, ~alive
      PROVE  "outlived" \in causes
  BY <1>1, <1>2, <1>6 DEF CausesRight
<1> QED
  BY <1>4, <1>5, <1>6

LEMMA ReachedKept ==
  ASSUME UNCHANGED <<doc, child, next>>
  PROVE  \A n : Reached(n)' = Reached(n)
<1>1. \A k, S : LinksOut(k, S)' <=> LinksOut(k, S)
  BY DEF LinksOut
<1>2. Nodes' = Nodes
  BY DEF Nodes
<1> QED
  BY <1>1, <1>2 DEF Reached

LEMMA MakeRefKeeps ==
  ASSUME Typed, PInv, OInv, NEW r \in Refs, NEW n \in Nodes, MakeRef(r, n)
  PROVE  Typed' /\ PInv' /\ OInv'
<1>1. /\ Idle /\ ref' = [ref EXCEPT ![r] = n]
      /\ UNCHANGED <<doc, pos, child, next, freed, st, sp, tree, state, outcome, depth>>
      /\ UNCHANGED <<alive, root, text, leaves, parses, fault, causes>>
  BY DEF MakeRef, parse
<1>2. PICK p \in Pointers \cap Nodes : n \in Reached(p)
  BY DEF MakeRef
<1>3. /\ n \in 1..Used
      /\ alive /\ Unbroken => root \in Nodes /\ n \in Reached(root)
      /\ Unbroken /\ ~alive => "outlived" \in causes
  BY <1>1, <1>2, FoundInTree
<1>4. ref' \in [Refs -> Nodes \cup {None, Outdated, Own}]
  BY <1>1, ObjectsTyped
<1>5. Typed'
  BY <1>1, <1>4, ObjectsTyped, TypedKept
<1>6. PInv'
  BY <1>1, ParserKept
<1>7. /\ ~Parsing' /\ (Unbroken' <=> Unbroken) /\ Nodes' = Nodes
      /\ \A x : Reached(x)' = Reached(x)
  BY <1>1, ReachedKept DEF Idle, Parsing, Unbroken, Nodes
<1>8. Bounded'
  <2>1. \A x \in Refs : ref'[x] <= Used
    <3>1. \A x \in Refs : ref'[x] = IF x = r THEN n ELSE ref[x]
      BY <1>1, ObjectsTyped
    <3>2. n <= Used
      BY <1>3
    <3> QED
      BY <3>1, <3>2 DEF OInv, Bounded
  <2> QED
    BY <1>1, <2>1, BoundedKept DEF OInv, Bounded
<1>9. Fresh' /\ Whole'
  BY <1>1, <1>7 DEF OInv, Fresh, Whole, Idle
<1>10. RefsInTree'
  <2>1. ASSUME alive, Unbroken, NEW x \in Refs, ref'[x] \in Nodes
        PROVE  root \in Nodes /\ ref'[x] \in Reached(root)
    BY <1>1, <1>3, <2>1, ObjectsTyped DEF OInv, RefsInTree
  <2> QED
    BY <1>1, <1>7, <2>1 DEF RefsInTree
<1>11. CausesRight'
  BY <1>1, <1>3, <1>7, ObjectsTyped, NoNodes DEF OInv, CausesRight
<1>12. FaultsExplained'
  BY <1>1 DEF FaultsExplained, Idle
<1> QED
  BY <1>5, <1>6, <1>8, <1>9, <1>10, <1>11, <1>12 DEF OInv

LEMMA DestroyRefKeeps ==
  ASSUME Typed, PInv, OInv, NEW r \in Refs, DestroyRef(r)
  PROVE  Typed' /\ PInv' /\ OInv'
<1>1. /\ Idle /\ ref' = [ref EXCEPT ![r] = None]
      /\ UNCHANGED <<doc, pos, child, next, freed, st, sp, tree, state, outcome, depth>>
      /\ UNCHANGED <<alive, root, text, leaves, parses, fault, causes>>
  BY DEF DestroyRef, parse
<1>2. ref' \in [Refs -> Nodes \cup {None, Outdated, Own}]
      /\ \A x \in Refs : ref'[x] = IF x = r THEN None ELSE ref[x]
  BY <1>1, ObjectsTyped
<1>3. Typed'
  BY <1>1, <1>2, ObjectsTyped, TypedKept
<1>4. PInv'
  BY <1>1, ParserKept
<1>5. /\ ~Parsing' /\ (Unbroken' <=> Unbroken) /\ Nodes' = Nodes
      /\ \A x : Reached(x)' = Reached(x)
  BY <1>1, ReachedKept DEF Idle, Parsing, Unbroken, Nodes
<1>6. Bounded'
  <2>1. 0 <= Used
    BY Sizes DEF Used
  <2>2. \A x \in Refs : ref'[x] <= Used
    BY <1>2, <2>1 DEF OInv, Bounded, None
  <2> QED
    BY <1>1, <2>2, BoundedKept DEF OInv, Bounded
<1>7. Fresh' /\ Whole'
  BY <1>1, <1>5 DEF OInv, Fresh, Whole, Idle
<1>8. RefsInTree'
  BY <1>1, <1>2, <1>5, NoNodes DEF OInv, RefsInTree
<1>9. CausesRight'
  BY <1>1, <1>2, <1>5, NoNodes DEF OInv, CausesRight
<1>10. FaultsExplained'
  BY <1>1 DEF FaultsExplained, Idle
<1> QED
  BY <1>3, <1>4, <1>6, <1>7, <1>8, <1>9, <1>10 DEF OInv

(* Freed memory is read by a pointer that something left behind.           *)
LEMMA UseFaultKeeps ==
  ASSUME Typed, PInv, OInv, NEW kind \in {"null", "freed"}, UseFault(kind)
  PROVE  Typed' /\ PInv' /\ OInv'
<1>1. /\ Idle /\ fault' = kind
      /\ UNCHANGED <<doc, pos, child, next, freed, st, sp, tree, state, outcome, depth>>
      /\ UNCHANGED <<alive, root, text, ref, leaves, parses, causes>>
  BY DEF UseFault, parse
<1>2. Typed'
  <2>1. fault' \in {"none", "null", "freed", "double free"}
    BY <1>1
  <2> QED
    BY <1>1, <2>1, ObjectsTyped, TypedKept
<1>3. PInv'
  BY <1>1, ParserKept
<1>4. /\ ~Parsing' /\ (Unbroken' <=> Unbroken) /\ Nodes' = Nodes
      /\ \A x : Reached(x)' = Reached(x)
  BY <1>1, ReachedKept DEF Idle, Parsing, Unbroken, Nodes
<1>5. Bounded'
  BY <1>1, BoundedKept DEF OInv, Bounded
<1>6. Fresh' /\ Whole' /\ RefsInTree' /\ CausesRight'
  BY <1>1, <1>4 DEF OInv, Fresh, Whole, RefsInTree, CausesRight, Idle
<1>7. FaultsExplained'
  <2>1. CASE kind = "null"
    BY <1>1, <2>1 DEF FaultsExplained
  <2>2. CASE kind = "freed" /\ ~Unbroken
    BY <1>1, <2>2, NotBroken DEF FaultsExplained
  <2>3. CASE kind = "freed" /\ Unbroken
    <3>1. Whole /\ RefsInTree /\ CausesRight
      BY DEF OInv
    <3>2. (\E p \in Pointers : Dangling(p)) \/ (~alive /\ Own \in Pointers)
      BY <2>3 DEF UseFault
    <3>3. Own \notin Pointers
      <4>1. \A r \in Refs : ref[r] # Own
        BY <2>3, <3>1 DEF CausesRight, Unbroken
      <4>2. root # Own
        BY ObjectsTyped, NoNodes
      <4> QED
        BY <4>1, <4>2 DEF Pointers
    <3>4. PICK p \in Pointers : Dangling(p)
      BY <3>2, <3>3
    <3>5. ~(alive /\ p = root)
      <4> SUFFICES ASSUME alive, p = root PROVE FALSE
        OBVIOUS
      <4>1. CASE root = None
        BY <3>4, <4>1, NoNodes DEF Dangling
      <4>2. CASE root # None
        BY <2>3, <3>1, <3>4, <4>2, OwnerHeld
      <4> QED
        BY <4>1, <4>2
    <3>6. PICK r \in Refs : p = ref[r]
      BY <3>5 DEF Pointers
    <3>7. ref[r] = Outdated \/ (ref[r] \in Nodes /\ ~alive)
      BY <2>3, <3>1, <3>4, <3>6, RefsHeld DEF Dangling
    <3>8. "outlived" \in causes
      BY <2>3, <3>1, <3>7 DEF CausesRight
    <3> QED
      BY <1>1, <1>4, <2>3, <3>7, <3>8 DEF FaultsExplained
  <2> QED
    BY <2>1, <2>2, <2>3
<1> QED
  BY <1>2, <1>3, <1>5, <1>6, <1>7 DEF OInv

-----------------------------------------------------------------------------
(* A leaf takes the first place in node n and what was there follows it:   *)
(* nothing that was reached is lost.                                       *)
LEMMA ReachedByLeaf ==
  ASSUME Typed, Bounded, NEW n \in Nodes, NEW leaf \in Nodes, leaf # n,
         child[leaf] = 0, next[leaf] = 0,
         doc' = doc, child' = [child EXCEPT ![n] = leaf],
         next' = [next EXCEPT ![leaf] = child[n]],
         NEW m, NEW q, m \in Reached(q)
  PROVE  m \in Reached(q)'
<1>1. Nodes' = Nodes /\ m \in Nodes
  BY DEF Nodes, Reached
<1>2. child \in [Nodes -> Nodes \cup {0}] /\ next \in [Nodes -> Nodes \cup {0}] /\ 0 \notin Nodes
  BY ObjectsTyped, NoNodes DEF None
<1>3. ASSUME NEW S \in SUBSET (Nodes \ {m}), q \in S
      PROVE  \E k \in S : LinksOut(k, S)'
  <2>1. PICK k \in S : LinksOut(k, S)
    BY <1>3 DEF Reached
  <2>2. k \in Nodes /\ k # leaf
    BY <2>1 DEF LinksOut
  <2>3. next'[k] = next[k]
    BY <1>2, <2>2
  <2>4. CASE k # n
    <3>1. child'[k] = child[k]
      BY <1>2, <2>2, <2>4
    <3> QED
      BY <2>1, <2>3, <3>1 DEF LinksOut
  <2>5. CASE k = n
    <3>1. child'[n] = leaf /\ next'[leaf] = child[n]
      BY <1>2
    <3>2. CASE leaf \notin S
      BY <1>2, <2>1, <2>5, <3>1, <3>2 DEF LinksOut
    <3>3. CASE leaf \in S
      BY <2>1, <2>3, <2>5, <3>1, <3>3 DEF LinksOut
    <3> QED
      BY <3>2, <3>3
  <2> QED
    BY <2>4, <2>5
<1> QED
  BY <1>1, <1>3 DEF Reached

LEMMA AddLeafKeeps ==
  ASSUME Typed, PInv, OInv, NEW n \in Nodes, AddLeaf(n)
  PROVE  Typed' /\ PInv' /\ OInv'
<1> DEFINE leaf == Len(doc) + leaves + 1
<1>1. /\ Idle /\ leaves < MaxLeaves /\ leaves' = leaves + 1
      /\ next' = [next EXCEPT ![Len(doc) + leaves'] = child[n]]
      /\ child' = [child EXCEPT ![n] = Len(doc) + leaves']
      /\ UNCHANGED <<doc, pos, freed, st, sp, tree, state, outcome, depth>>
      /\ UNCHANGED <<alive, root, text, ref, parses, fault, causes>>
  BY DEF AddLeaf
<1>2. /\ Len(doc) \in Nat /\ leaves \in Nat /\ MaxLeaves \in Nat
      /\ Nodes = 1..Len(doc) + MaxLeaves /\ Nodes' = Nodes
  BY <1>1, Sizes DEF Nodes
<1>3. ~Parsing /\ ~Parsing' /\ (Unbroken' <=> Unbroken)
  BY <1>1 DEF Idle, Parsing, Unbroken
<1>4. Used = Len(doc) + leaves /\ Used' = leaf
  BY <1>1, <1>2, <1>3 DEF Used
<1>5. n \in 1..Used
  <2>1. PICK p \in Pointers \cap Nodes : n \in Reached(p)
    BY DEF AddLeaf
  <2> QED
    BY <1>1, <2>1, FoundInTree
<1>6. leaf \in Nodes /\ leaf # n /\ leaf > Used /\ leaf \in Nat
  BY <1>1, <1>2, <1>4, <1>5
<1>7. child[leaf] = 0 /\ next[leaf] = 0
  BY <1>6 DEF OInv, Bounded
<1>8. next' = [next EXCEPT ![leaf] = child[n]] /\ child' = [child EXCEPT ![n] = leaf]
  <2>1. Len(doc) + leaves' = leaf
    BY <1>1, <1>2
  <2> QED
    BY <1>1, <2>1
<1>9. /\ child \in [Nodes -> Nodes \cup {0}] /\ next \in [Nodes -> Nodes \cup {0}]
  BY ObjectsTyped
<1>10. leaves' \in 0..MaxLeaves
  BY <1>1, <1>2
<1> HIDE DEF leaf
<1>11. /\ \A k \in Nodes : child'[k] = IF k = n THEN leaf ELSE child[k]
       /\ \A k \in Nodes : next'[k] = IF k = leaf THEN child[n] ELSE next[k]
       /\ child' \in [Nodes -> Nodes \cup {0}] /\ next' \in [Nodes -> Nodes \cup {0}]
  BY <1>6, <1>8, <1>9
<1>12. Typed'
  BY <1>1, <1>10, <1>11, ObjectsTyped, TypedKept
<1>13. PInv'
  <2>1. leaves' # 0
    BY <1>1, <1>2
  <2>2. DepthRight'
    BY <1>1 DEF PInv, DepthRight, Delta
  <2>3. StackRight' /\ CurrentRight' /\ BeforeRight' /\ NamesRight'
    BY <1>3 DEF StackRight, CurrentRight, BeforeRight, NamesRight
  <2>4. \A e, m : Closes(e, m)' <=> Closes(e, m)
    BY <1>1 DEF Closes
  <2>5. AcceptsWellFormed'
    BY <1>1, <2>4 DEF PInv, AcceptsWellFormed
  <2> QED
    BY <2>1, <2>2, <2>3, <2>5 DEF PInv
<1>14. Bounded'
  <2>1. /\ \A k \in Nodes : child[k] \in 0..Used /\ next[k] \in 0..Used
        /\ \A k \in Nodes : k > Used => child[k] = 0 /\ next[k] = 0
        /\ root <= Used /\ \A r \in Refs : ref[r] <= Used
    BY DEF OInv, Bounded
  <2>2. Used \in Nat /\ leaf = Used + 1
    BY <1>2, <1>4 DEF leaf
  <2>3. \A k \in Nodes : child'[k] \in 0..leaf /\ next'[k] \in 0..leaf
    BY <1>5, <1>6, <1>11, <2>1, <2>2
  <2>4. \A k \in Nodes : k > leaf => child'[k] = 0 /\ next'[k] = 0
    BY <1>2, <1>5, <1>6, <1>11, <2>1, <2>2
  <2>5. root <= leaf /\ \A r \in Refs : ref[r] <= leaf
    <3>1. root \in Int /\ \A r \in Refs : ref[r] \in Int
      <4>1. Nodes \subseteq Int /\ None \in Int /\ Outdated \in Int /\ Own \in Int
        BY <1>2 DEF None, Outdated, Own
      <4>2. root \in Nodes \cup {None, Outdated} /\ ref \in [Refs -> Nodes \cup {None, Outdated, Own}]
        BY ObjectsTyped
      <4> QED
        BY <4>1, <4>2
    <3> QED
      BY <2>1, <2>2, <3>1
  <2> QED
    BY <1>1, <1>2, <1>4, <2>3, <2>4, <2>5 DEF Bounded
<1>15. Fresh'
  BY <1>3 DEF Fresh
<1>16. Whole'
  <2> SUFFICES ASSUME alive, Unbroken
               PROVE  /\ freed \subseteq 1..Len(doc) /\ root \notin freed
                      /\ \A k \in Nodes : child'[k] \notin freed /\ next'[k] \notin freed
    BY <1>1, <1>2, <1>3 DEF Whole
  <2>1. /\ freed \subseteq 1..Len(doc) /\ root \notin freed
        /\ \A k \in Nodes : child[k] \notin freed /\ next[k] \notin freed
    BY DEF OInv, Whole
  <2>2. leaf \notin freed
    BY <1>2, <2>1 DEF leaf
  <2> QED
    BY <1>11, <2>1, <2>2
<1>17. RefsInTree'
  <2>1. ASSUME alive, Unbroken, NEW r \in Refs, ref[r] \in Nodes
        PROVE  root \in Nodes /\ \A m, q : m = ref[r] /\ q = root => m \in Reached(q)'
    <3>1. root \in Nodes /\ ref[r] \in Reached(root)
      BY <2>1 DEF OInv, RefsInTree
    <3>2. \A m, q : m \in Reached(q) => m \in Reached(q)'
      BY <1>1, <1>6, <1>7, <1>8, ReachedByLeaf DEF OInv
    <3> QED
      BY <3>1, <3>2
  <2> QED
    BY <1>1, <1>2, <1>3, <2>1 DEF RefsInTree
<1>18. CausesRight'
  BY <1>1, <1>2, <1>3 DEF OInv, CausesRight
<1>19. FaultsExplained'
  BY <1>1, <1>2 DEF OInv, FaultsExplained
<1> QED
  BY <1>12, <1>13, <1>14, <1>15, <1>16, <1>17, <1>18, <1>19 DEF OInv

-----------------------------------------------------------------------------
(* Another document, or a query, in place of the one that was read.        *)
LEMMA DocumentTyped ==
  ASSUME Typed, NEW d \in Seq(Tags), Document(d), Discard, Forget,
         parses < MaxParses, pos' \in 0..Len(d), outcome' \in Outcomes,
         outcome' # "query" => pos' = 0,
         next' \in [1..Len(d) + MaxLeaves -> 0..Len(d)],
         root' \in 0..Len(d), text' \in {"null", "held"}, causes' = causes \cup Outlived
  PROVE  /\ Typed' /\ Nodes' = 1..Len(d) + MaxLeaves
         /\ \A r \in Refs : /\ ref'[r] \in {None, Outdated, Own}
                            /\ ref'[r] = Own => ref[r] = Own
                            /\ ref'[r] = Outdated => ref[r] = Outdated \/ "outlived" \in causes'
<1>1. /\ doc' = d /\ st' = [k \in 0..StackSize - 1 |-> 0]
      /\ sp' = 0 /\ tree' = 0 /\ state' = "none" /\ depth' = <<0>>
      /\ child' = [n \in 1..Len(d) + MaxLeaves |-> 0]
      /\ freed' = {} /\ leaves' = 0 /\ parses' = parses + 1 /\ alive' = alive
  BY DEF Document
<1>2. Nodes' = 1..Len(d) + MaxLeaves
  BY <1>1 DEF Nodes
<1>3. Len(d) \in Nat /\ MaxLeaves \in Nat /\ StackSize \in Nat /\ MaxParses \in Nat
  BY ParseAssumption, ObjectsAssumption
<1>4. ref' = [r \in Refs |-> IF ref[r] \in Nodes THEN Outdated ELSE ref[r]]
  BY DEF Forget
<1>5. \A r \in Refs : ref[r] \in Nodes \cup {None, Outdated, Own}
  BY ObjectsTyped
<1>6. \A r \in Refs : ref'[r] \in {None, Outdated, Own}
  BY <1>4, <1>5
<1>7. ASSUME NEW r \in Refs
      PROVE  /\ ref'[r] = Own => ref[r] = Own
             /\ ref'[r] = Outdated => ref[r] = Outdated \/ "outlived" \in causes'
  <2>1. ref'[r] = IF ref[r] \in Nodes THEN Outdated ELSE ref[r]
    BY <1>4
  <2>2. ref[r] \in Nodes => "outlived" \in causes'
    BY DEF Outlived
  <2> QED
    BY <2>1, <2>2, NoNodes
<1>8. TypeOK'
  <2>1. doc' \in Seq(Tags) /\ pos' \in 0..Len(doc')
    BY <1>1
  <2>2. child' \in [Nodes' -> Nodes' \cup {0}] /\ next' \in [Nodes' -> Nodes' \cup {0}]
    <3>1. 0..Len(d) \subseteq Nodes' \cup {0}
      BY <1>2, <1>3
    <3> QED
      BY <1>1, <1>2, <3>1
  <2>3. sp' \in -1..StackSize /\ st' \in [0..StackSize - 1 -> 0..Len(doc')]
    BY <1>1, <1>3
  <2>4. root' \in Nodes' \cup {None, Outdated}
    BY <1>2, <1>3 DEF None
  <2>5. ref' \in [Refs -> Nodes' \cup {None, Outdated, Own}]
    BY <1>4, <1>6
  <2>6. leaves' \in 0..MaxLeaves /\ parses' \in 0..MaxParses
    <3>1. parses \in 0..MaxParses
      BY ObjectsTyped
    <3> QED
      BY <1>1, <1>3, <3>1
  <2>7. /\ alive' \in BOOLEAN /\ freed' \subseteq Nodes'
        /\ fault' \in {"none", "null", "freed", "double free"}
        /\ causes' \subseteq {"comments", "not opened", "ref parsed", "outlived"}
    BY <1>1, ObjectsTyped DEF Discard, Outlived
  <2> QED
    BY <2>1, <2>2, <2>3, <2>4, <2>5, <2>6, <2>7 DEF TypeOK
<1>9. Typed'
  <2>1. depth' \in Seq(Int) /\ Len(depth') = 1
    BY <1>1
  <2>2. state' \in {"none", "start", "end"} /\ tree' \in 0..Len(doc')
    BY <1>1, <1>3
  <2>3. outcome' # "query" => depth' \in Seq(Int) /\ Len(depth') = pos' + 1
    BY <2>1
  <2> QED
    BY <1>8, <2>2, <2>3 DEF Typed
<1> QED
  BY <1>2, <1>6, <1>7, <1>9

LEMMA NewDocument ==
  ASSUME Typed, OInv, NEW d \in Seq(Tags), Reparse(d) \/ ParseQuery(d)
  PROVE  Typed' /\ PInv' /\ OInv'
<1>1. /\ Idle /\ alive /\ parses < MaxParses
      /\ Discard /\ Forget /\ Document(d)
      /\ causes' = causes \cup Outlived
  BY DEF Reparse, ParseQuery
<1>2. Len(d) \in Nat /\ MaxLeaves \in Nat /\ StackSize \in Nat
  BY ParseAssumption
<1>3. /\ pos' \in 0..Len(d) /\ outcome' \in {"parsing", "query"}
      /\ outcome' = "parsing" => pos' = 0 /\ root' = None
      /\ outcome' = "query" => pos' = Len(d)
      /\ \A k \in 1..Len(d) + MaxLeaves : next'[k] \in 0..Len(d)
            /\ (k > Len(d) \/ outcome' = "parsing" => next'[k] = 0)
      /\ next' \in [1..Len(d) + MaxLeaves -> 0..Len(d)]
      /\ root' \in 0..Len(d) /\ text' \in {"null", "held"}
  <2>1. CASE Reparse(d)
    BY <1>2, <2>1 DEF Reparse, None
  <2>2. CASE ParseQuery(d)
    BY <1>2, <2>2 DEF ParseQuery
  <2> QED
    BY <2>1, <2>2
<1>4. /\ Typed' /\ Nodes' = 1..Len(d) + MaxLeaves
      /\ \A r \in Refs : /\ ref'[r] \in {None, Outdated, Own}
                         /\ ref'[r] = Own => ref[r] = Own
                         /\ ref'[r] = Outdated => ref[r] = Outdated \/ "outlived" \in causes'
  BY <1>1, <1>3, DocumentTyped DEF Outcomes
<1>5. /\ doc' = d /\ sp' = 0 /\ state' = "none" /\ depth' = <<0>>
      /\ child' = [n \in 1..Len(d) + MaxLeaves |-> 0]
      /\ freed' = {} /\ leaves' = 0 /\ alive' = alive
  BY <1>1 DEF Document
<1>6. None \notin Nodes' /\ Outdated \notin Nodes' /\ Own \notin Nodes' /\ None # Outdated
  BY <1>2, <1>4 DEF None, Outdated, Own
<1>7. PInv'
  <2>1. outcome' # "query" => pos' = 0
    BY <1>3
  <2>2. DepthRight'
    BY <1>5, <2>1 DEF DepthRight
  <2>3. StackRight'
    BY <1>2, <1>5, <2>1 DEF StackRight, Parsing
  <2>4. CurrentRight'
    <3>1. Parsing' => Before(pos + 1)' = 0
      BY <2>1 DEF Before, Parsing
    <3> QED
      BY <1>5, <3>1 DEF CurrentRight
  <2>5. BeforeRight'
    <3>1. \A i : i = 1 => Before(i)' = 0
      BY DEF Before
    <3> QED
      BY <2>1, <3>1 DEF BeforeRight, Parsing
  <2>6. NamesRight'
    BY <2>1 DEF NamesRight, Parsing
  <2>7. AcceptsWellFormed'
    BY <1>3 DEF AcceptsWellFormed
  <2>8. TreeRight'
    BY <1>3 DEF TreeRight
  <2> QED
    BY <2>2, <2>3, <2>4, <2>5, <2>6, <2>7, <2>8 DEF PInv
<1>8. Used' = IF outcome' = "parsing" THEN 0 ELSE Len(d)
  BY <1>2, <1>3, <1>5 DEF Used, Parsing
<1>9. Bounded'
  <2>1. \A k \in Nodes' : child'[k] = 0
    BY <1>4, <1>5
  <2>2. \A k \in Nodes' : next'[k] \in 0..Used' /\ (k > Used' => next'[k] = 0)
    BY <1>2, <1>3, <1>4, <1>8
  <2>3. root' <= Used'
    BY <1>2, <1>3, <1>8 DEF None
  <2>4. \A r \in Refs : ref'[r] <= Used'
    BY <1>2, <1>4, <1>8 DEF None, Outdated, Own
  <2>5. Used' \in Nat
    BY <1>2, <1>8
  <2> QED
    BY <2>1, <2>2, <2>3, <2>4, <2>5 DEF Bounded
<1>10. Fresh'
  BY <1>1, <1>3, <1>4, <1>5, <1>6 DEF Fresh, Parsing
<1>11. Whole'
  BY <1>5 DEF Whole
<1>12. RefsInTree'
  BY <1>4, <1>6 DEF RefsInTree
<1>13. CausesRight'
  <2>1. CausesRight /\ causes \subseteq causes' /\ (Unbroken' => Unbroken)
    BY <1>1 DEF OInv, Unbroken
  <2>2. root' # Outdated /\ alive' /\ text' # "freed"
    BY <1>1, <1>2, <1>3, <1>5 DEF Outdated
  <2>3. ASSUME NEW r \in Refs
        PROVE  /\ ref'[r] = Own => "ref parsed" \in causes'
               /\ Unbroken' /\ ref'[r] = Outdated => "outlived" \in causes'
    BY <1>4, <2>1 DEF CausesRight
  <2> QED
    BY <2>2, <2>3 DEF CausesRight
<1>14. FaultsExplained'
  <2>1. fault' \in {"none", "double free"} /\ (fault' = "double free" => ~Unbroken)
    BY <1>1, DiscardSound
  <2>2. causes \subseteq causes' /\ (Unbroken' => Unbroken)
    BY <1>1 DEF Unbroken
  <2> QED
    BY <1>1, <1>4, <2>1, <2>2, FaultsKept
<1> QED
  BY <1>4, <1>7, <1>9, <1>10, <1>11, <1>12, <1>13, <1>14 DEF OInv

-----------------------------------------------------------------------------
LEMMA InitIInv ==
  ASSUME NEW d \in Seq(Tags), ObjectsInit(d)
  PROVE  IInv
<1>1. Len(d) \in Nat /\ MaxLeaves \in Nat /\ StackSize \in Nat /\ MaxParses \in Nat \ {0}
  BY ParseAssumption, ObjectsAssumption
<1>2. /\ doc = d /\ pos = 0
      /\ child = [n \in 1..Len(d) + MaxLeaves |-> 0]
      /\ next = [n \in 1..Len(d) + MaxLeaves |-> 0]
      /\ freed = {} /\ st = [k \in 0..StackSize - 1 |-> 0]
      /\ sp = 0 /\ tree = 0 /\ state = "none" /\ outcome = "parsing" /\ depth = <<0>>
      /\ alive = TRUE /\ root = None /\ text = "held" /\ ref = [r \in Refs |-> None]
      /\ leaves = 0 /\ parses = 1 /\ fault = "none" /\ causes = {}
  BY DEF ObjectsInit, InitFor
<1>3. Nodes = 1..Len(d) + MaxLeaves
  BY <1>2 DEF Nodes
<1>4. TypeOK
  <2>1. /\ doc \in Seq(Tags) /\ pos \in 0..Len(doc)
        /\ child \in [Nodes -> Nodes \cup {0}] /\ next \in [Nodes -> Nodes \cup {0}]
    BY <1>1, <1>2, <1>3
  <2>2. /\ sp \in -1..StackSize /\ st \in [0..StackSize - 1 -> 0..Len(doc)]
        /\ leaves \in 0..MaxLeaves /\ parses \in 0..MaxParses
    BY <1>1, <1>2
  <2> QED
    BY <1>2, <2>1, <2>2 DEF TypeOK
<1>5. Typed
  BY <1>1, <1>2, <1>4 DEF Typed, Outcomes
<1>6. PInv
  <2>1. DepthRight /\ StackRight
    BY <1>1, <1>2 DEF DepthRight, StackRight
  <2>2. \A i : i = 1 => Before(i) = 0
    BY DEF Before
  <2>3. CurrentRight /\ BeforeRight /\ NamesRight
    BY <1>2, <2>2 DEF CurrentRight, BeforeRight, NamesRight
  <2>4. AcceptsWellFormed /\ TreeRight
    BY <1>2 DEF AcceptsWellFormed, TreeRight
  <2> QED
    BY <2>1, <2>3, <2>4 DEF PInv
<1>7. OInv
  <2>1. Used = 0
    BY <1>2 DEF Used, Parsing
  <2>2. Bounded /\ Fresh
    BY <1>1, <1>2, <1>3, <2>1 DEF Bounded, Fresh, None
  <2>3. Whole /\ RefsInTree /\ CausesRight /\ FaultsExplained
    BY <1>1, <1>2, <1>3
    DEF Whole, RefsInTree, CausesRight, FaultsExplained, None, Outdated, Own
  <2> QED
    BY <2>2, <2>3 DEF OInv
<1> QED
  BY <1>5, <1>6, <1>7 DEF IInv

THEOREM Inductive == Spec => []IInv
<1>1. (\E d \in Seq(Tags) : ObjectsInit(d)) => IInv
  BY InitIInv
<1>2. IInv /\ [ObjectsNext]_vars => IInv'
  <2> SUFFICES ASSUME IInv, [ObjectsNext]_vars
               PROVE  IInv'
    OBVIOUS
  <2>1. Typed /\ PInv /\ OInv
    BY DEF IInv
  <2>2. CASE ParseStep
    <3>1. Typed'
      BY <2>1, <2>2, ParseStepTyped DEF PInv, OInv
    <3> QED
      BY <2>1, <2>2, <3>1, ParseStepParser, ParseStepObjects DEF IInv
  <2>3. CASE NotOpened
    BY <2>1, <2>3, NotOpenedKeeps DEF IInv
  <2>4. CASE DestroyOwner
    BY <2>1, <2>4, DestroyOwnerKeeps DEF IInv
  <2>5. CASE (\E d \in Later : Reparse(d)) \/ (\E d \in Queries : ParseQuery(d))
    <3>1. PICK d \in Seq(Tags) : Reparse(d) \/ ParseQuery(d)
      BY <2>5, ObjectsAssumption
    <3> QED
      BY <2>1, <3>1, NewDocument DEF IInv
  <2>6. CASE \E r \in Refs : RefParses(r) \/ RefNotOpened(r)
    BY <2>1, <2>6, RefParsesKeeps DEF IInv
  <2>7. CASE \E r \in Refs : DestroyRef(r)
    BY <2>1, <2>7, DestroyRefKeeps DEF IInv
  <2>8. CASE \E r \in Refs, n \in Nodes : MakeRef(r, n)
    BY <2>1, <2>8, MakeRefKeeps DEF IInv
  <2>9. CASE \E n \in Nodes : AddLeaf(n)
    BY <2>1, <2>9, AddLeafKeeps DEF IInv
  <2>10. CASE \E kind \in {"null", "freed"} : UseFault(kind)
    BY <2>1, <2>10, UseFaultKeeps DEF IInv
  <2>11. CASE UNCHANGED vars
    <3>1. UNCHANGED <<doc, pos, child, next, freed, st, sp, tree, state, outcome, depth>>
          /\ UNCHANGED <<alive, root, text, ref, leaves, parses, fault, causes>>
      BY <2>11 DEF vars, parse, objects
    <3>2. Typed'
      BY <2>1, <3>1, ObjectsTyped, TypedKept
    <3>3. PInv'
      BY <2>1, <3>1, ParserKept
    <3>4. /\ (Parsing' <=> Parsing) /\ (Unbroken' <=> Unbroken) /\ Nodes' = Nodes
          /\ \A x : Reached(x)' = Reached(x)
      BY <3>1, ReachedKept DEF Parsing, Unbroken, Nodes
    <3>5. Bounded'
      BY <2>1, <3>1, BoundedKept DEF OInv, Bounded
    <3>6. Fresh' /\ Whole' /\ RefsInTree' /\ CausesRight'
      BY <2>1, <3>1, <3>4 DEF OInv, Fresh, Whole, RefsInTree, CausesRight
    <3>7. FaultsExplained'
      BY <2>1, <3>1, <3>4 DEF OInv, FaultsExplained
    <3> QED
      BY <3>2, <3>3, <3>5, <3>6, <3>7 DEF IInv, OInv
  <2> QED
    BY <2>2, <2>3, <2>4, <2>5, <2>6, <2>7, <2>8, <2>9, <2>10, <2>11 DEF ObjectsNext
<1> QED
  BY <1>1, <1>2, PTL DEF Spec

-----------------------------------------------------------------------------
(* Every function of the class keeps the variables in their types.         *)
THEOREM TypeCorrect == Spec => []TypeOK
<1>1. IInv => TypeOK
  BY DEF IInv, Typed
<1> QED
  BY Inductive, <1>1, PTL

(* For every document: uxml_parse accepts it if and only if it is well     *)
(* formed, and links its elements as they nest (util_uxml.c:211-296).      *)
THEOREM DocumentCorrect == Spec => []DocumentRight
<1>1. IInv => DocumentRight
  BY DEF IInv, PInv, DocumentRight
<1> QED
  BY Inductive, <1>1, PTL

(* While no document was comments only, no file failed to open and no ref  *)
(* was told to parse, the owner's tree is allocated and the refs to this   *)
(* document are in it, whatever leaves were added (uxml.fec).              *)
THEOREM TreeCorrect == Spec => []TreeHeld
<1>1. IInv => TreeHeld
  <2> SUFFICES ASSUME IInv, ~Parsing, alive, Unbroken
               PROVE  /\ root # None => ~Dangling(root)
                      /\ \A r \in Refs : ref[r] \in Nodes => root # None /\ ref[r] \in Reached(root)
    BY DEF TreeHeld, Unbroken
  <2>1. Typed /\ Whole /\ RefsInTree /\ CausesRight
    BY DEF IInv, OInv
  <2> QED
    BY <2>1, OwnerHeld, NoNodes DEF RefsInTree
<1> QED
  BY Inductive, <1>1, PTL

(* Each double free and each read of freed memory has one of the known     *)
(* causes (uxml.fec, util_uxml.c).                                         *)
THEOREM FaultsCorrect == Spec => []FaultsExplained
<1>1. IInv => FaultsExplained
  BY DEF IInv, OInv
<1> QED
  BY Inductive, <1>1, PTL
=============================================================================
