---------------------------- MODULE Template_proofs ---------------------------
(***************************************************************************)
(* The tree of tag_parse is right for every template and every size of st, *)
(* and tag_run meets undefined behaviour only where the code lets it.      *)
(*                                                                         *)
(* The tree.  TreeRight is not inductive: that what follows a ] is linked  *)
(* to the block it closes depends on the stack.  The invariant says what   *)
(* is on the stack (StackRight: at each level the block opened there,      *)
(* which no piece since has closed) and that current is the last piece or, *)
(* after a ], the block it closes (CurrentRight).  Then no link is ever    *)
(* overwritten, because a closed block cannot be closed again.             *)
(*                                                                         *)
(* The runs.  FaultsExplained is about the moment of a fault; what led to  *)
(* it is said by the invariant of the states before: how iter depends on   *)
(* the item shown last (IterRight), which calls of tag_run have a previous *)
(* variable and that only the first is that of run() (CallsRight), and     *)
(* when the buffer and the tree are still there (BufferRight, TreeKnown).  *)
(*                                                                         *)
(* The output.  RendersText is about the end of a run.  In between, each   *)
(* call of tag_run still owes a text: the rest of the pieces of its block  *)
(* and, in a loop, what the rest of the items show (Owed).  The invariant  *)
(* is that the output and what the calls owe, the innermost first, make    *)
(* the text of the template (Renders): a step moves what a piece shows     *)
(* from the second to the first.  Texts, which is defined by rounds, is a  *)
(* fixpoint after as many rounds as there are pieces (TextsFixed), so what *)
(* a place shows is what its piece shows and then the text of the place    *)
(* behind it (TextIs).                                                     *)
(***************************************************************************)
EXTENDS TemplateText, SequenceFacts, TLAPS

Typed == TypeOK /\ (Parsing => sp >= 0)

DepthRight ==
    /\ depth[1] = 0
    /\ \A i \in 1..pos : depth[i + 1] = depth[i] + Delta(doc[i])

Going == outcome \in {"parsing", "tree"}

StackRight ==
    /\ sp = depth[pos + 1]
    /\ sp >= 0
    /\ \A i \in 1..pos + 1 : depth[i] >= 0
    /\ \A k \in 0..sp - 1 :
          /\ st[k] \in 1..pos /\ doc[st[k]] = "open" /\ depth[st[k]] = k
          /\ \A j \in st[k] + 1..pos + 1 : depth[j] > k

CurrentRight ==
    /\ pos = 0 => state = "none" /\ current = 0
    /\ pos > 0 => state = doc[pos]
    /\ pos > 0 /\ doc[pos] # "end" => current = pos
    /\ pos > 0 /\ doc[pos] = "end" => current \in 1..pos /\ Closes(pos, current)

ChildRight ==
    \A n \in Nodes : child[n] # 0 => child[n] = n + 1 /\ n + 1 <= pos /\ doc[n] = "open"

NextRight ==
    \A n \in Nodes : next[n] # 0 =>
       /\ next[n] \in 1..pos /\ doc[next[n]] \in Linked
       /\ \/ next[n] = n + 1 /\ doc[n] \notin {"open", "end"}
          \/ \E e \in 1..pos : next[n] = e + 1 /\ Closes(e, n)

LinksRight == \A i \in 2..pos : LinkRight(i)

IInv ==
    /\ Typed
    /\ DepthRight
    /\ Going => StackRight /\ CurrentRight /\ ChildRight /\ NextRight /\ LinksRight
    /\ ReportExact

-----------------------------------------------------------------------------
(* What each kind of piece does to the depth.                              *)
LEMMA DeltaFacts ==
    /\ Delta("open") = 1 /\ Delta("end") = -1
    /\ \A kind : kind \notin {"open", "end"} => Delta(kind) = 0
  BY DEF Delta

(* The first state has the right types.                                    *)
LEMMA TypedInit == ASSUME doc \in Seq(Kinds), InitFor(doc) PROVE Typed
  BY StackAssumption DEF InitFor, Typed, TypeOK, Nodes, Parsing, Garbage

(* Every piece keeps the variables in their types.                         *)
LEMMA TypedStep == ASSUME Typed, [ParseNext]_parse PROVE Typed'
<1> USE StackAssumption, DeltaFacts DEF Typed, TypeOK, Nodes, Parsing
<1>r. ASSUME NEW node \in Nodes, NEW kind \in Kinds, Read(node, kind)
      PROVE /\ node = pos + 1 /\ pos' \in 0..Len(doc') /\ doc' \in Seq(Kinds)
            /\ Nodes' = Nodes
            /\ depth' \in [1..pos' + 1 -> Int]
  <2>1. Delta(kind) \in Int
    BY <1>r DEF Kinds
  <2>2. pos' = pos + 1 /\ node = pos + 1 /\ pos \in Nat /\ doc' = doc
    BY <1>r DEF Read
  <2>3. \A i \in 1..node + 1 : IF i <= node THEN depth[i] \in Int ELSE depth[node] \in Int
    BY <2>2
  <2> QED
    BY <1>r, <2>1, <2>2, <2>3 DEF Read
<1>p. ASSUME NEW node \in Nodes, NEW kind \in Kinds, Place(node, kind)
      PROVE /\ root' \in Nodes \cup {Garbage}
            /\ child' \in [Nodes -> Nodes \cup {0}]
            /\ next' \in [Nodes -> Nodes \cup {0}]
  BY <1>p DEF Place
<1>1. ASSUME NEW node \in Nodes, Open(node) PROVE Typed'
  BY <1>1, <1>r, <1>p DEF Open, Kinds, Read
<1>2. ASSUME NEW node \in Nodes, NEW kind \in Linked, Leaf(node, kind) PROVE Typed'
  BY <1>2, <1>r, <1>p DEF Leaf, Linked, Kinds, Read
<1>3. ASSUME NEW node \in Nodes, NEW kind \in Linked, Overflow(node, kind) PROVE Typed'
  BY <1>3, <1>r DEF Overflow, Linked, Kinds, Read
<1>4. ASSUME NEW node \in Nodes, Odd(node) PROVE Typed'
  BY <1>4, <1>r, <1>p DEF Odd, Kinds, Read
<1>5. ASSUME NEW node \in Nodes, End(node) PROVE Typed'
  BY <1>5, <1>r, <1>p DEF End, Kinds, Read
<1>6. ASSUME NEW node \in Nodes, Error(node) PROVE Typed'
  BY <1>6, <1>r DEF Error, Kinds, Read
<1>7. CASE Finish
  BY <1>7 DEF Finish
<1>8. CASE UNCHANGED parse
  BY <1>8 DEF parse
<1>9. ASSUME NEW node \in Nodes, Unclosed(node) PROVE Typed'
  BY <1>9, <1>r DEF Unclosed, Kinds, Read
<1> QED
  BY <1>1, <1>2, <1>3, <1>4, <1>5, <1>6, <1>7, <1>8, <1>9 DEF ParseNext

-----------------------------------------------------------------------------
(* What reading a piece does to the text's depth.                          *)
LEMMA ReadFacts ==
  ASSUME IInv, NEW node \in Nodes, NEW kind \in Kinds, Read(node, kind)
  PROVE  /\ node = pos + 1 /\ pos' = node /\ pos \in Nat /\ doc' = doc /\ doc[node] = kind
         /\ Nodes' = Nodes /\ Parsing /\ Going
         /\ \A i \in 1..pos + 1 : depth'[i] = depth[i] /\ depth[i] \in Int
         /\ depth'[pos + 2] = depth[pos + 1] + Delta(kind)
         /\ DepthRight'
<1>1. /\ node = pos + 1 /\ pos' = node /\ pos \in Nat /\ doc' = doc /\ doc[node] = kind
      /\ Nodes' = Nodes /\ Parsing /\ Going
  BY DEF Read, IInv, Typed, TypeOK, Nodes, Parsing, Going
<1>2. \A i \in 1..pos + 1 : depth'[i] = depth[i] /\ depth[i] \in Int
  BY <1>1 DEF Read, IInv, Typed, TypeOK
<1>3. depth'[pos + 2] = depth[pos + 1] + Delta(kind)
  BY <1>1 DEF Read
<1>4. DepthRight'
  BY <1>1, <1>2, <1>3 DEF IInv, DepthRight
<1> QED
  BY <1>1, <1>2, <1>3, <1>4

(* The stack after a block, a leaf, an odd piece and a ].                  *)
LEMMA StackStep ==
  ASSUME IInv, NEW node \in Nodes, NEW kind \in Kinds, Read(node, kind),
         \/ kind = "open" /\ sp < StackSize /\ st' = [st EXCEPT ![sp] = node] /\ sp' = sp + 1
         \/ /\ kind \in Linked \ {"open"} /\ sp < StackSize
            /\ st' = [st EXCEPT ![sp] = node] /\ sp' = sp
         \/ kind = "odd" /\ st' = st /\ sp' = sp
         \/ kind = "end" /\ sp # 0 /\ st' = st /\ sp' = sp - 1
  PROVE  StackRight'
<1> USE DeltaFacts
<1>1. /\ node = pos + 1 /\ pos' = node /\ pos \in Nat /\ doc' = doc /\ doc[node] = kind
      /\ \A i \in 1..pos + 1 : depth'[i] = depth[i] /\ depth[i] \in Int
      /\ depth'[pos + 2] = depth[pos + 1] + Delta(kind)
      /\ StackRight
  BY ReadFacts DEF IInv
<1>2. sp \in Nat /\ sp = depth[pos + 1] /\ st \in [0..StackSize - 1 -> Nodes \cup {0}]
  BY <1>1 DEF StackRight, IInv, Typed, TypeOK
<1>3. sp' = sp + Delta(kind) /\ sp' \in Int /\ sp' >= 0
  BY <1>2 DEF Linked
<1>4. sp' = depth'[pos' + 1]
  BY <1>1, <1>2, <1>3
<1>5. \A i \in 1..pos' + 1 : depth'[i] >= 0
  BY <1>1, <1>3, <1>4 DEF StackRight
<1>6. ASSUME NEW k \in 0..sp' - 1
      PROVE  /\ st'[k] \in 1..pos' /\ doc'[st'[k]] = "open" /\ depth'[st'[k]] = k
             /\ \A j \in st'[k] + 1..pos' + 1 : depth'[j] > k
  <2>1. CASE k < sp
    <3>1. st'[k] = st[k]
      BY <2>1, <1>2, StackAssumption
    <3>2. /\ st[k] \in 1..pos /\ doc[st[k]] = "open" /\ depth[st[k]] = k
          /\ \A j \in st[k] + 1..pos + 1 : depth[j] > k
      BY <2>1, <1>1, <1>2 DEF StackRight
    <3>3. depth'[pos' + 1] > k
      BY <1>4, <1>3
    <3> QED
      BY <3>1, <3>2, <3>3, <1>1
  <2>2. CASE k >= sp
    <3>1. kind = "open" /\ k = sp /\ sp < StackSize
      BY <2>2, <1>2, <1>3 DEF Linked
    <3>2. st'[k] = node
      BY <3>1, <1>2, StackAssumption DEF Linked
    <3>3. depth'[pos' + 1] = sp + 1
      BY <3>1, <1>3, <1>4
    <3> QED
      BY <3>1, <3>2, <3>3, <1>1, <1>2
  <2> QED
    BY <2>1, <2>2, <1>2
<1> QED
  BY <1>3, <1>4, <1>5, <1>6 DEF StackRight

(* What is current after a piece.                                          *)
LEMMA CurrentStep ==
  ASSUME IInv, NEW node \in Nodes, NEW kind \in Kinds, Read(node, kind),
         \/ kind # "end" /\ current' = node /\ state' = kind
         \/ kind = "end" /\ sp # 0 /\ current' = st[sp - 1] /\ state' = "end"
  PROVE  CurrentRight'
<1>1. /\ node = pos + 1 /\ pos' = node /\ pos \in Nat /\ doc' = doc /\ doc[node] = kind
      /\ \A i \in 1..pos + 1 : depth'[i] = depth[i] /\ depth[i] \in Int
      /\ StackRight /\ sp \in Nat
  BY ReadFacts DEF IInv, Typed, TypeOK, StackRight
<1>2. CASE kind # "end"
  BY <1>1, <1>2 DEF CurrentRight
<1>3. CASE kind = "end"
  <2>1. PICK m \in 1..pos :
           /\ current' = m /\ doc[m] = "open" /\ depth[m] = sp - 1
           /\ \A j \in m + 1..pos + 1 : depth[j] > sp - 1
    <3>1. current' = st[sp - 1] /\ sp - 1 \in 0..sp - 1
      BY <1>1, <1>3
    <3> QED
      BY <3>1, <1>1 DEF StackRight
  <2>2. Closes(node, m)'
    <3>1. \A i \in 1..pos + 1 : depth'[i] = depth[i]
      BY <1>1
    <3>2. depth[node] = sp
      BY <1>1 DEF StackRight
    <3> QED
      BY <2>1, <3>1, <3>2, <1>1, <1>3 DEF Closes
  <2>3. pos' > 0 /\ state' = doc'[pos'] /\ doc'[pos'] = "end"
    BY <1>1, <1>3
  <2> QED
    BY <2>1, <2>2, <2>3, <1>1 DEF CurrentRight
<1> QED
  BY <1>2, <1>3

(* A block is closed once: what follows the ] that closes it is as deep as *)
(* it was.                                                                 *)
LEMMA ClosedOnce ==
  ASSUME IInv, Going, NEW m \in 1..pos, NEW e \in 1..pos, Closes(pos, m), Closes(e, m)
  PROVE  e = pos
<1>1. pos \in Nat /\ doc[e] = "end" /\ e \in 1..pos
  BY DEF Closes, IInv, Typed, TypeOK
<1>2. depth[e + 1] = depth[m] /\ depth[m] \in Int
  <2>1. depth[e] \in Int /\ depth[m] \in Int
    BY <1>1 DEF IInv, Typed, TypeOK
  <2>2. depth[e + 1] = depth[e] + Delta("end")
    BY <1>1 DEF IInv, DepthRight
  <2>3. depth[e] = depth[m] + 1
    BY <2>1 DEF Closes
  <2> QED
    BY <2>1, <2>2, <2>3, DeltaFacts
<1>3. e < pos => depth[e + 1] > depth[m]
  BY <1>1 DEF Closes
<1> QED
  BY <1>1, <1>2, <1>3

(* What is linked from the current node has not been linked before.        *)
LEMMA CurrentFree ==
  ASSUME IInv, Going, current # 0
  PROVE  /\ next[current] = 0
         /\ current \in 1..pos /\ state = doc[pos]
         /\ \/ doc[pos] # "end" /\ current = pos
            \/ doc[pos] = "end" /\ Closes(pos, current)
<1>1. /\ pos \in Nat /\ pos \in 0..Len(doc) /\ pos # 0
      /\ state = doc[pos]
      /\ \/ doc[pos] # "end" /\ current = pos
         \/ doc[pos] = "end" /\ current \in 1..pos /\ Closes(pos, current)
  BY DEF IInv, Typed, TypeOK, CurrentRight
<1>2. current \in Nodes /\ current \in 1..pos
  BY <1>1 DEF Nodes, IInv, Typed, TypeOK
<1>3. ASSUME next[current] # 0 PROVE FALSE
  <2>1. /\ next[current] \in 1..pos
        /\ \/ next[current] = current + 1 /\ doc[current] \notin {"open", "end"}
           \/ \E e \in 1..pos : next[current] = e + 1 /\ Closes(e, current)
    BY <1>3, <1>2 DEF IInv, NextRight
  <2>2. CASE doc[pos] # "end" /\ current = pos
    BY <2>1, <2>2, <1>1 DEF Closes
  <2>3. CASE doc[pos] = "end" /\ Closes(pos, current)
    <3>1. PICK e \in 1..pos : next[current] = e + 1 /\ Closes(e, current)
      BY <2>1, <2>3 DEF Closes
    <3>2. e = pos
      BY <3>1, <2>3, <1>2, ClosedOnce
    <3> QED
      BY <3>1, <3>2, <2>1, <1>1
  <2> QED
    BY <1>1, <2>2, <2>3
<1> QED
  BY <1>1, <1>2, <1>3

(* A ] closes after the piece what it closed before it.                    *)
LEMMA ClosesStable ==
  ASSUME IInv, NEW node \in Nodes, NEW kind \in Kinds, Read(node, kind),
         NEW e \in 1..pos, NEW m \in 1..pos, Closes(e, m)
  PROVE  Closes(e, m)'
<1>1. /\ pos \in Nat /\ doc' = doc
      /\ \A i \in 1..pos + 1 : depth'[i] = depth[i] /\ depth[i] \in Int
  BY ReadFacts
<1> QED
  BY <1>1 DEF Closes

(* A piece is linked where it belongs, and no link is lost.                *)
LEMMA LinksStep ==
  ASSUME IInv, NEW node \in Nodes, NEW kind \in Kinds, Read(node, kind), Place(node, kind)
  PROVE  ChildRight' /\ NextRight' /\ LinksRight'
<1>1. /\ node = pos + 1 /\ pos' = node /\ pos \in Nat /\ doc' = doc /\ doc[node] = kind
      /\ Nodes' = Nodes /\ pos <= Len(doc) /\ Len(doc) \in Nat
      /\ child \in [Nodes -> Nodes \cup {0}] /\ next \in [Nodes -> Nodes \cup {0}]
      /\ CurrentRight /\ ChildRight /\ NextRight /\ LinksRight /\ Going
      /\ current \in Nodes \cup {0}
  BY ReadFacts DEF IInv, Typed, TypeOK
<1>2. state = "open" => current = pos /\ pos > 0 /\ doc[pos] = "open"
  BY <1>1 DEF CurrentRight
<1>3. child' = IF state = "open" THEN [child EXCEPT ![current] = node] ELSE child
  BY DEF Place
<1>4. next' = IF state # "open" /\ current # 0 /\ kind \in Linked
                THEN [next EXCEPT ![current] = node] ELSE next
  BY DEF Place
<1>5. current # 0 =>
        /\ next[current] = 0
        /\ current \in 1..pos /\ state = doc[pos]
        /\ \/ doc[pos] # "end" /\ current = pos
           \/ doc[pos] = "end" /\ Closes(pos, current)
  BY <1>1, CurrentFree
<1>6. \A e \in 1..pos, m \in 1..pos : Closes(e, m) => Closes(e, m)'
  BY ClosesStable
<1>7. ChildRight'
  BY <1>1, <1>2, <1>3 DEF ChildRight, Nodes
<1>8. NextRight'
  <2>1. SUFFICES ASSUME NEW n \in Nodes, next'[n] # 0
                 PROVE  /\ next'[n] \in 1..pos' /\ doc[next'[n]] \in Linked
                        /\ \/ next'[n] = n + 1 /\ doc[n] \notin {"open", "end"}
                           \/ \E e \in 1..pos' : next'[n] = e + 1 /\ Closes(e, n)'
    BY <1>1 DEF NextRight
  <2>2. CASE next'[n] = next[n]
    <3>1. /\ next[n] \in 1..pos /\ doc[next[n]] \in Linked
          /\ \/ next[n] = n + 1 /\ doc[n] \notin {"open", "end"}
             \/ \E e \in 1..pos : next[n] = e + 1 /\ Closes(e, n)
      BY <2>1, <2>2, <1>1 DEF NextRight
    <3>2. \A e \in 1..pos : Closes(e, n) => n \in 1..pos
      BY <1>1 DEF Closes, Nodes
    <3> QED
      BY <3>1, <3>2, <2>2, <1>1, <1>6
  <2>3. CASE next'[n] # next[n]
    <3>1. state # "open" /\ current # 0 /\ n = current /\ kind \in Linked /\ next'[n] = node
      BY <2>3, <1>1, <1>4
    <3>2. CASE doc[pos] # "end" /\ current = pos
      BY <3>1, <3>2, <1>1, <1>5
    <3>3. CASE doc[pos] = "end" /\ Closes(pos, current)
      <4>1. PICK e \in 1..pos : e = pos /\ Closes(e, n)
        BY <3>1, <3>3, <1>1, <1>5
      <4>2. n \in 1..pos
        BY <3>1, <1>5
      <4>3. Closes(e, n)'
        BY <4>1, <4>2, <1>6
      <4>4. e \in 1..pos' /\ next'[n] = e + 1 /\ next'[n] \in 1..pos'
        BY <4>1, <3>1, <1>1
      <4>5. doc[next'[n]] \in Linked
        BY <3>1, <1>1
      <4> QED
        BY <4>3, <4>4, <4>5
    <3> QED
      BY <3>1, <3>2, <3>3, <1>5
  <2> QED
    BY <2>2, <2>3
<1>9. LinksRight'
  <2>1. SUFFICES ASSUME NEW i \in 2..node
                 PROVE  /\ doc[i - 1] = "open" => child'[i - 1] = i
                        /\ doc[i - 1] \notin {"open", "end"} /\ doc[i] \in Linked =>
                             next'[i - 1] = i
                        /\ doc[i - 1] = "end" /\ doc[i] \in Linked =>
                             \E m \in 1..i - 2 : Closes(i - 1, m)' /\ next'[m] = i
    BY <1>1 DEF LinksRight, LinkRight
  <2>2. CASE i <= pos
    <3>1. LinkRight(i)
      BY <2>2, <1>1 DEF LinksRight
    <3>2. \A n \in 1..pos : child[n] # 0 /\ n < pos => child'[n] = child[n]
      BY <1>1, <1>2, <1>3
    <3>3. \A n \in 1..pos : next[n] # 0 => next'[n] = next[n]
      BY <1>1, <1>4, <1>5
    <3>4. i \in 2..pos /\ i - 1 \in 1..pos
      BY <2>2, <1>1
    <3> QED
      BY <3>1, <3>2, <3>3, <3>4, <1>1, <1>6 DEF LinkRight
  <2>3. CASE i = node
    <3>1. pos > 0 /\ i - 1 = pos /\ doc[i] = kind /\ state = doc[pos]
      BY <2>3, <1>1 DEF CurrentRight
    <3>2. CASE doc[pos] = "open"
      BY <3>1, <3>2, <1>1, <1>2, <1>3 DEF Nodes
    <3>3. CASE doc[pos] \notin {"open", "end"}
      <4>1. current = pos /\ current # 0
        BY <3>1, <3>3, <1>1 DEF CurrentRight
      <4> QED
        BY <3>1, <3>3, <4>1, <1>1, <1>4 DEF Nodes
    <3>4. CASE doc[pos] = "end" /\ kind \in Linked
      <4>1. current \in 1..pos /\ Closes(pos, current)
        BY <3>1, <3>4, <1>1 DEF CurrentRight
      <4>2. current \in 1..i - 2 /\ Closes(pos, current)
        BY <4>1, <3>1, <1>1 DEF Closes
      <4>3. PICK m \in 1..i - 2, e \in 1..pos : m = current /\ e = pos /\ Closes(e, m)
        BY <4>2, <3>1, <1>1
      <4>4. Closes(e, m)' /\ e = i - 1
        BY <4>1, <4>3, <3>1, <1>1, <1>6
      <4>5. next'[m] = node
        BY <4>3, <3>1, <3>4, <1>1, <1>4 DEF Nodes
      <4> QED
        BY <4>4, <4>5, <3>1, <3>4, <2>3
    <3> QED
      BY <3>1, <3>2, <3>3, <3>4
  <2> QED
    BY <2>1, <2>2, <2>3, <1>1
<1> QED
  BY <1>7, <1>8, <1>9

-----------------------------------------------------------------------------
(* The invariant holds of the first state and is kept by every piece.      *)
LEMMA InvInit == ASSUME doc \in Seq(Kinds), InitFor(doc) PROVE IInv
<1>1. Typed
  BY TypedInit
<1>2. /\ pos = 0 /\ sp = 0 /\ depth = [i \in {1} |-> 0] /\ outcome = "parsing"
      /\ state = "none" /\ current = 0
      /\ child = [n \in Nodes |-> 0] /\ next = [n \in Nodes |-> 0]
  BY DEF InitFor, Nodes
<1> QED
  BY <1>1, <1>2 DEF IInv, DepthRight, Going, StackRight, CurrentRight, ChildRight,
                    NextRight, LinksRight, ReportExact

(* A piece that becomes a node, or a ] that closes a block.                *)
LEMMA PieceStep ==
  ASSUME IInv, [ParseNext]_parse, NEW node \in Nodes, NEW kind \in Kinds,
         Read(node, kind), Place(node, kind), StackRight', CurrentRight',
         outcome' = outcome
  PROVE  IInv'
<1>1. Typed' /\ DepthRight'
  BY TypedStep, ReadFacts DEF IInv
<1>2. ChildRight' /\ NextRight' /\ LinksRight'
  BY LinksStep
<1>3. ReportExact'
  BY ReadFacts DEF ReportExact, Parsing
<1> QED
  BY <1>1, <1>2, <1>3 DEF IInv

(* A piece at which tag_parse gives up.                                    *)
LEMMA LastPiece ==
  ASSUME IInv, [ParseNext]_parse, NEW node \in Nodes, NEW kind \in Kinds,
         Read(node, kind), outcome' \in {"unbalanced", "failed", "overflow", "beyond"},
         outcome' = "unbalanced" => kind = "end" /\ sp = 0
  PROVE  IInv'
<1>1. Typed' /\ DepthRight' /\ ~Going'
  BY TypedStep, ReadFacts DEF IInv, Going
<1>2. ReportExact'
  <2>1. CASE outcome' = "unbalanced"
    <3>1. depth'[pos + 2] = depth[pos + 1] + Delta(kind) /\ pos' = pos + 1 /\ pos \in Nat
      BY ReadFacts
    <3>2. depth[pos + 1] = 0 /\ Delta(kind) = -1
      BY <2>1, ReadFacts, DeltaFacts DEF IInv, StackRight
    <3>3. depth'[pos' + 1] # 0
      BY <3>1, <3>2
    <3> QED
      BY <2>1, <3>3 DEF ReportExact
  <2>2. CASE outcome' # "unbalanced"
    BY <2>2 DEF ReportExact
  <2> QED
    BY <2>1, <2>2
<1> QED
  BY <1>1, <1>2 DEF IInv

(* Every piece keeps the invariant.                                        *)
LEMMA InvStep == ASSUME IInv, [ParseNext]_parse PROVE IInv'
<1>1. ASSUME NEW node \in Nodes, Open(node) PROVE IInv'
  <2>1. "open" \in Kinds /\ Read(node, "open") /\ Place(node, "open") /\ outcome' = outcome
    BY <1>1 DEF Open, Kinds
  <2> QED
    BY <1>1, <2>1, StackStep, CurrentStep, PieceStep DEF Open
<1>2. ASSUME NEW node \in Nodes, NEW kind \in Linked, Leaf(node, kind) PROVE IInv'
  <2>1. /\ kind \in Kinds /\ kind # "end" /\ Read(node, kind) /\ Place(node, kind)
        /\ outcome' = outcome
    BY <1>2 DEF Leaf, Linked, Kinds
  <2> QED
    BY <1>2, <2>1, StackStep, CurrentStep, PieceStep DEF Leaf
<1>3. ASSUME NEW node \in Nodes, NEW kind \in Linked, Overflow(node, kind) PROVE IInv'
  <2>1. kind \in Kinds /\ Read(node, kind) /\ outcome' = "overflow"
    BY <1>3 DEF Overflow, Linked, Kinds
  <2> QED
    BY <2>1, LastPiece
<1>4. ASSUME NEW node \in Nodes, Odd(node) PROVE IInv'
  <2>1. "odd" \in Kinds /\ Read(node, "odd") /\ Place(node, "odd") /\ outcome' = outcome
    BY <1>4 DEF Odd, Kinds
  <2> QED
    BY <1>4, <2>1, StackStep, CurrentStep, PieceStep DEF Odd
<1>5. ASSUME NEW node \in Nodes, End(node) PROVE IInv'
  <2>1. "end" \in Kinds /\ Read(node, "end") /\ Place(node, "end")
    BY <1>5 DEF End, Kinds
  <2>2. CASE sp = 0
    BY <1>5, <2>1, <2>2, LastPiece DEF End
  <2>3. CASE sp # 0
    BY <1>5, <2>1, <2>3, StackStep, CurrentStep, PieceStep DEF End
  <2> QED
    BY <2>2, <2>3
<1>6. ASSUME NEW node \in Nodes, Error(node) PROVE IInv'
  <2>1. "error" \in Kinds /\ Read(node, "error") /\ outcome' = "failed"
    BY <1>6 DEF Error, Kinds
  <2> QED
    BY <2>1, LastPiece
<1>7. CASE Finish
  <2>1. Parsing /\ pos = Len(doc) /\ Going
        /\ UNCHANGED <<doc, pos, child, next, st, sp, root, current, state, depth>>
        /\ outcome' = IF sp = 0 THEN "tree" ELSE "unbalanced"
    BY <1>7 DEF Finish, Parsing, Going
  <2>2. Typed'
    BY TypedStep DEF IInv
  <2>3. /\ DepthRight'
        /\ StackRight' /\ CurrentRight' /\ ChildRight' /\ NextRight' /\ LinksRight'
    BY <2>1 DEF IInv, DepthRight, StackRight, CurrentRight, ChildRight, NextRight,
                LinksRight, LinkRight, Closes, Nodes
  <2>4. ReportExact'
    <3>1. StackRight /\ pos \in Nat
      BY <2>1 DEF IInv, Typed, TypeOK
    <3> QED
      BY <2>1, <3>1 DEF ReportExact, StackRight
  <2> QED
    BY <2>2, <2>3, <2>4 DEF IInv
<1>8. CASE UNCHANGED parse
  <2>1. Typed'
    BY TypedStep DEF IInv
  <2> QED
    BY <1>8, <2>1 DEF parse, IInv, DepthRight, Going, StackRight, CurrentRight, ChildRight,
                      NextRight, LinksRight, LinkRight, Closes, Nodes, ReportExact
<1>9. ASSUME NEW node \in Nodes, Unclosed(node) PROVE IInv'
  <2>1. "unclosed" \in Kinds /\ Read(node, "unclosed") /\ outcome' = "beyond"
    BY <1>9 DEF Unclosed, Kinds
  <2> QED
    BY <2>1, LastPiece
<1> QED
  BY <1>1, <1>2, <1>3, <1>4, <1>5, <1>6, <1>7, <1>8, <1>9 DEF ParseNext

(* The invariant holds of every run of tag_parse.                          *)
THEOREM Inductive == ParseSpec => []IInv
<1>1. (doc \in Seq(Kinds) /\ InitFor(doc)) => IInv
  BY InvInit
<1>2. IInv /\ [ParseNext]_parse => IInv'
  BY InvStep
<1> QED
  BY <1>1, <1>2, PTL DEF ParseSpec

(* A piece is in too many blocks when it is read, or never.                *)
LEMMA StackReached ==
  ASSUME IInv, StackExact, [ParseNext]_parse
  PROVE  StackExact'
<1>1. sp \in -1..StackSize /\ pos \in Nat /\ StackSize \in Nat \ {0}
  BY StackAssumption DEF IInv, Typed, TypeOK
<1>2. ASSUME NEW node \in Nodes, NEW kind \in Kinds, Read(node, kind),
             kind \in Linked => (sp >= StackSize <=> outcome' = "overflow")
      PROVE  StackExact'
  <2>1. /\ node = pos + 1 /\ pos' = node /\ doc' = doc /\ doc[node] = kind
        /\ outcome = "parsing" /\ sp = depth[pos + 1]
        /\ \A i \in 1..pos + 1 : depth'[i] = depth[i]
    BY <1>2, ReadFacts DEF IInv, StackRight, Parsing
  <2>2. ASSUME NEW i \in 1..pos + 1, doc[i] \in Linked
        PROVE  depth'[i] >= StackSize <=> outcome' = "overflow" /\ i = pos'
    <3>1. CASE i = pos + 1
      BY <1>1, <1>2, <2>1, <2>2, <3>1
    <3>2. CASE i # pos + 1
      <4>1. i \in 1..pos /\ i # pos'
        BY <1>1, <2>1, <3>2
      <4>2. ~(depth[i] >= StackSize)
        BY <4>1, <2>1, <2>2 DEF StackExact
      <4> QED
        BY <2>1, <4>1, <4>2
    <3> QED
      BY <3>1, <3>2
  <2> QED
    BY <1>1, <2>1, <2>2 DEF StackExact
<1>3. ASSUME NEW node \in Nodes, Open(node) PROVE StackExact'
  <2>1. Read(node, "open") /\ "open" \in Kinds /\ sp < StackSize /\ outcome' = "parsing"
    BY <1>3 DEF Open, Kinds, Read, Parsing
  <2> QED
    BY <1>1, <1>2, <2>1
<1>4. ASSUME NEW node \in Nodes, NEW kind \in Linked, Leaf(node, kind) PROVE StackExact'
  <2>1. Read(node, kind) /\ kind \in Kinds /\ sp < StackSize /\ outcome' = "parsing"
    BY <1>4 DEF Leaf, Linked, Kinds, Read, Parsing
  <2> QED
    BY <1>1, <1>2, <2>1
<1>5. ASSUME NEW node \in Nodes, NEW kind \in Linked, Overflow(node, kind) PROVE StackExact'
  <2>1. Read(node, kind) /\ kind \in Kinds /\ sp = StackSize /\ outcome' = "overflow"
    BY <1>5 DEF Overflow, Linked, Kinds
  <2> QED
    BY <1>1, <1>2, <2>1
<1>6. ASSUME NEW node \in Nodes, Odd(node) \/ End(node) \/ Error(node) \/ Unclosed(node)
      PROVE  StackExact'
  <2>1. PICK kind \in {"odd", "end", "error", "unclosed"} : Read(node, kind)
    BY <1>6 DEF Odd, End, Error, Unclosed
  <2>2. kind \in Kinds /\ kind \notin Linked
    BY DEF Kinds, Linked
  <2> QED
    BY <1>2, <2>1, <2>2
<1>7. CASE Finish
  BY <1>7 DEF Finish, Parsing, StackExact
<1>8. CASE UNCHANGED parse
  BY <1>8 DEF parse, StackExact
<1> QED
  BY <1>3, <1>4, <1>5, <1>6, <1>7, <1>8 DEF ParseNext

(* st is overrun by exactly the templates that nest too many blocks, for   *)
(* every template and every number of entries.                             *)
THEOREM StackCorrect == ParseSpec => []StackExact
<1>1. (doc \in Seq(Kinds) /\ InitFor(doc)) => StackExact
  BY DEF InitFor, StackExact
<1>2. IInv /\ StackExact /\ [ParseNext]_parse => StackExact'
  BY StackReached
<1> QED
  BY <1>1, <1>2, Inductive, PTL DEF ParseSpec

(* For every template and every size of st the variables keep their types. *)
THEOREM TypeCorrect == ParseSpec => []TypeOK
<1>1. IInv => TypeOK
  BY DEF IInv, Typed
<1> QED
  BY <1>1, Inductive, PTL

(* The invariant is stronger than the property.                            *)
LEMMA TreeOfInv == ASSUME IInv PROVE TreeRight
<1>1. SUFFICES ASSUME IInv, Going PROVE TreeRight
  BY DEF TreeRight, Going
<1>2. pos \in Nat /\ pos <= Len(doc) /\ Len(doc) \in Nat
  BY <1>1 DEF IInv, Typed, TypeOK
<1>3. sp = depth[pos + 1] /\ \A i \in 2..pos : LinkRight(i)
  BY <1>1 DEF IInv, StackRight, LinksRight
<1>4. ASSUME NEW n \in 1..pos
      PROVE  /\ child[n] # 0 => child[n] = n + 1 /\ doc[n] = "open"
             /\ next[n] # 0 =>
                   /\ doc[next[n]] \in Linked
                   /\ \/ next[n] = n + 1 /\ doc[n] \notin {"open", "end"}
                      \/ Closes(next[n] - 1, n)
  <2>1. n \in Nodes
    BY <1>2 DEF Nodes
  <2>2. child[n] # 0 => child[n] = n + 1 /\ doc[n] = "open"
    BY <2>1, <1>1 DEF IInv, ChildRight
  <2>3. ASSUME next[n] # 0
        PROVE  /\ doc[next[n]] \in Linked
               /\ \/ next[n] = n + 1 /\ doc[n] \notin {"open", "end"}
                  \/ Closes(next[n] - 1, n)
    <3>1. /\ doc[next[n]] \in Linked
          /\ \/ next[n] = n + 1 /\ doc[n] \notin {"open", "end"}
             \/ \E e \in 1..pos : next[n] = e + 1 /\ Closes(e, n)
      BY <2>1, <2>3, <1>1 DEF IInv, NextRight
    <3>2. \A e \in 1..pos : next[n] = e + 1 => e = next[n] - 1
      BY <1>2
    <3> QED
      BY <3>1, <3>2
  <2> QED
    BY <2>2, <2>3
<1> QED
  BY <1>3, <1>4 DEF TreeRight

(* For every template, however long and however deeply nested, each node   *)
(* is linked from where its piece belongs and from nowhere else.           *)
THEOREM TreeCorrect == ParseSpec => []TreeRight
<1>1. IInv => TreeRight
  BY TreeOfInv
<1> QED
  BY <1>1, Inductive, PTL

(* For every template, "Unbalanced tree" is reported if and only if its    *)
(* brackets do not match.                                                  *)
THEOREM ReportCorrect == ParseSpec => []ReportExact
<1>1. IInv => ReportExact
  BY DEF IInv
<1> QED
  BY <1>1, Inductive, PTL

-----------------------------------------------------------------------------
(* Nothing is lost: a set of nodes that contains the root and is closed    *)
(* under the links of the longer tree is closed under those of the shorter *)
(* one, and the piece that was added is linked from a node of the set.     *)
RootRight ==
    /\ pos = 0 => st[0] = 0
    /\ pos > 0 /\ doc[1] # "odd" => root = 1 /\ st[0] # 0

AllRendered ==
    \A i \in 1..pos : doc[i] # "end" /\ (\A j \in 1..i : doc[j] # "odd") => Rendered(i)

NInv == Going => RootRight /\ AllRendered

(* The first piece becomes the root and stays it.                          *)
LEMMA RootStep ==
  ASSUME IInv, RootRight, NEW node \in Nodes, NEW kind \in Kinds, Read(node, kind),
         Place(node, kind),
         \/ kind \in Linked /\ sp < StackSize /\ st' = [st EXCEPT ![sp] = node]
         \/ kind = "odd" /\ st' = st
         \/ kind = "end" /\ sp # 0 /\ st' = st
  PROVE  /\ RootRight'
         /\ pos > 0 /\ doc[1] # "odd" => root' = root
<1>1. /\ node = pos + 1 /\ pos' = node /\ pos \in Nat /\ doc' = doc /\ doc[node] = kind
      /\ StackRight /\ CurrentRight
  BY ReadFacts DEF IInv
<1>2. /\ sp \in Nat /\ st \in [0..StackSize - 1 -> Nodes \cup {0}]
      /\ root' = IF sp = 0 /\ st[0] = 0 THEN node ELSE root
      /\ StackSize \in Nat \ {0} /\ 0 \in 0..StackSize - 1
  BY <1>1, StackAssumption DEF IInv, Typed, TypeOK, StackRight, Place
<1>3. st[0] # 0 => st'[0] # 0
  BY <1>1, <1>2
<1>4. CASE pos > 0
  BY <1>1, <1>2, <1>3, <1>4 DEF RootRight
<1>5. CASE pos = 0
  <2>1. sp = 0
    BY <1>1, <1>5 DEF StackRight, IInv, DepthRight
  <2>2. kind # "odd" => st'[0] = node
    BY <1>2, <2>1
  <2>3. root' = 1 /\ node = 1 /\ doc'[1] = kind
    BY <1>1, <1>2, <1>5, <2>1 DEF RootRight
  <2> QED
    BY <2>2, <2>3, <1>1, <1>5 DEF RootRight
<1> QED
  BY <1>1, <1>4, <1>5

(* A piece leaves every node reachable and becomes reachable itself.       *)
LEMMA RenderedStep ==
  ASSUME IInv, IInv', NInv, NEW node \in Nodes, NEW kind \in Kinds, Read(node, kind),
         Place(node, kind), outcome' = outcome,
         \/ kind \in Linked /\ sp < StackSize /\ st' = [st EXCEPT ![sp] = node]
         \/ kind = "odd" /\ st' = st
         \/ kind = "end" /\ sp # 0 /\ st' = st
  PROVE  NInv'
<1>1. /\ node = pos + 1 /\ pos' = node /\ pos \in Nat /\ doc' = doc /\ doc[node] = kind
      /\ Nodes' = Nodes /\ Going /\ 1..node \subseteq Nodes
      /\ child \in [Nodes -> Nodes \cup {0}] /\ next \in [Nodes -> Nodes \cup {0}]
      /\ CurrentRight /\ ChildRight /\ RootRight /\ AllRendered /\ LinksRight'
  <2>1. /\ node = pos + 1 /\ pos' = node /\ pos \in Nat /\ doc' = doc /\ doc[node] = kind
        /\ Nodes' = Nodes /\ Going
    BY ReadFacts
  <2>2. Going'
    BY <2>1 DEF Going
  <2>3. 1..node \subseteq Nodes
    BY <2>1 DEF Nodes
  <2> QED
    BY <2>1, <2>2, <2>3 DEF IInv, Typed, TypeOK, NInv
<1>2. RootRight' /\ (pos > 0 /\ doc[1] # "odd" => root' = root)
  BY <1>1, RootStep
<1>3. \A n \in Nodes : /\ child[n] # 0 => child'[n] = child[n]
                       /\ next[n] # 0 => next'[n] = next[n]
  <2>1. child' = IF state = "open" THEN [child EXCEPT ![current] = node] ELSE child
    BY DEF Place
  <2>2. next' = IF state # "open" /\ current # 0 /\ kind \in Linked
                  THEN [next EXCEPT ![current] = node] ELSE next
    BY DEF Place
  <2>3. current # 0 => next[current] = 0
    BY <1>1, CurrentFree
  <2>4. state = "open" => current = pos /\ child[pos] = 0
    <3>1. state = "open" => current = pos /\ pos > 0
      BY <1>1 DEF CurrentRight
    <3>2. pos > 0 => child[pos] = 0
      BY <1>1 DEF ChildRight
    <3> QED
      BY <3>1, <3>2
  <2> QED
    BY <1>1, <2>1, <2>2, <2>3, <2>4
<1>4. ASSUME NEW i \in 1..node, doc[i] # "end", \A j \in 1..i : doc[j] # "odd"
      PROVE  Rendered(i)'
  <2>1. SUFFICES ASSUME NEW S \in SUBSET Nodes, root' \in S,
                        \A n \in S : {child'[n], next'[n]} \ {0} \subseteq S
                 PROVE  i \in S
    BY <1>1 DEF Rendered
  <2>2. \A n \in S : {child[n], next[n]} \ {0} \subseteq S
    BY <2>1, <1>1, <1>3
  <2>3. doc[1] # "odd"
    BY <1>4, <1>1
  <2>4. ASSUME NEW k \in 1..pos, k <= i, doc[k] # "end" PROVE k \in S
    <3>1. Rendered(k)
      BY <2>4, <1>4, <1>1 DEF AllRendered
    <3>2. root \in S
      BY <2>1, <2>3, <2>4, <1>1, <1>2
    <3> QED
      BY <3>1, <3>2, <2>2 DEF Rendered
  <2>5. CASE i <= pos
    BY <2>4, <2>5, <1>1, <1>4
  <2>6. CASE i = node /\ pos = 0
    BY <2>1, <2>3, <2>6, <1>1, <1>2 DEF RootRight
  <2>7. CASE i = node /\ pos > 0
    <3>1. /\ doc[pos] = "open" => child'[pos] = node
          /\ doc[pos] \notin {"open", "end"} /\ doc[node] \in Linked => next'[pos] = node
          /\ doc[pos] = "end" /\ doc[node] \in Linked =>
               \E m \in 1..node - 2 : Closes(node - 1, m)' /\ next'[m] = node
      BY <1>1, <2>7 DEF LinksRight, LinkRight
    <3>2. doc[node] \in Linked /\ node # 0
      BY <1>1, <1>4, <2>7
    <3>3. CASE doc[pos] # "end"
      <4>1. pos \in S
        BY <2>4, <2>7, <3>3, <1>1
      <4> QED
        BY <4>1, <2>1, <2>7, <3>1, <3>2, <3>3
    <3>4. CASE doc[pos] = "end"
      <4>1. PICK m \in 1..node - 2 : doc[m] = "open" /\ next'[m] = node
        BY <3>1, <3>2, <3>4, <1>1 DEF Closes
      <4>2. m \in S
        BY <4>1, <2>4, <2>7, <1>1
      <4> QED
        BY <4>1, <4>2, <2>1, <2>7, <3>2
    <3> QED
      BY <3>3, <3>4
  <2> QED
    BY <2>5, <2>6, <2>7, <1>1
<1> QED
  BY <1>1, <1>2, <1>4 DEF NInv, AllRendered

(* The same for every step.                                                *)
LEMMA RenderedInv == ASSUME IInv, IInv', NInv, [ParseNext]_parse PROVE NInv'
<1>1. ASSUME NEW node \in Nodes, Open(node) PROVE NInv'
  <2>1. "open" \in Kinds /\ "open" \in Linked
    BY DEF Kinds, Linked
  <2> QED
    BY <1>1, <2>1, RenderedStep DEF Open
<1>2. ASSUME NEW node \in Nodes, NEW kind \in Linked, Leaf(node, kind) PROVE NInv'
  <2>1. kind \in Kinds
    BY DEF Kinds, Linked
  <2> QED
    BY <1>2, <2>1, RenderedStep DEF Leaf
<1>3. ASSUME NEW node \in Nodes, NEW kind \in Linked, Overflow(node, kind) PROVE NInv'
  BY <1>3 DEF Overflow, NInv, Going
<1>4. ASSUME NEW node \in Nodes, Odd(node) PROVE NInv'
  <2>1. "odd" \in Kinds
    BY DEF Kinds
  <2> QED
    BY <1>4, <2>1, RenderedStep DEF Odd
<1>5. ASSUME NEW node \in Nodes, End(node) PROVE NInv'
  <2>1. "end" \in Kinds
    BY DEF Kinds
  <2>2. CASE sp = 0
    BY <1>5, <2>2 DEF End, NInv, Going
  <2>3. CASE sp # 0
    BY <1>5, <2>1, <2>3, RenderedStep DEF End
  <2> QED
    BY <2>2, <2>3
<1>6. ASSUME NEW node \in Nodes, Error(node) PROVE NInv'
  BY <1>6 DEF Error, NInv, Going
<1>7. CASE Finish
  BY <1>7 DEF Finish, Parsing, NInv, Going, RootRight, AllRendered, Rendered, Nodes
<1>8. CASE UNCHANGED parse
  BY <1>8 DEF parse, NInv, Going, RootRight, AllRendered, Rendered, Nodes
<1>9. ASSUME NEW node \in Nodes, Unclosed(node) PROVE NInv'
  BY <1>9 DEF Unclosed, NInv, Going
<1> QED
  BY <1>1, <1>2, <1>3, <1>4, <1>5, <1>6, <1>7, <1>8, <1>9 DEF ParseNext

(* For every balanced template, whatever is not a ] and not behind an odd  *)
(* tag is reached from the root: nothing a template says is left out of    *)
(* its tree.                                                               *)
THEOREM TreeComplete == ParseSpec => []NothingLost
<1>1. (doc \in Seq(Kinds) /\ InitFor(doc)) => NInv
  <2>1. InitFor(doc) => pos = 0 /\ st[0] = 0
    BY StackAssumption DEF InitFor
  <2> QED
    BY <2>1 DEF NInv, RootRight, AllRendered
<1>2. IInv /\ IInv' /\ NInv /\ [ParseNext]_parse => NInv'
  BY RenderedInv
<1>3. NInv => NothingLost
  BY DEF NInv, AllRendered, NothingLost, Going
<1> QED
  BY <1>1, <1>2, <1>3, Inductive, PTL DEF ParseSpec

(* Both together are the property the run checks.                          *)
THEOREM ParseCorrect == ParseSpec => []ParseRight
  BY TreeCorrect, TreeComplete, PTL DEF ParseRight

-----------------------------------------------------------------------------
(* Template.run() and what is done between the calls.                      *)

FrameSet ==
    [node : Nodes \cup {0}, current : Values \ {Null}, previous : Values, i : Nat,
     called : BOOLEAN, base : BOOLEAN]

RunTyped ==
    /\ tag \in TagsOf(doc)
    /\ size \in Sizes /\ flag \in BOOLEAN
    /\ iter \in [Nodes -> -ShortMax - 1..ShortMax]
    /\ frames \in Seq(FrameSet)
    /\ out \in Seq(Nat \X Values)
    /\ buf \in {"none", "live", "freed"} /\ tree \in {"held", "freed", "gone"}
    /\ runs \in 0..MaxRuns /\ parses \in 1..MaxParses
    /\ fault \in {"none", "root", "null", "uninitialised", "range", "buffer", "freed",
                  "double free", "gone"}
    /\ causes \subseteq {"missing", "nested", "replaced", "changed"}
    /\ shown \in [Nodes -> [item : -1..ShortMax, size : Nat]]

(* The first piece is the root, unless it fails.                           *)
StartRight ==
    /\ pos = 0 => sp = 0 /\ st[0] = 0
    /\ pos > 0 /\ doc[1] \notin {"error", "unclosed"} => root # Garbage
    /\ pos > 0 /\ doc[1] = "unclosed" => outcome = "beyond"
    /\ ~Parsing => pos > 0 \/ doc = <<>>

(* Only the calls that run() makes have no previous variable.              *)
CallsRight ==
    /\ \A k \in DOMAIN frames : frames[k].previous = Null => frames[k].base
    /\ frames # <<>> => frames[1].base /\ ~Parsing /\ (HasTree => root # Garbage)
    /\ Parsing => fault = "none"

(* iter is one more than the item shown last, as far as a short can count. *)
IterRight ==
    \A n \in Nodes :
       /\ iter[n] = Wrap(shown[n].item + 1)
       /\ shown[n].item = -1 \/ shown[n].item < shown[n].size

(* A run inside another has freed the buffer, or is still using it.        *)
BufferRight ==
    fault = "none" =>
       IF "nested" \in causes
         THEN frames # <<>> /\ (buf = "freed" \/ \E k \in 2..Len(frames) : frames[k].base)
         ELSE frames # <<>> => buf = "live" /\ \A k \in 2..Len(frames) : ~frames[k].base

(* A method that made the template parse again has freed the tree that is  *)
(* being walked, at a node.                                                *)
TreeKnown ==
    fault = "none" =>
       /\ "replaced" \in causes => frames # <<>> /\ Top.node # 0 /\ tree = "freed"
       /\ tree = "freed" => causes \cap {"missing", "replaced"} # {}

(* Only a method that changes the object frees what a call was given.      *)
GoneKnown ==
    "changed" \notin causes =>
       \A k \in DOMAIN frames : frames[k].current # Gone /\ frames[k].previous # Gone

RInv ==
    /\ RunTyped /\ StartRight /\ CallsRight /\ IterRight /\ BufferRight /\ TreeKnown
    /\ GoneKnown /\ FaultsExplained

rvars == <<parse, tag, object, render>>

-----------------------------------------------------------------------------
(* The variables of the script are different, and Null is none of them.    *)
LEMMA ValueFacts ==
    /\ {Null, Mother, Array, Flag, Said, Gone} \subseteq Values
    /\ \A n \in Sizes : \A i \in 0..n : Item(i) \in Values
    /\ Null \notin {Mother, Array, Flag, Said, Gone} /\ Array # Mother
    /\ Gone \notin {Mother, Array, Flag, Said}
    /\ \A i : Item(i) # Null /\ Item(i) # Gone
  BY DEF Values, Items, Null, Mother, Array, Flag, Said, Gone, Item

(* A name is looked up in a variable, and gives one.                       *)
LEMMA ExpandTyped ==
  ASSUME NEW name, NEW o \in Values
  PROVE  Expand(name, o) \in Values
  BY ValueFacts DEF Expand, Member

(* What a block sees.                                                      *)
LEMMA ChosenTyped ==
  ASSUME NEW t \in [op : STRING, name : STRING, from : {"current", "up", "root"}],
         NEW f \in FrameSet
  PROVE  Chosen(t, f) \in Values
<1>1. f.current \in Values /\ f.previous \in Values
  BY DEF FrameSet
<1>2. Used(t, f) \in Values /\ Origin(t, f) \in Values
  BY <1>1, ValueFacts DEF Used, Origin
<1>3. Expand(t.name, Origin(t, f)) \in Values
  BY <1>2, ExpandTyped
<1> QED
  BY <1>1, <1>2, <1>3, ValueFacts DEF Chosen

(* A block sees nothing that was freed, unless the block around it does.   *)
LEMMA ChosenKept ==
  ASSUME NEW t, NEW f, f.current # Gone, f.previous # Gone
  PROVE  Chosen(t, f) # Gone
<1>1. Used(t, f) # Gone /\ Origin(t, f) # Gone
  BY ValueFacts DEF Used, Origin
<1>2. Expand(t.name, Origin(t, f)) # Gone
  BY <1>1, ValueFacts DEF Expand, Member
<1> DEFINE v == Expand(t.name, Origin(t, f))
<1> HIDE DEF v
<1>3. CASE v = Null
  BY <1>3, ValueFacts DEF Chosen, v
<1>4. CASE v # Null /\ False(v)
  BY <1>4, <1>1, ValueFacts DEF Chosen, v
<1>5. CASE v # Null /\ ~False(v)
  BY <1>5, <1>2, ValueFacts DEF Chosen, v
<1> QED
  BY <1>3, <1>4, <1>5

(* An item is within what a short counts.                                  *)
LEMMA WrapTyped ==
  ASSUME NEW i \in -1..ShortMax
  PROVE  /\ Wrap(i + 1) \in -ShortMax - 1..ShortMax
         /\ i # ShortMax => Wrap(i + 1) = i + 1
         /\ i = ShortMax => Wrap(i + 1) < 0
  BY RunAssumption DEF Wrap

-----------------------------------------------------------------------------
(* What a step does to the stack of the calls: the last one goes on, and   *)
(* one may be made.                                                        *)

Moved(fs) ==
    \E f \in FrameSet :
       /\ f.base = Top.base /\ f.current = Top.current /\ f.previous = Top.previous
       /\ fs = [frames EXCEPT ![Len(frames)] = f]

LEMMA SeqFacts ==
  ASSUME NEW S, NEW s \in Seq(S), s # <<>>
  PROVE  /\ Len(s) \in Nat \ {0} /\ Len(s) \in DOMAIN s /\ DOMAIN s = 1..Len(s)
         /\ s[Len(s)] \in S
         /\ SubSeq(s, 1, Len(s) - 1) \in Seq(S)
         /\ Len(SubSeq(s, 1, Len(s) - 1)) = Len(s) - 1
         /\ \A k \in 1..Len(s) - 1 : SubSeq(s, 1, Len(s) - 1)[k] = s[k]
<1>1. Len(s) \in Nat \ {0} /\ DOMAIN s = 1..Len(s) /\ s \in [1..Len(s) -> S]
  OBVIOUS
<1>2. SubSeq(s, 1, Len(s) - 1) = [k \in 1..Len(s) - 1 |-> s[k]]
  BY <1>1
<1> QED
  BY <1>1, <1>2

LEMMA TopTyped ==
  ASSUME RunTyped, frames # <<>>
  PROVE  /\ Top \in FrameSet /\ Len(frames) \in Nat \ {0} /\ Len(frames) \in DOMAIN frames
         /\ DOMAIN frames = 1..Len(frames)
<1>1. frames \in Seq(FrameSet)
  BY DEF RunTyped
<1> QED
  BY <1>1, SeqFacts DEF Top

LEMMA MovedFacts ==
  ASSUME RunTyped, frames # <<>>, NEW fs, Moved(fs)
  PROVE  /\ fs \in Seq(FrameSet) /\ Len(fs) = Len(frames) /\ fs # <<>>
         /\ DOMAIN fs = DOMAIN frames
         /\ \A k \in DOMAIN fs :
               /\ fs[k].base = frames[k].base /\ fs[k].previous = frames[k].previous
               /\ fs[k].current = frames[k].current
<1>1. PICK f \in FrameSet :
         /\ f.base = Top.base /\ f.current = Top.current /\ f.previous = Top.previous
         /\ fs = [frames EXCEPT ![Len(frames)] = f]
  BY DEF Moved
<1>2. frames \in Seq(FrameSet) /\ Len(frames) \in Nat \ {0} /\ Len(frames) \in DOMAIN frames
  BY TopTyped DEF RunTyped
<1>3. fs \in Seq(FrameSet) /\ Len(fs) = Len(frames) /\ DOMAIN fs = DOMAIN frames /\ fs # <<>>
  BY <1>1, <1>2
<1>4. \A k \in DOMAIN fs : fs[k] = IF k = Len(frames) THEN f ELSE frames[k]
  BY <1>1, <1>2
<1> QED
  BY <1>1, <1>2, <1>3, <1>4 DEF Top

LEMMA PoppedFacts ==
  ASSUME RunTyped, frames # <<>>, frames' = SubSeq(frames, 1, Len(frames) - 1)
  PROVE  /\ frames' \in Seq(FrameSet) /\ Len(frames') = Len(frames) - 1
         /\ DOMAIN frames' = 1..Len(frames')
         /\ \A k \in DOMAIN frames' : k \in DOMAIN frames /\ frames'[k] = frames[k]
<1>1. frames \in Seq(FrameSet)
  BY DEF RunTyped
<1>2. frames' \in Seq(FrameSet) /\ Len(frames') = Len(frames) - 1 /\ Len(frames) \in Nat \ {0}
  BY <1>1, SeqFacts
<1>3. DOMAIN frames' = 1..Len(frames') /\ DOMAIN frames = 1..Len(frames)
  BY <1>1, <1>2
<1>4. \A k \in 1..Len(frames) - 1 : frames'[k] = frames[k]
  BY <1>1, SeqFacts
<1> QED
  BY <1>2, <1>3, <1>4

(* A frame goes on with the next node.                                     *)
LEMMA AdvancedMoves ==
  ASSUME TypeOK, RunTyped, frames # <<>>, Top.node # 0
  PROVE  Moved(Advanced(frames))
<1>1. Top \in FrameSet /\ Len(frames) \in DOMAIN frames /\ next \in [Nodes -> Nodes \cup {0}]
  BY TopTyped DEF TypeOK
<1>2. Top.node \in Nodes
  BY <1>1 DEF FrameSet
<1> DEFINE f == [Top EXCEPT !.node = next[Top.node], !.i = 0, !.called = FALSE]
<1>3. FALSE \in BOOLEAN /\ 0 \in Nat /\ next[Top.node] \in Nodes \cup {0}
  BY <1>1, <1>2
<1>4. /\ f \in FrameSet /\ f.base = Top.base
      /\ f.current = Top.current /\ f.previous = Top.previous
  BY <1>1, <1>3 DEF FrameSet
<1>5. Advanced(frames) = [frames EXCEPT ![Len(frames)] = f]
  BY DEF Advanced, Top
<1> QED
  BY <1>4, <1>5 DEF Moved

LEMMA CountedMoves ==
  ASSUME RunTyped, frames # <<>>
  PROVE  Moved([frames EXCEPT ![Len(frames)].i = Top.i + 1])
<1>1. Top \in FrameSet
  BY TopTyped
<1> DEFINE f == [Top EXCEPT !.i = Top.i + 1]
<1>2. Top.i + 1 \in Nat
  BY <1>1 DEF FrameSet
<1>3. /\ f \in FrameSet /\ f.base = Top.base
      /\ f.current = Top.current /\ f.previous = Top.previous
  BY <1>1, <1>2 DEF FrameSet
<1>4. [frames EXCEPT ![Len(frames)].i = Top.i + 1] = [frames EXCEPT ![Len(frames)] = f]
  BY DEF Top
<1> QED
  BY <1>3, <1>4 DEF Moved

LEMMA CalledMoves ==
  ASSUME RunTyped, frames # <<>>
  PROVE  /\ Moved([frames EXCEPT ![Len(frames)].called = TRUE])
         /\ [frames EXCEPT ![Len(frames)].called = TRUE][Len(frames)].node = Top.node
<1>1. Top \in FrameSet /\ Len(frames) \in DOMAIN frames
  BY TopTyped
<1> DEFINE f == [Top EXCEPT !.called = TRUE]
<1>2. TRUE \in BOOLEAN
  OBVIOUS
<1>3. /\ f \in FrameSet /\ f.base = Top.base /\ f.node = Top.node
      /\ f.current = Top.current /\ f.previous = Top.previous
  BY <1>1, <1>2 DEF FrameSet
<1>4. [frames EXCEPT ![Len(frames)].called = TRUE] = [frames EXCEPT ![Len(frames)] = f]
  BY DEF Top
<1>5. [frames EXCEPT ![Len(frames)] = f][Len(frames)] = f
  BY <1>1
<1> QED
  BY <1>3, <1>4, <1>5 DEF Moved

-----------------------------------------------------------------------------
(* What the steps of tag_run do.                                           *)
LEMMA AtNodeFacts ==
  ASSUME RunTyped, AtNode
  PROVE  /\ frames # <<>> /\ fault = "none" /\ tree = "held"
         /\ Top.node # 0 /\ Top.node \in Nodes /\ Top \in FrameSet
         /\ tag[Top.node] \in [op : STRING, name : STRING, from : {"current", "up", "root"}]
<1>1. frames # <<>> /\ fault = "none" /\ tree = "held" /\ Top.node # 0
  BY DEF AtNode
<1>2. Top \in FrameSet
  BY <1>1, TopTyped
<1>3. Top.node \in Nodes
  BY <1>1, <1>2 DEF FrameSet
<1>4. tag \in TagsOf(doc)
  BY DEF RunTyped
<1> QED
  BY <1>1, <1>2, <1>3, <1>4 DEF TagsOf, Nodes

LEMMA AddFacts ==
  ASSUME RunTyped, fault = "none", NEW e \in Nat \X Values, Add(e)
  PROVE  /\ out' \in Seq(Nat \X Values)
         /\ out' \in {out, Append(out, e)}
         /\ fault' = "none" \/ (fault' = "buffer" /\ buf # "live")
<1>1. out \in Seq(Nat \X Values)
  BY DEF RunTyped
<1>2. Append(out, e) \in Seq(Nat \X Values)
  BY <1>1
<1> QED
  BY <1>1, <1>2 DEF Add

(* The item an array shows is the one after the last, unless the script    *)
(* shortened the array or a short has wrapped.                             *)
LEMMA ShowItemStep ==
  ASSUME TypeOK, RunTyped, IterRight, ShowItem
  PROVE  \/ /\ fault' = "range" /\ UNCHANGED <<iter, frames, out, shown>>
            /\ shown[Top.node].size > size \/ shown[Top.node].item = ShortMax
         \/ \E i \in 0..size - 1 :
               /\ i \in 0..ShortMax /\ i = (shown[Top.node].item + 1) % size
               /\ iter' = [iter EXCEPT ![Top.node] = Wrap(i + 1)]
               /\ shown' = [shown EXCEPT ![Top.node] = [item |-> i, size |-> size]]
               /\ Add(<<Top.node, Array>>)
               /\ frames' = Advanced(frames)
<1> DEFINE n == Top.node
           i == Restart(n)
<1>1. AtNode /\ size > 0
  BY DEF ShowItem, Visit
<1>2. n \in Nodes
  BY <1>1, AtNodeFacts
<1>3. /\ size \in Nat /\ shown[n].item \in -1..ShortMax /\ shown[n].size \in Nat
      /\ iter[n] = Wrap(shown[n].item + 1) /\ iter[n] \in -ShortMax - 1..ShortMax
      /\ shown[n].item = -1 \/ shown[n].item < shown[n].size
  BY <1>2, RunAssumption DEF RunTyped, IterRight
<1>4. i = IF iter[n] = size THEN 0 ELSE iter[n]
  BY DEF Restart
<1>5. CASE i \in 0..size - 1
  <2>1. i \in 0..ShortMax
    BY <1>3, <1>4, <1>5, RunAssumption
  <2>2. shown[n].item # ShortMax /\ iter[n] = shown[n].item + 1
    <3>1. iter[n] >= 0
      BY <1>3, <1>4, <1>5
    <3> QED
      BY <3>1, <1>3, WrapTyped
  <2>3. i = (shown[n].item + 1) % size
    BY <2>2, <1>1, <1>3, <1>4, <1>5
  <2>4. /\ iter' = [iter EXCEPT ![n] = Wrap(i + 1)]
        /\ Add(<<n, Array>>)
        /\ shown' = [shown EXCEPT ![n] = [item |-> i, size |-> size]]
        /\ frames' = Advanced(frames)
    BY <1>5 DEF ShowItem
  <2> QED
    BY <2>1, <2>3, <2>4, <1>5
<1>6. CASE i \notin 0..size - 1
  <2>1. fault' = "range" /\ UNCHANGED <<iter, frames, out, shown>>
    BY <1>6 DEF ShowItem
  <2>2. shown[n].size > size \/ shown[n].item = ShortMax
    <3>1. iter[n] < 0 \/ iter[n] > size
      BY <1>1, <1>3, <1>4, <1>6
    <3>2. CASE iter[n] < 0
      BY <3>2, <1>3, WrapTyped
    <3>3. CASE iter[n] > size /\ shown[n].item # ShortMax
      BY <3>3, <1>1, <1>3, WrapTyped
    <3> QED
      BY <3>1, <3>2, <3>3
  <2> QED
    BY <2>1, <2>2
<1> QED
  BY <1>5, <1>6

(* A step that stays in the tree.                                          *)
Walks == Text \/ Skip \/ (\E op \in {"if", "unless"} : Branch(op)) \/ Loop \/ ShowItem \/ Show

Entered(fs) ==
    \E gs : Moved(gs) /\ \E g \in FrameSet :
       /\ ~g.base /\ g.previous # Null /\ fs = Append(gs, g)
       /\ Top.current # Gone /\ Top.previous # Gone => g.current # Gone /\ g.previous # Gone

LEMMA BranchEnters ==
  ASSUME TypeOK, RunTyped, NEW op, Branch(op)
  PROVE  /\ AtNode /\ UNCHANGED <<object, size, flag, buf, runs, causes, iter, out, fault, shown>>
         /\ Moved(frames') \/ Entered(frames')
<1>1. AtNode /\ UNCHANGED <<object, size, flag, buf, runs, causes, iter, out, fault, shown>>
  BY DEF Branch, Visit
<1>2. Moved(Advanced(frames)) /\ Advanced(frames) \in Seq(FrameSet)
  BY <1>1, AtNodeFacts, AdvancedMoves, MovedFacts
<1> DEFINE v == Chosen(tag[Top.node], Top)
           g == Frame(child[Top.node], v, Top.current)
<1>3. CASE v = Null
  <2>1. frames' = Advanced(frames) \o <<>>
    BY <1>3 DEF Branch
  <2>2. frames' = Advanced(frames)
    BY <2>1, <1>2
  <2> QED
    BY <1>1, <1>2, <2>2
<1>4. CASE v # Null
  <2>1. v \in Values
    BY <1>1, AtNodeFacts, ChosenTyped
  <2>2. child[Top.node] \in Nodes \cup {0} /\ Top.current \in Values \ {Null}
    BY <1>1, AtNodeFacts DEF TypeOK, FrameSet
  <2>3. g \in FrameSet /\ ~g.base /\ g.previous # Null
    BY <2>1, <2>2, <1>4 DEF Frame, FrameSet
  <2>4. frames' = Advanced(frames) \o <<g>>
    BY <1>4 DEF Branch
  <2>5. frames' = Append(Advanced(frames), g)
    BY <2>4, <2>3, <1>2
  <2>6. Top.current # Gone /\ Top.previous # Gone => g.current # Gone /\ g.previous # Gone
    BY ChosenKept DEF Frame
  <2> QED
    BY <1>1, <1>2, <2>3, <2>5, <2>6 DEF Entered
<1> QED
  BY <1>3, <1>4

LEMMA LoopEnters ==
  ASSUME TypeOK, RunTyped, Loop
  PROVE  /\ AtNode /\ UNCHANGED <<object, size, flag, buf, runs, causes, iter, out, fault, shown>>
         /\ Moved(frames') \/ Entered(frames')
<1>1. AtNode /\ UNCHANGED <<object, size, flag, buf, runs, causes, iter, out, fault, shown>>
  BY DEF Loop, Visit
<1>2. Moved(Advanced(frames)) /\ Moved([frames EXCEPT ![Len(frames)].i = Top.i + 1])
  BY <1>1, AtNodeFacts, AdvancedMoves, CountedMoves
<1> DEFINE i == Top.i
           g == Frame(child[Top.node], Item(i), Item(IF i = 0 THEN 0 ELSE i - 1))
           shows == Expand(tag[Top.node].name, Origin(tag[Top.node], Top)) = Array /\ i < size
<1>3. CASE ~shows
  BY <1>1, <1>2, <1>3 DEF Loop
<1>4. CASE shows
  <2>1. i \in Nat /\ size \in Sizes /\ size \in Nat
    BY <1>1, AtNodeFacts, RunAssumption DEF RunTyped, FrameSet
  <2>2. i \in 0..size /\ (IF i = 0 THEN 0 ELSE i - 1) \in 0..size
    BY <2>1, <1>4
  <2>3. Item(i) \in Values \ {Null} /\ Item(IF i = 0 THEN 0 ELSE i - 1) \in Values \ {Null}
    BY <2>1, <2>2, ValueFacts
  <2>4. child[Top.node] \in Nodes \cup {0}
    BY <1>1, AtNodeFacts DEF TypeOK
  <2>5. g \in FrameSet /\ ~g.base /\ g.previous # Null
    BY <2>3, <2>4 DEF Frame, FrameSet
  <2>6. frames' = Append([frames EXCEPT ![Len(frames)].i = Top.i + 1], g)
    BY <1>4 DEF Loop
  <2>7. g.current # Gone /\ g.previous # Gone
    BY ValueFacts DEF Frame
  <2> QED
    BY <1>1, <1>2, <2>5, <2>6, <2>7 DEF Entered
<1> QED
  BY <1>3, <1>4

LEMMA WalkStep ==
  ASSUME TypeOK, RunTyped, IterRight, Walks, UNCHANGED parse
  PROVE  /\ AtNode /\ UNCHANGED <<object, size, flag, buf, runs, causes>>
         /\ out' \in Seq(Nat \X Values)
         /\ \/ /\ fault' = "range" /\ frames' = frames /\ shown' = shown
               /\ shown[Top.node].size > size \/ shown[Top.node].item = ShortMax
            \/ /\ fault' = "none" \/ (fault' = "buffer" /\ buf # "live")
               /\ Moved(frames') \/ Entered(frames')
         /\ iter' \in [Nodes -> -ShortMax - 1..ShortMax]
         /\ shown' \in [Nodes -> [item : -1..ShortMax, size : Nat]]
         /\ IterRight'
<1> DEFINE Fine == /\ out' \in Seq(Nat \X Values)
                   /\ fault' = "none" \/ (fault' = "buffer" /\ buf # "live")
                   /\ Moved(frames') \/ Entered(frames')
           Still == UNCHANGED <<iter, shown>>
<1>1. /\ out \in Seq(Nat \X Values) /\ iter \in [Nodes -> -ShortMax - 1..ShortMax]
      /\ shown \in [Nodes -> [item : -1..ShortMax, size : Nat]]
      /\ Null \in Values /\ Array \in Values
  BY ValueFacts DEF RunTyped
<1>2. Nodes' = Nodes /\ Nodes \subseteq Nat
  BY DEF Nodes, parse
<1>3. AtNode /\ UNCHANGED <<object, size, flag, buf, runs, causes>>
  BY DEF Walks, Text, Skip, Branch, Loop, ShowItem, Show, Visit
<1>4. /\ fault = "none" /\ Top.node \in Nodes /\ Moved(Advanced(frames))
      /\ tag[Top.node] \in [op : STRING, name : STRING, from : {"current", "up", "root"}]
      /\ Top \in FrameSet
  BY <1>3, AtNodeFacts, AdvancedMoves
<1>5. Still => IterRight'
  BY <1>2 DEF IterRight
<1>6. CASE Text
  <2>1. <<Top.node, Null>> \in Nat \X Values /\ Add(<<Top.node, Null>>)
    BY <1>1, <1>2, <1>4, <1>6 DEF Text
  <2>2. Fine /\ Still
    BY <2>1, <1>4, <1>6, AddFacts DEF Text
  <2> QED
    BY <2>2, <1>1, <1>3, <1>5
<1>7. CASE Skip
  <2>1. Fine /\ Still
    BY <1>1, <1>4, <1>7 DEF Skip
  <2> QED
    BY <2>1, <1>1, <1>3, <1>5
<1>8. CASE (\E op \in {"if", "unless"} : Branch(op)) \/ Loop
  <2>1. Fine /\ Still
    BY <1>1, <1>4, <1>8, BranchEnters, LoopEnters
  <2> QED
    BY <2>1, <1>1, <1>3, <1>5
<1>9. CASE Show
  <2> DEFINE v == Expand(tag[Top.node].name, Origin(tag[Top.node], Top))
  <2>1. Top.current \in Values /\ Top.previous \in Values
    BY <1>4 DEF FrameSet
  <2>2. Origin(tag[Top.node], Top) \in Values
    BY <2>1, ValueFacts DEF Origin, Used
  <2>3. <<Top.node, v>> \in Nat \X Values
    BY <2>2, <1>2, <1>4, ExpandTyped
  <2>4. UNCHANGED <<out, fault>> \/ Add(<<Top.node, v>>)
    BY <1>9 DEF Show
  <2>5. Fine /\ Still
    BY <2>3, <2>4, <1>1, <1>4, <1>9, AddFacts DEF Show
  <2> QED
    BY <2>5, <1>1, <1>3, <1>5
<1>10. CASE ShowItem
  <2>1. CASE /\ fault' = "range" /\ UNCHANGED <<iter, frames, out, shown>>
             /\ shown[Top.node].size > size \/ shown[Top.node].item = ShortMax
    BY <2>1, <1>1, <1>3, <1>5
  <2>2. ASSUME NEW i \in 0..size - 1, i \in 0..ShortMax,
               iter' = [iter EXCEPT ![Top.node] = Wrap(i + 1)],
               shown' = [shown EXCEPT ![Top.node] = [item |-> i, size |-> size]],
               Add(<<Top.node, Array>>), frames' = Advanced(frames)
        PROVE  /\ Fine /\ IterRight'
               /\ iter' \in [Nodes -> -ShortMax - 1..ShortMax]
               /\ shown' \in [Nodes -> [item : -1..ShortMax, size : Nat]]
    <3>1. Fine
      BY <2>2, <1>1, <1>2, <1>4, AddFacts
    <3>2. i \in -1..ShortMax /\ size \in Nat /\ i < size
      <4>1. size \in Nat /\ ShortMax \in Nat
        BY RunAssumption DEF RunTyped
      <4> QED
        BY <2>2, <4>1
    <3>3. iter' \in [Nodes -> -ShortMax - 1..ShortMax]
      BY <2>2, <3>2, <1>1, WrapTyped
    <3>4. [item |-> i, size |-> size] \in [item : -1..ShortMax, size : Nat]
      BY <3>2
    <3>5. shown' \in [Nodes -> [item : -1..ShortMax, size : Nat]]
      BY <2>2, <3>4, <1>1
    <3>6. IterRight'
      <4>1. SUFFICES ASSUME NEW n \in Nodes
                     PROVE  /\ iter'[n] = Wrap(shown'[n].item + 1)
                            /\ shown'[n].item = -1 \/ shown'[n].item < shown'[n].size
        BY <1>2 DEF IterRight
      <4>2. CASE n = Top.node
        BY <4>2, <2>2, <3>2, <1>1
      <4>3. CASE n # Top.node
        BY <4>3, <2>2, <1>1 DEF IterRight
      <4> QED
        BY <4>2, <4>3
    <3> QED
      BY <3>1, <3>3, <3>5, <3>6
  <2> QED
    BY <2>1, <2>2, <1>3, ShowItemStep, <1>10
<1> QED
  BY <1>6, <1>7, <1>8, <1>9, <1>10 DEF Walks

-----------------------------------------------------------------------------
(* What a step leaves of the calls and of the buffer.                      *)
LEMMA EnteredFacts ==
  ASSUME RunTyped, frames # <<>>, NEW fs, Moved(fs) \/ Entered(fs)
  PROVE  /\ fs \in Seq(FrameSet) /\ fs # <<>> /\ Len(fs) \in Nat /\ Len(fs) >= Len(frames)
         /\ \A k \in 1..Len(frames) :
               fs[k].base = frames[k].base /\ fs[k].previous = frames[k].previous
         /\ \A k \in 1..Len(fs) : k > Len(frames) => ~fs[k].base /\ fs[k].previous # Null
         /\ (\A k \in DOMAIN frames : frames[k].current # Gone /\ frames[k].previous # Gone) =>
               \A k \in 1..Len(fs) : fs[k].current # Gone /\ fs[k].previous # Gone
<1>1. frames \in Seq(FrameSet) /\ Len(frames) \in Nat \ {0} /\ DOMAIN frames = 1..Len(frames)
  BY TopTyped DEF RunTyped
<1>2. CASE Moved(fs)
  BY <1>1, <1>2, MovedFacts
<1>3. CASE Entered(fs)
  <2>1. PICK gs : Moved(gs) /\ \E g \in FrameSet :
           /\ ~g.base /\ g.previous # Null /\ fs = Append(gs, g)
           /\ Top.current # Gone /\ Top.previous # Gone => g.current # Gone /\ g.previous # Gone
    BY <1>3 DEF Entered
  <2>2. Moved(gs)
    BY <2>1
  <2>3. PICK g \in FrameSet :
           /\ ~g.base /\ g.previous # Null /\ fs = Append(gs, g)
           /\ Top.current # Gone /\ Top.previous # Gone => g.current # Gone /\ g.previous # Gone
    BY <2>1
  <2>4. /\ fs \in Seq(FrameSet) /\ Len(fs) = Len(frames) + 1 /\ fs # <<>>
        /\ fs[Len(fs)] = g
        /\ \A k \in DOMAIN frames :
              /\ fs[k].base = frames[k].base /\ fs[k].previous = frames[k].previous
              /\ fs[k].current = frames[k].current
    <3>1. /\ gs \in Seq(FrameSet) /\ Len(gs) = Len(frames)
          /\ DOMAIN gs = DOMAIN frames
          /\ \A k \in DOMAIN gs :
                /\ gs[k].base = frames[k].base /\ gs[k].previous = frames[k].previous
                /\ gs[k].current = frames[k].current
      BY <2>2, MovedFacts
    <3>2. \A k \in DOMAIN gs : fs[k] = gs[k]
      BY <2>3, <3>1
    <3> QED
      BY <2>3, <3>1, <3>2
  <2>5. ASSUME \A k \in DOMAIN frames : frames[k].current # Gone /\ frames[k].previous # Gone,
               NEW k \in 1..Len(fs)
        PROVE  fs[k].current # Gone /\ fs[k].previous # Gone
    <3>1. CASE k = Len(fs)
      <4>1. Top.current # Gone /\ Top.previous # Gone
        BY <2>5, <1>1 DEF Top
      <4> QED
        BY <4>1, <3>1, <2>3, <2>4
    <3>2. CASE k # Len(fs)
      <4>1. k \in DOMAIN frames
        BY <3>2, <2>4, <1>1
      <4> QED
        BY <4>1, <2>4, <2>5
    <3> QED
      BY <3>1, <3>2
  <2> QED
    BY <2>3, <2>4, <2>5, <1>1
<1> QED
  BY <1>2, <1>3

(* A step in the tree keeps the invariant.                                 *)
LEMMA WalkKeeps ==
  ASSUME TypeOK, RInv, Walks, UNCHANGED parse, UNCHANGED tag
  PROVE  RInv'
<1>1. /\ AtNode /\ UNCHANGED <<object, size, flag, buf, runs, causes>>
      /\ out' \in Seq(Nat \X Values)
      /\ \/ /\ fault' = "range" /\ frames' = frames /\ shown' = shown
            /\ shown[Top.node].size > size \/ shown[Top.node].item = ShortMax
         \/ /\ fault' = "none" \/ (fault' = "buffer" /\ buf # "live")
            /\ Moved(frames') \/ Entered(frames')
      /\ iter' \in [Nodes -> -ShortMax - 1..ShortMax]
      /\ shown' \in [Nodes -> [item : -1..ShortMax, size : Nat]]
      /\ IterRight'
  BY WalkStep DEF RInv
<1>2. RunTyped /\ frames # <<>> /\ fault = "none" /\ tree = "held" /\ Top.node # 0
  BY <1>1, AtNodeFacts DEF RInv
<1>3. Nodes' = Nodes /\ FrameSet' = FrameSet /\ TagsOf(doc)' = TagsOf(doc) /\ doc' = doc
  BY DEF parse, Nodes, FrameSet, Values, TagsOf
<1>4. /\ frames' \in Seq(FrameSet) /\ frames' # <<>>
      /\ Len(frames) \in Nat \ {0} /\ DOMAIN frames = 1..Len(frames)
      /\ Len(frames') \in Nat /\ Len(frames') >= Len(frames)
      /\ \A k \in 1..Len(frames) :
            frames'[k].base = frames[k].base /\ frames'[k].previous = frames[k].previous
      /\ \A k \in 1..Len(frames') :
            k > Len(frames) => ~frames'[k].base /\ frames'[k].previous # Null
      /\ (\A k \in DOMAIN frames : frames[k].current # Gone /\ frames[k].previous # Gone) =>
            \A k \in 1..Len(frames') : frames'[k].current # Gone /\ frames'[k].previous # Gone
  <2>1. CASE frames' = frames
    BY <2>1, <1>2, TopTyped DEF RunTyped
  <2>2. CASE Moved(frames') \/ Entered(frames')
    BY <2>2, <1>2, TopTyped, EnteredFacts
  <2> QED
    BY <2>1, <2>2, <1>1
<1>5. RunTyped'
  BY <1>1, <1>2, <1>3, <1>4 DEF RunTyped, object
<1>6. StartRight'
  BY DEF RInv, StartRight, parse, Parsing
<1>7. CallsRight'
  <2>1. DOMAIN frames' = 1..Len(frames')
    BY <1>4
  <2>2. \A k \in DOMAIN frames' : frames'[k].previous = Null => frames'[k].base
    BY <2>1, <1>4 DEF RInv, CallsRight
  <2>3. frames'[1].base /\ ~Parsing /\ (HasTree => root # Garbage)
    BY <1>2, <1>4 DEF RInv, CallsRight
  <2>4. Parsing' = Parsing /\ HasTree' = HasTree /\ root' = root
    BY DEF parse, Parsing, HasTree
  <2> QED
    BY <2>2, <2>3, <2>4 DEF CallsRight
<1>8. BufferRight'
  <2>1. BufferRight /\ buf' = buf /\ causes' = causes
    BY <1>1 DEF RInv
  <2>2. CASE "nested" \in causes
    BY <2>1, <2>2, <1>2, <1>4 DEF BufferRight
  <2>3. CASE "nested" \notin causes
    <3>1. buf = "live" /\ \A k \in 2..Len(frames) : ~frames[k].base
      BY <2>1, <2>3, <1>2 DEF BufferRight
    <3>2. \A k \in 2..Len(frames') : ~frames'[k].base
      BY <3>1, <1>4
    <3> QED
      BY <2>1, <2>3, <3>1, <3>2 DEF BufferRight
  <2> QED
    BY <2>2, <2>3
<1>9. TreeKnown'
  <2>1. "replaced" \notin causes /\ causes' = causes /\ tree' = "held"
    BY <1>1, <1>2 DEF RInv, TreeKnown, object
  <2> QED
    BY <2>1 DEF TreeKnown
<1>10. FaultsExplained'
  <2>1. /\ fault' = "range" =>
             \/ (shown[Top.node].size > size)'
             \/ (shown[Top.node].item = ShortMax)'
    BY <1>1 DEF Top
  <2>2. fault' = "buffer" => "nested" \in causes'
    BY <1>1, <1>2 DEF RInv, BufferRight
  <2>3. fault' \in {"none", "range", "buffer"}
    BY <1>1
  <2>4. outcome = "failed" /\ root = Garbage => doc = <<>> \/ doc[1] = "error"
    BY DEF RInv, FaultsExplained
  <2> QED
    BY <2>1, <2>2, <2>3, <2>4, <1>4 DEF FaultsExplained, parse
<1>11. GoneKnown'
  <2>1. DOMAIN frames' = 1..Len(frames')
    BY <1>4
  <2> QED
    BY <2>1, <1>1, <1>4 DEF RInv, GoneKnown
<1> QED
  BY <1>1, <1>5, <1>6, <1>7, <1>8, <1>9, <1>10, <1>11 DEF RInv

(* A step that meets undefined behaviour keeps the invariant, if the fault *)
(* is one of those that are explained.                                     *)
LEMMA FaultKeeps ==
  ASSUME RInv, UNCHANGED parse, UNCHANGED tag, fault = "none", ~Parsing,
         fault' \in {"root", "null", "uninitialised", "freed", "double free", "gone"},
         UNCHANGED <<object, size, flag, iter, frames, out, buf, runs, causes, shown>>,
         fault' = "root" => doc = <<>> \/ doc[1] = "error",
         fault' = "uninitialised" => size = 0 /\ doc[Top.node] = "subst",
         fault' = "null" => Top.base /\ tag[Top.node].from = "up",
         fault' = "gone" => "changed" \in causes,
         fault' = "freed" => causes \cap {"missing", "replaced"} # {},
         fault' = "double free" => "missing" \in causes
  PROVE  RInv'
<1>1. Nodes' = Nodes /\ FrameSet' = FrameSet /\ TagsOf(doc)' = TagsOf(doc)
  BY DEF parse, Nodes, FrameSet, Values, TagsOf
<1>2. RunTyped'
  BY <1>1 DEF RInv, RunTyped, object
<1>3. StartRight' /\ CallsRight' /\ IterRight'
  BY <1>1 DEF RInv, StartRight, CallsRight, IterRight, parse, Parsing, HasTree
<1>4. BufferRight' /\ TreeKnown' /\ GoneKnown'
  BY DEF BufferRight, TreeKnown, RInv, GoneKnown
<1>5. FaultsExplained'
  BY DEF RInv, FaultsExplained, parse, Top
<1> QED
  BY <1>2, <1>3, <1>4, <1>5 DEF RInv

LEMMA IdleFacts ==
  ASSUME RInv, Idle
  PROVE  /\ frames = <<>> /\ fault = "none" /\ ~Parsing
         /\ causes \cap {"nested", "replaced"} = {}
         /\ tree = "freed" => "missing" \in causes
         /\ root = Garbage => doc = <<>> \/ doc[1] = "error"
<1>1. frames = <<>> /\ fault = "none" /\ ~Parsing
  BY DEF Idle, Parsing
<1>2. causes \cap {"nested", "replaced"} = {} /\ (tree = "freed" => "missing" \in causes)
  BY <1>1 DEF RInv, BufferRight, TreeKnown
<1>3. root = Garbage => doc = <<>> \/ doc[1] = "error"
  BY <1>1 DEF RInv, StartRight, Idle
<1> QED
  BY <1>1, <1>2, <1>3

(* Nothing is looked up in no object, but by [<x] outside of all blocks,   *)
(* and in nothing that was freed, unless a method changed the object.      *)
LEMMA NameFaultKeeps ==
  ASSUME RInv, UNCHANGED parse, UNCHANGED tag, NEW op, NameFault(op)
  PROVE  RInv'
<1>1. /\ AtNode /\ NullName
      /\ fault' = IF Origin(tag[Top.node], Top) = Gone THEN "gone" ELSE "null"
      /\ UNCHANGED <<object, size, flag, iter, frames, out, buf, runs, causes, shown>>
  BY DEF NameFault, Visit
<1>2. /\ frames # <<>> /\ fault = "none" /\ Top \in FrameSet
      /\ tag[Top.node] \in [op : STRING, name : STRING, from : {"current", "up", "root"}]
      /\ Len(frames) \in DOMAIN frames
  BY <1>1, AtNodeFacts, TopTyped DEF RInv
<1>3. ~Parsing
  BY <1>2 DEF RInv, CallsRight
<1>4. CASE Origin(tag[Top.node], Top) = Gone
  <2>1. Top.current = Gone \/ Top.previous = Gone
    BY <1>4, ValueFacts DEF Origin, Used
  <2>2. "changed" \in causes
    BY <1>2, <2>1 DEF RInv, GoneKnown, Top
  <2> QED
    BY <1>1, <1>2, <1>3, <1>4, <2>2, FaultKeeps
<1>5. CASE Origin(tag[Top.node], Top) # Gone
  <2>1. tag[Top.node].from = "up" /\ Top.previous = Null
    BY <1>1, <1>2, <1>5, ValueFacts DEF NullName, Origin, Used, FrameSet
  <2>2. Top.base
    BY <1>2, <2>1 DEF RInv, CallsRight, Top
  <2> QED
    BY <1>1, <1>2, <1>3, <1>5, <2>1, <2>2, FaultKeeps
<1> QED
  BY <1>4, <1>5

(* What is done between the calls keeps the invariant.                     *)
LEMMA RunKeeps ==
  ASSUME TypeOK, RInv, UNCHANGED parse, UNCHANGED tag, NEW n \in Sizes, NEW b \in BOOLEAN,
         Run(n, b)
  PROVE  RInv'
<1>1. /\ Idle /\ runs < MaxRuns /\ runs' = runs + 1 /\ size' = n /\ flag' = b
      /\ out' = <<>> /\ buf' = "live" /\ UNCHANGED <<object, iter, shown>>
      /\ causes' = causes \ {"changed"}
      /\ \/ HasTree /\ root = Garbage /\ fault' = "root" /\ frames' = frames
         \/ ~(HasTree /\ root = Garbage) /\ frames' = <<Base>> /\ fault' = fault
  BY DEF Run
<1>2. /\ frames = <<>> /\ fault = "none" /\ ~Parsing
      /\ causes \cap {"nested", "replaced"} = {}
      /\ tree = "freed" => "missing" \in causes
      /\ root = Garbage => doc = <<>> \/ doc[1] = "error"
  BY <1>1, IdleFacts
<1>3. /\ Nodes' = Nodes /\ FrameSet' = FrameSet /\ TagsOf(doc)' = TagsOf(doc)
      /\ UNCHANGED <<doc, pos, sp, st, root, outcome>>
  BY DEF parse, Nodes, FrameSet, Values, TagsOf
<1>4. ~(HasTree /\ root = Garbage) => Base \in FrameSet /\ Base.base
  BY ValueFacts DEF TypeOK, Base, Frame, FrameSet, HasTree
<1>5. frames' \in Seq(FrameSet)
  <2>1. frames \in Seq(FrameSet)
    BY DEF RInv, RunTyped
  <2>2. \A f \in FrameSet : <<f>> \in Seq(FrameSet)
    OBVIOUS
  <2> QED
    BY <2>1, <2>2, <1>1, <1>4
<1>6. out' \in Seq(Nat \X Values) /\ runs' \in 0..MaxRuns
  <2>1. runs \in 0..MaxRuns /\ MaxRuns \in Nat
    BY RunAssumption DEF RInv, RunTyped
  <2>2. runs' \in 0..MaxRuns
    BY <2>1, <1>1
  <2>3. <<>> \in Seq(Nat \X Values)
    OBVIOUS
  <2> QED
    BY <2>2, <2>3, <1>1
<1>7. RunTyped'
  BY <1>1, <1>3, <1>5, <1>6 DEF RInv, RunTyped, object
<1>8. StartRight' /\ IterRight'
  BY <1>1, <1>3 DEF RInv, StartRight, IterRight, Parsing
<1>9. frames' # <<>> => frames' = <<Base>> /\ Len(frames') = 1 /\ frames'[1] = Base
  BY <1>1, <1>2
<1>10. CallsRight'
  <2>1. Parsing' = Parsing /\ HasTree' = HasTree
    BY <1>3 DEF Parsing, HasTree
  <2>2. CASE frames' = <<>>
    BY <2>1, <2>2, <1>2 DEF CallsRight
  <2>3. CASE frames' # <<>>
    <3>1. frames' = <<Base>> /\ DOMAIN frames' = {1} /\ frames'[1] = Base
      BY <2>3, <1>9
    <3> QED
      BY <3>1, <2>1, <2>3, <1>1, <1>2, <1>3, <1>4 DEF CallsRight
  <2> QED
    BY <2>2, <2>3
<1>11. BufferRight' /\ TreeKnown'
  BY <1>1, <1>2, <1>9 DEF BufferRight, TreeKnown, object
<1>12. FaultsExplained'
  BY <1>1, <1>2, <1>3 DEF RInv, FaultsExplained
<1>13. GoneKnown'
  <2>1. Base.current # Gone /\ Base.previous # Gone
    BY ValueFacts DEF Base, Frame
  <2>2. frames' = <<>> \/ (DOMAIN frames' = {1} /\ frames'[1] = Base)
    BY <1>1, <1>2, <1>9
  <2>3. DOMAIN <<>> = {}
    OBVIOUS
  <2> QED
    BY <2>1, <2>2, <2>3 DEF GoneKnown
<1> QED
  BY <1>7, <1>8, <1>10, <1>11, <1>12, <1>13 DEF RInv

LEMMA DiscardFaultKeeps ==
  ASSUME RInv, UNCHANGED parse, UNCHANGED tag, DiscardFault
  PROVE  RInv'
<1>1. /\ Idle /\ FreeFault # "none" /\ fault' = FreeFault
      /\ UNCHANGED <<object, size, flag, iter, frames, out, buf, runs, causes, shown>>
  BY DEF DiscardFault
<1>2. /\ frames = <<>> /\ fault = "none" /\ ~Parsing
      /\ tree = "freed" => "missing" \in causes
      /\ root = Garbage => doc = <<>> \/ doc[1] = "error"
  BY <1>1, IdleFacts
<1>3. \/ fault' = "double free" /\ tree = "freed"
      \/ fault' = "root" /\ root = Garbage
  BY <1>1 DEF FreeFault
<1> QED
  BY <1>1, <1>2, <1>3, FaultKeeps

(* Between the calls the tree may be freed, or the object destroyed.       *)
LEMMA TreeGone ==
  ASSUME RInv, UNCHANGED parse, UNCHANGED tag, FileMissing \/ Destroy
  PROVE  RInv'
<1>1. /\ Idle /\ fault' = fault
      /\ UNCHANGED <<size, flag, iter, frames, out, buf, runs, parses, shown>>
      /\ tree' \in {"held", "freed", "gone"} /\ causes' \in {causes, causes \cup {"missing"}}
      /\ tree' = "freed" => tree = "freed" \/ "missing" \in causes'
  BY DEF FileMissing, Destroy, Discards, RInv, RunTyped
<1>2. /\ frames = <<>> /\ fault = "none" /\ ~Parsing
      /\ causes \cap {"nested", "replaced"} = {}
      /\ tree = "freed" => "missing" \in causes
      /\ root = Garbage => doc = <<>> \/ doc[1] = "error"
  BY <1>1, IdleFacts
<1>3. /\ Nodes' = Nodes /\ FrameSet' = FrameSet /\ TagsOf(doc)' = TagsOf(doc)
      /\ UNCHANGED <<doc, pos, sp, st, root, outcome>>
  BY DEF parse, Nodes, FrameSet, Values, TagsOf
<1>4. RunTyped'
  BY <1>1, <1>3 DEF RInv, RunTyped
<1>5. StartRight' /\ IterRight' /\ CallsRight'
  BY <1>1, <1>3 DEF RInv, StartRight, IterRight, CallsRight, Parsing, HasTree
<1>6. causes' \cap {"nested", "replaced"} = {}
  BY <1>1, <1>2
<1>7. BufferRight' /\ TreeKnown'
  BY <1>1, <1>2, <1>6 DEF BufferRight, TreeKnown
<1>8. FaultsExplained'
  BY <1>1, <1>2, <1>3, <1>6 DEF FaultsExplained
<1>9. GoneKnown'
  <2>1. "changed" \in causes => "changed" \in causes'
    BY <1>1
  <2> QED
    BY <2>1, <1>1 DEF RInv, GoneKnown
<1> QED
  BY <1>4, <1>5, <1>7, <1>8, <1>9 DEF RInv

(* A tree that is read after it was freed.                                 *)
LEMMA UseFreedKeeps ==
  ASSUME RInv, UNCHANGED parse, UNCHANGED tag, UseFreed
  PROVE  RInv'
<1>1. /\ frames # <<>> /\ fault = "none" /\ tree = "freed" /\ fault' = "freed"
      /\ UNCHANGED <<object, size, flag, iter, frames, out, buf, runs, causes, shown>>
  BY DEF UseFreed
<1>2. ~Parsing /\ causes \cap {"missing", "replaced"} # {}
  BY <1>1 DEF RInv, CallsRight, TreeKnown
<1> QED
  BY <1>1, <1>2, FaultKeeps

LEMMA ShowEmptyKeeps ==
  ASSUME RInv, UNCHANGED parse, UNCHANGED tag, ShowEmpty
  PROVE  RInv'
<1>1. /\ AtNode /\ fault' = "uninitialised" /\ size = 0 /\ tag[Top.node].op = "show"
      /\ UNCHANGED <<object, size, flag, iter, frames, out, buf, runs, causes, shown>>
  BY DEF ShowEmpty, Visit
<1>2. fault = "none" /\ ~Parsing
  BY <1>1 DEF AtNode, RInv, CallsRight
<1>3. doc[Top.node] = "subst"
  <2>1. Top.node \in Nodes /\ tag \in TagsOf(doc)
    BY <1>1, AtNodeFacts DEF RInv, RunTyped
  <2>2. "show" \in Ops(doc[Top.node])
    BY <1>1, <2>1 DEF TagsOf, Nodes
  <2> QED
    BY <2>2 DEF Ops
<1> QED
  BY <1>1, <1>2, <1>3, FaultKeeps

(* A method that returns, runs the template again, or parses another.      *)
LEMMA MethodKeeps ==
  ASSUME TypeOK, RInv, UNCHANGED parse, UNCHANGED tag,
         NEW does \in {"returns", "run", "parse"}, Method(does)
  PROVE  RInv'
<1> DEFINE after == [frames EXCEPT ![Len(frames)].called = TRUE]
<1>1. /\ AtNode /\ UNCHANGED <<size, flag, parses, iter, fault, shown>>
      /\ \/ frames' = after /\ UNCHANGED <<tree, out, buf, runs, causes>>
         \/ /\ runs < MaxRuns /\ runs' = runs + 1 /\ frames' = Append(after, Base)
            /\ out' = <<>> /\ buf' = "live" /\ causes' = causes \cup {"nested"}
            /\ UNCHANGED tree
         \/ /\ frames' = after /\ tree' = "freed" /\ causes' = causes \cup {"replaced"}
            /\ UNCHANGED <<out, buf, runs>>
  <2>1. AtNode /\ UNCHANGED <<size, flag, parses, iter, fault, shown>>
    BY DEF Method, InMethod
  <2>2. CASE does = "returns"
    BY <2>1, <2>2 DEF Method
  <2>3. CASE does = "run"
    BY <2>1, <2>3 DEF Method
  <2>4. CASE does = "parse"
    BY <2>1, <2>4 DEF Method
  <2> QED
    BY <2>2, <2>3, <2>4
<1>2. /\ RunTyped /\ frames # <<>> /\ fault = "none" /\ tree = "held" /\ Top.node # 0
      /\ frames \in Seq(FrameSet) /\ Len(frames) \in Nat \ {0} /\ DOMAIN frames = 1..Len(frames)
  BY <1>1, AtNodeFacts, TopTyped DEF RInv, RunTyped
<1>3. /\ Nodes' = Nodes /\ FrameSet' = FrameSet /\ TagsOf(doc)' = TagsOf(doc)
      /\ UNCHANGED <<doc, pos, sp, st, root, outcome>>
  BY DEF parse, Nodes, FrameSet, Values, TagsOf
<1>4. /\ after \in Seq(FrameSet) /\ Len(after) = Len(frames) /\ after # <<>>
      /\ DOMAIN after = 1..Len(frames) /\ after[Len(after)].node # 0
      /\ \A k \in 1..Len(frames) :
            /\ after[k].base = frames[k].base /\ after[k].previous = frames[k].previous
            /\ after[k].current = frames[k].current
  BY <1>2, CalledMoves, MovedFacts
<1>5. Base \in FrameSet /\ Base.base
  BY <1>2, ValueFacts DEF RInv, CallsRight, TypeOK, Base, Frame, FrameSet, HasTree
<1> HIDE DEF after
<1>6. /\ Append(after, Base) \in Seq(FrameSet) /\ Len(Append(after, Base)) = Len(frames) + 1
      /\ Append(after, Base) # <<>>
      /\ \A k \in 1..Len(frames) : Append(after, Base)[k] = after[k]
      /\ Append(after, Base)[Len(frames) + 1] = Base
  BY <1>4, <1>5
<1>7. /\ frames' \in Seq(FrameSet) /\ frames' # <<>>
      /\ Len(frames') \in Nat /\ Len(frames') >= Len(frames)
      /\ \A k \in 1..Len(frames) :
            /\ frames'[k].base = frames[k].base /\ frames'[k].previous = frames[k].previous
            /\ frames'[k].current = frames[k].current
      /\ \A k \in 1..Len(frames') : k > Len(frames) => frames'[k] = Base /\ frames'[k].base
  <2>1. CASE frames' = after
    BY <2>1, <1>2, <1>4
  <2>2. CASE frames' = Append(after, Base)
    <3>1. \A k \in 1..Len(frames) + 1 : k > Len(frames) => k = Len(frames) + 1
      BY <1>2
    <3> QED
      BY <2>2, <3>1, <1>2, <1>4, <1>5, <1>6
  <2> QED
    BY <1>1, <2>1, <2>2
<1>8. RunTyped'
  <2>1. runs' \in 0..MaxRuns
    <3>1. runs \in 0..MaxRuns /\ MaxRuns \in Nat
      BY <1>2, RunAssumption DEF RunTyped
    <3> QED
      BY <3>1, <1>1
  <2>2. out' \in Seq(Nat \X Values)
    <3>1. <<>> \in Seq(Nat \X Values)
      OBVIOUS
    <3> QED
      BY <3>1, <1>1, <1>2 DEF RunTyped
  <2>3. causes' \subseteq {"missing", "nested", "replaced", "changed"}
    BY <1>1, <1>2 DEF RunTyped
  <2> QED
    BY <2>1, <2>2, <2>3, <1>1, <1>2, <1>3, <1>7 DEF RunTyped
<1>9. StartRight' /\ IterRight'
  BY <1>1, <1>3 DEF RInv, StartRight, IterRight, Parsing
<1>10. CallsRight'
  <2>1. DOMAIN frames' = 1..Len(frames') /\ Parsing' = Parsing /\ HasTree' = HasTree
    BY <1>3, <1>7 DEF Parsing, HasTree
  <2>2. \A k \in DOMAIN frames' : frames'[k].previous = Null => frames'[k].base
    BY <2>1, <1>2, <1>7 DEF RInv, CallsRight
  <2>3. frames'[1].base /\ ~Parsing /\ (HasTree => root # Garbage)
    BY <1>2, <1>7 DEF RInv, CallsRight
  <2> QED
    BY <2>1, <2>2, <2>3, <1>3 DEF CallsRight
<1>11. BufferRight'
  <2>1. CASE frames' = after /\ buf' = buf /\ ("nested" \in causes' <=> "nested" \in causes)
    <3>1. Len(frames') = Len(frames)
      BY <2>1, <1>4
    <3>2. \A k \in 2..Len(frames) : frames'[k].base = frames[k].base
      BY <1>7
    <3> QED
      BY <3>1, <3>2, <2>1, <1>2, <1>7 DEF RInv, BufferRight
  <2>2. CASE frames' = Append(after, Base) /\ "nested" \in causes'
    <3>1. Len(frames) + 1 \in 2..Len(frames') /\ frames'[Len(frames) + 1].base
      BY <2>2, <1>2, <1>5, <1>6
    <3> QED
      BY <3>1, <2>2, <1>7 DEF BufferRight
  <2> QED
    BY <2>1, <2>2, <1>1
<1>12. TreeKnown'
  <2>1. "replaced" \notin causes
    BY <1>2 DEF RInv, TreeKnown
  <2>2. CASE frames' = after /\ tree' = "freed" /\ "replaced" \in causes'
    <3>1. Top'.node # 0
      BY <2>2, <1>4 DEF Top
    <3> QED
      BY <3>1, <2>2, <1>7 DEF TreeKnown
  <2>3. CASE tree' = tree /\ "replaced" \notin causes'
    BY <2>3, <1>2 DEF TreeKnown
  <2> QED
    BY <2>1, <2>2, <2>3, <1>1
<1>13. FaultsExplained'
  BY <1>1, <1>2, <1>3, <1>7 DEF RInv, FaultsExplained
<1>14. GoneKnown'
  <2>1. Base.current # Gone /\ Base.previous # Gone
    BY ValueFacts DEF Base, Frame
  <2>2. DOMAIN frames' = 1..Len(frames') /\ ("changed" \in causes => "changed" \in causes')
    BY <1>1, <1>7
  <2>3. ASSUME "changed" \notin causes', NEW k \in 1..Len(frames')
        PROVE  frames'[k].current # Gone /\ frames'[k].previous # Gone
    BY <2>1, <2>2, <2>3, <1>2, <1>7 DEF RInv, GoneKnown
  <2> QED
    BY <2>2, <2>3 DEF GoneKnown
<1> QED
  BY <1>8, <1>9, <1>10, <1>11, <1>12, <1>13, <1>14 DEF RInv

(* A pointer stays a value, and null.                                      *)
LEMMA LeftTyped ==
  ASSUME NEW v \in Values, NEW n
  PROVE  Left(v, n) \in Values /\ (Left(v, n) = Null <=> v = Null)
<1>1. Null \notin Items
  BY ValueFacts DEF Items
<1> QED
  BY <1>1, ValueFacts DEF Left

(* A method that changes the script's object.                              *)
LEMMA MethodChangesKeeps ==
  ASSUME TypeOK, RInv, UNCHANGED parse, UNCHANGED tag, NEW n \in Sizes, NEW b \in BOOLEAN,
         MethodChanges(n, b)
  PROVE  RInv'
<1>1. /\ AtNode /\ size' = n /\ flag' = b /\ causes' = causes \cup {"changed"}
      /\ UNCHANGED <<tree, parses, iter, fault, shown, out, buf, runs>>
  BY DEF MethodChanges, InMethod
<1>2. /\ RunTyped /\ frames # <<>> /\ fault = "none" /\ tree = "held"
      /\ frames \in Seq(FrameSet) /\ Len(frames) \in Nat \ {0} /\ DOMAIN frames = 1..Len(frames)
  BY <1>1, AtNodeFacts, TopTyped DEF RInv, RunTyped
<1>3. /\ Nodes' = Nodes /\ FrameSet' = FrameSet /\ TagsOf(doc)' = TagsOf(doc)
      /\ UNCHANGED <<doc, pos, sp, st, root, outcome>>
  BY DEF parse, Nodes, FrameSet, Values, TagsOf
<1> DEFINE G(k) == [frames[k] EXCEPT !.current = Left(frames[k].current, n),
                                     !.previous = Left(frames[k].previous, n),
                                     !.called = frames[k].called \/ k = Len(frames)]
<1>4. ASSUME NEW k \in 1..Len(frames)
      PROVE  /\ G(k) \in FrameSet /\ G(k).base = frames[k].base
             /\ G(k).previous = Null => frames[k].previous = Null
  <2> DEFINE c == frames[k].called \/ k = Len(frames)
             f == frames[k]
             u == Left(frames[k].current, n)
             v == Left(frames[k].previous, n)
  <2>1. f \in FrameSet /\ c \in BOOLEAN
    BY <1>2
  <2>2. /\ u \in Values \ {Null} /\ v \in Values
        /\ v = Null => f.previous = Null
    BY <2>1, LeftTyped DEF FrameSet
  <2>3. G(k) = [f EXCEPT !.current = u, !.previous = v, !.called = c]
    OBVIOUS
  <2> HIDE DEF c, f, u, v, G
  <2>4. /\ G(k) \in FrameSet /\ G(k).base = f.base /\ G(k).previous = v
    BY <2>1, <2>2, <2>3 DEF FrameSet
  <2> QED
    BY <2>2, <2>4 DEF f
<1>5. frames' = [k \in 1..Len(frames) |-> G(k)]
  BY <1>2 DEF MethodChanges
<1> HIDE DEF G
<1>6. /\ frames' \in Seq(FrameSet) /\ Len(frames') = Len(frames) /\ frames' # <<>>
      /\ DOMAIN frames' = 1..Len(frames)
      /\ \A k \in 1..Len(frames) :
            /\ frames'[k].base = frames[k].base
            /\ frames'[k].previous = Null => frames[k].previous = Null
  <2>1. frames' \in [1..Len(frames) -> FrameSet] /\ \A k \in 1..Len(frames) : frames'[k] = G(k)
    BY <1>4, <1>5
  <2> HIDE DEF FrameSet
  <2>2. frames' \in Seq(FrameSet) /\ Len(frames') = Len(frames) /\ frames' # <<>>
    BY <2>1, <1>2
  <2> QED
    BY <2>1, <2>2, <1>4
<1>7. RunTyped'
  BY <1>1, <1>2, <1>3, <1>6 DEF RunTyped
<1>8. StartRight' /\ IterRight'
  BY <1>1, <1>3 DEF RInv, StartRight, IterRight, Parsing
<1>9. CallsRight'
  <2>1. Parsing' = Parsing /\ HasTree' = HasTree /\ 1 \in 1..Len(frames)
    BY <1>2, <1>3 DEF Parsing, HasTree
  <2> QED
    BY <2>1, <1>1, <1>2, <1>3, <1>6 DEF RInv, CallsRight
<1>10. BufferRight'
  <2>1. "nested" \in causes' <=> "nested" \in causes
    BY <1>1
  <2>2. \A k \in 2..Len(frames) : frames'[k].base = frames[k].base
    BY <1>2, <1>6
  <2> QED
    BY <2>1, <2>2, <1>1, <1>2, <1>6 DEF RInv, BufferRight
<1>11. TreeKnown'
  <2>1. "replaced" \notin causes'
    BY <1>1, <1>2 DEF RInv, TreeKnown
  <2> QED
    BY <2>1, <1>1, <1>2 DEF TreeKnown
<1>12. FaultsExplained' /\ GoneKnown'
  BY <1>1, <1>2, <1>3, <1>6 DEF RInv, FaultsExplained, GoneKnown
<1> QED
  BY <1>7, <1>8, <1>9, <1>10, <1>11, <1>12 DEF RInv

(* The end of a call of tag_run.                                           *)
LEMMA ReturnKeeps ==
  ASSUME RInv, UNCHANGED parse, UNCHANGED tag, Return
  PROVE  RInv'
<1>1. /\ frames # <<>> /\ fault = "none" /\ Top.node = 0
      /\ frames' = SubSeq(frames, 1, Len(frames) - 1)
      /\ \/ Top.base /\ buf = "live" /\ buf' = "freed" /\ fault' = "none"
         \/ Top.base /\ buf # "live" /\ buf' = buf /\ fault' = "buffer"
         \/ ~Top.base /\ buf' = buf /\ fault' = "none"
      /\ UNCHANGED <<object, size, flag, iter, out, runs, causes, shown>>
  BY DEF Return
<1>2. /\ RunTyped /\ Len(frames) \in Nat \ {0} /\ DOMAIN frames = 1..Len(frames)
      /\ frames' \in Seq(FrameSet) /\ Len(frames') = Len(frames) - 1
      /\ DOMAIN frames' = 1..Len(frames')
      /\ \A k \in DOMAIN frames' : k \in DOMAIN frames /\ frames'[k] = frames[k]
  BY <1>1, TopTyped, PoppedFacts DEF RInv
<1>3. /\ Nodes' = Nodes /\ FrameSet' = FrameSet /\ TagsOf(doc)' = TagsOf(doc)
      /\ UNCHANGED <<doc, pos, sp, st, root, outcome>>
  BY DEF parse, Nodes, FrameSet, Values, TagsOf
<1>4. RunTyped'
  BY <1>1, <1>2, <1>3 DEF RunTyped, object
<1>5. StartRight' /\ IterRight'
  BY <1>1, <1>3 DEF RInv, StartRight, IterRight, Parsing
<1>6. frames' # <<>> => Len(frames') >= 1 /\ 1 \in DOMAIN frames'
  BY <1>2
<1>7. CallsRight'
  <2>1. Parsing' = Parsing /\ HasTree' = HasTree /\ ~Parsing
    BY <1>1, <1>3 DEF Parsing, HasTree, RInv, CallsRight
  <2> QED
    BY <2>1, <1>1, <1>2, <1>3, <1>6 DEF RInv, CallsRight
<1>8. BufferRight' /\ ("nested" \in causes => frames' # <<>> \/ fault' # "none")
  <2>1. CASE fault' # "none"
    BY <2>1 DEF BufferRight
  <2>2. CASE Top.base /\ buf = "live" /\ buf' = "freed"
    <3>1. CASE "nested" \in causes
      <4>1. PICK k \in 2..Len(frames) : frames[k].base
        BY <2>2, <3>1, <1>1 DEF RInv, BufferRight
      <4>2. frames' # <<>>
        BY <4>1, <1>2
      <4> QED
        BY <4>2, <2>2, <3>1, <1>1 DEF BufferRight
    <3>2. CASE "nested" \notin causes
      <4>1. Len(frames) = 1
        BY <2>2, <3>2, <1>1, <1>2 DEF RInv, BufferRight, Top
      <4>2. frames' = <<>>
        BY <4>1, <1>2
      <4> QED
        BY <4>2, <3>2, <1>1 DEF BufferRight
    <3> QED
      BY <3>1, <3>2
  <2>3. CASE ~Top.base /\ buf' = buf /\ fault' = "none"
    <3>1. frames[1].base /\ ~frames[Len(frames)].base
      BY <2>3, <1>1 DEF RInv, CallsRight, Top
    <3>2. Len(frames) # 1
      BY <3>1
    <3>3. frames' # <<>>
      BY <3>2, <1>2
    <3>4. ASSUME NEW k \in 2..Len(frames), frames[k].base
          PROVE  k \in 2..Len(frames') /\ frames'[k].base
      <4>1. k # Len(frames)
        BY <3>1, <3>4
      <4>2. k \in 2..Len(frames')
        <5>1. Len(frames) \in Nat /\ Len(frames') = Len(frames) - 1
          BY <1>2
        <5> QED
          BY <5>1, <4>1
      <4>3. k \in DOMAIN frames'
        BY <4>2, <1>2
      <4> QED
        BY <4>2, <4>3, <3>4, <1>2
    <3>5. CASE "nested" \in causes
      BY <3>3, <3>4, <3>5, <2>3, <1>1 DEF RInv, BufferRight
    <3>6. CASE "nested" \notin causes
      <4>1. buf = "live" /\ \A k \in 2..Len(frames) : ~frames[k].base
        BY <3>6, <1>1 DEF RInv, BufferRight
      <4>2. \A k \in 2..Len(frames') : ~frames'[k].base
        BY <4>1, <1>2
      <4> QED
        BY <4>1, <4>2, <3>6, <2>3, <1>1 DEF BufferRight
    <3> QED
      BY <3>5, <3>6, <3>3
  <2> QED
    BY <2>1, <2>2, <2>3, <1>1
<1>9. "replaced" \notin causes
  BY <1>1 DEF RInv, TreeKnown
<1>10. TreeKnown'
  BY <1>1, <1>9 DEF RInv, TreeKnown, object
<1>11. FaultsExplained'
  <2>1. buf # "live" => "nested" \in causes
    BY <1>1 DEF RInv, BufferRight
  <2>2. outcome = "failed" /\ root = Garbage => doc = <<>> \/ doc[1] = "error"
    BY DEF RInv, FaultsExplained
  <2> QED
    BY <2>1, <2>2, <1>1, <1>3, <1>8, <1>9 DEF FaultsExplained
<1>12. GoneKnown'
  BY <1>1, <1>2 DEF RInv, GoneKnown
<1> QED
  BY <1>4, <1>5, <1>7, <1>8, <1>10, <1>11, <1>12 DEF RInv

-----------------------------------------------------------------------------
(* The first piece of a template becomes the root.                         *)
LEMMA StartKept ==
  ASSUME IInv, StartRight, ParseNext
  PROVE  StartRight'
<1>1. /\ pos \in Nat /\ sp \in Int /\ (Parsing => sp >= 0)
      /\ st \in [0..StackSize - 1 -> Nodes \cup {0}]
      /\ root \in Nodes \cup {Garbage} /\ 0 \notin Nodes /\ Garbage \notin Nodes
  BY DEF IInv, Typed, TypeOK, Nodes, Garbage
<1>2. ASSUME NEW node \in Nodes, NEW kind \in Kinds, Read(node, kind)
      PROVE  pos' = node /\ pos' > 0 /\ pos' = pos + 1 /\ doc' = doc /\ doc[node] = kind /\ Parsing
  BY <1>2 DEF Read, Nodes
<1>3. ASSUME NEW node \in Nodes, NEW kind \in Kinds, kind # "unclosed",
             Read(node, kind), Place(node, kind)
      PROVE  StartRight'
  <2>1. root' = IF sp = 0 /\ st[0] = 0 THEN node ELSE root
    BY <1>3 DEF Place
  <2>2. root' # Garbage \/ doc[1] \in {"error", "unclosed"}
    BY <2>1, <1>1, <1>2, <1>3 DEF StartRight
  <2>3. pos > 0 => doc[1] # "unclosed"
    BY <1>2, <1>3 DEF StartRight, Parsing
  <2>4. doc[1] # "unclosed"
    BY <2>3, <1>1, <1>2, <1>3
  <2> QED
    BY <2>2, <2>4, <1>2, <1>3 DEF StartRight
<1>4. ASSUME NEW node \in Nodes, NEW kind \in Kinds, Read(node, kind), root' = root,
             pos = 0 => kind \in {"error", "unclosed"},
             kind = "unclosed" => outcome' = "beyond"
      PROVE  StartRight'
  <2>1. pos > 0 => (root # Garbage \/ doc[1] \in {"error", "unclosed"})
    BY DEF StartRight
  <2>2. pos = 0 => doc[1] \in {"error", "unclosed"}
    BY <1>2, <1>4
  <2>3. doc[1] = "unclosed" => outcome' = "beyond"
    <3>1. CASE pos = 0
      BY <3>1, <1>2, <1>4
    <3>2. CASE pos # 0
      BY <3>2, <1>1, <1>2, <1>4 DEF StartRight, Parsing
    <3> QED
      BY <3>1, <3>2
  <2> QED
    BY <2>1, <2>2, <2>3, <1>1, <1>2, <1>4 DEF StartRight
<1>5. ASSUME NEW node \in Nodes, Open(node) \/ Odd(node) \/ End(node) PROVE StartRight'
  <2>1. {"open", "odd", "end"} \subseteq Kinds
    BY DEF Kinds
  <2> QED
    BY <2>1, <1>3, <1>5 DEF Open, Odd, End
<1>6. ASSUME NEW node \in Nodes, NEW kind \in Linked, Leaf(node, kind) PROVE StartRight'
  <2>1. kind \in Kinds /\ kind # "unclosed"
    BY DEF Kinds, Linked
  <2> QED
    BY <2>1, <1>3, <1>6 DEF Leaf
<1>7. ASSUME NEW node \in Nodes, Error(node) PROVE StartRight'
  <2>1. "error" \in Kinds
    BY DEF Kinds
  <2> QED
    BY <2>1, <1>4, <1>7 DEF Error
<1>8. ASSUME NEW node \in Nodes, NEW kind \in Linked, Overflow(node, kind) PROVE StartRight'
  <2>1. kind \in Kinds /\ kind # "unclosed" /\ pos # 0
    BY <1>8, StackAssumption DEF Kinds, Linked, Overflow, StartRight
  <2> QED
    BY <2>1, <1>4, <1>8 DEF Overflow
<1>9. CASE Finish
  <2>1. pos > 0 \/ doc = <<>>
    BY <1>1, <1>9 DEF Finish, IInv, Typed, TypeOK
  <2> QED
    BY <2>1, <1>9 DEF Finish, StartRight, Parsing
<1>10. ASSUME NEW node \in Nodes, Unclosed(node) PROVE StartRight'
  <2>1. "unclosed" \in Kinds
    BY DEF Kinds
  <2> QED
    BY <2>1, <1>4, <1>10 DEF Unclosed
<1> QED
  BY <1>5, <1>6, <1>7, <1>8, <1>9, <1>10 DEF ParseNext

(* Reading a template keeps the invariant: no run is under way.            *)
LEMMA ParseKeeps ==
  ASSUME IInv, RInv, ParseNext, UNCHANGED render, UNCHANGED object, UNCHANGED tag
  PROVE  RInv'
<1>1. Parsing /\ doc' = doc
  BY DEF ParseNext, Open, Odd, End, Error, Unclosed, Leaf, Overflow, Finish, Read
<1>2. frames = <<>> /\ fault = "none"
  BY <1>1 DEF RInv, CallsRight
<1>3. /\ UNCHANGED <<size, flag, iter, frames, out, buf, runs, fault, causes, shown, tree, parses>>
      /\ Nodes' = Nodes /\ FrameSet' = FrameSet /\ TagsOf(doc)' = TagsOf(doc)
  BY <1>1 DEF render, object, Nodes, FrameSet, Values, TagsOf
<1>4. RunTyped'
  BY <1>3 DEF RInv, RunTyped
<1>5. StartRight'
  BY StartKept DEF RInv
<1>6. CallsRight' /\ IterRight' /\ BufferRight'
  BY <1>2, <1>3 DEF RInv, CallsRight, IterRight, BufferRight
<1>7. TreeKnown' /\ GoneKnown'
  BY <1>2, <1>3 DEF RInv, TreeKnown, GoneKnown
<1>8. FaultsExplained'
  <2>1. outcome' = "failed" /\ root' = Garbage => doc' = <<>> \/ doc'[1] = "error"
    <3>1. outcome' = "failed" => ~Parsing' /\ outcome' # "beyond"
      BY DEF Parsing
    <3> QED
      BY <1>5, <3>1 DEF StartRight
  <2>2. causes \cap {"nested", "replaced"} = {}
    BY <1>2 DEF RInv, FaultsExplained
  <2> QED
    BY <2>1, <2>2, <1>2, <1>3 DEF FaultsExplained
<1> QED
  BY <1>4, <1>5, <1>6, <1>7, <1>8 DEF RInv

(* So does a new template.                                                 *)
Started == doc \in Seq(Kinds) /\ InitFor(doc)

LEMMA ReparseKeeps ==
  ASSUME RInv, NEW t \in Later, Reparse(t)
  PROVE  RInv' /\ Started'
<1>1. /\ Idle /\ fault' = fault /\ parses < MaxParses /\ parses' = parses + 1
      /\ tree' = "held" /\ tag' = t.tags /\ doc' = t.doc /\ pos' = 0
      /\ child' = [n \in 1..Len(t.doc) |-> 0] /\ next' = child' /\ iter' = child'
      /\ st' = [k \in 0..StackSize - 1 |-> 0] /\ sp' = 0 /\ root' = Garbage /\ current' = 0
      /\ state' = "none" /\ outcome' = "parsing" /\ depth' = [i \in {1} |-> 0]
      /\ runs' = 0 /\ out' = <<>>
      /\ shown' = [n \in 1..Len(t.doc) |-> [item |-> -1, size |-> 0]]
      /\ UNCHANGED <<size, flag, frames, buf, causes>>
  BY DEF Reparse, Discards
<1>2. frames = <<>> /\ fault = "none" /\ causes \cap {"nested", "replaced"} = {}
  BY <1>1, IdleFacts
<1>3. t.doc \in Seq(Kinds) /\ t.tags \in TagsOf(t.doc)
  BY LaterAssumption
<1>4. Started'
  BY <1>1, <1>3 DEF Started, InitFor
<1>5. Nodes' = 1..Len(t.doc) /\ TagsOf(doc)' = TagsOf(t.doc)
  BY <1>1 DEF Nodes, TagsOf
<1>6. RunTyped'
  <2>1. parses' \in 1..MaxParses /\ runs' \in 0..MaxRuns
    <3>1. parses \in 1..MaxParses /\ MaxParses \in Nat /\ MaxRuns \in Nat
      BY RunAssumption DEF RInv, RunTyped
    <3> QED
      BY <3>1, <1>1
  <2>2. frames' \in Seq(FrameSet') /\ out' \in Seq(Nat \X Values')
    <3>1. \A S : <<>> \in Seq(S)
      OBVIOUS
    <3> QED
      BY <3>1, <1>1, <1>2
  <2>3. iter' \in [Nodes' -> -ShortMax - 1..ShortMax]
    BY <1>1, <1>5, RunAssumption
  <2>4. shown' \in [Nodes' -> [item : -1..ShortMax, size : Nat]]
    <3>1. [item |-> -1, size |-> 0] \in [item : -1..ShortMax, size : Nat]
      BY RunAssumption
    <3> QED
      BY <3>1, <1>1, <1>5
  <2> QED
    BY <2>1, <2>2, <2>3, <2>4, <1>1, <1>3, <1>5 DEF RInv, RunTyped
<1>7. StartRight' /\ CallsRight'
  BY <1>1, <1>2, StackAssumption DEF StartRight, CallsRight, Parsing
<1>8. IterRight'
  <2>1. Wrap(0) = 0
    BY RunAssumption DEF Wrap
  <2>2. \A n \in Nodes' : iter'[n] = 0 /\ shown'[n].item = -1
    BY <1>1, <1>5
  <2> QED
    BY <2>1, <2>2 DEF IterRight
<1>9. BufferRight' /\ TreeKnown' /\ FaultsExplained' /\ GoneKnown'
  BY <1>1, <1>2 DEF RInv, BufferRight, TreeKnown, FaultsExplained, GoneKnown
<1> QED
  BY <1>4, <1>6, <1>7, <1>8, <1>9 DEF RInv

LEMMA RunInvInit ==
  ASSUME doc \in Seq(Kinds), tag \in TagsOf(doc), RunInit(doc, tag)
  PROVE  RInv /\ Started
<1>1. /\ InitFor(doc) /\ size = 0 /\ flag = FALSE
      /\ iter = [n \in 1..Len(doc) |-> 0]
      /\ frames = <<>> /\ out = <<>> /\ buf = "none" /\ tree = "held"
      /\ runs = 0 /\ parses = 1 /\ fault = "none" /\ causes = {}
      /\ shown = [n \in 1..Len(doc) |-> [item |-> -1, size |-> 0]]
  BY DEF RunInit
<1>2. RunTyped
  <2>1. parses \in 1..MaxParses /\ runs \in 0..MaxRuns
    BY <1>1, RunAssumption
  <2>2. frames \in Seq(FrameSet) /\ out \in Seq(Nat \X Values)
    <3>1. \A S : <<>> \in Seq(S)
      OBVIOUS
    <3> QED
      BY <3>1, <1>1
  <2>3. iter \in [Nodes -> -ShortMax - 1..ShortMax]
    BY <1>1, RunAssumption DEF Nodes
  <2>4. shown \in [Nodes -> [item : -1..ShortMax, size : Nat]]
    <3>1. [item |-> -1, size |-> 0] \in [item : -1..ShortMax, size : Nat]
      BY RunAssumption
    <3> QED
      BY <3>1, <1>1 DEF Nodes
  <2>5. size \in Sizes /\ flag \in BOOLEAN
    BY <1>1, RunAssumption
  <2> QED
    BY <2>1, <2>2, <2>3, <2>4, <2>5, <1>1 DEF RunTyped
<1>3. StartRight /\ CallsRight
  BY <1>1, StackAssumption DEF InitFor, StartRight, CallsRight, Parsing
<1>4. IterRight
  <2>1. Wrap(0) = 0
    BY RunAssumption DEF Wrap
  <2>2. \A n \in Nodes : iter[n] = 0 /\ shown[n].item = -1
    BY <1>1 DEF Nodes
  <2> QED
    BY <2>1, <2>2 DEF IterRight
<1>5. BufferRight /\ TreeKnown /\ FaultsExplained /\ GoneKnown
  <2>1. DOMAIN <<>> = {}
    OBVIOUS
  <2> QED
    BY <2>1, <1>1 DEF InitFor, BufferRight, TreeKnown, FaultsExplained, GoneKnown
<1> QED
  BY <1>1, <1>2, <1>3, <1>4, <1>5 DEF RInv, Started

-----------------------------------------------------------------------------
(* Reading and parsing again keep the invariant of the tree.               *)
LEMMA StartedInv == Started => IInv /\ NInv
<1>1. Started => IInv
  BY InvInit DEF Started
<1>2. Started => NInv
  BY StackAssumption DEF Started, InitFor, NInv, RootRight, AllRendered
<1> QED
  BY <1>1, <1>2

(* Every step but a new template is one of tag_parse, or none to it.       *)
LEMMA RunParses ==
  ASSUME [RunNext]_rvars
  PROVE  [ParseNext]_parse \/ \E t \in Later : Reparse(t)
  BY DEF RunNext, rvars

(* Every step keeps the invariant of the runs.                             *)
LEMMA RInvStep ==
  ASSUME IInv, RInv, [RunNext]_rvars
  PROVE  RInv'
<1>1. TypeOK
  BY DEF IInv, Typed
<1>2. CASE ParseNext /\ UNCHANGED render /\ UNCHANGED object /\ UNCHANGED tag
  BY <1>2, ParseKeeps
<1>3. ASSUME NEW t \in Later, Reparse(t) PROVE RInv'
  BY <1>3, ReparseKeeps
<1>4. ASSUME UNCHANGED parse, UNCHANGED tag,
             \/ \E n \in Sizes, b \in BOOLEAN : Run(n, b)
             \/ \E op \in {"if", "unless", "loop", "show"} : NameFault(op)
             \/ \E does \in {"returns", "run", "parse"} : Method(does)
             \/ \E n \in Sizes, b \in BOOLEAN : MethodChanges(n, b)
             \/ DiscardFault \/ FileMissing \/ Destroy \/ UseFreed
             \/ ShowEmpty \/ Return \/ Walks
      PROVE  RInv'
  <2>1. ASSUME NEW n \in Sizes, NEW b \in BOOLEAN, Run(n, b) PROVE RInv'
    BY <2>1, <1>1, <1>4, RunKeeps
  <2>2. ASSUME NEW op, NameFault(op) PROVE RInv'
    BY <2>2, <1>4, NameFaultKeeps
  <2>3. ASSUME NEW does \in {"returns", "run", "parse"}, Method(does) PROVE RInv'
    BY <2>3, <1>1, <1>4, MethodKeeps
  <2>4. CASE DiscardFault
    BY <2>4, <1>4, DiscardFaultKeeps
  <2>5. CASE FileMissing \/ Destroy
    BY <2>5, <1>4, TreeGone
  <2>6. CASE UseFreed
    BY <2>6, <1>4, UseFreedKeeps
  <2>7. CASE ShowEmpty
    BY <2>7, <1>4, ShowEmptyKeeps
  <2>8. CASE Return
    BY <2>8, <1>4, ReturnKeeps
  <2>9. CASE Walks
    BY <2>9, <1>1, <1>4, WalkKeeps
  <2>10. ASSUME NEW n \in Sizes, NEW b \in BOOLEAN, MethodChanges(n, b) PROVE RInv'
    BY <2>10, <1>1, <1>4, MethodChangesKeeps
  <2> QED
    BY <1>4, <2>1, <2>2, <2>3, <2>4, <2>5, <2>6, <2>7, <2>8, <2>9, <2>10
<1>5. CASE UNCHANGED rvars
  <2>1. /\ UNCHANGED <<doc, pos, sp, st, root, outcome, tag, tree, parses>>
        /\ UNCHANGED <<size, flag, iter, frames, out, buf, runs, fault, causes, shown>>
    BY <1>5 DEF rvars, parse, object, render
  <2>2. Nodes' = Nodes /\ FrameSet' = FrameSet /\ TagsOf(doc)' = TagsOf(doc) /\ Values' = Values
    BY <2>1 DEF Nodes, FrameSet, Values, TagsOf
  <2>3. RunTyped'
    BY <2>1, <2>2 DEF RInv, RunTyped
  <2>6. StartRight'
    BY <2>1 DEF RInv, StartRight, Parsing
  <2>7. CallsRight'
    BY <2>1 DEF RInv, CallsRight, Parsing, HasTree
  <2>4. IterRight' /\ BufferRight' /\ TreeKnown' /\ GoneKnown'
    BY <2>1, <2>2 DEF RInv, IterRight, BufferRight, TreeKnown, GoneKnown, Top
  <2>5. FaultsExplained'
    BY <2>1 DEF RInv, FaultsExplained, Top
  <2> QED
    BY <2>3, <2>4, <2>5, <2>6, <2>7 DEF RInv
<1> QED
  BY <1>2, <1>3, <1>4, <1>5 DEF RunNext, Walks

(* The invariant of the tree and that of the runs hold of every run.       *)
THEOREM RunInductive == RunSpec => [](IInv /\ NInv /\ RInv)
<1>1. doc \in Seq(Kinds) /\ tag \in TagsOf(doc) /\ RunInit(doc, tag) => RInv /\ Started
  BY RunInvInit
<1>2. Started => IInv /\ NInv
  BY StartedInv
<1>3. (Started => IInv /\ NInv)'
  BY <1>2, PTL
<1>4. IInv /\ NInv /\ RInv /\ [RunNext]_rvars => (IInv /\ NInv /\ RInv)'
  <2>1. SUFFICES ASSUME IInv, NInv, RInv, [RunNext]_rvars PROVE (IInv /\ NInv /\ RInv)'
    OBVIOUS
  <2>2. RInv'
    BY <2>1, RInvStep
  <2>3. CASE [ParseNext]_parse
    BY <2>1, <2>2, <2>3, InvStep, RenderedInv
  <2>4. CASE \E t \in Later : Reparse(t)
    BY <2>1, <2>2, <2>4, <1>3, ReparseKeeps
  <2> QED
    BY <2>1, <2>3, <2>4, RunParses
<1> QED
  BY <1>1, <1>2, <1>4, PTL DEF RunSpec, rvars

(* Whatever is parsed, however the script's array changes and whatever its *)
(* methods do with the template, the variables keep their types.           *)
THEOREM RunTypeCorrect == RunSpec => []TypeOKRun
<1>1. IInv /\ RInv => TypeOKRun
  <2>1. SUFFICES ASSUME IInv, RInv PROVE TypeOKRun
    OBVIOUS
  <2>2. ASSUME NEW k \in DOMAIN frames
        PROVE  /\ frames[k].node \in Nodes \cup {0}
               /\ {frames[k].current, frames[k].previous} \subseteq Values
               /\ frames[k].i \in Nat
    <3>1. frames \in Seq(FrameSet)
      BY <2>1 DEF RInv, RunTyped
    <3>2. frames[k] \in FrameSet
      BY <3>1
    <3> QED
      BY <3>2 DEF FrameSet
  <2> QED
    BY <2>1, <2>2 DEF TypeOKRun, RInv, RunTyped, IInv, Typed
<1> QED
  BY <1>1, RunInductive, PTL

(* The tree is right for every text an object parses, one after the other. *)
THEOREM RunParseCorrect == RunSpec => [](ParseRight /\ ReportExact)
<1>1. IInv => TreeRight
  BY TreeOfInv
<1>2. NInv => NothingLost
  BY DEF NInv, AllRendered, NothingLost, Going
<1>3. IInv => ReportExact
  BY DEF IInv
<1> QED
  BY <1>1, <1>2, <1>3, RunInductive, PTL DEF ParseRight

(* An array is read out of its bounds, a name looked up in no object, root *)
(* read unassigned, a freed tree or buffer used, only where the code lets  *)
(* it: for every template, every array and every sequence of calls.        *)
THEOREM FaultsCorrect == RunSpec => []FaultsExplained
<1>1. RInv => FaultsExplained
  BY DEF RInv
<1> QED
  BY <1>1, RunInductive, PTL

(* Nothing but ShowItem adds an array to the buffer.                       *)
LEMMA ArrayShown ==
  ASSUME IInv, RInv, [RunNext]_rvars, NEW n \in Nodes, frames' # frames,
         out' = Append(out, <<n, Array>>)
  PROVE  shown'[n].item = (shown[n].item + 1) % size
<1> DEFINE e == <<n, Array>>
<1>1. out \in Seq(Nat \X Values) /\ e \in Nat \X Values /\ Null # Array
  <2>1. n \in Nat
    BY DEF Nodes
  <2> QED
    BY <2>1, ValueFacts DEF RInv, RunTyped
<1>2. /\ out' # out /\ out' # <<>>
      /\ \A g \in Nat \X Values : out' = Append(out, g) => g = e
  <2> HIDE DEF e
  <2>1. Len(out') = Len(out) + 1 /\ Len(out) \in Nat /\ out'[Len(out) + 1] = e
    BY <1>1 DEF e
  <2>2. ASSUME NEW g \in Nat \X Values PROVE Append(out, g)[Len(out) + 1] = g
    BY <1>1
  <2>3. out' # out /\ out' # <<>>
    BY <2>1
  <2> QED
    BY <2>1, <2>2, <2>3
<1>3. TypeOK /\ RunTyped /\ IterRight
  BY DEF IInv, Typed, RInv
<1>4. CASE Text
  <2>1. /\ AtNode /\ Add(<<Top.node, Null>>)
    BY <1>4 DEF Text, Visit
  <2>2. fault = "none" /\ <<Top.node, Null>> \in Nat \X Values
    BY <2>1, <1>3, AtNodeFacts, ValueFacts DEF Nodes
  <2>3. out' = Append(out, <<Top.node, Null>>)
    BY <2>1, <2>2, <1>2, <1>3, AddFacts
  <2>4. <<Top.node, Null>> = e
    BY <2>2, <2>3, <1>2
  <2> QED
    BY <2>4, <1>1
<1>5. CASE Show
  <2> DEFINE v == Expand(tag[Top.node].name, Origin(tag[Top.node], Top))
  <2>1. /\ AtNode /\ v # Array
        /\ UNCHANGED <<out, fault>> \/ Add(<<Top.node, v>>)
    BY <1>5 DEF Show, Visit, ShowsArray
  <2>2. fault = "none" /\ Top.node \in Nodes /\ Top \in FrameSet
    BY <2>1, <1>3, AtNodeFacts
  <2>3. Origin(tag[Top.node], Top) \in Values
    BY <2>2, ValueFacts DEF Origin, Used, FrameSet
  <2>4. <<Top.node, v>> \in Nat \X Values
    BY <2>2, <2>3, ExpandTyped DEF Nodes
  <2> HIDE DEF v
  <2>5. out' = Append(out, <<Top.node, v>>)
    BY <2>1, <2>2, <2>4, <1>2, <1>3, AddFacts
  <2>6. <<Top.node, v>> = e
    BY <2>4, <2>5, <1>2
  <2> QED
    BY <2>6, <2>1
<1>6. CASE ShowItem
  <2>1. AtNode /\ size > 0
    BY <1>6 DEF ShowItem, Visit
  <2>2. PICK i \in 0..size - 1 :
           /\ i = (shown[Top.node].item + 1) % size
           /\ shown' = [shown EXCEPT ![Top.node] = [item |-> i, size |-> size]]
           /\ Add(<<Top.node, Array>>)
    BY <1>2, <1>3, <1>6, ShowItemStep
  <2>3. fault = "none" /\ Top.node \in Nodes /\ <<Top.node, Array>> \in Nat \X Values
    BY <2>1, <1>3, AtNodeFacts, ValueFacts DEF Nodes
  <2>4. out' = Append(out, <<Top.node, Array>>)
    BY <2>2, <2>3, <1>2, <1>3, AddFacts
  <2>5. <<Top.node, Array>> = e
    BY <2>3, <2>4, <1>2
  <2>6. Top.node = n
    BY <2>5
  <2>7. shown \in [Nodes -> [item : -1..ShortMax, size : Nat]]
    BY <1>3 DEF RunTyped
  <2> QED
    BY <2>2, <2>3, <2>6, <2>7
<1>7. CASE (\E op \in {"if", "unless"} : Branch(op)) \/ Loop \/ Skip
  BY <1>2, <1>7 DEF Branch, Loop, Skip
<1>8. ASSUME NEW m \in Sizes, NEW b \in BOOLEAN, Run(m, b) \/ MethodChanges(m, b) PROVE FALSE
  BY <1>2, <1>8 DEF Run, MethodChanges
<1>9. ASSUME NEW does \in {"returns", "run", "parse"}, Method(does) PROVE FALSE
  <2>1. out' = out \/ out' = <<>>
    BY <1>9 DEF Method
  <2> QED
    BY <2>1, <1>2
<1>10. ASSUME NEW op, NameFault(op) PROVE FALSE
  BY <1>2, <1>10 DEF NameFault
<1>11. CASE DiscardFault \/ FileMissing \/ Destroy \/ UseFreed \/ ShowEmpty \/ Return
  BY <1>2, <1>11 DEF DiscardFault, FileMissing, Destroy, UseFreed, ShowEmpty, Return
<1>12. ASSUME NEW t \in Later, Reparse(t) PROVE FALSE
  BY <1>2, <1>12 DEF Reparse
<1>13. CASE UNCHANGED render
  BY <1>2, <1>13 DEF render
<1> QED
  BY <1>4, <1>5, <1>6, <1>7, <1>8, <1>9, <1>10, <1>11, <1>12, <1>13 DEF RunNext, rvars

(* An array's [foo] that is alone shows one item after the other, from run *)
(* to run, for every template, every length of the array, whenever it      *)
(* changes, and every size of a short.                                     *)
THEOREM WalkCorrect == RunSpec => WalksInTurn
<1>1. IInv /\ RInv /\ [RunNext]_rvars =>
        [\A n \in Nodes :
            (\A m \in Nodes : MayShow(m) => m = n)
              /\ frames' # frames /\ out' = Append(out, <<n, Array>>) =>
               shown'[n].item = (shown[n].item + 1) % size]_<<parse, tag, object, render>>
  BY ArrayShown
<1> QED
  BY <1>1, RunInductive, PTL DEF RunSpec, WalksInTurn, rvars

-----------------------------------------------------------------------------
(* What a template shows.                                                  *)

(* A balanced template without odd tags, its tree and its tags.            *)
Whole ==
    /\ IInv /\ NInv /\ outcome = "tree"
    /\ \A n \in Nodes : doc[n] \notin {"odd", "error", "unclosed"}
    /\ UpOutsideLoops
    /\ tag \in TagsOf(doc) /\ size \in Sizes /\ flag \in BOOLEAN

LEMMA WholeFacts ==
  ASSUME Whole
  PROVE  /\ Len(doc) \in Nat /\ Nodes = 1..Len(doc) /\ pos = Len(doc) /\ Nodes \subseteq Places
         /\ \A n \in Places : depth[n] \in Int /\ depth[n] >= 0
         /\ depth[Len(doc) + 1] = 0
         /\ \A n \in Nodes :
               /\ n + 1 \in Places
               /\ doc[n] \in {"open", "end", "subst", "text", "include"}
               /\ depth[n + 1] = depth[n] + Delta(doc[n])
         /\ \A n \in Nodes : n + 1 \in Nodes => LinkRight(n + 1)
         /\ ChildRight /\ NextRight
<1>1. TypeOK /\ ReportExact /\ DepthRight /\ Going
  BY DEF Whole, IInv, Typed, Going
<1>2. StackRight /\ ChildRight /\ NextRight /\ LinksRight
  BY <1>1 DEF Whole, IInv
<1>3. Len(doc) \in Nat /\ Nodes = 1..Len(doc) /\ pos = Len(doc) /\ depth[pos + 1] = 0
  BY <1>1 DEF TypeOK, Nodes, ReportExact, Whole
<1>4. Nodes \subseteq Places /\ \A n \in Nodes : n + 1 \in Places
  BY <1>3 DEF Places
<1>5. \A n \in Places : depth[n] \in Int /\ depth[n] >= 0
  BY <1>1, <1>2, <1>3 DEF TypeOK, Places, StackRight
<1>6. \A n \in Nodes : depth[n + 1] = depth[n] + Delta(doc[n])
  BY <1>1, <1>3 DEF DepthRight
<1>7. \A n \in Nodes : doc[n] \in {"open", "end", "subst", "text", "include"}
  <2>1. \A n \in Nodes : doc[n] \in Kinds
    BY <1>1 DEF TypeOK, Nodes
  <2> QED
    BY <2>1 DEF Whole, Kinds
<1>8. \A n \in Nodes : n + 1 \in Nodes => LinkRight(n + 1)
  BY <1>2, <1>3 DEF LinksRight
<1> QED
  BY <1>2, <1>3, <1>4, <1>5, <1>6, <1>7, <1>8

(* A block is closed by one ] , behind it.                                 *)
LEMMA Closed ==
  ASSUME Whole, NEW n \in Nodes, doc[n] = "open"
  PROVE  \E e \in Nodes : Closes(e, n) /\ n + 1 <= e
<1> DEFINE U == { j \in n + 1..Len(doc) + 1 : depth[j] <= depth[n] }
<1>1. /\ Len(doc) \in Nat /\ n \in 1..Len(doc) /\ Nodes = 1..Len(doc)
      /\ \A j \in Places : depth[j] \in Int /\ depth[j] >= 0
      /\ \A j \in Nodes : depth[j + 1] = depth[j] + Delta(doc[j]) /\ j \in Places
      /\ depth[Len(doc) + 1] = 0
  BY WholeFacts
<1>2. Len(doc) + 1 \in U
  BY <1>1
<1>3. PICK j \in U : \A i \in U : j <= i
  <2>1. U \subseteq Nat /\ U # {}
    BY <1>1, <1>2
  <2> HIDE DEF U
  <2> QED
    BY <2>1, LeastNat
<1>4. j \in n + 1..Len(doc) + 1 /\ depth[j] <= depth[n]
  OBVIOUS
<1>5. \A k \in n + 1..j - 1 : depth[k] > depth[n]
  <2> TAKE k \in n + 1..j - 1
  <2>1. k \in n + 1..Len(doc) + 1 /\ ~(j <= k) /\ k \in Places /\ n \in Places
    BY <1>1, <1>4 DEF Places
  <2>2. k \notin U
    <3> HIDE DEF U
    <3> QED
      BY <1>3, <2>1
  <2> QED
    BY <1>1, <2>1, <2>2
<1>6. depth[n + 1] = depth[n] + 1
  BY <1>1, DeltaFacts
<1>7. j # n + 1
  <2>1. depth[n] \in Int
    BY <1>1
  <2> QED
    BY <1>4, <1>6, <2>1
<1> DEFINE e == j - 1
<1>8. e \in n + 1..Len(doc) /\ e \in Nodes /\ e + 1 = j /\ n < e
  BY <1>1, <1>4, <1>7
<1> HIDE DEF e, U
<1>9. /\ depth[e] \in Int /\ depth[n] \in Int /\ depth[e] > depth[n]
      /\ depth[e] + Delta(doc[e]) <= depth[n]
  <2>1. depth[e] > depth[n]
    BY <1>5, <1>8
  <2>2. depth[j] = depth[e] + Delta(doc[e])
    BY <1>1, <1>8
  <2> QED
    BY <1>1, <1>4, <1>8, <2>1, <2>2
<1>10. doc[e] = "end" /\ depth[n] + 1 = depth[e]
  <2>1. doc[e] # "open"
    BY <1>9, DeltaFacts
  <2>2. doc[e] = "end"
    BY <1>9, <2>1, DeltaFacts
  <2> QED
    BY <1>9, <2>2, DeltaFacts
<1>11. \A k \in n + 1..e : depth[k] > depth[n]
  BY <1>5, <1>8
<1>12. Closes(e, n)
  BY <1>8, <1>10, <1>11 DEF Closes
<1> QED
  BY <1>1, <1>8, <1>12

(* No other ] closes it, and this one closes no other block.               *)
LEMMA ClosedByOne ==
  ASSUME Whole, NEW n \in Nodes, NEW e \in Nodes, Closes(e, n)
  PROVE  /\ \A d \in Nodes : Closes(d, n) => d = e
         /\ \A m \in Nodes : Closes(e, m) => m = n
<1>1. /\ Len(doc) \in Nat /\ Nodes = 1..Len(doc)
      /\ \A j \in Nodes : depth[j] \in Int /\ depth[j + 1] = depth[j] + Delta(doc[j])
  BY WholeFacts DEF Places
<1>2. ASSUME NEW d \in Nodes, NEW c \in Nodes, Closes(d, n), Closes(c, n), c < d PROVE FALSE
  <2>1. doc[c] = "end" /\ depth[n] + 1 = depth[c] /\ n < c
    BY <1>2 DEF Closes
  <2>2. depth[c + 1] = depth[n]
    <3>1. depth[c + 1] = depth[c] + Delta("end")
      BY <1>1, <2>1
    <3>2. depth[c] \in Int /\ depth[n] \in Int
      BY <1>1
    <3> QED
      BY <2>1, <3>1, <3>2, DeltaFacts
  <2>3. c + 1 \in n + 1..d
    BY <1>1, <1>2, <2>1
  <2>4. depth[c + 1] > depth[n]
    BY <1>2, <2>3 DEF Closes
  <2>5. depth[n] \in Int
    BY <1>1
  <2> QED
    BY <2>2, <2>4, <2>5
<1>3. ASSUME NEW k \in Nodes, NEW m \in Nodes, Closes(e, k), Closes(e, m), m < k PROVE FALSE
  <2>1. depth[m] + 1 = depth[e] /\ depth[k] + 1 = depth[e] /\ k < e
    BY <1>3 DEF Closes
  <2>2. k \in m + 1..e
    BY <1>1, <1>3, <2>1
  <2>3. depth[k] > depth[m]
    BY <1>3, <2>2 DEF Closes
  <2>4. depth[k] \in Int /\ depth[m] \in Int
    BY <1>1
  <2> QED
    BY <2>1, <2>3, <2>4
<1>4. \A d \in Nodes : Closes(d, n) => d = e
  BY <1>1, <1>2
<1>5. \A m \in Nodes : Closes(e, m) => m = n
  BY <1>1, <1>3
<1> QED
  BY <1>4, <1>5

LEMMA AfterFacts ==
  ASSUME Whole, NEW n \in Nodes
  PROVE  /\ After(n) \in Places /\ After(n) >= n + 1
         /\ doc[n] # "open" => After(n) = n + 1
         /\ doc[n] = "open" => \E e \in Nodes : Closes(e, n) /\ n + 1 <= e /\ After(n) = e + 1
<1>1. Len(doc) \in Nat /\ Nodes = 1..Len(doc)
  BY WholeFacts
<1>2. CASE doc[n] # "open"
  BY <1>1, <1>2 DEF After, Places
<1>3. CASE doc[n] = "open"
  <2>1. PICK e \in Nodes : Closes(e, n) /\ n + 1 <= e
    BY <1>3, Closed
  <2>2. \A d \in Nodes : Closes(d, n) => d = e
    BY <2>1, ClosedByOne
  <2>3. (CHOOSE d \in Nodes : Closes(d, n)) = e
    BY <2>1, <2>2
  <2>4. After(n) = 1 + e
    BY <1>3, <2>3, Zenon DEF After
  <2> QED
    BY <1>1, <1>3, <2>1, <2>4 DEF Places
<1> QED
  BY <1>2, <1>3

(* The walk goes on where the text does.                                   *)
LEMMA NextAfter ==
  ASSUME Whole, NEW n \in Nodes
  PROVE  /\ doc[n] = "open" => child[n] = n + 1 /\ n + 1 \in Nodes
         /\ doc[n] = "end" => next[n] = 0
         /\ doc[n] # "end" => next[n] = IF Ends(After(n)) THEN 0 ELSE After(n)
<1>1. /\ Len(doc) \in Nat /\ Nodes = 1..Len(doc) /\ pos = Len(doc)
      /\ \A j \in Nodes : doc[j] \in {"open", "end", "subst", "text", "include"}
      /\ \A j \in Nodes : j + 1 \in Nodes => LinkRight(j + 1)
      /\ NextRight
  BY WholeFacts
<1>2. next[n] # 0 =>
         /\ next[n] \in Nodes /\ doc[next[n]] # "end"
         /\ \/ next[n] = n + 1 /\ doc[n] \notin {"open", "end"}
            \/ \E e \in Nodes : next[n] = e + 1 /\ Closes(e, n)
  BY <1>1 DEF NextRight, Linked
<1>3. CASE doc[n] = "open"
  <2>1. PICK e \in Nodes : Closes(e, n) /\ n + 1 <= e /\ After(n) = e + 1
    BY <1>3, AfterFacts
  <2>2. n + 1 \in Nodes
    BY <1>1, <2>1
  <2>3. child[n] = n + 1
    BY <1>1, <1>3, <2>2 DEF LinkRight
  <2>4. next[n] # 0 => next[n] = e + 1 /\ ~Ends(e + 1)
    <3>1. \A d \in Nodes : Closes(d, n) => d = e
      BY <2>1, ClosedByOne
    <3> QED
      BY <1>1, <1>2, <1>3, <3>1 DEF Ends
  <2>5. ~Ends(e + 1) => next[n] = e + 1
    <3>1. SUFFICES ASSUME ~Ends(e + 1) PROVE next[n] = e + 1
      OBVIOUS
    <3>2. e + 1 \in Nodes /\ doc[e + 1] \in Linked /\ doc[e] = "end"
      BY <1>1, <2>1, <3>1 DEF Ends, Linked, Closes
    <3>3. PICK m \in 1..e - 1 : Closes(e, m) /\ next[m] = e + 1
      BY <1>1, <3>2 DEF LinkRight
    <3>4. m = n
      BY <1>1, <2>1, <3>3, ClosedByOne
    <3> QED
      BY <3>3, <3>4
  <2>6. e + 1 # 0
    BY <1>1
  <2> QED
    BY <1>3, <2>1, <2>2, <2>3, <2>4, <2>5, <2>6
<1>4. CASE doc[n] = "end"
  <2>1. ~\E e \in Nodes : Closes(e, n)
    BY <1>4 DEF Closes
  <2> QED
    BY <1>2, <1>4, <2>1
<1>5. CASE doc[n] \notin {"open", "end"}
  <2>1. After(n) = n + 1 /\ ~\E e \in Nodes : Closes(e, n)
    BY <1>5, AfterFacts DEF Closes
  <2>2. next[n] # 0 => next[n] = n + 1 /\ ~Ends(n + 1)
    BY <1>1, <1>2, <2>1 DEF Ends
  <2>3. ~Ends(n + 1) => next[n] = n + 1
    <3>1. SUFFICES ASSUME ~Ends(n + 1) PROVE next[n] = n + 1
      OBVIOUS
    <3>2. n + 1 \in Nodes /\ doc[n + 1] \in Linked
      BY <1>1, <3>1 DEF Ends, Linked
    <3> QED
      BY <1>1, <1>5, <3>2 DEF LinkRight
  <2>4. n + 1 # 0
    BY <1>1
  <2> QED
    BY <1>5, <2>1, <2>2, <2>3, <2>4
<1> QED
  BY <1>3, <1>4, <1>5


-----------------------------------------------------------------------------
(* Flattening                                                              *)
LEMMA FlattenTyped ==
  ASSUME NEW X, NEW ss \in Seq(Seq(X))
  PROVE  FlattenSeq(ss) \in Seq(X)
<1>1. PICK F : Joins(X, ss, F)
  BY JoinsExists
<1>2. F[Len(ss)] \in Seq(X)
  <2>1. Len(ss) \in 0..Len(ss)
    OBVIOUS
  <2> QED
    BY <1>1, <2>1 DEF Joins
<1> QED
  BY <1>1, <1>2, FlattenIs

LEMMA Associates ==
  ASSUME NEW X, NEW a \in Seq(X), NEW b \in Seq(X), NEW c \in Seq(X)
  PROVE  /\ (a \o b) \o c = a \o (b \o c) /\ a \o b \in Seq(X) /\ b \o c \in Seq(X)
         /\ <<>> \o a = a /\ a \o <<>> = a
<1>1. (a \o b) \o c = a \o (b \o c)
  BY ConcatAssociative
<1> QED
  BY <1>1

(* The first sequence comes first.                                         *)
LEMMA FlattenFirst ==
  ASSUME NEW X, NEW ss \in Seq(Seq(X)), ss # <<>>
  PROVE  /\ ss[1] \in Seq(X) /\ FlattenSeq(Tail(ss)) \in Seq(X)
         /\ FlattenSeq(ss) = ss[1] \o FlattenSeq(Tail(ss))
<1> DEFINE tt == Tail(ss)
           N == Len(tt)
<1>1. /\ tt \in Seq(Seq(X)) /\ N \in Nat /\ Len(ss) = N + 1 /\ ss[1] \in Seq(X)
      /\ \A k \in 1..N : tt[k] = ss[k + 1]
  OBVIOUS
<1> HIDE DEF tt
<1>2. PICK F : Joins(X, ss, F)
  BY JoinsExists
<1>3. PICK G : Joins(X, tt, G)
  BY <1>1, JoinsExists
<1> DEFINE T == { k \in 0..N : F[k + 1] = ss[1] \o G[k] }
<1>4. 0 \in T
  <2>1. 1 \in 1..Len(ss) /\ 1 - 1 = 0
    BY <1>1
  <2>2. F[1] = F[0] \o ss[1]
    BY <1>2, <2>1 DEF Joins
  <2>3. F[0] = <<>> /\ G[0] = <<>>
    BY <1>2, <1>3 DEF Joins
  <2>4. <<>> \o ss[1] = ss[1] \o <<>>
    BY <1>1
  <2>5. 0 \in 0..N /\ 0 + 1 = 1
    BY <1>1
  <2> QED
    BY <2>2, <2>3, <2>4, <2>5
<1>5. ASSUME NEW k \in 0..N - 1, k \in T PROVE k + 1 \in T
  <2>1. /\ k + 1 \in 1..N /\ (k + 1) - 1 = k /\ k + 2 \in 1..Len(ss) /\ (k + 2) - 1 = k + 1
        /\ (k + 1) + 1 = k + 2 /\ k + 1 \in 0..N /\ k \in 0..N
    BY <1>1
  <2>2. F[k + 2] = F[(k + 2) - 1] \o ss[k + 2]
    BY <1>2, <2>1 DEF Joins
  <2>3. G[k + 1] = G[(k + 1) - 1] \o tt[k + 1]
    BY <1>3, <2>1 DEF Joins
  <2>4. F[k + 1] = ss[1] \o G[k]
    BY <1>5
  <2>5. G[k] \in Seq(X) /\ tt[k + 1] \in Seq(X)
    <3>1. G[k] \in Seq(X)
      BY <1>3, <2>1 DEF Joins
    <3>2. tt[k + 1] \in Seq(X)
      BY <1>1, <2>1
    <3> QED
      BY <3>1, <3>2
  <2>6. tt[k + 1] = ss[k + 2]
    BY <1>1, <2>1
  <2>7. (ss[1] \o G[k]) \o tt[k + 1] = ss[1] \o (G[k] \o tt[k + 1])
    <3> DEFINE a == ss[1]
               b == G[k]
               c == tt[k + 1]
    <3>1. a \in Seq(X) /\ b \in Seq(X) /\ c \in Seq(X)
      BY <1>1, <2>5
    <3> HIDE DEF a, b, c
    <3>2. (a \o b) \o c = a \o (b \o c)
      BY <3>1
    <3> QED
      BY <3>2 DEF a, b, c
  <2>8. F[k + 2] = ss[1] \o G[k + 1]
    BY <2>1, <2>2, <2>3, <2>4, <2>6, <2>7
  <2>9. F[(k + 1) + 1] = ss[1] \o G[k + 1]
    BY <2>1, <2>8
  <2> QED
    BY <2>1, <2>9
<1>6. N \in T
  <2>1. 0..N \subseteq T
    <3> HIDE DEF T, N
    <3> QED
      BY <1>1, <1>4, <1>5, UpTo
  <2>2. N \in 0..N
    BY <1>1
  <2> HIDE DEF T, N
  <2> QED
    BY <2>1, <2>2
<1>7. F[Len(ss)] = ss[1] \o G[N]
  BY <1>1, <1>6
<1>8. FlattenSeq(ss) = F[Len(ss)] /\ FlattenSeq(tt) = G[N]
  BY <1>2, <1>3, FlattenIs
<1>9. FlattenSeq(tt) \in Seq(X)
  BY <1>1, FlattenTyped
<1> QED
  BY <1>1, <1>7, <1>8, <1>9 DEF tt

-----------------------------------------------------------------------------
(* The texts                                                               *)

Entry == Nat \X Values

TextSet == [Places -> [Contexts -> Seq(Entry)]]

Context(f) == [current |-> f.current, previous |-> f.previous]

LEMMA ContextFacts ==
  ASSUME NEW f, f.current \in Values, f.previous \in Values
  PROVE  /\ Context(f) \in Contexts
         /\ \A t : /\ Used(t, f) \in Values /\ Origin(t, f) \in Values
                   /\ Expand(t.name, Origin(t, f)) \in Values
                   /\ Chosen(t, f) \in Values
                   /\ Used(t, Context(f)) = Used(t, f) /\ Origin(t, Context(f)) = Origin(t, f)
                   /\ Chosen(t, Context(f)) = Chosen(t, f)
<1>1. Context(f).current = f.current /\ Context(f).previous = f.previous
  BY DEF Context
<1>2. Context(f) \in Contexts
  BY DEF Context, Contexts
<1> SUFFICES ASSUME NEW t
             PROVE  /\ Used(t, f) \in Values /\ Origin(t, f) \in Values
                    /\ Expand(t.name, Origin(t, f)) \in Values
                    /\ Chosen(t, f) \in Values
                    /\ Used(t, Context(f)) = Used(t, f) /\ Origin(t, Context(f)) = Origin(t, f)
                    /\ Chosen(t, Context(f)) = Chosen(t, f)
  BY <1>2
<1>3. Used(t, f) \in Values /\ Origin(t, f) \in Values
  BY ValueFacts DEF Used, Origin
<1>4. Expand(t.name, Origin(t, f)) \in Values
  BY <1>3, ExpandTyped
<1>5. Chosen(t, f) \in Values
  BY <1>3, <1>4, ValueFacts DEF Chosen
<1>6. Used(t, Context(f)) = Used(t, f) /\ Origin(t, Context(f)) = Origin(t, f)
  BY <1>1 DEF Used, Origin
<1>7. Chosen(t, Context(f)) = Chosen(t, f)
  <2> DEFINE v == Expand(t.name, Origin(t, f))
  <2>1. Expand(t.name, Origin(t, Context(f))) = v
    BY <1>6
  <2> HIDE DEF v
  <2>2. CASE v = Null
    BY <2>1, <2>2, <1>1 DEF Chosen, v
  <2>3. CASE v # Null /\ False(v)
    BY <2>1, <2>3, <1>6 DEF Chosen, v
  <2>4. CASE v # Null /\ ~False(v)
    BY <2>1, <2>4 DEF Chosen, v
  <2> QED
    BY <2>2, <2>3, <2>4
<1> QED
  BY <1>3, <1>4, <1>5, <1>6, <1>7

LEMMA ItemFacts ==
  ASSUME Whole, NEW i \in 0..size - 1, NEW c, c.current \in Values
  PROVE  /\ Item(i) \in Values \ {Null} /\ Item(IF i = 0 THEN 0 ELSE i - 1) \in Values \ {Null}
         /\ ItemContext(i, c) \in Contexts
<1>1. size \in Sizes /\ size \in Nat
  BY RunAssumption DEF Whole
<1>2. i \in 0..size /\ (IF i = 0 THEN 0 ELSE i - 1) \in 0..size
  BY <1>1
<1>3. Item(i) \in Values \ {Null} /\ Item(IF i = 0 THEN 0 ELSE i - 1) \in Values \ {Null}
  BY <1>1, <1>2, ValueFacts
<1> QED
  BY <1>3 DEF ItemContext, Contexts

(* What an array's items show.                                             *)
ItemTexts(rest, n, c) == [i \in 1..size |-> rest[n + 1][ItemContext(i - 1, c)]]

LEMMA ItemsTyped ==
  ASSUME Whole, NEW rest \in TextSet, NEW n \in Nodes, NEW c \in Contexts
  PROVE  /\ ItemTexts(rest, n, c) \in Seq(Seq(Entry)) /\ Len(ItemTexts(rest, n, c)) = size
         /\ FlattenSeq(ItemTexts(rest, n, c)) \in Seq(Entry)
<1>1. size \in Nat /\ n + 1 \in Places
  BY WholeFacts, RunAssumption DEF Whole
<1>2. ASSUME NEW i \in 1..size PROVE rest[n + 1][ItemContext(i - 1, c)] \in Seq(Entry)
  <2>1. i - 1 \in 0..size - 1
    BY <1>1
  <2>2. ItemContext(i - 1, c) \in Contexts
    BY <2>1, ItemFacts DEF Contexts
  <2>3. rest[n + 1] \in [Contexts -> Seq(Entry)]
    BY <1>1 DEF TextSet
  <2> QED
    BY <2>2, <2>3
<1>3. ItemTexts(rest, n, c) \in [1..size -> Seq(Entry)]
  BY <1>2 DEF ItemTexts
<1>4. ItemTexts(rest, n, c) \in Seq(Seq(Entry)) /\ Len(ItemTexts(rest, n, c)) = size
  <2> DEFINE Z == Seq(Entry)
  <2> HIDE DEF Z
  <2>1. \A g \in [1..size -> Z] : g \in Seq(Z) /\ Len(g) = size
    BY <1>1
  <2> QED
    BY <1>3, <2>1 DEF Z
<1> QED
  BY <1>4, FlattenTyped

(* What a piece shows, one op at a time.                                   *)
LEMMA ShowsIs ==
  ASSUME NEW n, NEW c, NEW rest
  PROVE  /\ tag[n].op = "text" => Shows(n, c, rest) = << <<n, Null>> >>
         /\ tag[n].op = "show" =>
              Shows(n, c, rest) =
                IF Expand(tag[n].name, Origin(tag[n], c)) = Null THEN <<>>
                ELSE << <<n, Expand(tag[n].name, Origin(tag[n], c))>> >>
         /\ tag[n].op = "loop" =>
              Shows(n, c, rest) =
                IF Expand(tag[n].name, Origin(tag[n], c)) = Array
                  THEN FlattenSeq(ItemTexts(rest, n, c)) ELSE <<>>
         /\ tag[n].op \notin {"text", "show", "loop"} =>
              Shows(n, c, rest) =
                IF Chosen(tag[n], c) = Null THEN <<>>
                ELSE rest[n + 1][[current |-> Chosen(tag[n], c), previous |-> c.current]]
<1>1. tag[n].op = "text" => Shows(n, c, rest) = << <<n, Null>> >>
  BY DEF Shows
<1>2. tag[n].op = "show" =>
        Shows(n, c, rest) =
          IF Expand(tag[n].name, Origin(tag[n], c)) = Null THEN <<>>
          ELSE << <<n, Expand(tag[n].name, Origin(tag[n], c))>> >>
  BY DEF Shows
<1>3. tag[n].op = "loop" =>
        Shows(n, c, rest) =
          IF Expand(tag[n].name, Origin(tag[n], c)) = Array
            THEN FlattenSeq(ItemTexts(rest, n, c)) ELSE <<>>
  BY DEF Shows, ItemTexts
<1>4. tag[n].op \notin {"text", "show", "loop"} =>
        Shows(n, c, rest) =
          IF Chosen(tag[n], c) = Null THEN <<>>
          ELSE rest[n + 1][[current |-> Chosen(tag[n], c), previous |-> c.current]]
  BY DEF Shows
<1> QED
  BY <1>1, <1>2, <1>3, <1>4


LEMMA OpFacts ==
  ASSUME Whole, NEW n \in Nodes
  PROVE  /\ doc[n] = "open" <=> tag[n].op \in {"if", "unless", "loop"}
         /\ doc[n] = "end" <=> tag[n].op = "end"
         /\ tag[n].op \in {"if", "unless", "loop", "show", "end", "text"}
<1>1. tag[n].op \in Ops(doc[n]) /\ doc[n] \in {"open", "end", "subst", "text", "include"}
  BY WholeFacts DEF Whole, TagsOf, Nodes
<1>2. /\ Ops("open") = {"if", "unless", "loop"} /\ Ops("subst") = {"show"}
      /\ Ops("end") = {"end"} /\ Ops("text") = {"text"} /\ Ops("include") = {"text"}
  BY DEF Ops
<1>3. /\ doc[n] = "open" => tag[n].op \in {"if", "unless", "loop"}
      /\ doc[n] = "end" => tag[n].op = "end"
      /\ doc[n] = "subst" => tag[n].op = "show"
      /\ doc[n] \in {"text", "include"} => tag[n].op = "text"
  BY <1>1, <1>2
<1> QED
  BY <1>1, <1>3

LEMMA ShowsTyped ==
  ASSUME Whole, NEW n \in Nodes, ~Ends(n), NEW c \in Contexts, NEW rest \in TextSet
  PROVE  Shows(n, c, rest) \in Seq(Entry)
<1>1. c.current \in Values /\ c.previous \in Values /\ n \in Nat /\ n + 1 \in Places
  BY WholeFacts DEF Contexts
<1>2. /\ Expand(tag[n].name, Origin(tag[n], c)) \in Values
      /\ Chosen(tag[n], c) \in Values /\ Null \in Values
  BY <1>1, ContextFacts, ValueFacts
<1>3. \A v \in Values : << <<n, v>> >> \in Seq(Entry)
  BY <1>1 DEF Entry
<1>4. <<>> \in Seq(Entry)
  OBVIOUS
<1>5. CASE tag[n].op = "text"
  BY <1>2, <1>3, <1>5, ShowsIs
<1>6. CASE tag[n].op = "show"
  BY <1>2, <1>3, <1>4, <1>6, ShowsIs
<1>7. CASE tag[n].op = "loop"
  BY <1>4, <1>7, ShowsIs, ItemsTyped
<1>8. CASE tag[n].op \notin {"text", "show", "loop"}
  <2>1. [current |-> Chosen(tag[n], c), previous |-> c.current] \in Contexts
    BY <1>1, <1>2 DEF Contexts
  <2>2. rest[n + 1][[current |-> Chosen(tag[n], c), previous |-> c.current]] \in Seq(Entry)
    BY <1>1, <2>1 DEF TextSet
  <2> QED
    BY <1>4, <1>8, <2>2, ShowsIs
<1> QED
  BY <1>5, <1>6, <1>7, <1>8

LEMMA FromTyped ==
  ASSUME Whole, NEW rest \in TextSet
  PROVE  From(rest) \in TextSet
<1>1. ASSUME NEW n \in Places, NEW c \in Contexts, ~Ends(n)
      PROVE  Shows(n, c, rest) \o rest[After(n)][c] \in Seq(Entry)
  <2>1. n \in Nodes
    BY <1>1, WholeFacts DEF Ends, Places
  <2>2. Shows(n, c, rest) \in Seq(Entry)
    BY <1>1, <2>1, ShowsTyped
  <2>3. After(n) \in Places
    BY <2>1, AfterFacts
  <2>4. rest[After(n)][c] \in Seq(Entry)
    BY <2>3 DEF TextSet
  <2> QED
    BY <2>2, <2>4
<1>2. ASSUME NEW n \in Places, NEW c \in Contexts
      PROVE  (IF Ends(n) THEN <<>> ELSE Shows(n, c, rest) \o rest[After(n)][c]) \in Seq(Entry)
  <2>1. <<>> \in Seq(Entry)
    OBVIOUS
  <2> QED
    BY <1>1, <2>1
<1> QED
  BY <1>2 DEF From, TextSet

(* What a place shows depends on what later places show.                   *)
LEMMA FromLater ==
  ASSUME Whole, NEW r1 \in TextSet, NEW r2 \in TextSet, NEW n \in Places,
         \A m \in Places : m >= n + 1 => r1[m] = r2[m]
  PROVE  From(r1)[n] = From(r2)[n]
<1>1. CASE Ends(n)
  BY <1>1 DEF From
<1>2. CASE ~Ends(n)
  <2>1. n \in Nodes /\ n + 1 \in Places /\ n + 1 \in Nat
    BY <1>2, WholeFacts DEF Ends, Places
  <2>2. After(n) \in Places /\ After(n) >= n + 1
    BY <2>1, AfterFacts
  <2>3. r1[After(n)] = r2[After(n)] /\ r1[n + 1] = r2[n + 1]
    BY <2>1, <2>2
  <2>4. \A c : ItemTexts(r1, n, c) = ItemTexts(r2, n, c)
    BY <2>3 DEF ItemTexts
  <2>5. ASSUME NEW c \in Contexts PROVE Shows(n, c, r1) = Shows(n, c, r2)
    <3>1. CASE tag[n].op = "text"
      BY <3>1, ShowsIs
    <3>2. CASE tag[n].op = "show"
      <4>1. Shows(n, c, r1) =
              IF Expand(tag[n].name, Origin(tag[n], c)) = Null THEN <<>>
              ELSE << <<n, Expand(tag[n].name, Origin(tag[n], c))>> >>
        BY <3>2, ShowsIs
      <4>2. Shows(n, c, r2) =
              IF Expand(tag[n].name, Origin(tag[n], c)) = Null THEN <<>>
              ELSE << <<n, Expand(tag[n].name, Origin(tag[n], c))>> >>
        BY <3>2, ShowsIs
      <4> QED
        BY <4>1, <4>2
    <3>3. CASE tag[n].op = "loop"
      <4>1. Shows(n, c, r1) =
              IF Expand(tag[n].name, Origin(tag[n], c)) = Array
                THEN FlattenSeq(ItemTexts(r1, n, c)) ELSE <<>>
        BY <3>3, ShowsIs
      <4>2. Shows(n, c, r2) =
              IF Expand(tag[n].name, Origin(tag[n], c)) = Array
                THEN FlattenSeq(ItemTexts(r2, n, c)) ELSE <<>>
        BY <3>3, ShowsIs
      <4> QED
        BY <4>1, <4>2, <2>4
    <3>4. CASE tag[n].op \notin {"text", "show", "loop"}
      <4>1. Shows(n, c, r1) =
              IF Chosen(tag[n], c) = Null THEN <<>>
              ELSE r1[n + 1][[current |-> Chosen(tag[n], c), previous |-> c.current]]
        BY <3>4, ShowsIs
      <4>2. Shows(n, c, r2) =
              IF Chosen(tag[n], c) = Null THEN <<>>
              ELSE r2[n + 1][[current |-> Chosen(tag[n], c), previous |-> c.current]]
        BY <3>4, ShowsIs
      <4> QED
        BY <4>1, <4>2, <2>3
    <3> QED
      BY <3>1, <3>2, <3>3, <3>4
  <2>6. \A c \in Contexts : From(r1)[n][c] = From(r2)[n][c]
    BY <1>2, <2>3, <2>5 DEF From
  <2>7. From(r1) \in TextSet /\ From(r2) \in TextSet
    BY FromTyped
  <2>8. From(r1)[n] \in [Contexts -> Seq(Entry)] /\ From(r2)[n] \in [Contexts -> Seq(Entry)]
    BY <2>7 DEF TextSet
  <2> QED
    BY <2>6, <2>8
<1> QED
  BY <1>1, <1>2

(* The texts solve their equation.                                         *)
LEMMA TextsFixed ==
  ASSUME Whole
  PROVE  Texts \in TextSet /\ From(Texts) = Texts
<1> DEFINE G == [r \in TextSet |-> From(r)]
           N == Len(doc)
<1>1. N \in Nat /\ Nothing \in TextSet
  <2>1. <<>> \in Seq(Entry)
    OBVIOUS
  <2> QED
    BY <2>1, WholeFacts DEF Nothing, TextSet
<1>2. G \in [TextSet -> TextSet]
  BY FromTyped
<1>3. \A r \in TextSet : G[r] = From(r)
  OBVIOUS
<1> HIDE DEF G
<1>4. PICK E : Turns(TextSet, G, Nothing, E)
  BY <1>1, <1>2, Iterates
<1>5. /\ E \in [Nat -> TextSet] /\ E[0] = Nothing
      /\ \A k \in Nat : E[k + 1] = From(E[k])
  BY <1>3, <1>4 DEF Turns
<1> DEFINE text == CHOOSE t : t = [k \in Nat |-> IF k = 0 THEN Nothing ELSE From(t[k - 1])]
<1>6. E = [k \in Nat |-> IF k = 0 THEN Nothing ELSE From(E[k - 1])]
  <2>1. ASSUME NEW k \in Nat PROVE E[k] = IF k = 0 THEN Nothing ELSE From(E[k - 1])
    <3>1. CASE k = 0
      BY <1>5, <3>1
    <3>2. CASE k # 0
      <4>1. k - 1 \in Nat /\ (k - 1) + 1 = k
        BY <3>2
      <4>2. E[(k - 1) + 1] = From(E[k - 1])
        BY <1>5, <4>1
      <4> QED
        BY <3>2, <4>1, <4>2
    <3> QED
      BY <3>1, <3>2
  <2> QED
    BY <1>5, <2>1
<1>7. text = [k \in Nat |-> IF k = 0 THEN Nothing ELSE From(text[k - 1])]
  BY <1>6
<1>8. Texts = text[N]
  BY DEF Texts
<1> HIDE DEF text
<1>9. text[0] = Nothing /\ \A k \in Nat : text[k + 1] = From(text[k])
  <2>1. ASSUME NEW k \in Nat PROVE text[k + 1] = From(text[k])
    <3>1. k + 1 \in Nat /\ k + 1 # 0 /\ (k + 1) - 1 = k
      OBVIOUS
    <3>2. text[k + 1] = From(text[(k + 1) - 1])
      BY <1>7, <3>1
    <3> QED
      BY <3>1, <3>2
  <2>2. text[0] = Nothing
    BY <1>7
  <2> QED
    BY <2>1, <2>2
<1>10. \A k \in Nat : text[k] \in TextSet
  <2> DEFINE T == { k \in Nat : text[k] \in TextSet }
  <2>1. 0 \in T
    BY <1>1, <1>9
  <2>2. ASSUME NEW k \in Nat, k \in T PROVE k + 1 \in T
    BY <2>2, <1>9, FromTyped
  <2>3. Nat \subseteq T
    <3> HIDE DEF T
    <3> QED
      BY <2>1, <2>2, SetInduction
  <2> QED
    BY <2>3
<1> DEFINE T == { k \in 0..N : \A n \in Places : n + k >= N + 1 => text[k + 1][n] = text[k][n] }
<1>11. 0 \in T
  <2>1. ASSUME NEW n \in Places, n + 0 >= N + 1 PROVE text[0 + 1][n] = text[0][n]
    <3>1. Ends(n)
      BY <1>1, <2>1 DEF Places, Ends
    <3>2. text[0 + 1] = From(text[0])
      BY <1>9
    <3>3. From(text[0])[n] = [c \in Contexts |-> <<>>]
      BY <3>1 DEF From
    <3> QED
      BY <1>9, <3>2, <3>3 DEF Nothing
  <2> QED
    BY <1>1, <2>1
<1>12. ASSUME NEW k \in 0..N - 1, k \in T PROVE k + 1 \in T
  <2>1. k \in Nat /\ k + 1 \in Nat /\ k + 1 \in 0..N
    BY <1>1
  <2>2. ASSUME NEW n \in Places, n + (k + 1) >= N + 1
        PROVE  text[(k + 1) + 1][n] = text[k + 1][n]
    <3>1. text[(k + 1) + 1] = From(text[k + 1]) /\ text[k + 1] = From(text[k])
      BY <1>9, <2>1
    <3>2. text[k + 1] \in TextSet /\ text[k] \in TextSet
      BY <1>10, <2>1
    <3>3. \A m \in Places : m >= n + 1 => m + k >= N + 1
      BY <1>1, <2>1, <2>2 DEF Places
    <3>4. \A m \in Places : m >= n + 1 => text[k + 1][m] = text[k][m]
      BY <1>12, <3>3
    <3>5. From(text[k + 1])[n] = From(text[k])[n]
      <4> DEFINE a == text[k + 1]
                 b == text[k]
      <4>1. a \in TextSet /\ b \in TextSet /\ \A m \in Places : m >= n + 1 => a[m] = b[m]
        BY <3>2, <3>4
      <4> HIDE DEF a, b
      <4>2. From(a)[n] = From(b)[n]
        BY <4>1, FromLater
      <4> QED
        BY <4>2 DEF a, b
    <3> QED
      BY <3>1, <3>5
  <2> QED
    BY <2>1, <2>2
<1>13. N \in T
  <2>1. 0..N \subseteq T
    <3> HIDE DEF T, N
    <3> QED
      BY <1>1, <1>11, <1>12, UpTo
  <2>2. N \in 0..N
    BY <1>1
  <2> HIDE DEF T, N
  <2> QED
    BY <2>1, <2>2
<1>14. \A n \in Places : text[N + 1][n] = text[N][n]
  <2>1. \A n \in Places : n + N >= N + 1
    BY <1>1 DEF Places
  <2> QED
    BY <1>13, <2>1
<1>15. text[N + 1] \in TextSet /\ text[N] \in TextSet /\ text[N + 1] = From(text[N])
  BY <1>1, <1>9, <1>10
<1>16. text[N + 1] = text[N]
  <2> DEFINE a == text[N + 1]
             b == text[N]
  <2>1. a \in TextSet /\ b \in TextSet /\ \A n \in Places : a[n] = b[n]
    BY <1>14, <1>15
  <2> HIDE DEF a, b
  <2>2. a = b
    BY <2>1 DEF TextSet
  <2> QED
    BY <2>2 DEF a, b
<1> QED
  BY <1>8, <1>15, <1>16


-----------------------------------------------------------------------------
(* What the calls of tag_run still have to show: the last call first, and  *)
(* then, in the text behind its block, the call it was made from.          *)

Owed(f) ==
    IF f.node = 0 THEN <<>>
    ELSE IF f.i = 0 THEN Texts[f.node][Context(f)]
    ELSE FlattenSeq(SubSeq(ItemTexts(Texts, f.node, Context(f)), f.i + 1, size))
           \o Texts[After(f.node)][Context(f)]

(* A call that has shown some of the items of an array.                    *)
InLoop(f) ==
    /\ f.node \in Nodes /\ tag[f.node].op = "loop" /\ f.i <= size
    /\ Expand(tag[f.node].name, Origin(tag[f.node], f)) = Array

Loops(fs) == \A k \in DOMAIN fs : fs[k].i > 0 => InLoop(fs[k])

Owing(fs, owed) ==
    /\ owed \in [0..Len(fs) -> Seq(Entry)] /\ owed[0] = <<>>
    /\ \A k \in 1..Len(fs) : owed[k] = Owed(fs[k]) \o owed[k - 1]

Renders(fs, shows) ==
    \E owed : Owing(fs, owed) /\ shows \o owed[Len(fs)] = RenderedText

LEMMA TextIs ==
  ASSUME Whole, NEW n \in Places, NEW c \in Contexts
  PROVE  /\ Texts[n][c] \in Seq(Entry)
         /\ Ends(n) => Texts[n][c] = <<>>
         /\ ~Ends(n) =>
              /\ n \in Nodes /\ doc[n] # "end" /\ After(n) \in Places
              /\ Shows(n, c, Texts) \in Seq(Entry) /\ Texts[After(n)][c] \in Seq(Entry)
              /\ Texts[n][c] = Shows(n, c, Texts) \o Texts[After(n)][c]
<1>1. Texts \in TextSet /\ From(Texts) = Texts
  BY TextsFixed
<1>2. From(Texts)[n][c] = IF Ends(n) THEN <<>> ELSE Shows(n, c, Texts) \o Texts[After(n)][c]
  BY DEF From
<1>3. Texts[n][c] = IF Ends(n) THEN <<>> ELSE Shows(n, c, Texts) \o Texts[After(n)][c]
  <2> DEFINE a == Texts
             d == IF Ends(n) THEN <<>> ELSE Shows(n, c, Texts) \o Texts[After(n)][c]
  <2>1. From(a) = a /\ From(a)[n][c] = d
    BY <1>1, <1>2
  <2> HIDE DEF a, d
  <2>2. a[n][c] = d
    BY <2>1
  <2> QED
    BY <2>2 DEF a, d
<1>4. \A m \in Places : Texts[m][c] \in Seq(Entry)
  BY <1>1 DEF TextSet
<1>5. ~Ends(n) => n \in Nodes /\ doc[n] # "end"
  BY WholeFacts DEF Ends, Places
<1>6. ~Ends(n) => After(n) \in Places /\ Shows(n, c, Texts) \in Seq(Entry)
  BY <1>1, <1>5, AfterFacts, ShowsTyped
<1> QED
  BY <1>3, <1>4, <1>5, <1>6

(* A piece in a block is followed by one in the same block, or its end.    *)
LEMMA StaysInside ==
  ASSUME Whole, NEW m \in Nodes, NEW n \in Nodes, Block(m, n), doc[n] # "end"
  PROVE  Block(m, After(n))
<1>1. /\ Len(doc) \in Nat /\ Nodes = 1..Len(doc)
      /\ \A k \in Places : depth[k] \in Int
      /\ \A k \in Nodes : /\ k + 1 \in Places /\ k \in Places
                         /\ doc[k] \in {"open", "end", "subst", "text", "include"}
                         /\ depth[k + 1] = depth[k] + Delta(doc[k])
  BY WholeFacts
<1>2. /\ m < n /\ doc[m] = "open" /\ depth[n] = depth[m] + 1
      /\ \A k \in m + 1..n : depth[k] > depth[m]
  BY DEF Block
<1>3. CASE doc[n] # "open"
  <2>1. After(n) = n + 1
    BY <1>3, AfterFacts
  <2>2. depth[n + 1] = depth[m] + 1
    <3>1. Delta(doc[n]) = 0
      BY <1>1, <1>3 DEF Delta
    <3> QED
      BY <1>1, <1>2, <3>1
  <2>3. \A k \in m + 1..n + 1 : depth[k] > depth[m]
    BY <1>1, <1>2, <2>2
  <2> QED
    BY <1>1, <1>2, <2>1, <2>2, <2>3 DEF Block
<1>4. CASE doc[n] = "open"
  <2>1. PICK e \in Nodes : Closes(e, n) /\ n + 1 <= e /\ After(n) = e + 1
    BY <1>4, AfterFacts
  <2>2. /\ doc[e] = "end" /\ depth[n] + 1 = depth[e]
        /\ \A k \in n + 1..e : depth[k] > depth[n]
    BY <2>1 DEF Closes
  <2>3. depth[e + 1] = depth[m] + 1
    <3>1. Delta(doc[e]) = -1
      BY <2>2, DeltaFacts
    <3> QED
      BY <1>1, <1>2, <2>2, <3>1
  <2>4. \A k \in m + 1..e + 1 : depth[k] > depth[m]
    <3> TAKE k \in m + 1..e + 1
    <3>1. k \in Places /\ m \in Places /\ n \in Places
      BY <1>1, <2>1 DEF Places
    <3>2. CASE k <= n
      BY <1>1, <1>2, <3>2
    <3>3. CASE k > n /\ k <= e
      <4>1. k \in n + 1..e
        BY <1>1, <3>3
      <4>2. depth[k] > depth[n]
        BY <2>2, <4>1
      <4> QED
        BY <1>1, <1>2, <3>1, <4>2
    <3>4. CASE k > e
      <4>1. k = e + 1
        BY <1>1, <3>4
      <4> QED
        BY <1>1, <2>3, <3>1, <4>1
    <3> QED
      BY <1>1, <3>2, <3>3, <3>4
  <2> QED
    BY <1>1, <1>2, <2>1, <2>3, <2>4 DEF Block
<1> QED
  BY <1>3, <1>4

(* Where nothing looks one level up, only the current variable matters.    *)
LEMMA ShowsCurrent ==
  ASSUME NEW n, tag[n].from # "up", NEW rest, NEW c, NEW d, c.current = d.current
  PROVE  Shows(n, c, rest) = Shows(n, d, rest)
<1> DEFINE t == tag[n]
<1>1. Used(t, c) = c.current /\ Used(t, d) = c.current /\ Origin(t, c) = Origin(t, d)
  BY DEF Used, Origin
<1>2. Expand(t.name, Origin(t, c)) = Expand(t.name, Origin(t, d))
  BY <1>1
<1>3. Chosen(t, c) = Chosen(t, d)
  <2> DEFINE v == Expand(t.name, Origin(t, c))
  <2>1. Expand(t.name, Origin(t, d)) = v
    BY <1>2
  <2> HIDE DEF v
  <2>2. CASE v = Null
    BY <2>1, <2>2 DEF Chosen, v
  <2>3. CASE v # Null /\ False(v)
    BY <1>1, <2>1, <2>3 DEF Chosen, v
  <2>4. CASE v # Null /\ ~False(v)
    BY <2>1, <2>4 DEF Chosen, v
  <2> QED
    BY <2>2, <2>3, <2>4
<1>4. CASE t.op = "text"
  BY <1>4, ShowsIs
<1>5. CASE t.op = "show"
  <2> DEFINE v == Expand(t.name, Origin(t, c))
  <2>1. Shows(n, c, rest) = IF v = Null THEN <<>> ELSE << <<n, v>> >>
    BY <1>5, ShowsIs
  <2> DEFINE w == Expand(t.name, Origin(t, d))
  <2>2. Shows(n, d, rest) = IF w = Null THEN <<>> ELSE << <<n, w>> >>
    BY <1>5, ShowsIs
  <2>3. v = w
    BY <1>2
  <2> HIDE DEF v, w
  <2> QED
    BY <2>1, <2>2, <2>3
<1>6. CASE t.op = "loop"
  <2> DEFINE v == Expand(t.name, Origin(t, c))
             a == FlattenSeq(ItemTexts(rest, n, c))
  <2>1. Shows(n, c, rest) = IF v = Array THEN a ELSE <<>>
    BY <1>6, ShowsIs
  <2>2. ItemTexts(rest, n, d) = ItemTexts(rest, n, c)
    BY DEF ItemTexts, ItemContext
  <2>3. Shows(n, d, rest) = IF v = Array THEN FlattenSeq(ItemTexts(rest, n, d)) ELSE <<>>
    BY <1>2, <1>6, ShowsIs
  <2> QED
    BY <2>1, <2>2, <2>3
<1>7. CASE t.op \notin {"text", "show", "loop"}
  <2> DEFINE v == Chosen(t, c)
             w == Chosen(t, d)
  <2>1. Shows(n, c, rest) =
          IF v = Null THEN <<>> ELSE rest[n + 1][[current |-> v, previous |-> c.current]]
    BY <1>7, ShowsIs
  <2>2. Shows(n, d, rest) =
          IF w = Null THEN <<>> ELSE rest[n + 1][[current |-> w, previous |-> d.current]]
    BY <1>7, ShowsIs
  <2>3. v = w
    BY <1>3
  <2> HIDE DEF v, w
  <2> QED
    BY <2>1, <2>2, <2>3
<1> QED
  BY <1>4, <1>5, <1>6, <1>7

(* What a loop's block shows is the same whatever is one level up.         *)
LEMMA Unaffected ==
  ASSUME Whole, NEW m \in Nodes, doc[m] = "open", tag[m].op = "loop",
         NEW c \in Contexts, NEW d \in Contexts, c.current = d.current
  PROVE  Texts[m + 1][c] = Texts[m + 1][d]
<1> DEFINE N == Len(doc)
           T == { k \in 0..N :
                    \A n \in Places : n + k >= N + 1 /\ Block(m, n) => Texts[n][c] = Texts[n][d] }
<1>1. /\ N \in Nat /\ Nodes = 1..N /\ Places = 1..N + 1
      /\ \A k \in Places : depth[k] \in Int
      /\ m + 1 \in Places /\ depth[m + 1] = depth[m] + 1 /\ m \in Places
  <2>1. Delta(doc[m]) = 1
    BY DeltaFacts
  <2> QED
    BY <2>1, WholeFacts DEF Places
<1>2. 0 \in T
  <2>1. ASSUME NEW n \in Places, n + 0 >= N + 1 PROVE Texts[n][c] = Texts[n][d]
    <3>1. Ends(n)
      BY <1>1, <2>1 DEF Ends
    <3>2. Texts[n][c] = <<>> /\ Texts[n][d] = <<>>
      BY <3>1, TextIs
    <3> QED
      BY <3>2
  <2> QED
    BY <1>1, <2>1
<1>3. ASSUME NEW k \in 0..N - 1, k \in T PROVE k + 1 \in T
  <2>1. k \in Nat /\ k + 1 \in Nat /\ k + 1 \in 0..N
    BY <1>1
  <2>2. ASSUME NEW n \in Places, n + (k + 1) >= N + 1, Block(m, n)
        PROVE  Texts[n][c] = Texts[n][d]
    <3>1. CASE Ends(n)
      <4>1. Texts[n][c] = <<>> /\ Texts[n][d] = <<>>
        BY <3>1, TextIs
      <4> QED
        BY <4>1
    <3>2. CASE ~Ends(n)
      <4> DEFINE a == After(n)
      <4>1. n \in Nodes /\ doc[n] # "end" /\ a \in Places /\ a >= n + 1 /\ Block(m, a)
        <5>1. n \in Nodes /\ doc[n] # "end"
          BY <3>2, TextIs
        <5> QED
          BY <2>2, <5>1, AfterFacts, StaysInside
      <4>2. a + k >= N + 1
        BY <1>1, <2>1, <2>2, <4>1
      <4>3. Texts[a][c] = Texts[a][d]
        BY <1>3, <4>1, <4>2
      <4>4. tag[n].from # "up"
        BY <2>2, <4>1 DEF Whole, UpOutsideLoops
      <4>5. Shows(n, c, Texts) = Shows(n, d, Texts)
        BY <4>4, ShowsCurrent
      <4>6. /\ Texts[n][c] = Shows(n, c, Texts) \o Texts[a][c]
            /\ Texts[n][d] = Shows(n, d, Texts) \o Texts[a][d]
        BY <3>2, TextIs
      <4> QED
        BY <4>3, <4>5, <4>6
    <3> QED
      BY <3>1, <3>2
  <2> QED
    BY <2>1, <2>2
<1>4. N \in T
  <2>1. 0..N \subseteq T
    <3> HIDE DEF T, N
    <3> QED
      BY <1>1, <1>2, <1>3, UpTo
  <2>2. N \in 0..N
    BY <1>1
  <2> HIDE DEF T, N
  <2> QED
    BY <2>1, <2>2
<1>5. Block(m, m + 1) /\ (m + 1) + N >= N + 1
  <2>1. \A k \in m + 1..m + 1 : k = m + 1
    BY <1>1
  <2>2. depth[m] \in Int
    BY <1>1
  <2> QED
    BY <1>1, <2>1, <2>2 DEF Block
<1> QED
  BY <1>1, <1>4, <1>5

(* A call in a loop owes the items left and what is behind the block; so   *)
(* does one that is about to begin the loop.                               *)
LEMMA OwedInLoop ==
  ASSUME Whole, NEW f \in FrameSet, f.node \in Nodes, tag[f.node].op = "loop",
         Expand(tag[f.node].name, Origin(tag[f.node], f)) = Array
  PROVE  Owed(f) = FlattenSeq(SubSeq(ItemTexts(Texts, f.node, Context(f)), f.i + 1, size))
                     \o Texts[After(f.node)][Context(f)]
<1> DEFINE n == f.node
           c == Context(f)
           s == ItemTexts(Texts, n, c)
<1>1. f.current \in Values /\ f.previous \in Values /\ n # 0 /\ size \in Nat
  BY WholeFacts, RunAssumption DEF FrameSet, Whole
<1>2. CASE f.i # 0
  BY <1>1, <1>2 DEF Owed
<1>3. CASE f.i = 0
  <2>1. c \in Contexts /\ Expand(tag[n].name, Origin(tag[n], c)) = Array
    BY <1>1, ContextFacts
  <2>2. n \in Places /\ ~Ends(n)
    BY WholeFacts, OpFacts DEF Ends
  <2>3. Shows(n, c, Texts) = FlattenSeq(s)
    BY <2>1, ShowsIs
  <2>4. Texts[n][c] = FlattenSeq(s) \o Texts[After(n)][c]
    BY <2>1, <2>2, <2>3, TextIs
  <2>5. SubSeq(s, 1, size) = s
    <3>1. s \in Seq(Seq(Entry)) /\ Len(s) = size
      BY <2>1, TextsFixed, ItemsTyped
    <3> HIDE DEF s
    <3> DEFINE Z == Seq(Entry)
    <3>2. s \in Seq(Z)
      BY <3>1
    <3> HIDE DEF Z
    <3> QED
      BY <3>1, <3>2, <1>1
  <2>6. Owed(f) = Texts[n][c]
    BY <1>1, <1>3 DEF Owed
  <2>7. f.i + 1 = 1
    BY <1>3
  <2> QED
    BY <2>4, <2>5, <2>6, <2>7
<1> QED
  BY <1>2, <1>3

(* The sequences left of some, after the first i.                          *)
LEMMA LeftFacts ==
  ASSUME NEW X, NEW ss \in Seq(Seq(X)), NEW i \in 0..Len(ss)
  PROVE  /\ FlattenSeq(SubSeq(ss, i + 1, Len(ss))) \in Seq(X)
         /\ i = Len(ss) => FlattenSeq(SubSeq(ss, i + 1, Len(ss))) = <<>>
         /\ i < Len(ss) =>
              /\ ss[i + 1] \in Seq(X)
              /\ FlattenSeq(SubSeq(ss, (i + 1) + 1, Len(ss))) \in Seq(X)
              /\ FlattenSeq(SubSeq(ss, i + 1, Len(ss)))
                   = ss[i + 1] \o FlattenSeq(SubSeq(ss, (i + 1) + 1, Len(ss)))
<1> DEFINE Z == Seq(X)
           N == Len(ss)
           s == SubSeq(ss, i + 1, N)
<1>1. ss \in Seq(Z)
  OBVIOUS
<1> HIDE DEF Z
<1>2. N \in Nat /\ i \in Nat /\ i <= N /\ \A k \in 1..N : ss[k] \in Z
  BY <1>1
<1>3. s \in Seq(Z) /\ Len(s) = N - i /\ \A k \in 1..N - i : s[k] = ss[k + i]
  BY <1>1, <1>2
<1>4. FlattenSeq(s) \in Seq(X)
  BY <1>3, FlattenTyped DEF Z
<1>5. i = N => FlattenSeq(s) = <<>>
  <2>1. i = N => Len(s) = 0 /\ s = <<>>
    BY <1>2, <1>3
  <2> HIDE DEF s
  <2> QED
    BY <2>1 DEF FlattenSeq
<1>6. ASSUME i < N
      PROVE  /\ ss[i + 1] \in Seq(X)
             /\ FlattenSeq(SubSeq(ss, (i + 1) + 1, N)) \in Seq(X)
             /\ FlattenSeq(s) = ss[i + 1] \o FlattenSeq(SubSeq(ss, (i + 1) + 1, N))
  <2>1. s # <<>> /\ s[1] = ss[i + 1]
    <3>1. Len(s) > 0 /\ 1 \in 1..N - i /\ 1 + i = i + 1
      BY <1>2, <1>3, <1>6
    <3> HIDE DEF s
    <3>2. s # <<>>
      BY <1>3, <3>1
    <3>3. s[1] = ss[1 + i]
      BY <1>3, <3>1
    <3> QED
      BY <3>1, <3>2, <3>3
  <2>2. Tail(s) = SubSeq(ss, (i + 1) + 1, N)
    <3> DEFINE u == SubSeq(ss, (i + 1) + 1, N)
    <3>1. u \in Seq(Z) /\ Len(u) = N - (i + 1) /\ \A k \in 1..N - (i + 1) : u[k] = ss[k + (i + 1)]
      BY <1>1, <1>2, <1>6
    <3> HIDE DEF s, u
    <3>2. Tail(s) \in Seq(Z) /\ Len(Tail(s)) = N - (i + 1)
          /\ \A k \in 1..N - (i + 1) : Tail(s)[k] = s[k + 1]
      BY <1>2, <1>3, <1>6, <2>1
    <3>3. \A k \in 1..N - (i + 1) : s[k + 1] = ss[k + (i + 1)]
      <4> TAKE k \in 1..N - (i + 1)
      <4>1. k + 1 \in 1..N - i /\ (k + 1) + i = k + (i + 1)
        BY <1>2, <1>6
      <4> QED
        BY <1>3, <4>1
    <3>4. Tail(s) = u
      <4> DEFINE v == Tail(s)
      <4>1. v \in Seq(Z) /\ Len(v) = Len(u) /\ \A k \in 1..Len(u) : v[k] = u[k]
        BY <3>1, <3>2, <3>3
      <4> HIDE DEF v
      <4>2. v \in [1..Len(u) -> Z] /\ u \in [1..Len(u) -> Z]
        BY <3>1, <4>1
      <4>3. v = u
        BY <4>1, <4>2
      <4> QED
        BY <4>3 DEF v
    <3> QED
      BY <3>4 DEF u
  <2>3. s \in Seq(Seq(X))
    BY <1>3 DEF Z
  <2> HIDE DEF s
  <2>4. /\ s[1] \in Seq(X) /\ FlattenSeq(Tail(s)) \in Seq(X)
        /\ FlattenSeq(s) = s[1] \o FlattenSeq(Tail(s))
    BY <2>1, <2>3, FlattenFirst
  <2> QED
    BY <2>1, <2>2, <2>4
<1> QED
  BY <1>4, <1>5, <1>6

LEMMA OwedTyped ==
  ASSUME Whole, NEW f \in FrameSet, f.i > 0 => InLoop(f)
  PROVE  Owed(f) \in Seq(Entry)
<1>1. f.current \in Values /\ f.previous \in Values /\ f.node \in Nodes \cup {0} /\ f.i \in Nat
  BY DEF FrameSet
<1>2. Context(f) \in Contexts
  BY <1>1, ContextFacts
<1>3. CASE f.node = 0
  BY <1>3 DEF Owed
<1>4. CASE f.node # 0 /\ f.i = 0
  <2>1. f.node \in Places
    BY <1>1, <1>4, WholeFacts
  <2>2. Texts[f.node][Context(f)] \in Seq(Entry)
    BY <1>2, <2>1, TextIs
  <2> QED
    BY <1>4, <2>2 DEF Owed
<1>5. CASE f.node # 0 /\ f.i # 0
  <2> DEFINE s == ItemTexts(Texts, f.node, Context(f))
             a == FlattenSeq(SubSeq(s, f.i + 1, size))
             b == Texts[After(f.node)][Context(f)]
  <2>1. f.node \in Nodes /\ f.i \in 0..size
    BY <1>1, <1>5, RunAssumption DEF InLoop, Whole
  <2>2. s \in Seq(Seq(Entry)) /\ Len(s) = size
    BY <1>2, <2>1, TextsFixed, ItemsTyped
  <2>3. a \in Seq(Entry)
    <3> HIDE DEF s
    <3> QED
      BY <2>1, <2>2, LeftFacts
  <2>4. b \in Seq(Entry)
    BY <1>2, <2>1, AfterFacts, TextIs
  <2>5. Owed(f) = a \o b
    BY <1>5 DEF Owed
  <2> HIDE DEF a, b
  <2> QED
    BY <2>3, <2>4, <2>5
<1> QED
  BY <1>3, <1>4, <1>5


Rendering ==
    /\ Whole /\ TypeOK /\ RunTyped /\ frames # <<>>
    /\ Loops(frames) /\ Renders(frames, out)

LEMMA RenderingFacts ==
  ASSUME Rendering
  PROVE  /\ Top \in FrameSet /\ frames \in Seq(FrameSet) /\ Len(frames) \in Nat \ {0}
         /\ Len(frames) \in 1..Len(frames) /\ DOMAIN frames = 1..Len(frames)
         /\ Top.i > 0 => InLoop(Top)
         /\ out \in Seq(Entry) /\ Owed(Top) \in Seq(Entry)
<1>1. /\ Top \in FrameSet /\ frames \in Seq(FrameSet) /\ Len(frames) \in Nat \ {0}
      /\ Len(frames) \in 1..Len(frames) /\ DOMAIN frames = 1..Len(frames)
  BY TopTyped DEF Rendering, RunTyped
<1>2. Top.i > 0 => InLoop(Top)
  BY <1>1 DEF Rendering, Loops, Top
<1>3. Owed(Top) \in Seq(Entry)
  BY <1>1, <1>2, OwedTyped DEF Rendering
<1>4. out \in Seq(Entry)
  BY DEF Rendering, RunTyped, Entry
<1> QED
  BY <1>1, <1>2, <1>3, <1>4

(* What the calls before the last one owe does not change with it.         *)
LEMMA OwingBelow ==
  ASSUME Rendering
  PROVE  \E owed \in [0..Len(frames) - 1 -> Seq(Entry)] :
            /\ owed[0] = <<>>
            /\ \A k \in 1..Len(frames) - 1 : owed[k] = Owed(frames[k]) \o owed[k - 1]
            /\ out \o (Owed(Top) \o owed[Len(frames) - 1]) = RenderedText
<1>1. PICK all : Owing(frames, all) /\ out \o all[Len(frames)] = RenderedText
  BY DEF Rendering, Renders
<1> DEFINE L == Len(frames)
           owed == [k \in 0..L - 1 |-> all[k]]
<1>2. L \in Nat \ {0} /\ L \in 1..L
  BY RenderingFacts
<1>3. /\ all \in [0..L -> Seq(Entry)] /\ all[0] = <<>>
      /\ \A k \in 1..L : all[k] = Owed(frames[k]) \o all[k - 1]
  BY <1>1 DEF Owing
<1> HIDE DEF L
<1>4. owed \in [0..L - 1 -> Seq(Entry)]
  <2>1. \A k \in 0..L - 1 : k \in 0..L
    BY <1>2
  <2> QED
    BY <1>3, <2>1
<1>5. \A k \in 0..L - 1 : owed[k] = all[k]
  OBVIOUS
<1> HIDE DEF owed
<1>6. owed[0] = <<>>
  BY <1>2, <1>3, <1>5
<1>7. \A k \in 1..L - 1 : owed[k] = Owed(frames[k]) \o owed[k - 1]
  <2> TAKE k \in 1..L - 1
  <2>1. k \in 1..L /\ k \in 0..L - 1 /\ k - 1 \in 0..L - 1
    BY <1>2
  <2> QED
    BY <1>3, <1>5, <2>1
<1>8. all[L] = Owed(Top) \o owed[L - 1]
  <2>1. L - 1 \in 0..L - 1 /\ Top = frames[L]
    BY <1>2 DEF Top, L
  <2> QED
    BY <1>2, <1>3, <1>5, <2>1
<1>9. out \o (Owed(Top) \o owed[L - 1]) = RenderedText
  BY <1>1, <1>8 DEF L
<1> QED
  BY <1>4, <1>6, <1>7, <1>9 DEF L

LEMMA Replaced ==
  ASSUME NEW S, NEW s \in Seq(S), NEW n \in 1..Len(s), NEW e \in S
  PROVE  LET t == [s EXCEPT ![n] = e]
         IN  /\ t \in Seq(S) /\ Len(t) = Len(s) /\ DOMAIN t = 1..Len(s) /\ t[n] = e
             /\ \A k \in 1..Len(s) : k # n => t[k] = s[k]
<1> DEFINE t == [s EXCEPT ![n] = e]
<1>1. t \in Seq(S) /\ Len(t) = Len(s) /\ DOMAIN t = 1..Len(s)
  OBVIOUS
<1>2. t[n] = e
  OBVIOUS
<1>3. \A k \in 1..Len(s) : k # n => t[k] = s[k]
  OBVIOUS
<1> QED
  BY <1>1, <1>2, <1>3

(* The last call goes on, and has shown a part of what it owed.            *)
LEMMA Shown ==
  ASSUME Rendering, NEW f \in FrameSet, f.i > 0 => InLoop(f), NEW a \in Seq(Entry),
         Owed(Top) = a \o Owed(f)
  PROVE  /\ Loops([frames EXCEPT ![Len(frames)] = f])
         /\ Renders([frames EXCEPT ![Len(frames)] = f], out \o a)
<1> DEFINE L == Len(frames)
           fs == [frames EXCEPT ![L] = f]
<1>1. PICK owed \in [0..L - 1 -> Seq(Entry)] :
        /\ owed[0] = <<>>
        /\ \A k \in 1..L - 1 : owed[k] = Owed(frames[k]) \o owed[k - 1]
        /\ out \o (Owed(Top) \o owed[L - 1]) = RenderedText
  BY OwingBelow
<1>2. /\ L \in Nat \ {0} /\ L \in 1..L /\ L - 1 \in 0..L - 1 /\ frames \in Seq(FrameSet)
      /\ DOMAIN frames = 1..L /\ out \in Seq(Entry)
  BY RenderingFacts
<1>3. Owed(f) \in Seq(Entry)
  BY OwedTyped DEF Rendering
<1>4. Len(fs) = L /\ DOMAIN fs = 1..L /\ fs[L] = f /\ \A k \in 1..L - 1 : fs[k] = frames[k]
  <2>1. /\ fs \in Seq(FrameSet) /\ Len(fs) = L /\ DOMAIN fs = 1..L /\ fs[L] = f
        /\ \A k \in 1..L : k # L => fs[k] = frames[k]
    BY <1>2, Replaced
  <2> HIDE DEF fs, L
  <2>2. \A k \in 1..L - 1 : k \in 1..L /\ k # L
    BY <1>2
  <2> QED
    BY <2>1, <2>2
<1>5. Loops(fs)
  <2>1. \A k \in 1..L : k # L => fs[k] = frames[k]
    BY <1>2, <1>4
  <2> HIDE DEF fs, L
  <2> QED
    BY <1>2, <1>4, <2>1 DEF Loops, Rendering
<1> DEFINE all == [k \in 0..L |-> IF k = L THEN Owed(f) \o owed[L - 1] ELSE owed[k]]
<1>6. owed[L - 1] \in Seq(Entry)
  BY <1>1, <1>2
<1>7. Owed(f) \o owed[L - 1] \in Seq(Entry)
  BY <1>3, <1>6, Associates
<1> HIDE DEF fs, L
<1>8. all \in [0..L -> Seq(Entry)]
  <2>1. \A k \in 0..L : k # L => k \in 0..L - 1
    BY <1>2
  <2> QED
    BY <1>1, <1>7, <2>1
<1>9. all[L] = Owed(f) \o owed[L - 1] /\ \A k \in 0..L - 1 : all[k] = owed[k]
  <2>1. L \in 0..L /\ \A k \in 0..L - 1 : k \in 0..L /\ k # L
    BY <1>2
  <2> QED
    BY <2>1
<1> HIDE DEF all
<1>10. Owing(fs, all)
  <2>1. all[0] = <<>>
    BY <1>1, <1>2, <1>9
  <2>2. ASSUME NEW k \in 1..L PROVE all[k] = Owed(fs[k]) \o all[k - 1]
    <3>1. k - 1 \in 0..L - 1 /\ (k # L => k \in 1..L - 1 /\ k \in 0..L - 1)
      BY <1>2
    <3>2. CASE k = L
      BY <1>4, <1>9, <3>1, <3>2
    <3>3. CASE k # L
      <4>1. owed[k] = Owed(frames[k]) \o owed[k - 1]
        BY <1>1, <3>1, <3>3
      <4> QED
        BY <1>4, <1>9, <3>1, <3>3, <4>1
    <3> QED
      BY <3>2, <3>3
  <2> QED
    BY <1>4, <1>8, <2>1, <2>2 DEF Owing
<1>11. (out \o a) \o all[L] = RenderedText
  <2> DEFINE b == Owed(f)
             c == owed[L - 1]
  <2>1. b \in Seq(Entry) /\ c \in Seq(Entry) /\ out \in Seq(Entry) /\ a \in Seq(Entry)
    BY <1>2, <1>3, <1>6
  <2>2. out \o ((a \o b) \o c) = RenderedText /\ all[L] = b \o c
    BY <1>1, <1>9
  <2> HIDE DEF b, c
  <2>3. (a \o b) \o c = a \o (b \o c) /\ b \o c \in Seq(Entry)
    BY <2>1
  <2>4. (out \o a) \o (b \o c) = out \o (a \o (b \o c))
    BY <2>1, <2>3, Associates
  <2> QED
    BY <2>2, <2>3, <2>4
<1>12. Renders(fs, out \o a)
  BY <1>4, <1>10, <1>11 DEF Renders
<1> QED
  BY <1>5, <1>12 DEF fs, L

(* It calls tag_run for what is inside the block.                          *)
LEMMA Entering ==
  ASSUME Rendering, NEW f \in FrameSet, f.i > 0 => InLoop(f), NEW g \in FrameSet, g.i = 0,
         Owed(Top) = Owed(g) \o Owed(f)
  PROVE  /\ Loops(Append([frames EXCEPT ![Len(frames)] = f], g))
         /\ Renders(Append([frames EXCEPT ![Len(frames)] = f], g), out)
<1> DEFINE L == Len(frames)
           fs == [frames EXCEPT ![L] = f]
           gs == Append(fs, g)
<1>1. PICK owed \in [0..L - 1 -> Seq(Entry)] :
        /\ owed[0] = <<>>
        /\ \A k \in 1..L - 1 : owed[k] = Owed(frames[k]) \o owed[k - 1]
        /\ out \o (Owed(Top) \o owed[L - 1]) = RenderedText
  BY OwingBelow
<1>2. /\ L \in Nat \ {0} /\ L \in 1..L /\ L - 1 \in 0..L - 1 /\ frames \in Seq(FrameSet)
      /\ DOMAIN frames = 1..L /\ out \in Seq(Entry)
  BY RenderingFacts
<1>3. Owed(f) \in Seq(Entry) /\ Owed(g) \in Seq(Entry)
  <2>1. ~(g.i > 0)
    OBVIOUS
  <2> QED
    BY <2>1, OwedTyped DEF Rendering
<1>4. /\ fs \in Seq(FrameSet) /\ Len(fs) = L /\ DOMAIN fs = 1..L /\ fs[L] = f
      /\ \A k \in 1..L - 1 : fs[k] = frames[k]
  <2>1. /\ fs \in Seq(FrameSet) /\ Len(fs) = L /\ DOMAIN fs = 1..L /\ fs[L] = f
        /\ \A k \in 1..L : k # L => fs[k] = frames[k]
    BY <1>2, Replaced
  <2> HIDE DEF fs, L
  <2>2. \A k \in 1..L - 1 : k \in 1..L /\ k # L
    BY <1>2
  <2> QED
    BY <2>1, <2>2
<1>5. /\ Len(gs) = L + 1 /\ DOMAIN gs = 1..L + 1 /\ gs[L + 1] = g /\ gs[L] = f
      /\ \A k \in 1..L - 1 : gs[k] = frames[k]
  <2> HIDE DEF fs, L
  <2>1. Len(gs) = L + 1 /\ DOMAIN gs = 1..L + 1 /\ gs[L + 1] = g /\ \A k \in 1..L : gs[k] = fs[k]
    BY <1>2, <1>4
  <2>2. \A k \in 1..L - 1 : k \in 1..L
    BY <1>2
  <2> HIDE DEF gs
  <2> QED
    BY <1>2, <1>4, <2>1, <2>2
<1> HIDE DEF fs, L, gs
<1>6. Loops(gs)
  <2>1. \A k \in 1..L + 1 : k = L + 1 \/ k = L \/ (k \in 1..L - 1 /\ k \in 1..L)
    BY <1>2
  <2>2. ~(gs[L + 1].i > 0)
    BY <1>5
  <2> QED
    BY <1>2, <1>5, <2>1, <2>2 DEF Loops, Rendering
<1> DEFINE all == [k \in 0..L + 1 |->
                     IF k = L + 1 THEN Owed(g) \o (Owed(f) \o owed[L - 1])
                     ELSE IF k = L THEN Owed(f) \o owed[L - 1] ELSE owed[k]]
<1>7. owed[L - 1] \in Seq(Entry)
  BY <1>1, <1>2
<1>8. Owed(f) \o owed[L - 1] \in Seq(Entry)
  BY <1>3, <1>7, Associates
<1>9. Owed(g) \o (Owed(f) \o owed[L - 1]) \in Seq(Entry)
  BY <1>3, <1>8, Associates
<1>10. all \in [0..L + 1 -> Seq(Entry)]
  <2>1. \A k \in 0..L + 1 : k # L + 1 /\ k # L => k \in 0..L - 1
    BY <1>2
  <2> QED
    BY <1>1, <1>8, <1>9, <2>1
<1>11. /\ all[L + 1] = Owed(g) \o all[L] /\ all[L] = Owed(f) \o owed[L - 1]
       /\ \A k \in 0..L - 1 : all[k] = owed[k]
  <2>1. /\ L + 1 \in 0..L + 1 /\ L \in 0..L + 1 /\ L # L + 1
        /\ \A k \in 0..L - 1 : k \in 0..L + 1 /\ k # L /\ k # L + 1
    BY <1>2
  <2> QED
    BY <2>1
<1> HIDE DEF all
<1>12. Owing(gs, all)
  <2>1. all[0] = <<>>
    BY <1>1, <1>2, <1>11
  <2>2. ASSUME NEW k \in 1..L + 1 PROVE all[k] = Owed(gs[k]) \o all[k - 1]
    <3>1. /\ k = L + 1 => k - 1 = L
          /\ k = L => k - 1 \in 0..L - 1
          /\ k # L + 1 /\ k # L => k \in 1..L - 1 /\ k \in 0..L - 1 /\ k - 1 \in 0..L - 1
      BY <1>2
    <3>2. CASE k = L + 1
      BY <1>5, <1>11, <3>1, <3>2
    <3>3. CASE k = L
      BY <1>5, <1>11, <3>1, <3>3
    <3>4. CASE k # L + 1 /\ k # L
      <4>1. owed[k] = Owed(frames[k]) \o owed[k - 1]
        BY <1>1, <3>1, <3>4
      <4> QED
        BY <1>5, <1>11, <3>1, <3>4, <4>1
    <3> QED
      BY <3>2, <3>3, <3>4
  <2> QED
    BY <1>5, <1>10, <2>1, <2>2 DEF Owing
<1>13. out \o all[L + 1] = RenderedText
  <2> DEFINE a == Owed(g)
             b == Owed(f)
             c == owed[L - 1]
  <2>1. a \in Seq(Entry) /\ b \in Seq(Entry) /\ c \in Seq(Entry)
    BY <1>3, <1>7
  <2>2. out \o ((a \o b) \o c) = RenderedText /\ all[L + 1] = a \o (b \o c)
    BY <1>1, <1>11
  <2> HIDE DEF a, b, c
  <2>3. (a \o b) \o c = a \o (b \o c)
    BY <2>1, Associates
  <2> QED
    BY <2>2, <2>3
<1>14. Renders(gs, out)
  BY <1>5, <1>12, <1>13 DEF Renders
<1> QED
  BY <1>6, <1>14 DEF gs, fs, L

(* A call that owes nothing more returns.                                  *)
LEMMA Returning ==
  ASSUME Rendering, Owed(Top) = <<>>
  PROVE  /\ Loops(SubSeq(frames, 1, Len(frames) - 1))
         /\ Renders(SubSeq(frames, 1, Len(frames) - 1), out)
<1> DEFINE L == Len(frames)
           fs == SubSeq(frames, 1, L - 1)
<1>1. PICK owed \in [0..L - 1 -> Seq(Entry)] :
        /\ owed[0] = <<>>
        /\ \A k \in 1..L - 1 : owed[k] = Owed(frames[k]) \o owed[k - 1]
        /\ out \o (Owed(Top) \o owed[L - 1]) = RenderedText
  BY OwingBelow
<1>2. /\ L \in Nat \ {0} /\ L - 1 \in 0..L - 1 /\ frames \in Seq(FrameSet) /\ DOMAIN frames = 1..L
  BY RenderingFacts
<1>3. /\ Len(fs) = L - 1 /\ DOMAIN fs = 1..L - 1 /\ \A k \in 1..L - 1 : fs[k] = frames[k]
  <2>1. fs \in Seq(FrameSet) /\ Len(fs) = L - 1 /\ \A k \in 1..L - 1 : fs[k] = frames[k]
    BY SeqFacts, RenderingFacts DEF Rendering
  <2> HIDE DEF fs
  <2> QED
    BY <2>1
<1> HIDE DEF fs, L
<1>4. Loops(fs)
  <2>1. \A k \in 1..L - 1 : k \in 1..L
    BY <1>2
  <2> QED
    BY <1>2, <1>3, <2>1 DEF Loops, Rendering
<1>5. Owing(fs, owed)
  BY <1>1, <1>3 DEF Owing
<1>6. <<>> \o owed[L - 1] = owed[L - 1]
  <2>1. owed[L - 1] \in Seq(Entry)
    BY <1>1, <1>2
  <2> QED
    BY <2>1, Associates
<1>7. Renders(fs, out)
  BY <1>1, <1>3, <1>5, <1>6 DEF Renders
<1> QED
  BY <1>4, <1>7 DEF fs, L


-----------------------------------------------------------------------------
(* What each step of tag_run shows                                         *)

Onward(f) == [f EXCEPT !.node = next[f.node], !.i = 0, !.called = FALSE]

LEMMA OnwardFacts ==
  ASSUME Rendering, AtNode
  PROVE  /\ Top.node \in Nodes /\ Context(Top) \in Contexts
         /\ Top.current \in Values \ {Null} /\ Top.previous \in Values
         /\ tag[Top.node].op # "loop" => Top.i = 0
         /\ Onward(Top) \in FrameSet /\ Onward(Top).i = 0
         /\ Advanced(frames) = [frames EXCEPT ![Len(frames)] = Onward(Top)]
         /\ doc[Top.node] = "end" => Owed(Onward(Top)) = <<>>
         /\ doc[Top.node] # "end" => Owed(Onward(Top)) = Texts[After(Top.node)][Context(Top)]
<1> DEFINE n == Top.node
           g == Onward(Top)
<1>1. Top \in FrameSet /\ n \in Nodes /\ next \in [Nodes -> Nodes \cup {0}]
  BY AtNodeFacts DEF Rendering, TypeOK
<1>2. Top.current \in Values \ {Null} /\ Top.previous \in Values /\ Top.i \in Nat
  BY <1>1 DEF FrameSet
<1>3. Context(Top) \in Contexts
  BY <1>2, ContextFacts
<1>4. tag[n].op # "loop" => Top.i = 0
  <2>1. Top.i > 0 => InLoop(Top)
    BY RenderingFacts
  <2> QED
    BY <1>2, <2>1 DEF InLoop
<1>5. FALSE \in BOOLEAN /\ 0 \in Nat /\ next[n] \in Nodes \cup {0}
  BY <1>1
<1>6. /\ g \in FrameSet /\ g.i = 0 /\ g.node = next[n]
      /\ g.current = Top.current /\ g.previous = Top.previous
  BY <1>1, <1>5 DEF FrameSet, Onward
<1>7. Advanced(frames) = [frames EXCEPT ![Len(frames)] = g]
  BY DEF Advanced, Top, Onward
<1>8. Context(g) = Context(Top)
  BY <1>6 DEF Context
<1>9. doc[n] = "end" => Owed(g) = <<>>
  BY <1>1, <1>6, NextAfter DEF Owed, Rendering
<1>10. ASSUME doc[n] # "end" PROVE Owed(g) = Texts[After(n)][Context(Top)]
  <2>1. next[n] = IF Ends(After(n)) THEN 0 ELSE After(n)
    BY <1>1, <1>10, NextAfter DEF Rendering
  <2>2. After(n) \in Places /\ 0 \notin Places
    BY <1>1, AfterFacts DEF Rendering, Places
  <2>3. CASE Ends(After(n))
    <3>1. Texts[After(n)][Context(Top)] = <<>>
      BY <1>3, <2>2, <2>3, TextIs DEF Rendering
    <3> QED
      BY <1>6, <2>1, <2>3, <3>1 DEF Owed
  <2>4. CASE ~Ends(After(n))
    <3>1. g.node = After(n) /\ g.node # 0
      BY <1>6, <2>1, <2>2, <2>4
    <3> HIDE DEF n, g
    <3> QED
      BY <1>6, <1>8, <3>1 DEF Owed
  <2> QED
    BY <2>3, <2>4
<1> QED
  BY <1>1, <1>2, <1>3, <1>4, <1>6, <1>7, <1>9, <1>10

(* A piece shows its part of the text, and the walk goes on.               *)
LEMMA PieceShows ==
  ASSUME Rendering, AtNode, doc[Top.node] # "end", Top.i = 0
  PROVE  /\ Shows(Top.node, Context(Top), Texts) \in Seq(Entry)
         /\ Owed(Top) = Shows(Top.node, Context(Top), Texts) \o Owed(Onward(Top))
         /\ Loops(Advanced(frames))
         /\ Renders(Advanced(frames), out \o Shows(Top.node, Context(Top), Texts))
<1> DEFINE n == Top.node
           c == Context(Top)
           a == Shows(n, c, Texts)
<1>1. /\ n \in Nodes /\ c \in Contexts /\ Onward(Top) \in FrameSet /\ Onward(Top).i = 0
      /\ Advanced(frames) = [frames EXCEPT ![Len(frames)] = Onward(Top)]
      /\ Owed(Onward(Top)) = Texts[After(n)][c]
  BY OnwardFacts
<1>2. n \in Places /\ ~Ends(n) /\ n # 0
  BY <1>1, WholeFacts DEF Rendering, Ends
<1>3. a \in Seq(Entry) /\ Texts[n][c] = a \o Texts[After(n)][c]
  BY <1>1, <1>2, TextIs DEF Rendering
<1>4. Owed(Top) = Texts[n][c]
  BY <1>2 DEF Owed
<1>5. Owed(Top) = a \o Owed(Onward(Top))
  BY <1>1, <1>3, <1>4
<1> HIDE DEF a
<1>6. /\ Loops([frames EXCEPT ![Len(frames)] = Onward(Top)])
      /\ Renders([frames EXCEPT ![Len(frames)] = Onward(Top)], out \o a)
  <2>1. ~(Onward(Top).i > 0)
    BY <1>1
  <2> QED
    BY <1>1, <1>3, <1>5, <2>1, Shown
<1> QED
  BY <1>1, <1>3, <1>5, <1>6 DEF a

LEMMA OutFacts ==
  ASSUME Rendering, NEW e
  PROVE  Append(out, e) = out \o <<e>> /\ out \o <<>> = out
<1>1. out \in Seq(Entry)
  BY RenderingFacts
<1>2. out \o <<>> = out
  BY <1>1, Associates
<1>3. Append(out, e) = out \o <<e>>
  BY <1>1
<1> QED
  BY <1>2, <1>3

LEMMA TextShows ==
  ASSUME Rendering, Text, fault' = "none"
  PROVE  Loops(frames') /\ Renders(frames', out')
<1>1. /\ AtNode /\ tag[Top.node].op = "text" /\ Add(<<Top.node, Null>>)
      /\ frames' = Advanced(frames)
  BY DEF Text, Visit
<1>2. out' = Append(out, <<Top.node, Null>>)
  BY <1>1 DEF Add
<1>3. Top.node \in Nodes /\ Top.i = 0
  BY <1>1, OnwardFacts
<1>4. doc[Top.node] # "end"
  BY <1>1, <1>3, OpFacts DEF Rendering
<1>5. Shows(Top.node, Context(Top), Texts) = << <<Top.node, Null>> >>
  BY <1>1, ShowsIs
<1>6. out' = out \o << <<Top.node, Null>> >>
  BY <1>2, OutFacts
<1> QED
  BY <1>1, <1>3, <1>4, <1>5, <1>6, PieceShows

(* The variable it looks up is the same in what the block sees.            *)
LEMMA Seen ==
  ASSUME Rendering, AtNode
  PROVE  /\ Expand(tag[Top.node].name, Origin(tag[Top.node], Context(Top)))
              = Expand(tag[Top.node].name, Origin(tag[Top.node], Top))
         /\ Chosen(tag[Top.node], Context(Top)) = Chosen(tag[Top.node], Top)
         /\ Context(Top).current = Top.current
<1>1. Top.current \in Values /\ Top.previous \in Values
  BY OnwardFacts
<1>2. /\ Origin(tag[Top.node], Context(Top)) = Origin(tag[Top.node], Top)
      /\ Chosen(tag[Top.node], Context(Top)) = Chosen(tag[Top.node], Top)
  BY <1>1, ContextFacts
<1> QED
  BY <1>2 DEF Context

LEMMA ShowShows ==
  ASSUME Rendering, Show \/ ShowItem, fault' = "none"
  PROVE  Loops(frames') /\ Renders(frames', out')
<1> DEFINE n == Top.node
           v == Expand(tag[n].name, Origin(tag[n], Top))
<1>1. AtNode /\ fault = "none" /\ tag[n].op = "show"
  <2>1. AtNode /\ tag[n].op = "show"
    BY DEF Show, ShowItem, Visit
  <2> QED
    BY <2>1 DEF AtNode
<1>2. n \in Nodes /\ Top.i = 0
  BY <1>1, OnwardFacts
<1>3. doc[n] # "end"
  BY <1>1, <1>2, OpFacts DEF Rendering
<1>4. Shows(n, Context(Top), Texts) = IF v = Null THEN <<>> ELSE << <<n, v>> >>
  <2> DEFINE w == Expand(tag[n].name, Origin(tag[n], Context(Top)))
  <2>1. Shows(n, Context(Top), Texts) = IF w = Null THEN <<>> ELSE << <<n, w>> >>
    BY <1>1, ShowsIs
  <2>2. w = v
    BY <1>1, Seen
  <2> HIDE DEF w, v
  <2> QED
    BY <2>1, <2>2
<1>5. frames' = Advanced(frames) /\ IF v = Null THEN out' = out ELSE out' = Append(out, <<n, v>>)
  <2>1. CASE Show
    <3>1. /\ frames' = Advanced(frames)
          /\ IF v = Null THEN UNCHANGED <<out, fault>> ELSE Add(<<n, v>>)
      BY <2>1 DEF Show
    <3> HIDE DEF v, n
    <3> QED
      BY <3>1 DEF Add
  <2>2. CASE ShowItem
    <3>1. v = Array
      BY <2>2 DEF ShowItem, ShowsArray
    <3>2. frames' = Advanced(frames) /\ Add(<<n, Array>>)
      BY <2>2 DEF ShowItem
    <3>3. Array # Null
      BY ValueFacts
    <3> HIDE DEF v, n
    <3> QED
      BY <3>1, <3>2, <3>3 DEF Add
  <2> QED
    BY <2>1, <2>2
<1>6. out' = out \o Shows(n, Context(Top), Texts)
  <2> HIDE DEF v, n
  <2> QED
    BY <1>4, <1>5, OutFacts
<1> QED
  BY <1>1, <1>2, <1>3, <1>5, <1>6, PieceShows

LEMMA SkipShows ==
  ASSUME Rendering, Skip
  PROVE  Loops(frames') /\ Renders(frames', out')
<1> DEFINE n == Top.node
<1>1. /\ AtNode
      /\ doc[n] = "odd" \/ tag[n].op = "end"
      /\ frames' = Advanced(frames) /\ out' = out
  BY DEF Skip
<1>2. n \in Nodes /\ Context(Top) \in Contexts
  BY <1>1, OnwardFacts
<1>3. tag[n].op = "end" /\ doc[n] = "end"
  BY <1>1, <1>2, OpFacts DEF Rendering, Whole
<1>4. /\ Top.i = 0 /\ Onward(Top) \in FrameSet /\ ~(Onward(Top).i > 0)
      /\ Advanced(frames) = [frames EXCEPT ![Len(frames)] = Onward(Top)]
      /\ Owed(Onward(Top)) = <<>>
  BY <1>1, <1>3, OnwardFacts
<1>5. Owed(Top) = <<>>
  <2>1. n \in Places /\ n # 0 /\ Ends(n)
    BY <1>2, <1>3, WholeFacts DEF Rendering, Ends
  <2>2. Texts[n][Context(Top)] = <<>>
    BY <1>2, <2>1, TextIs DEF Rendering
  <2> QED
    BY <1>4, <2>1, <2>2 DEF Owed
<1>6. <<>> \in Seq(Entry) /\ Owed(Top) = <<>> \o Owed(Onward(Top))
  <2>1. <<>> \o <<>> = <<>>
    OBVIOUS
  <2> QED
    BY <1>4, <1>5, <2>1
<1>7. /\ Loops([frames EXCEPT ![Len(frames)] = Onward(Top)])
      /\ Renders([frames EXCEPT ![Len(frames)] = Onward(Top)], out \o <<>>)
  BY <1>4, <1>6, Shown
<1> QED
  BY <1>1, <1>4, <1>7, OutFacts

(* A block that is left out shows nothing; the inside of another one shows *)
(* what the text says it does.                                             *)
LEMMA InsideOwed ==
  ASSUME Rendering, AtNode, doc[Top.node] = "open",
         NEW v \in Values \ {Null}, NEW u \in Values
  PROVE  LET g == Frame(child[Top.node], v, u)
         IN  /\ g \in FrameSet /\ g.i = 0
             /\ Owed(g) = Texts[Top.node + 1][[current |-> v, previous |-> u]]
<1> DEFINE n == Top.node
           g == Frame(child[n], v, u)
<1>1. n \in Nodes
  BY OnwardFacts
<1>2. child[n] = n + 1 /\ n + 1 \in Nodes /\ n + 1 # 0
  BY <1>1, NextAfter, WholeFacts DEF Rendering
<1>3. g \in FrameSet /\ g.i = 0
  BY <1>2 DEF Frame, FrameSet
<1>4. g.node = n + 1 /\ g.current = v /\ g.previous = u
  BY <1>2 DEF Frame
<1>5. Owed(g) = Texts[n + 1][[current |-> v, previous |-> u]]
  <2> HIDE DEF g
  <2> QED
    BY <1>2, <1>3, <1>4 DEF Owed, Context
<1> QED
  BY <1>3, <1>5

LEMMA BranchShows ==
  ASSUME Rendering, NEW op \in {"if", "unless"}, Branch(op)
  PROVE  Loops(frames') /\ Renders(frames', out')
<1> DEFINE n == Top.node
           v == Chosen(tag[n], Top)
           g == Frame(child[n], v, Top.current)
<1>1. AtNode /\ tag[n].op = op /\ out' = out
  BY DEF Branch, Visit
<1>2. /\ n \in Nodes /\ Top.i = 0 /\ Onward(Top) \in FrameSet /\ ~(Onward(Top).i > 0)
      /\ Top.current \in Values \ {Null} /\ Top.previous \in Values
      /\ Advanced(frames) = [frames EXCEPT ![Len(frames)] = Onward(Top)]
  BY <1>1, OnwardFacts
<1>3. doc[n] = "open"
  BY <1>1, <1>2, OpFacts DEF Rendering
<1>4. Shows(n, Context(Top), Texts) =
        IF v = Null THEN <<>> ELSE Texts[n + 1][[current |-> v, previous |-> Top.current]]
  <2> DEFINE w == Chosen(tag[n], Context(Top))
             u == Context(Top).current
  <2>1. Shows(n, Context(Top), Texts) =
          IF w = Null THEN <<>> ELSE Texts[n + 1][[current |-> w, previous |-> u]]
    BY <1>1, ShowsIs
  <2>2. w = v /\ u = Top.current
    BY <1>1, Seen
  <2> HIDE DEF w, v, u
  <2> QED
    BY <2>1, <2>2
<1>5. frames' = Advanced(frames) \o (IF v = Null THEN <<>> ELSE <<g>>)
  BY DEF Branch
<1>6. Advanced(frames) \in Seq(FrameSet)
  BY <1>1, AtNodeFacts, AdvancedMoves, MovedFacts DEF Rendering
<1>7. v \in Values
  BY <1>2, ContextFacts
<1>8. CASE v = Null
  <2>1. frames' = Advanced(frames)
    <3>1. frames' = Advanced(frames) \o <<>>
      BY <1>5, <1>8
    <3> QED
      BY <1>6, <3>1, Associates
  <2>2. out \o Shows(n, Context(Top), Texts) = out
    BY <1>4, <1>8, OutFacts
  <2> QED
    BY <1>1, <1>2, <1>3, <2>1, <2>2, PieceShows
<1>9. CASE v # Null
  <2>1. g \in FrameSet /\ g.i = 0 /\ Owed(g) = Shows(n, Context(Top), Texts)
    BY <1>1, <1>2, <1>3, <1>4, <1>7, <1>9, InsideOwed
  <2>2. frames' = Append(Advanced(frames), g)
    <3>1. frames' = Advanced(frames) \o <<g>>
      BY <1>5, <1>9
    <3> HIDE DEF g
    <3> QED
      BY <1>6, <2>1, <3>1
  <2>3. Owed(Top) = Owed(g) \o Owed(Onward(Top))
    BY <1>1, <1>2, <1>3, <2>1, PieceShows
  <2> HIDE DEF g
  <2>4. /\ Loops(Append([frames EXCEPT ![Len(frames)] = Onward(Top)], g))
        /\ Renders(Append([frames EXCEPT ![Len(frames)] = Onward(Top)], g), out)
    BY <1>2, <2>1, <2>3, Entering
  <2> QED
    BY <1>1, <1>2, <2>2, <2>4
<1> QED
  BY <1>8, <1>9


(* An array's block is shown for one item after the other.                 *)
LEMMA LoopShows ==
  ASSUME Rendering, Loop
  PROVE  Loops(frames') /\ Renders(frames', out')
<1> DEFINE n == Top.node
           c == Context(Top)
           i == Top.i
           array == Expand(tag[n].name, Origin(tag[n], Top)) = Array
           ss == ItemTexts(Texts, n, c)
           behind == Texts[After(n)][c]
<1>1. AtNode /\ tag[n].op = "loop" /\ out' = out
  BY DEF Loop, Visit
<1>2. /\ n \in Nodes /\ c \in Contexts /\ Onward(Top) \in FrameSet /\ Onward(Top).i = 0
      /\ ~(Onward(Top).i > 0) /\ Top \in FrameSet
      /\ Advanced(frames) = [frames EXCEPT ![Len(frames)] = Onward(Top)]
  BY <1>1, OnwardFacts, RenderingFacts
<1>3. doc[n] = "open" /\ Owed(Onward(Top)) = behind
  <2>1. doc[n] = "open"
    BY <1>1, <1>2, OpFacts DEF Rendering
  <2> QED
    BY <1>1, <2>1, OnwardFacts
<1>4. /\ array /\ i < size =>
           frames' = Append([frames EXCEPT ![Len(frames)].i = i + 1],
                            Frame(child[n], Item(i), Item(IF i = 0 THEN 0 ELSE i - 1)))
      /\ ~(array /\ i < size) => frames' = Advanced(frames)
  BY DEF Loop
<1>5. size \in Nat /\ i \in Nat /\ (i > 0 => InLoop(Top))
  BY <1>2, RenderingFacts, RunAssumption DEF FrameSet, Rendering, Whole
<1>6. ASSUME array
      PROVE  /\ i \in 0..size /\ ss \in Seq(Seq(Entry)) /\ Len(ss) = size
             /\ behind \in Seq(Entry)
             /\ Owed(Top) = FlattenSeq(SubSeq(ss, i + 1, size)) \o behind
  <2>1. i \in 0..size
    BY <1>5 DEF InLoop
  <2>2. ss \in Seq(Seq(Entry)) /\ Len(ss) = size
    BY <1>2, TextsFixed, ItemsTyped DEF Rendering
  <2>3. behind \in Seq(Entry)
    BY <1>2, AfterFacts, TextIs DEF Rendering
  <2>4. Owed(Top) = FlattenSeq(SubSeq(ss, i + 1, size)) \o behind
    BY <1>1, <1>2, <1>6, OwedInLoop DEF Rendering
  <2> QED
    BY <2>1, <2>2, <2>3, <2>4
<1>7. CASE ~array
  <2>1. i = 0
    BY <1>5, <1>7 DEF InLoop
  <2>2. Shows(n, c, Texts) = <<>>
    <3> DEFINE w == Expand(tag[n].name, Origin(tag[n], c))
    <3>1. Shows(n, c, Texts) = IF w = Array THEN FlattenSeq(ss) ELSE <<>>
      BY <1>1, ShowsIs
    <3>2. w # Array
      BY <1>1, <1>7, Seen
    <3> HIDE DEF w
    <3> QED
      BY <3>1, <3>2
  <2>3. out \o Shows(n, c, Texts) = out
    BY <2>2, OutFacts
  <2>4. frames' = Advanced(frames)
    BY <1>4, <1>7
  <2> HIDE DEF array
  <2> QED
    BY <1>1, <1>3, <2>1, <2>3, <2>4, PieceShows
<1>8. CASE array /\ ~(i < size)
  <2>1. i = size
    BY <1>5, <1>6, <1>8
  <2>2. FlattenSeq(SubSeq(ss, i + 1, size)) = <<>>
    <3> HIDE DEF ss
    <3> QED
      BY <1>6, <1>8, <2>1, LeftFacts
  <2>3. Owed(Top) = <<>> \o Owed(Onward(Top))
    BY <1>3, <1>6, <1>8, <2>2
  <2>4. <<>> \in Seq(Entry)
    OBVIOUS
  <2>5. /\ Loops([frames EXCEPT ![Len(frames)] = Onward(Top)])
        /\ Renders([frames EXCEPT ![Len(frames)] = Onward(Top)], out \o <<>>)
    BY <1>2, <2>3, <2>4, Shown
  <2>6. frames' = Advanced(frames)
    BY <1>4, <1>8
  <2> HIDE DEF array
  <2> QED
    BY <1>1, <1>2, <2>5, <2>6, OutFacts
<1>9. CASE array /\ i < size
  <2> DEFINE f == [Top EXCEPT !.i = i + 1]
             u == Item(IF i = 0 THEN 0 ELSE i - 1)
             g == Frame(child[n], Item(i), u)
  <2>1. i + 1 \in Nat /\ i \in 0..size - 1 /\ i + 1 <= size
    BY <1>5, <1>9
  <2>2. /\ f \in FrameSet /\ f.node = n /\ f.i = i + 1
        /\ f.current = Top.current /\ f.previous = Top.previous
    BY <1>2, <2>1 DEF FrameSet
  <2>3. [frames EXCEPT ![Len(frames)].i = i + 1] = [frames EXCEPT ![Len(frames)] = f]
    BY DEF Top
  <2> HIDE DEF f
  <2>4. Context(f) = c /\ Origin(tag[n], f) = Origin(tag[n], Top)
    BY <2>2 DEF Context, Origin, Used
  <2>5. InLoop(f)
    BY <1>1, <1>2, <1>9, <2>1, <2>2, <2>4 DEF InLoop
  <2>6. Owed(f) = FlattenSeq(SubSeq(ss, (i + 1) + 1, size)) \o behind
    <3>1. /\ Expand(tag[f.node].name, Origin(tag[f.node], f)) = Array
          /\ f.node \in Nodes /\ tag[f.node].op = "loop"
      BY <2>5 DEF InLoop
    <3>2. Owed(f) = FlattenSeq(SubSeq(ItemTexts(Texts, f.node, Context(f)), f.i + 1, size))
                      \o Texts[After(f.node)][Context(f)]
      BY <2>2, <3>1, OwedInLoop DEF Rendering
    <3> QED
      BY <2>2, <2>4, <3>2
  <2>7. g \in FrameSet /\ g.i = 0 /\ Owed(g) = ss[i + 1]
    <3>1. Item(i) \in Values \ {Null} /\ u \in Values
      BY <1>2, <2>1, ItemFacts DEF Rendering, Contexts
    <3>2. g \in FrameSet /\ g.i = 0 /\ Owed(g) = Texts[n + 1][[current |-> Item(i), previous |-> u]]
      BY <1>1, <1>3, <3>1, InsideOwed
    <3>3. ss[i + 1] = Texts[n + 1][ItemContext(i, c)]
      <4>1. i + 1 \in 1..size /\ (i + 1) - 1 = i
        BY <2>1
      <4>2. ss[i + 1] = Texts[n + 1][ItemContext((i + 1) - 1, c)]
        BY <4>1 DEF ItemTexts
      <4> QED
        BY <4>1, <4>2
    <3>4. Texts[n + 1][ItemContext(i, c)] = Texts[n + 1][[current |-> Item(i), previous |-> u]]
      <4> DEFINE d == ItemContext(i, c)
                 e == [current |-> Item(i), previous |-> u]
      <4>1. d \in Contexts /\ e \in Contexts /\ d.current = e.current
        BY <1>2, <2>1, <3>1, ItemFacts DEF Rendering, Contexts, ItemContext
      <4> HIDE DEF d, e
      <4>2. Texts[n + 1][d] = Texts[n + 1][e]
        BY <1>1, <1>2, <1>3, <4>1, Unaffected DEF Rendering
      <4> QED
        BY <4>2 DEF d, e
    <3> HIDE DEF u, g, ss
    <3> QED
      BY <3>2, <3>3, <3>4
  <2>8. Owed(Top) = Owed(g) \o Owed(f)
    <3> DEFINE a == ss[i + 1]
               b == FlattenSeq(SubSeq(ss, (i + 1) + 1, size))
    <3>1. /\ a \in Seq(Entry) /\ b \in Seq(Entry)
          /\ FlattenSeq(SubSeq(ss, i + 1, size)) = a \o b
      <4> HIDE DEF ss
      <4> QED
        BY <1>6, <1>9, LeftFacts
    <3>2. Owed(Top) = (a \o b) \o behind /\ behind \in Seq(Entry)
      BY <1>6, <1>9, <3>1
    <3>3. Owed(g) = a /\ Owed(f) = b \o behind
      BY <2>6, <2>7
    <3> HIDE DEF a, b, behind, g
    <3>4. (a \o b) \o behind = a \o (b \o behind)
      BY <3>1, <3>2
    <3> QED
      BY <3>2, <3>3, <3>4
  <2>9. frames' = Append([frames EXCEPT ![Len(frames)] = f], g)
    BY <1>4, <1>9, <2>3
  <2> HIDE DEF g
  <2>10. /\ Loops(Append([frames EXCEPT ![Len(frames)] = f], g))
         /\ Renders(Append([frames EXCEPT ![Len(frames)] = f], g), out)
    BY <2>2, <2>5, <2>7, <2>8, Entering
  <2> HIDE DEF array
  <2> QED
    BY <1>1, <2>9, <2>10
<1> QED
  BY <1>7, <1>8, <1>9

LEMMA ReturnShows ==
  ASSUME Rendering, Return
  PROVE  Loops(frames') /\ Renders(frames', out')
<1>1. Owed(Top) = <<>>
  BY DEF Return, Owed
<1>2. frames' = SubSeq(frames, 1, Len(frames) - 1) /\ out' = out
  BY DEF Return
<1> QED
  BY <1>1, <1>2, Returning

LEMMA MethodShows ==
  ASSUME Rendering, Method("returns")
  PROVE  Loops(frames') /\ Renders(frames', out')
<1> DEFINE f == [Top EXCEPT !.called = TRUE]
<1>1. Top \in FrameSet /\ (Top.i > 0 => InLoop(Top)) /\ Owed(Top) \in Seq(Entry)
  BY RenderingFacts
<1>2. frames' = [frames EXCEPT ![Len(frames)].called = TRUE] /\ out' = out
  BY DEF Method, InMethod
<1>3. [frames EXCEPT ![Len(frames)].called = TRUE] = [frames EXCEPT ![Len(frames)] = f]
  BY DEF Top
<1>4. TRUE \in BOOLEAN
  OBVIOUS
<1>5. /\ f \in FrameSet /\ f.node = Top.node /\ f.i = Top.i
      /\ f.current = Top.current /\ f.previous = Top.previous
  BY <1>1, <1>4 DEF FrameSet
<1> HIDE DEF f
<1>6. Context(f) = Context(Top) /\ \A t : Origin(t, f) = Origin(t, Top)
  BY <1>5 DEF Context, Origin, Used
<1>7. f.i > 0 => InLoop(f)
  BY <1>1, <1>5, <1>6 DEF InLoop
<1>8. Owed(f) = Owed(Top)
  BY <1>5, <1>6 DEF Owed
<1>9. <<>> \in Seq(Entry) /\ Owed(Top) = <<>> \o Owed(f)
  <2>1. <<>> \o Owed(Top) = Owed(Top)
    BY <1>1, Associates
  <2> QED
    BY <1>8, <2>1
<1>10. /\ Loops([frames EXCEPT ![Len(frames)] = f])
       /\ Renders([frames EXCEPT ![Len(frames)] = f], out \o <<>>)
  BY <1>5, <1>7, <1>9, Shown
<1> QED
  BY <1>2, <1>3, <1>10, OutFacts


-----------------------------------------------------------------------------
(* The output is the text                                                  *)

(* Nothing was done to the template that leaves a pointer behind.          *)
Undisturbed ==
    /\ outcome = "tree" /\ fault = "none"
    /\ causes \cap {"nested", "replaced", "changed"} = {}
    /\ (\A n \in Nodes : doc[n] # "odd") /\ UpOutsideLoops

Calm == (runs = 0 => frames = <<>>) /\ (Parsing => runs = 0)

NoError == Going => \A i \in 1..pos : doc[i] \notin {"error", "unclosed"}

TextRight == Undisturbed /\ runs > 0 => Loops(frames) /\ Renders(frames, out)

TextInv == Calm /\ NoError /\ TextRight

LEMMA WholeInv ==
    IInv /\ NInv /\ RInv /\ NoError /\ Undisturbed => Whole
<1> SUFFICES ASSUME IInv, NInv, RInv, NoError, Undisturbed PROVE Whole
  OBVIOUS
<1>1. outcome = "tree" /\ pos = Len(doc)
  BY DEF IInv, ReportExact, Undisturbed
<1>2. UpOutsideLoops /\ \A n \in Nodes : doc[n] \notin {"odd", "error", "unclosed"}
  BY <1>1 DEF Undisturbed, NoError, Going, Nodes
<1> QED
  BY <1>1, <1>2 DEF Whole, RInv, RunTyped

(* run() owes the text of the template.                                    *)
LEMMA BaseRenders ==
    Whole /\ TypeOK /\ root # Garbage /\ frames = <<Base>> /\ out = <<>> =>
      Loops(frames) /\ Renders(frames, out)
<1> SUFFICES ASSUME Whole, TypeOK, root # Garbage, frames = <<Base>>, out = <<>>
             PROVE  Loops(frames) /\ Renders(frames, out)
  OBVIOUS
<1> DEFINE b == Base
           c == [current |-> Mother, previous |-> Null]
<1>1. root = 1 /\ 1 \in Places
  <2>1. root \in Nodes /\ Nodes = 1..Len(doc) /\ pos = Len(doc) /\ Len(doc) \in Nat
    BY WholeFacts DEF TypeOK
  <2>2. pos > 0 /\ doc[1] # "odd" /\ 1 \in Nodes
    BY <2>1 DEF Whole
  <2>3. RootRight
    BY DEF Whole, NInv, Going
  <2> QED
    BY <2>2, <2>3, WholeFacts DEF RootRight
<1>2. b.node = 1 /\ b.i = 0 /\ b.current = Mother /\ b.previous = Null
  BY <1>1 DEF Base, Frame, Whole
<1> HIDE DEF b
<1>3. c \in Contexts
  BY ValueFacts DEF Contexts
<1>4. Owed(b) = RenderedText /\ RenderedText \in Seq(Entry)
  <2>1. Owed(b) = Texts[1][c]
    BY <1>2 DEF Owed, Context
  <2>2. Texts[1][c] \in Seq(Entry)
    BY <1>1, <1>3, TextIs
  <2> QED
    BY <2>1, <2>2 DEF RenderedText
<1>5. frames = <<b>>
  BY DEF b
<1>6. Len(frames) = 1 /\ DOMAIN frames = {1} /\ frames[1] = b
  BY <1>5
<1>7. Loops(frames)
  BY <1>2, <1>6 DEF Loops
<1> DEFINE owed == [k \in 0..1 |-> IF k = 0 THEN <<>> ELSE RenderedText]
<1>8. owed[0] = <<>> /\ owed[1] = RenderedText /\ owed \in [0..1 -> Seq(Entry)]
  <2>1. <<>> \in Seq(Entry)
    OBVIOUS
  <2>2. 0 \in 0..1 /\ 1 \in 0..1 /\ 1 # 0
    OBVIOUS
  <2> QED
    BY <1>4, <2>1, <2>2
<1> HIDE DEF owed
<1>9. RenderedText \o <<>> = RenderedText /\ <<>> \o RenderedText = RenderedText
  BY <1>4, Associates
<1>10. Owing(frames, owed)
  <2>1. \A k \in 1..1 : owed[k] = Owed(frames[k]) \o owed[k - 1]
    <3>1. owed[1] = Owed(frames[1]) \o owed[0]
      BY <1>4, <1>6, <1>8, <1>9
    <3>2. \A k \in 1..1 : k = 1 /\ k - 1 = 0
      OBVIOUS
    <3> QED
      BY <3>1, <3>2
  <2> QED
    BY <1>6, <1>8, <2>1 DEF Owing
<1>11. out \o owed[Len(frames)] = RenderedText
  BY <1>6, <1>8, <1>9
<1> QED
  BY <1>7, <1>10, <1>11 DEF Renders

(* The text is that of the template, of its tags and of the script's       *)
(* object, none of which a walk changes.                                   *)
LEMMA TextKept ==
  ASSUME UNCHANGED parse, UNCHANGED tag, UNCHANGED <<size, flag>>,
         Loops(frames'), Renders(frames', out')
  PROVE  (Loops(frames) /\ Renders(frames, out))'
<1>1. /\ Nodes' = Nodes /\ Places' = Places /\ UNCHANGED <<doc, depth, tag, size, flag>>
  BY DEF parse, Nodes, Places
<1>2. Texts' = Texts
  BY <1>1 DEF Texts, Nothing, From, Shows, Expand, Origin, Used, Chosen, False, ItemContext,
     Null, Array, Flag, Mother, Item, Member, Said, After, Nodes, Closes, Places, Ends,
     Contexts, Values
<1>3. RenderedText' = RenderedText
  BY <1>2 DEF RenderedText, Mother, Null
<1>4. \A f : InLoop(f)' <=> InLoop(f)
  BY <1>1 DEF InLoop, Expand, Origin, Used, Member, Null, Mother, Array, Flag, Said
<1>5. \A n : After(n)' = After(n)
  BY <1>1 DEF After, Closes
<1>6. \A f : Owed(f)' = Owed(f)
  BY <1>1, <1>2, <1>5 DEF Owed, ItemTexts, ItemContext, Item, Context
<1>7. Loops(frames)'
  BY <1>4 DEF Loops
<1>8. Renders(frames, out)'
  BY <1>3, <1>6 DEF Renders, Owing, Entry, Values, Null, Mother, Array, Flag, Said, Item
<1> QED
  BY <1>7, <1>8


LEMMA CalmStep ==
  ASSUME IInv, RInv, Calm, [RunNext]_rvars
  PROVE  Calm'
<1>1. runs \in Nat /\ (Parsing => frames = <<>>)
  <2>1. runs \in 0..MaxRuns /\ MaxRuns \in Nat
    BY RunAssumption DEF RInv, RunTyped
  <2> QED
    BY <2>1 DEF RInv, CallsRight
<1>2. CASE ParseNext /\ UNCHANGED render /\ UNCHANGED object /\ UNCHANGED tag
  <2>1. Parsing
    BY <1>2 DEF ParseNext, Open, Odd, End, Error, Unclosed, Leaf, Overflow, Finish, Read
  <2> QED
    BY <1>2, <2>1 DEF Calm, render
<1>3. ASSUME NEW t \in Later, Reparse(t) PROVE Calm'
  <2>1. runs' = 0 /\ frames' = frames /\ Idle
    BY <1>3 DEF Reparse, Discards
  <2> QED
    BY <2>1 DEF Calm, Idle
<1>4. ASSUME UNCHANGED parse,
             \/ frames # <<>> /\ runs' \in {runs, runs + 1}
             \/ ~Parsing /\ runs' = runs + 1
             \/ UNCHANGED <<frames, runs>>
      PROVE  Calm'
  <2>1. Parsing' = Parsing
    BY <1>4 DEF parse, Parsing
  <2> QED
    BY <1>1, <1>4, <2>1 DEF Calm
<1>5. ASSUME NEW n, NEW b, Run(n, b) PROVE ~Parsing /\ runs' = runs + 1
  BY <1>5 DEF Run, Idle, Parsing
<1>6. ASSUME NEW op, NameFault(op) PROVE UNCHANGED <<frames, runs>>
  BY <1>6 DEF NameFault, Visit
<1>7. ASSUME NEW does \in {"returns", "run", "parse"}, Method(does)
      PROVE  frames # <<>> /\ runs' \in {runs, runs + 1}
  BY <1>7 DEF Method, InMethod, AtNode
<1>8. DiscardFault \/ FileMissing \/ Destroy \/ UseFreed \/ ShowEmpty => UNCHANGED <<frames, runs>>
  BY DEF DiscardFault, FileMissing, Destroy, UseFreed, ShowEmpty, Visit
<1>9. Text \/ Skip \/ Loop \/ ShowItem \/ Show \/ Return => frames # <<>> /\ runs' = runs
  BY DEF Text, Skip, Loop, ShowItem, Show, Return, Visit, AtNode
<1>10. ASSUME NEW op, Branch(op) PROVE frames # <<>> /\ runs' = runs
  BY <1>10 DEF Branch, Visit, AtNode
<1>11. CASE UNCHANGED rvars
  BY <1>4, <1>11 DEF rvars, render
<1>12. ASSUME NEW n, NEW b, MethodChanges(n, b) PROVE frames # <<>> /\ runs' = runs
  BY <1>12 DEF MethodChanges, InMethod, AtNode
<1> QED
  BY <1>2, <1>3, <1>4, <1>5, <1>6, <1>7, <1>8, <1>9, <1>10, <1>11, <1>12 DEF RunNext

LEMMA NoErrorStep ==
  ASSUME IInv, NoError, [RunNext]_rvars
  PROVE  NoError'
<1>1. pos \in Nat
  BY DEF IInv, Typed, TypeOK
<1>2. ASSUME NEW node, NEW kind, Read(node, kind), kind \notin {"error", "unclosed"}
      PROVE  NoError'
  <2>1. Parsing /\ node = pos + 1 /\ kind = doc[node] /\ pos' = node /\ doc' = doc
    BY <1>2 DEF Read
  <2>2. \A i \in 1..pos + 1 : i \in 1..pos \/ i = pos + 1
    BY <1>1
  <2> QED
    BY <1>2, <2>1, <2>2 DEF NoError, Going, Parsing
<1>3. ASSUME NEW node, Open(node) \/ Odd(node) \/ End(node) PROVE NoError'
  BY <1>2, <1>3 DEF Open, Odd, End
<1>4. ASSUME NEW node, NEW kind \in Linked, Leaf(node, kind) \/ Overflow(node, kind) PROVE NoError'
  <2>1. Read(node, kind) /\ kind \notin {"error", "unclosed"}
    BY <1>4 DEF Leaf, Overflow, Linked
  <2> QED
    BY <1>2, <2>1
<1>5. ASSUME NEW node, Error(node) \/ Unclosed(node) PROVE NoError'
  BY <1>5 DEF Error, Unclosed, NoError, Going
<1>6. CASE Finish
  BY <1>6 DEF Finish, NoError, Going, Parsing
<1>7. CASE UNCHANGED parse
  BY <1>7 DEF parse, NoError, Going
<1>8. CASE ParseNext
  BY <1>3, <1>4, <1>5, <1>6, <1>8 DEF ParseNext
<1>9. ASSUME NEW t \in Later, Reparse(t) PROVE NoError'
  <2>1. pos' = 0
    BY <1>9 DEF Reparse
  <2> QED
    BY <2>1 DEF NoError
<1> QED
  BY <1>7, <1>8, <1>9, RunParses

LEMMA WalkShows ==
  ASSUME Rendering, Walks \/ Return \/ Method("returns"), fault' = "none"
  PROVE  Loops(frames') /\ Renders(frames', out')
<1>1. ASSUME NEW op \in {"if", "unless"}, Branch(op) PROVE Loops(frames') /\ Renders(frames', out')
  BY <1>1, BranchShows
<1> QED
  BY <1>1, TextShows, SkipShows, LoopShows, ShowShows, ReturnShows, MethodShows DEF Walks

LEMMA TextStep ==
  ASSUME IInv, NInv, RInv, TextInv, IInv', NInv', RInv', NoError', [RunNext]_rvars
  PROVE  TextRight'
<1> SUFFICES ASSUME Undisturbed', runs' > 0 PROVE (Loops(frames) /\ Renders(frames, out))'
  BY DEF TextRight
<1>1. TypeOK /\ RunTyped /\ runs \in Nat /\ fault' = "none" /\ outcome' = "tree"
      /\ causes' \cap {"nested", "replaced", "changed"} = {}
      /\ (\A n \in Nodes' : doc'[n] # "odd") /\ UpOutsideLoops'
  <2>1. runs \in 0..MaxRuns /\ MaxRuns \in Nat
    BY RunAssumption DEF RInv, RunTyped
  <2> QED
    BY <2>1 DEF IInv, Typed, RInv, Undisturbed
<1>2. CASE ParseNext /\ UNCHANGED render /\ UNCHANGED object /\ UNCHANGED tag
  <2>1. Parsing
    BY <1>2 DEF ParseNext, Open, Odd, End, Error, Unclosed, Leaf, Overflow, Finish, Read
  <2> QED
    BY <1>1, <1>2, <2>1 DEF TextInv, Calm, render
<1>3. ASSUME NEW t \in Later, Reparse(t) PROVE FALSE
  <2>1. outcome' = "parsing"
    BY <1>3 DEF Reparse
  <2> QED
    BY <1>1, <2>1
<1>4. ASSUME UNCHANGED parse, NEW n \in Sizes, NEW b \in BOOLEAN, Run(n, b)
      PROVE  (Loops(frames) /\ Renders(frames, out))'
  <2>1. (Whole /\ TypeOK /\ root # Garbage /\ frames = <<Base>> /\ out = <<>> =>
           Loops(frames) /\ Renders(frames, out))'
    BY BaseRenders, PTL
  <2>2. (IInv /\ NInv /\ RInv /\ NoError /\ Undisturbed => Whole)'
    BY WholeInv, PTL
  <2>3. Whole' /\ TypeOK'
    BY <2>2 DEF IInv, Typed
  <2>4. UNCHANGED <<outcome, root>> /\ Base' = Base
    BY <1>4 DEF parse, Base, Frame, Mother, Null
  <2>5. root # Garbage /\ frames' = <<Base>> /\ out' = <<>>
    BY <1>1, <1>4, <2>4 DEF Run, HasTree
  <2> QED
    BY <2>1, <2>3, <2>4, <2>5 DEF Garbage
<1>5. ASSUME UNCHANGED parse, UNCHANGED tag, UNCHANGED <<size, flag, runs>>,
             fault = "none", causes \cap {"nested", "replaced", "changed"} = {},
             Rendering => Loops(frames') /\ Renders(frames', out'),
             frames = <<>> => frames' = frames /\ out' = out
      PROVE  (Loops(frames) /\ Renders(frames, out))'
  <2>1. Undisturbed /\ runs > 0
    BY <1>1, <1>5 DEF Undisturbed, parse, Nodes, UpOutsideLoops, Block
  <2>2. Loops(frames) /\ Renders(frames, out)
    BY <2>1 DEF TextInv, TextRight
  <2>3. Whole
    BY <2>1, WholeInv DEF TextInv
  <2>4. Loops(frames') /\ Renders(frames', out')
    <3>1. CASE frames = <<>>
      BY <1>5, <2>2, <3>1
    <3>2. CASE frames # <<>>
      BY <1>1, <1>5, <2>2, <2>3, <3>2 DEF Rendering
    <3> QED
      BY <3>1, <3>2
  <2> QED
    BY <1>5, <2>4, TextKept
<1>6. ASSUME NEW op, NameFault(op) PROVE FALSE
  BY <1>1, <1>6 DEF NameFault
<1>7. ~UseFreed /\ ~ShowEmpty
  BY <1>1 DEF UseFreed, ShowEmpty
<1>8. ~DiscardFault
  BY <1>1 DEF DiscardFault
<1>9. ASSUME UNCHANGED parse, UNCHANGED tag, FileMissing \/ Destroy
      PROVE  (Loops(frames) /\ Renders(frames, out))'
  <2>1. Idle /\ UNCHANGED <<size, flag, runs, frames, out>>
    BY <1>9 DEF FileMissing, Destroy, Discards
  <2>2. fault = "none" /\ causes \cap {"nested", "replaced", "changed"} = {}
    <3>1. causes \subseteq causes'
      BY <1>9 DEF FileMissing, Destroy
    <3> QED
      BY <2>1, <3>1, <1>1, IdleFacts
  <2>3. Rendering => Loops(frames') /\ Renders(frames', out')
    BY <2>1 DEF Rendering
  <2> QED
    BY <1>5, <1>9, <2>1, <2>2, <2>3
<1>10. ASSUME UNCHANGED parse, UNCHANGED tag, NEW does \in {"returns", "run", "parse"}, Method(does)
       PROVE  (Loops(frames) /\ Renders(frames, out))'
  <2>1. does = "returns"
    BY <1>1, <1>10 DEF Method
  <2>2. UNCHANGED <<size, flag, runs, causes>> /\ fault = "none" /\ frames # <<>>
    BY <1>10, <2>1 DEF Method, InMethod, AtNode
  <2>3. Rendering => Loops(frames') /\ Renders(frames', out')
    BY <1>1, <1>10, <2>1, WalkShows
  <2> QED
    BY <1>1, <1>5, <1>10, <2>2, <2>3
<1>11. ASSUME UNCHANGED parse, UNCHANGED tag, Walks \/ Return
       PROVE  (Loops(frames) /\ Renders(frames, out))'
  <2>1. UNCHANGED <<size, flag, runs, causes>> /\ fault = "none" /\ frames # <<>>
    BY <1>11 DEF Walks, Text, Skip, Branch, Loop, ShowItem, Show, Return, Visit, AtNode
  <2>2. Rendering => Loops(frames') /\ Renders(frames', out')
    BY <1>1, <1>11, WalkShows
  <2> QED
    BY <1>1, <1>5, <1>11, <2>1, <2>2
<1>12. CASE UNCHANGED rvars
  <2>1. UNCHANGED parse /\ UNCHANGED tag /\ UNCHANGED <<size, flag, runs, frames, out, fault, causes>>
    BY <1>12 DEF rvars, render
  <2>2. Rendering => Loops(frames') /\ Renders(frames', out')
    BY <2>1 DEF Rendering
  <2> QED
    BY <1>1, <1>5, <2>1, <2>2
<1>13. ASSUME NEW n, NEW b, MethodChanges(n, b) PROVE FALSE
  BY <1>1, <1>13 DEF MethodChanges
<1> QED
  BY <1>2, <1>3, <1>4, <1>6, <1>7, <1>8, <1>9, <1>10, <1>11, <1>12, <1>13 DEF RunNext, Walks

(* Every template without odd tags is rendered as its text says: for every *)
(* nesting, array, order of calls and change of the script's object.       *)
THEOREM RendersCorrect == RunSpec => []RendersText
<1>1. doc \in Seq(Kinds) /\ tag \in TagsOf(doc) /\ RunInit(doc, tag) => TextInv
  BY DEF RunInit, InitFor, TextInv, Calm, NoError, TextRight
<1>2. IInv /\ NInv /\ RInv /\ TextInv /\ (IInv /\ NInv /\ RInv)' /\ [RunNext]_rvars => TextInv'
  <2>1. SUFFICES ASSUME IInv, NInv, RInv, TextInv, IInv', NInv', RInv', [RunNext]_rvars
                 PROVE  TextInv'
    OBVIOUS
  <2>2. Calm' /\ NoError'
    BY <2>1, CalmStep, NoErrorStep DEF TextInv
  <2>3. TextRight'
    BY <2>1, <2>2, TextStep
  <2> QED
    BY <2>2, <2>3 DEF TextInv
<1>3. RInv /\ TextInv => RendersText
  <2> SUFFICES ASSUME RInv, TextInv, outcome = "tree", runs > 0, frames = <<>>, fault = "none",
                      "changed" \notin causes, \A n \in Nodes : doc[n] # "odd", UpOutsideLoops
               PROVE  out = RenderedText
    BY DEF RendersText
  <2>1. causes \cap {"nested", "replaced", "changed"} = {} /\ out \in Seq(Entry)
    BY DEF RInv, FaultsExplained, RunTyped, Entry
  <2>2. Renders(frames, out)
    BY <2>1 DEF TextInv, TextRight, Undisturbed
  <2>3. PICK owed : Owing(frames, owed) /\ out \o owed[Len(frames)] = RenderedText
    BY <2>2 DEF Renders
  <2>4. owed[Len(frames)] = <<>>
    BY <2>3 DEF Owing
  <2>5. out \o <<>> = out
    BY <2>1, Associates
  <2> QED
    BY <2>3, <2>4, <2>5
<1> QED
  BY <1>1, <1>2, <1>3, RunInductive, PTL DEF RunSpec, rvars
=============================================================================
