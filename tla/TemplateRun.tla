----------------------------- MODULE TemplateRun -----------------------------
(***************************************************************************)
(* Template.run(): tag_run renders the tree of TemplateParse against the   *)
(* object of the script.  tag_run calls itself for what is inside a block; *)
(* frames is the stack of these calls, and every step visits one node.     *)
(*                                                                         *)
(* The object, Mother, has an array foo and a value flag, which the script *)
(* changes between two calls of run(), and a method call, which may use    *)
(* the same template.  The items of the array have no members.  A tag is   *)
(* what tag_get_piece found in a piece: op, the name, and from, where the  *)
(* name is looked up.  Between the calls the template can be parsed again, *)
(* told to parse a file that is not there, and destroyed.                  *)
(***************************************************************************)
EXTENDS TemplateParse

CONSTANTS
    Sizes,      \* how long the array can be
    ShortMax,   \* the largest iter, a short: 32767
    MaxRuns,    \* bound on the calls of run() for one text
    Later,      \* what may be parsed after the first text, with its tags
    MaxParses   \* bound on the texts parsed

ASSUME RunAssumption ==
    /\ Sizes \subseteq Nat /\ 0 \in Sizes
    /\ ShortMax \in Nat /\ MaxRuns \in Nat /\ MaxParses \in Nat \ {0}

Ops(kind) ==
    CASE kind = "open" -> {"if", "unless", "loop"}
      [] kind = "subst" -> {"show"}
      [] kind = "end" -> {"end"}
      [] OTHER -> {"text"}

TagsOf(d) ==
    { t \in [1..Len(d) -> [op : STRING, name : STRING, from : {"current", "up", "root"}]] :
        \A n \in 1..Len(d) : t[n].op \in Ops(d[n]) }

ASSUME LaterAssumption ==
    \A t \in Later : t.doc \in Seq(Kinds) /\ t.tags \in TagsOf(t.doc)

VARIABLES
    tag,        \* of each node
    size, flag, \* of the script's object
    iter,       \* of each node: the item [foo] shows next
    frames,     \* the calls of tag_run
    out,        \* what was added to the buffer, with the node it is from
    buf,        \* ctx->buf: "none", "live" or "freed"
    tree,       \* what ctx->tree names: "held", "freed", or "gone" with the object
    runs, parses,
    fault,      \* undefined behaviour met
    causes,     \* history: what was done that leaves a pointer behind
    shown       \* history: the last item each node showed, of how many

object == <<tree, parses>>
render == <<size, flag, iter, frames, out, buf, runs, fault, causes, shown>>

Null == <<"null">>
Mother == <<"mother">>
Array == <<"foo">>
Flag == <<"flag">>
Said == <<"said">>
Gone == <<"gone">>      \* a pointer to an item that was freed
Item(i) == <<"item", i>>

Items == {Item(i) : i \in UNION {0..n : n \in Sizes}}

Values == {Null, Mother, Array, Flag, Said, Gone} \cup Items

TypeOKRun ==
    /\ TypeOK
    /\ tag \in TagsOf(doc)
    /\ size \in Sizes /\ flag \in BOOLEAN
    /\ iter \in [Nodes -> -ShortMax - 1..ShortMax]
    /\ \A k \in DOMAIN frames :
          /\ frames[k].node \in Nodes \cup {0}
          /\ {frames[k].current, frames[k].previous} \subseteq Values
          /\ frames[k].i \in Nat
    /\ buf \in {"none", "live", "freed"} /\ tree \in {"held", "freed", "gone"}
    /\ runs \in 0..MaxRuns /\ parses \in 1..MaxParses
    /\ fault \in {"none", "root", "null", "uninitialised", "range", "buffer", "freed",
                  "double free", "gone"}
    /\ causes \subseteq {"missing", "nested", "replaced", "changed"}

RunInit(d, t) ==
    /\ InitFor(d) /\ tag = t
    /\ size = 0 /\ flag = FALSE
    /\ iter = [n \in 1..Len(d) |-> 0]
    /\ frames = <<>> /\ out = <<>> /\ buf = "none" /\ tree = "held"
    /\ runs = 0 /\ parses = 1 /\ fault = "none" /\ causes = {}
    /\ shown = [n \in 1..Len(d) |-> [item |-> -1, size |-> 0]]

Frame(node, current_, previous) ==
    [node |-> node, current |-> current_, previous |-> previous, i |-> 0,
     called |-> FALSE, base |-> FALSE]

(* The call of tag_run that run() makes.                                   *)
Base == [Frame(IF outcome = "failed" THEN 0 ELSE root, Mother, Null) EXCEPT !.base = TRUE]

-----------------------------------------------------------------------------
(* tag_expand.  An empty name is the object itself.                        *)

Member(name) == CASE name = "foo" -> Array [] name = "flag" -> Flag
                  [] name = "call" -> Said [] OTHER -> Null

Expand(name, o) ==
    IF name = "" THEN o ELSE IF o = Mother THEN Member(name) ELSE Null

Used(t, f) == IF t.from = "up" THEN f.previous ELSE f.current

Origin(t, f) == IF t.from = "root" THEN Mother ELSE Used(t, f)

(* ferite_variable_is_false.                                               *)
False(v) == (v = Flag /\ ~flag) \/ (v = Array /\ size = 0)

(* What a condition makes the current variable of its block; Null if the   *)
(* block is left out.                                                      *)
Chosen(t, f) ==
    LET v == Expand(t.name, Origin(t, f)) IN
    CASE v = Null -> IF t.op = "unless" THEN f.current ELSE Null
      [] v # Null /\ False(v) -> IF t.op = "unless" THEN Used(t, f) ELSE Null
      [] OTHER -> IF t.op = "unless" THEN Null ELSE v

(* Mutant: the item is not counted.                                        *)
CountNothing(n) == n - 1

(* iter++ of a short.                                                      *)
Wrap(n) == IF n > ShortMax THEN -ShortMax - 1 ELSE n

-----------------------------------------------------------------------------

(* The functions of the object                                             *)

Idle ==
    /\ outcome \in {"tree", "unbalanced", "failed"} /\ tree # "gone"
    /\ frames = <<>> /\ fault = "none"

HasTree == outcome # "failed"

(* run() of the script, which has changed its object since the last call.  *)
Run(n, b) ==
    /\ Idle /\ runs < MaxRuns /\ runs' = runs + 1
    /\ size' = n /\ flag' = b
    /\ out' = <<>> /\ buf' = "live"
    /\ IF HasTree /\ root = Garbage
         THEN fault' = "root" /\ UNCHANGED frames
         ELSE frames' = <<Base>> /\ UNCHANGED fault
    /\ causes' = causes \ {"changed"}
    /\ UNCHANGED <<object, iter, shown>>

(* tag_free(ctx->tree) of what was freed before, or was never assigned.    *)
FreeFault ==
    CASE HasTree /\ tree = "freed" -> "double free"
      [] HasTree /\ tree # "freed" /\ root = Garbage -> "root"
      [] OTHER -> "none"

DiscardFault ==
    /\ Idle /\ FreeFault # "none"
    /\ fault' = FreeFault
    /\ UNCHANGED <<object, size, flag, iter, frames, out, buf, runs, causes, shown>>

Discards == Idle /\ FreeFault = "none" /\ UNCHANGED fault

(* parseFile() of a file that cannot be opened keeps what it has freed,    *)
(* and returns true if there was a tree.                                   *)
FileMissing ==
    /\ Discards
    /\ tree' = IF HasTree THEN "freed" ELSE tree
    /\ causes' = IF HasTree THEN causes \cup {"missing"} ELSE causes
    /\ UNCHANGED <<size, flag, iter, frames, out, buf, runs, parses, shown>>

Destroy ==
    /\ Discards
    /\ tree' = "gone"
    /\ UNCHANGED <<size, flag, iter, frames, out, buf, runs, parses, causes, shown>>

(* parse(), and parseFile() of a file that can be opened.                  *)
Reparse(t) ==
    /\ Discards /\ parses < MaxParses
    /\ parses' = parses + 1 /\ tree' = "held" /\ tag' = t.tags
    /\ doc' = t.doc /\ pos' = 0
    /\ child' = [n \in 1..Len(t.doc) |-> 0] /\ next' = child'
    /\ st' = [k \in 0..StackSize - 1 |-> 0]
    /\ sp' = 0 /\ root' = Garbage /\ current' = 0
    /\ state' = "none" /\ outcome' = "parsing" /\ depth' = [i \in {1} |-> 0]
    /\ iter' = child' /\ runs' = 0 /\ out' = <<>>
    /\ shown' = [n \in 1..Len(t.doc) |-> [item |-> -1, size |-> 0]]
    /\ UNCHANGED <<size, flag, frames, buf, causes>>

-----------------------------------------------------------------------------
(* tag_run                                                                 *)

Top == frames[Len(frames)]

(* A node of a tree that is still there.                                   *)
AtNode == frames # <<>> /\ fault = "none" /\ Top.node # 0 /\ tree = "held"

(* The name is a method's, which was not called for this node yet.         *)
Calls ==
    LET t == tag[Top.node]
    IN  t.name = "call" /\ Origin(t, Top) = Mother /\ ~Top.called

Visit(op) ==
    /\ AtNode /\ doc[Top.node] # "odd"
    /\ tag[Top.node].op = op /\ ~Calls
    /\ UNCHANGED <<object, size, flag, buf, runs, causes>>

(* tag_expand calls the method.                                            *)
InMethod ==
    /\ AtNode /\ doc[Top.node] # "odd" /\ tag[Top.node].op # "end" /\ Calls
    /\ UNCHANGED <<parses, iter, fault, shown>>

(* The method returns, or first runs the template again, or makes it parse *)
(* something else.                                                         *)
Method(does) ==
    /\ InMethod
    /\ LET after == [frames EXCEPT ![Len(frames)].called = TRUE]
       IN  CASE does = "returns" ->
                  frames' = after /\ UNCHANGED <<tree, out, buf, runs, causes>>
             [] does = "run" ->
                  /\ runs < MaxRuns /\ runs' = runs + 1
                  /\ frames' = Append(after, Base)
                  /\ out' = <<>> /\ buf' = "live"
                  /\ causes' = causes \cup {"nested"}
                  /\ UNCHANGED tree
             [] does = "parse" ->
                  /\ frames' = after /\ tree' = "freed"
                  /\ causes' = causes \cup {"replaced"}
                  /\ UNCHANGED <<out, buf, runs>>
    /\ UNCHANGED <<size, flag>>

(* What a pointer to v is worth when the array has n items left.           *)
Left(v, n) == IF v \in Items \ {Item(i) : i \in 0..n - 1} THEN Gone ELSE v

(* The method changes the object.  The calls of tag_run keep what they     *)
(* were given.                                                             *)
MethodChanges(n, b) ==
    /\ InMethod
    /\ size' = n /\ flag' = b
    /\ frames' = [k \in DOMAIN frames |->
                    [frames[k] EXCEPT !.current = Left(@, n), !.previous = Left(@, n),
                                      !.called = @ \/ k = Len(frames)]]
    /\ causes' = causes \cup {"changed"}
    /\ UNCHANGED <<tree, out, buf, runs>>

(* The next node is read from a tree that was freed.                       *)
UseFreed ==
    /\ frames # <<>> /\ fault = "none" /\ Top.node # 0 /\ tree = "freed"
    /\ fault' = "freed"
    /\ UNCHANGED <<object, size, flag, iter, frames, out, buf, runs, causes, shown>>

(* The buffer may be one that a run inside this one has deleted.           *)
Add(entry) ==
    IF buf = "live" THEN out' = Append(out, entry) /\ UNCHANGED fault
    ELSE fault' = "buffer" /\ UNCHANGED out

Advanced(fs) ==
    LET f == fs[Len(fs)]
    IN  [fs EXCEPT ![Len(fs)] = [f EXCEPT !.node = next[f.node], !.i = 0, !.called = FALSE]]

(* A name looked up in no object at all, or in an item that was freed; an  *)
(* empty name is the item, which is used as well.                          *)
NullName ==
    LET t == tag[Top.node]
        o == Origin(t, Top)
    IN  (t.name # "" /\ o = Null) \/ o = Gone

NameFault(op) ==
    /\ Visit(op) /\ NullName
    /\ fault' = IF Origin(tag[Top.node], Top) = Gone THEN "gone" ELSE "null"
    /\ UNCHANGED <<iter, frames, out, shown>>

Text ==
    /\ Visit("text")
    /\ Add(<<Top.node, Null>>)
    /\ frames' = Advanced(frames)
    /\ UNCHANGED <<iter, shown>>

(* Nothing is known of the type: a node of an odd tag, or the ] that is    *)
(* all there is in a block.                                                *)
Skip ==
    /\ AtNode
    /\ doc[Top.node] = "odd" \/ tag[Top.node].op = "end"
    /\ frames' = Advanced(frames)
    /\ UNCHANGED <<object, size, flag, iter, out, buf, runs, fault, causes, shown>>

(* Mutant: a condition's block sees what is outside as its current value.  *)
BranchKeepsContext(op) ==
    /\ Visit(op) /\ ~NullName
    /\ LET v == Chosen(tag[Top.node], Top) IN
       frames' = Advanced(frames) \o
          (IF v = Null THEN <<>>
           ELSE <<Frame(child[Top.node], Top.current, Top.previous)>>)
    /\ UNCHANGED <<iter, out, fault, shown>>

Branch(op) ==
    /\ Visit(op) /\ ~NullName
    /\ LET v == Chosen(tag[Top.node], Top) IN
       frames' = Advanced(frames) \o
          (IF v = Null THEN <<>> ELSE <<Frame(child[Top.node], v, Top.current)>>)
    /\ UNCHANGED <<iter, out, fault, shown>>

(* The array is looked up once; its size is read before every item.        *)
Loop ==
    /\ Visit("loop") /\ ~NullName
    /\ LET t == tag[Top.node]
           i == Top.i
           counted == [frames EXCEPT ![Len(frames)].i = i + 1]
       IN frames' =
            IF Expand(t.name, Origin(t, Top)) = Array /\ i < size
              THEN Append(counted, Frame(child[Top.node], Item(i),
                                         Item(IF i = 0 THEN 0 ELSE i - 1)))
              ELSE Advanced(frames)
    /\ UNCHANGED <<iter, out, fault, shown>>

(* An array is shown one item at a time.                                   *)
ShowsArray ==
    LET t == tag[Top.node] IN Expand(t.name, Origin(t, Top)) = Array

(* Mutant: the walk starts again one item late.                            *)
RestartLate(n) == IF iter[n] > size THEN 0 ELSE iter[n]

Restart(n) == IF iter[n] = size THEN 0 ELSE iter[n]

ShowItem ==
    /\ Visit("show") /\ ~NullName /\ ShowsArray /\ size > 0
    /\ LET n == Top.node
           i == Restart(n)
       IN IF i \in 0..size - 1
            THEN /\ iter' = [iter EXCEPT ![n] = Wrap(i + 1)]
                 /\ Add(<<n, Array>>)
                 /\ shown' = [shown EXCEPT ![n] = [item |-> i, size |-> size]]
                 /\ frames' = Advanced(frames)
            ELSE fault' = "range" /\ UNCHANGED <<iter, frames, out, shown>>

(* str is added to the buffer though nothing was assigned to it.           *)
ShowEmpty ==
    /\ Visit("show") /\ ~NullName /\ ShowsArray /\ size = 0
    /\ fault' = "uninitialised"
    /\ UNCHANGED <<iter, frames, out, shown>>

Show ==
    /\ Visit("show") /\ ~NullName /\ ~ShowsArray
    /\ LET t == tag[Top.node]
           v == Expand(t.name, Origin(t, Top))
       IN IF v = Null THEN UNCHANGED <<out, fault>> ELSE Add(<<Top.node, v>>)
    /\ frames' = Advanced(frames)
    /\ UNCHANGED <<iter, shown>>

(* tag_run returns to the block it was called for, or to run(), which      *)
(* copies the buffer and deletes it.                                       *)
Return ==
    /\ frames # <<>> /\ fault = "none" /\ Top.node = 0
    /\ frames' = SubSeq(frames, 1, Len(frames) - 1)
    /\ IF Top.base
         THEN IF buf = "live" THEN buf' = "freed" /\ UNCHANGED fault
              ELSE fault' = "buffer" /\ UNCHANGED buf
         ELSE UNCHANGED <<buf, fault>>
    /\ UNCHANGED <<object, size, flag, iter, out, runs, causes, shown>>

RunNext ==
    \/ ParseNext /\ UNCHANGED render /\ UNCHANGED object /\ UNCHANGED tag
    \/ \E t \in Later : Reparse(t)
    \/ /\ \/ \E n \in Sizes, b \in BOOLEAN : Run(n, b)
          \/ \E op \in {"if", "unless"} : Branch(op)
          \/ \E op \in {"if", "unless", "loop", "show"} : NameFault(op)
          \/ \E does \in {"returns", "run", "parse"} : Method(does)
          \/ \E n \in Sizes, b \in BOOLEAN : MethodChanges(n, b)
          \/ DiscardFault \/ FileMissing \/ Destroy \/ UseFreed
          \/ Text \/ Skip \/ Loop \/ ShowItem \/ ShowEmpty \/ Show \/ Return
       /\ UNCHANGED parse /\ UNCHANGED tag

(* Any template, with any tags.                                            *)
RunSpec ==
    /\ doc \in Seq(Kinds) /\ tag \in TagsOf(doc) /\ RunInit(doc, tag)
    /\ [][RunNext]_<<parse, tag, object, render>>

-----------------------------------------------------------------------------
(* A piece that may show an array.                                         *)
MayShow(n) == tag[n].op = "show" /\ tag[n].name \in {"", "foo"}

(* If only one piece of a template shows an array, it goes on with the     *)
(* item after the one it showed last, in loops and from run to run, as     *)
(* long as the array is read within its bounds (utility.c:84-87).          *)
WalksInTurn ==
    [][\A n \in Nodes :
          (\A m \in Nodes : MayShow(m) => m = n)
            /\ frames' # frames /\ out' = Append(out, <<n, Array>>) =>
             shown'[n].item = (shown[n].item + 1) % size]_<<parse, tag, object, render>>

(* An item beyond the array is read only after the script shortened the    *)
(* array, or from the one a short cannot count; a string that was never    *)
(* assigned is shown only for an array without items; a name is looked up  *)
(* in no object only by [<name] outside of all blocks, and in an item that *)
(* was freed only in a run in which a method changed the object; only the  *)
(* empty template and one that fails at its first piece leave root         *)
(* unassigned.  A tree is freed twice, or read after it was freed, only if *)
(* a file was missing or a method made the template parse while it ran;    *)
(* the buffer is used after it was deleted exactly by the runs that had a  *)
(* run inside them.                                                        *)
FaultsExplained ==
    /\ fault = "range" =>
          \/ shown[Top.node].size > size
          \/ shown[Top.node].item = ShortMax
    /\ fault = "uninitialised" => size = 0 /\ doc[Top.node] = "subst"
    /\ fault = "null" => Top.base /\ tag[Top.node].from = "up"
    /\ fault = "gone" => "changed" \in causes
    /\ fault = "root" \/ (outcome = "failed" /\ root = Garbage) =>
          doc = <<>> \/ doc[1] = "error"
    /\ fault = "freed" => causes \cap {"missing", "replaced"} # {}
    /\ fault = "double free" => "missing" \in causes
    /\ fault = "buffer" => "nested" \in causes
    /\ causes \cap {"nested", "replaced"} # {} => frames # <<>> \/ fault # "none"
=============================================================================
